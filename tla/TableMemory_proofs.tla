-------------------------- MODULE TableMemory_proofs --------------------------
(***************************************************************************)
(* The arithmetic of tables, chunks and slots, for every geometry and      *)
(* every set of addresses mmap may answer.  The proofs about the table as  *)
(* one thread drives it and as threads share it both rest on it.           *)
(***************************************************************************)
EXTENDS TableMemory, TLAPS

(* A chunk holds exactly BitypePageNum tables (bitype.cpp:24-25).          *)
LEMMA Geometry ==
  /\ L1_BITS \in Nat \ {0}
  /\ L2_BITS \in Nat \ {0}
  /\ BitypePageNum \in Nat \ {0}
  /\ Stride \in Nat /\ Stride > 0 /\ Stride = 2 * L2_BITS
  /\ mmap_words = BitypePageNum * Stride
  /\ added_memory_size = mmap_words
  /\ mmap_words \in Nat
  /\ ChunkBases \subseteq Nat \ {0}
  BY AddressAssumption, MmapAssumption
     DEF Stride, mmap_words, added_memory_size

(* The m-th table of a chunk starts m strides in and fits in the chunk.    *)
LEMMA TableInChunk ==
  ASSUME NEW b \in ChunkBases, NEW m \in 0 .. BitypePageNum - 1
  PROVE  /\ m * Stride \in Nat
         /\ m * Stride + Stride <= mmap_words
         /\ m + 1 < BitypePageNum \/ m * Stride + Stride = mmap_words
         /\ (m + 1) * Stride = m * Stride + Stride
  <1>1. (BitypePageNum - 1 - m) * Stride >= 0
    BY Geometry
  <1>2. (m + 1) * Stride = m * Stride + Stride
    BY Geometry
  <1>3. (BitypePageNum - 1 - m) * Stride = mmap_words - (m * Stride + Stride)
    BY Geometry
  <1>4. m * Stride \in Nat
    BY Geometry
  <1>5. m + 1 < BitypePageNum \/ m + 1 = BitypePageNum
    BY Geometry
  <1>. QED
    BY <1>1, <1>2, <1>3, <1>4, <1>5, Geometry

(* Tables at different places do not overlap.                              *)
LEMMA TablesSpaced ==
  ASSUME NEW t \in TableAddrs, NEW u \in TableAddrs, t # u
  PROVE  t + Stride <= u \/ u + Stride <= t
  <1>1. PICK b \in ChunkBases, m \in 0 .. BitypePageNum - 1 : t = b + m * Stride
    BY DEF TableAddrs
  <1>2. PICK c \in ChunkBases, n \in 0 .. BitypePageNum - 1 : u = c + n * Stride
    BY DEF TableAddrs
  <1>3. /\ m * Stride \in Nat /\ m * Stride + Stride <= mmap_words
        /\ n * Stride \in Nat /\ n * Stride + Stride <= mmap_words
    BY TableInChunk
  <1>4. CASE b # c
    <2>1. b + mmap_words <= c \/ c + mmap_words <= b
      BY <1>4, MmapAssumption, Geometry
    <2>. QED
      BY <1>1, <1>2, <1>3, <2>1, Geometry
  <1>5. CASE b = c
    <2>1. m < n \/ n < m
      BY <1>1, <1>2, <1>5
    <2>2. CASE m < n
      <3>1. (n - m - 1) * Stride >= 0
        BY <2>2, Geometry
      <3>2. (n - m - 1) * Stride = n * Stride - m * Stride - Stride
        BY Geometry
      <3>. QED
        BY <1>1, <1>2, <1>3, <1>5, <3>1, <3>2, Geometry
    <2>3. CASE n < m
      <3>1. (m - n - 1) * Stride >= 0
        BY <2>3, Geometry
      <3>2. (m - n - 1) * Stride = m * Stride - n * Stride - Stride
        BY Geometry
      <3>. QED
        BY <1>1, <1>2, <1>3, <1>5, <3>1, <3>2, Geometry
    <2>. QED
      BY <2>1, <2>2, <2>3
  <1>. QED
    BY <1>4, <1>5

(* A table address determines the chunk, and the chunks are apart.         *)
LEMMA TableBounds ==
  ASSUME NEW t \in TableAddrs
  PROVE  /\ t \in Nat \ {0}
         /\ \E b \in ChunkBases : b <= t /\ t + Stride <= b + mmap_words
  <1>1. PICK b \in ChunkBases, m \in 0 .. BitypePageNum - 1 : t = b + m * Stride
    BY DEF TableAddrs
  <1>2. m * Stride \in Nat /\ m * Stride + Stride <= mmap_words
    BY TableInChunk
  <1>. QED
    BY <1>1, <1>2, Geometry

(* A slot's words determine its table and its place there.                 *)
LEMMA CellsDistinct ==
  ASSUME NEW t \in TableAddrs, NEW u \in TableAddrs,
         NEW j \in 0 .. L2_BITS - 1, NEW k \in 0 .. L2_BITS - 1
  PROVE  /\ t + 2 * j \in CellAddrs
         /\ t + 2 * j = u + 2 * k => t = u /\ j = k
  <1>1. t + 2 * j \in CellAddrs
    BY DEF CellAddrs
  <1>2. t \in Nat /\ u \in Nat
    BY TableBounds
  <1>3. t = u \/ t + Stride <= u \/ u + Stride <= t
    BY TablesSpaced
  <1>. QED
    BY <1>1, <1>2, <1>3, Geometry

(* Indexes computed from an address are in range.                          *)
LEMMA IndexRange ==
  ASSUME NEW a \in Nat
  PROVE  /\ Idx1(a) \in 0 .. L1_BITS - 1
         /\ Idx2(a) \in 0 .. L2_BITS - 1
         /\ WordOf(a) = 2 * Idx2(a)
         /\ SlotOf(a) \in Slots
         /\ SlotOf(a)[1] = Idx1(a) /\ SlotOf(a)[2] = Idx2(a)
  <1>1. \A x \in Nat, n \in Nat \ {0} : x \div n \in Nat /\ x % n \in 0 .. n - 1
    OBVIOUS
  <1>2. 2^L2_NUM \in Nat \ {0}
    BY AddressAssumption
  <1>3. a \div 2^L2_NUM \in Nat
    BY <1>1, <1>2, Zenon
  <1>4. a \div 8 \in Nat
    BY <1>1
  <1>. QED
    BY <1>1, <1>3, <1>4, AddressAssumption DEF Idx1, Idx2, WordOf, SlotOf, Slots

(* The word at t is in the chunk at b.                                     *)
Within(t, b) == b <= t /\ t < b + mmap_words

(* A table at t lies in the chunk at b as a whole, or not at all.          *)
LEMMA WithinWhole ==
  ASSUME NEW t \in TableAddrs, NEW b \in ChunkBases, Within(t, b)
  PROVE  /\ t + Stride <= b + mmap_words
         /\ t + Stride \in TableAddrs \cup {b + mmap_words}
         /\ \A c \in ChunkBases : Within(t, c) => c = b
  <1>1. PICK c \in ChunkBases, m \in 0 .. BitypePageNum - 1 : t = c + m * Stride
    BY DEF TableAddrs
  <1>2. /\ m * Stride \in Nat
        /\ m * Stride + Stride <= mmap_words
        /\ m + 1 < BitypePageNum \/ m * Stride + Stride = mmap_words
        /\ (m + 1) * Stride = m * Stride + Stride
    BY TableInChunk
  <1>3. \A x, y \in ChunkBases : x < y => x + mmap_words <= y
    BY MmapAssumption
  <1>4. \A x \in ChunkBases : Within(t, x) => x = c
    BY <1>1, <1>2, <1>3, Geometry DEF Within
  <1>5. c = b
    BY <1>4
  <1>6. CASE m + 1 < BitypePageNum
    <2>1. m + 1 \in 0 .. BitypePageNum - 1
      BY <1>6, Geometry
    <2>2. t + Stride = c + (m + 1) * Stride
      BY <1>1, <1>2, Geometry
    <2>3. t + Stride \in TableAddrs
      BY <2>1, <2>2 DEF TableAddrs
    <2>4. t + Stride <= b + mmap_words
      BY <1>1, <1>2, <1>5, Geometry
    <2>. QED
      BY <1>4, <1>5, <2>3, <2>4
  <1>7. CASE m * Stride + Stride = mmap_words
    BY <1>1, <1>2, <1>4, <1>5, <1>7, Geometry
  <1>. QED
    BY <1>2, <1>6, <1>7

(* The start of a chunk is its first table.                                *)
LEMMA FirstTable ==
  ASSUME NEW b \in ChunkBases
  PROVE  b \in TableAddrs /\ Within(b, b)
  <1>1. b = b + 0 * Stride /\ 0 \in 0 .. BitypePageNum - 1
    BY Geometry
  <1>2. 1 <= mmap_words
    <2>1. 0 * Stride + Stride <= mmap_words
      BY <1>1, TableInChunk
    <2>. QED
      BY <2>1, Geometry
  <1>. QED
    BY <1>1, <1>2, Geometry DEF TableAddrs, Within
=============================================================================

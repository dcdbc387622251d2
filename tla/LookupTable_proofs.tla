-------------------------- MODULE LookupTable_proofs --------------------------
(***************************************************************************)
(* Proofs about LookupTable, for every table geometry, every set of chunk  *)
(* addresses mmap may answer and every program that calls the runtime: the *)
(* tables never overlap and never leave mapped memory, and the two-level   *)
(* table implements TypeMap.                                               *)
(***************************************************************************)
EXTENDS LookupTable, TableMemory_proofs

-----------------------------------------------------------------------------
(* The inductive invariant.                                                *)

(* The cursor is in a mapped chunk, at most at its end.                    *)
Cursor ==
  \E b \in chunks : /\ b <= BitypeSecondLevelStart
                    /\ BitypeSecondLevelStart <= BitypeSecondLevelEnd
                    /\ BitypeSecondLevelEnd = b + mmap_words

TablesDistinct ==
  \A i, k \in 0 .. L1_BITS - 1 :
    i # k /\ BitypeLookupStart[i] # 0
      => BitypeLookupStart[i] # BitypeLookupStart[k]

TablesInChunks == \A t \in Tables : \E b \in chunks : Within(t, b)

(* What only the table pointers determine.                                 *)
TableInv ==
  /\ BitypeLookupStart \in [0 .. L1_BITS - 1 -> TableAddrs \cup {0}]
  /\ BitypeSecondLevelStart \in
       TableAddrs \cup {b + mmap_words : b \in ChunkBases}
  /\ BitypeSecondLevelEnd \in {b + mmap_words : b \in ChunkBases}
  /\ chunks \subseteq ChunkBases
  /\ Cursor
  /\ TablesDistinct
  /\ TablesInChunks
  /\ NoTableWasted

IInv == TypeOK /\ TableInv /\ FreshTables

-----------------------------------------------------------------------------
(* Allocating a table keeps the table invariant.                           *)

(* The tables after region i took the table at t.                          *)
LEMMA TablesAfterTake ==
  ASSUME TableInv, NEW i \in 0 .. L1_BITS - 1, NEW t \in TableAddrs,
         BitypeLookupStart[i] = 0, TakeTable(i, t)
  PROVE  /\ BitypeLookupStart' \in [0 .. L1_BITS - 1 -> TableAddrs \cup {0}]
         /\ Tables' = Tables \cup {t}
         /\ t \notin Tables => TablesDistinct'
  <1>1. t # 0
    BY TableBounds
  <1>2. /\ BitypeLookupStart' \in [0 .. L1_BITS - 1 -> TableAddrs \cup {0}]
        /\ \A k \in 0 .. L1_BITS - 1 :
             BitypeLookupStart'[k] = IF k = i THEN t ELSE BitypeLookupStart[k]
    BY DEF TableInv, TakeTable
  <1>3. Tables' = Tables \cup {t}
    BY <1>1, <1>2 DEF Tables
  <1>4. t \notin Tables => TablesDistinct'
    BY <1>1, <1>2 DEF TableInv, TablesDistinct, Tables
  <1>. QED
    BY <1>2, <1>3, <1>4

(* EnsureTable leaves addr with a table of its own and changes nothing     *)
(* else: the table is the old one, or one that no region used.             *)
LEMMA EnsureTableInv ==
  ASSUME TableInv, NEW a \in Nat, EnsureTable(a)
  PROVE  /\ TableInv'
         /\ BitypeLookupStart'[Idx1(a)] \in TableAddrs
         /\ \A i \in 0 .. L1_BITS - 1 :
              i # Idx1(a) => BitypeLookupStart'[i] = BitypeLookupStart[i]
         /\ Level2(a) # 0 => BitypeLookupStart'[Idx1(a)] = Level2(a)
         /\ Level2(a) = 0 => BitypeLookupStart'[Idx1(a)] \notin Tables
         /\ Tables' = Tables \cup {BitypeLookupStart'[Idx1(a)]}
  <1> DEFINE i == Idx1(a)
             start == BitypeSecondLevelStart
             end == BitypeSecondLevelEnd
  <1>1. i \in 0 .. L1_BITS - 1
    BY IndexRange
  <1>2. /\ BitypeLookupStart \in [0 .. L1_BITS - 1 -> TableAddrs \cup {0}]
        /\ start \in TableAddrs \cup {b + mmap_words : b \in ChunkBases}
        /\ end \in {b + mmap_words : b \in ChunkBases}
        /\ chunks \subseteq ChunkBases
    BY DEF TableInv
  <1>3. PICK cur \in chunks : /\ cur <= start
                              /\ start <= end
                              /\ end = cur + mmap_words
    BY DEF TableInv, Cursor
  <1>4. Tables \subseteq TableAddrs
    BY <1>2 DEF Tables
  <1>5. start \in Nat /\ end \in Nat
    BY <1>2, TableBounds, Geometry
  <1>6. CASE Level2(a) # 0 /\ UNCHANGED tableVars
    <2>1. TableInv'
      BY <1>6 DEF tableVars, TableInv, Cursor, TablesDistinct, TablesInChunks,
                  NoTableWasted, Tables, FreeTables, Within
    <2>2. BitypeLookupStart' = BitypeLookupStart /\ Tables' = Tables
      BY <1>6 DEF tableVars, Tables
    <2>3. BitypeLookupStart[i] \in Tables
      BY <1>1, <1>6 DEF Level2, Tables
    <2>. QED
      BY <1>1, <1>4, <1>6, <2>1, <2>2, <2>3 DEF Level2
  <1>7. CASE /\ Level2(a) = 0 /\ ~ChunkFull
             /\ TakeTable(i, start)
             /\ UNCHANGED <<BitypeSecondLevelEnd, chunks>>
    <2>1. Within(start, cur)
      BY <1>2, <1>3, <1>5, <1>7, Geometry DEF ChunkFull, Within
    <2>2. start \in TableAddrs
      <3> SUFFICES ASSUME NEW b \in ChunkBases, start = b + mmap_words
                   PROVE  start = cur
        BY <1>2, FirstTable
      <3>1. b < cur
        BY <1>2, <1>3, <1>5, <1>7, Geometry DEF ChunkFull
      <3>. QED
        BY <1>2, <1>3, <1>5, <3>1, MmapAssumption, Geometry
    <2>3. start \notin Tables
      BY <1>3, <1>5, <1>7, <2>1, <2>2
         DEF TableInv, NoTableWasted, FreeTables, ChunkFull, Within
    <2>4. /\ BitypeLookupStart' \in [0 .. L1_BITS - 1 -> TableAddrs \cup {0}]
          /\ Tables' = Tables \cup {start}
          /\ TablesDistinct'
      BY <1>1, <1>7, <2>2, <2>3, TablesAfterTake DEF Level2
    <2>5. /\ start + Stride <= end
          /\ start + Stride \in TableAddrs \cup {b + mmap_words : b \in ChunkBases}
      BY <1>2, <1>3, <2>1, <2>2, WithinWhole
    <2>6. /\ BitypeSecondLevelStart' = start + Stride
          /\ BitypeSecondLevelEnd' = end
          /\ chunks' = chunks
          /\ BitypeLookupStart' = [BitypeLookupStart EXCEPT ![i] = start]
      BY <1>7 DEF TakeTable
    <2>7. Cursor'
      BY <1>3, <1>2, <1>5, <2>5, <2>6, Geometry DEF Cursor
    <2>8. TablesInChunks'
      BY <2>1, <2>4, <2>6 DEF TableInv, TablesInChunks, Within
    <2>9. FreeTables' = FreeTables \ {start}
      <3>1. \A t \in TableAddrs :
              start + Stride <= t <=> start <= t /\ t # start
        BY <1>5, <2>2, TablesSpaced, TableBounds, Geometry
      <3>. QED
        BY <2>6, <3>1, <1>5, Geometry DEF FreeTables
    <2>10. NoTableWasted'
      BY <2>4, <2>6, <2>9 DEF TableInv, NoTableWasted
    <2>11. TableInv'
      BY <1>2, <2>4, <2>5, <2>6, <2>7, <2>8, <2>10 DEF TableInv
    <2>12. BitypeLookupStart'[i] = start
      BY <1>1, <1>2, <2>6
    <2>. QED
      BY <1>1, <1>2, <1>7, <2>2, <2>3, <2>4, <2>6, <2>11, <2>12
  <1>8. ASSUME NEW b \in ChunkBases \ chunks,
               Level2(a) = 0, ChunkFull,
               chunks' = chunks \cup {b},
               BitypeSecondLevelEnd' = b + added_memory_size,
               TakeTable(i, b)
        PROVE  /\ TableInv'
               /\ BitypeLookupStart'[i] = b
               /\ b \in TableAddrs
               /\ b \notin Tables
               /\ Tables' = Tables \cup {b}
               /\ \A k \in 0 .. L1_BITS - 1 :
                    k # i => BitypeLookupStart'[k] = BitypeLookupStart[k]
    <2>1. b \in TableAddrs /\ Within(b, b)
      BY FirstTable
    <2>2. \A t \in TableAddrs : \A c \in ChunkBases :
            Within(t, b) /\ Within(t, c) => c = b
      BY WithinWhole
    <2>3. \A t \in Tables : ~Within(t, b)
      BY <1>2, <1>4, <1>8, <2>2 DEF TableInv, TablesInChunks
    <2>4. b \notin Tables
      BY <2>1, <2>3
    <2>5. /\ BitypeLookupStart' \in [0 .. L1_BITS - 1 -> TableAddrs \cup {0}]
          /\ Tables' = Tables \cup {b}
          /\ TablesDistinct'
      BY <1>1, <1>8, <2>1, <2>4, TablesAfterTake DEF Level2
    <2>6. /\ b + Stride <= b + mmap_words
          /\ b + Stride \in TableAddrs \cup {c + mmap_words : c \in ChunkBases}
      BY <2>1, WithinWhole
    <2>7. /\ BitypeSecondLevelStart' = b + Stride
          /\ BitypeSecondLevelEnd' = b + mmap_words
          /\ chunks' = chunks \cup {b}
          /\ BitypeLookupStart' = [BitypeLookupStart EXCEPT ![i] = b]
      BY <1>8, Geometry DEF TakeTable
    <2>8. Cursor'
      BY <2>6, <2>7, Geometry DEF Cursor
    <2>9. TablesInChunks'
      BY <2>1, <2>5, <2>7 DEF TableInv, TablesInChunks, Within
    <2>10. FreeTables' = {t \in TableAddrs : Within(t, b) /\ t # b}
      <3>1. \A t \in TableAddrs : b + Stride <= t <=> b <= t /\ t # b
        BY <2>1, TablesSpaced, TableBounds, Geometry
      <3>. QED
        BY <2>7, <3>1 DEF FreeTables, Within
    <2>11. FreeTables = {}
      BY <1>5, <1>8, TableBounds, Geometry DEF FreeTables, ChunkFull
    <2>12. NoTableWasted'
      <3> SUFFICES ASSUME NEW t \in TableAddrs,
                          NEW c \in chunks', Within(t, c)
                   PROVE  t \in Tables' <=> t \notin FreeTables'
        BY DEF NoTableWasted, Within
      <3>1. CASE c = b
        BY <2>3, <2>5, <2>10, <3>1
      <3>2. CASE c \in chunks
        <4>1. t \in Tables
          BY <2>11, <3>2 DEF TableInv, NoTableWasted, Within
        <4>2. ~Within(t, b)
          BY <2>3, <4>1
        <4>. QED
          BY <2>5, <2>10, <4>1, <4>2
      <3>. QED
        BY <2>7, <3>1, <3>2
    <2>13. TableInv'
      BY <1>2, <2>5, <2>6, <2>7, <2>8, <2>9, <2>12 DEF TableInv
    <2>. QED
      BY <1>1, <1>2, <2>1, <2>4, <2>5, <2>7, <2>13
  <1>. QED
    BY <1>6, <1>7, <1>8 DEF EnsureTable

-----------------------------------------------------------------------------
(* Writing a slot.                                                         *)

(* The table of addr exists from now on and the slot of addr holds c; every*)
(* call of the runtime that changes metadata is one of these.              *)
WriteSlot(addr, c) ==
  /\ EnsureTable(addr)
  /\ Store(addr, c)

(* The tables and the cells agree on what was never written.               *)
LEMMA WriteSlotInv ==
  ASSUME TypeOK, TableInv, FreshTables,
         NEW a \in Nat, NEW c \in Cell, WriteSlot(a, c)
  PROVE  /\ TableInv'
         /\ FreshTables'
         /\ cell' \in [CellAddrs -> Cell]
         /\ Meta' = [Meta EXCEPT ![SlotOf(a)] = c]
         /\ cell[BitypeLookupStart'[Idx1(a)] + WordOf(a)] = Meta[SlotOf(a)]
         /\ BitypeLookupStart'[Idx1(a)] + WordOf(a) \in CellAddrs
  <1> DEFINE new == BitypeLookupStart'[Idx1(a)]
  <1>1. /\ TableInv'
        /\ new \in TableAddrs
        /\ \A i \in 0 .. L1_BITS - 1 :
             i # Idx1(a) => BitypeLookupStart'[i] = BitypeLookupStart[i]
        /\ Level2(a) # 0 => new = Level2(a)
        /\ Level2(a) = 0 => new \notin Tables
        /\ Tables' = Tables \cup {new}
    BY EnsureTableInv DEF WriteSlot
  <1>2. /\ Idx1(a) \in 0 .. L1_BITS - 1
        /\ Idx2(a) \in 0 .. L2_BITS - 1
        /\ WordOf(a) = 2 * Idx2(a)
        /\ SlotOf(a) \in Slots
        /\ SlotOf(a)[1] = Idx1(a) /\ SlotOf(a)[2] = Idx2(a)
    BY IndexRange
  <1>3. /\ cell \in [CellAddrs -> Cell]
        /\ new + WordOf(a) \in CellAddrs
    BY <1>1, <1>2, CellsDistinct DEF TypeOK
  <1>4. cell' = [cell EXCEPT ![new + 2 * Idx2(a)] = c]
    BY <1>2 DEF WriteSlot, Store
  <1>5. \A t \in TableAddrs : \A j \in 0 .. L2_BITS - 1 :
          cell'[t + 2 * j] = IF t = new /\ j = Idx2(a) THEN c ELSE cell[t + 2 * j]
    BY <1>1, <1>2, <1>3, <1>4, CellsDistinct
  <1>6. FreshTables'
    BY <1>1, <1>5 DEF FreshTables
  <1>7. cell' \in [CellAddrs -> Cell]
    BY <1>3, <1>4
  <1>8. new # 0
    BY <1>1, TableBounds
  <1>9. ASSUME NEW s \in Slots
        PROVE  Meta'[s] = IF s = SlotOf(a) THEN c ELSE Meta[s]
    <2>1. /\ s[1] \in 0 .. L1_BITS - 1 /\ s[2] \in 0 .. L2_BITS - 1
          /\ s = SlotOf(a) <=> s[1] = Idx1(a) /\ s[2] = Idx2(a)
      BY DEF Slots, SlotOf
    <2>2. Meta'[s] = IF BitypeLookupStart'[s[1]] = 0 THEN ZeroCell
                     ELSE cell'[BitypeLookupStart'[s[1]] + 2 * s[2]]
      BY DEF Meta
    <2>3. Meta[s] = IF BitypeLookupStart[s[1]] = 0 THEN ZeroCell
                    ELSE cell[BitypeLookupStart[s[1]] + 2 * s[2]]
      BY DEF Meta
    <2>4. BitypeLookupStart[s[1]] = 0 \/ BitypeLookupStart[s[1]] \in TableAddrs
      BY <2>1 DEF TableInv
    <2>5. CASE s[1] = Idx1(a)
      <3>1. Meta'[s] = IF s = SlotOf(a) THEN c ELSE cell[new + 2 * s[2]]
        BY <1>1, <1>5, <1>8, <2>1, <2>2, <2>5
      <3>2. cell[new + 2 * s[2]] = Meta[s]
        BY <1>1, <1>2, <2>1, <2>3, <2>5 DEF Level2, FreshTables
      <3>. QED
        BY <3>1, <3>2
    <2>6. CASE s[1] # Idx1(a)
      <3>1. BitypeLookupStart'[s[1]] = BitypeLookupStart[s[1]]
        BY <1>1, <2>1, <2>6
      <3>2. BitypeLookupStart[s[1]] # 0 => BitypeLookupStart[s[1]] # new
        <4>1. CASE Level2(a) = 0
          BY <1>1, <2>1, <4>1 DEF Tables
        <4>2. CASE Level2(a) # 0
          BY <1>1, <1>2, <2>1, <2>6, <4>2 DEF TableInv, TablesDistinct, Level2
        <4>. QED
          BY <4>1, <4>2
      <3>. QED
        BY <1>5, <2>1, <2>2, <2>3, <2>4, <2>6, <3>1, <3>2
    <2>. QED
      BY <2>5, <2>6
  <1>10. Meta' = [Meta EXCEPT ![SlotOf(a)] = c]
    BY <1>9 DEF Meta
  <1>11. cell[new + WordOf(a)] = Meta[SlotOf(a)]
    BY <1>1, <1>2, <1>8 DEF Meta, Level2, FreshTables
  <1>. QED
    BY <1>1, <1>3, <1>6, <1>7, <1>10, <1>11

-----------------------------------------------------------------------------
(* What each call of the runtime does to the metadata: nothing, or one     *)
(* WriteSlot with the contents given here.                                 *)

LEMMA InputTypes ==
  /\ Addr \subseteq Nat
  /\ Counts \subseteq Nat
  /\ Sizes \subseteq Nat /\ 0 \in Sizes /\ 1 \in Sizes
  /\ Offsets \subseteq Int /\ 0 \in Offsets /\ -1 \in Offsets
  /\ TypeSizes \subseteq Nat
  /\ Codes \subseteq Nat \ {0}
  /\ Sites \subseteq Int
  /\ UINT32 \in Nat \ {0}
  BY TableAssumption

LEMMA MetaType ==
  ASSUME TypeOK, TableInv
  PROVE  Meta \in [Slots -> Cell]
  <1>1. ZeroCell \in Cell
    BY InputTypes DEF ZeroCell, Cell
  <1>2. ASSUME NEW s \in Slots, BitypeLookupStart[s[1]] # 0
        PROVE  cell[BitypeLookupStart[s[1]] + 2 * s[2]] \in Cell
    <2>1. s[1] \in 0 .. L1_BITS - 1 /\ s[2] \in 0 .. L2_BITS - 1
      BY DEF Slots
    <2>2. BitypeLookupStart[s[1]] \in TableAddrs
      BY <1>2, <2>1 DEF TableInv
    <2>. QED
      BY <2>1, <2>2, CellsDistinct DEF TypeOK
  <1>. QED
    BY <1>1, <1>2 DEF Meta

(* The address of an array element is an address.                          *)
LEMMA ElementAddrType ==
  ASSUME NEW this \in Nat, NEW step \in Nat, NEW k \in Nat
  PROVE  this + ((step * k) % UINT32) \in Nat
  <1>1. step * k \in Nat
    OBVIOUS
  <1>2. \A x \in Nat, n \in Nat \ {0} : x % n \in 0 .. n - 1
    OBVIOUS
  <1>3. (step * k) % UINT32 \in Nat
    BY <1>1, <1>2, InputTypes
  <1>. QED
    BY <1>3

(* The counter of an array, 32 bits wide, moves on or starts anew.         *)
LEMMA NextIndexType ==
  ASSUME TypeOK
  PROVE  /\ call.i \in Nat /\ NextIndex \in 0 .. UINT32 - 1
         /\ NextIndex = call.i + 1 \/ NextIndex = 0
  <1>1. call.i \in 0 .. UINT32 - 1 /\ UINT32 \in Nat \ {0}
    BY InputTypes DEF TypeOK
  <1>2. \A n \in Nat \ {0} : n % n = 0 /\ \A x \in 0 .. n - 1 : x % n = x
    OBVIOUS
  <1>3. CASE call.i + 1 = UINT32
    BY <1>1, <1>2, <1>3 DEF NextIndex
  <1>4. CASE call.i + 1 # UINT32
    <2>1. call.i + 1 \in 0 .. UINT32 - 1
      BY <1>1, <1>4
    <2>. QED
      BY <1>1, <1>2, <2>1 DEF NextIndex
  <1>. QED
    BY <1>3, <1>4

LEMMA ElementType ==
  ASSUME TypeOK
  PROVE  ElementAddr \in Nat
  <1>1. call.this \in Nat /\ call.step \in Nat /\ call.i \in Nat
    BY NextIndexType DEF TypeOK
  <1>. QED
    BY <1>1, ElementAddrType DEF ElementAddr, Element

(* An address whose region has a table: its slot can be written as it is.  *)
LEMMA EnsuredTable ==
  ASSUME TableInv, NEW a \in Nat, Level2(a) # 0, UNCHANGED tableVars
  PROVE  /\ EnsureTable(a)
         /\ BitypeLookupStart'[Idx1(a)] + WordOf(a) = CellOf(a)
  BY DEF EnsureTable, tableVars, CellOf, Level2

LEMMA RegisterWrites ==
  ASSUME NEW this \in Addr, NEW ref \in Refs, NEW offset \in Offsets,
         bitype_direct_updateObjTrace(this, ref, offset)
           \/ InlineUpdateObjTrace(this, ref, offset)
  PROVE  \E n \in {0, 1} :
           /\ WriteSlot(this, [ref |-> ref, size |-> n, off |-> offset])
           /\ bitype_direct_updateObjTrace(this, ref, offset) =>
                WriteSlot(this, [ref |-> ref, size |-> 0, off |-> offset])
  BY DEF bitype_direct_updateObjTrace, InlineUpdateObjTrace, WriteSlot

LEMMA ArraySizeWrites ==
  ASSUME IInv, NEW this \in Addr, NEW n \in Sizes,
         bitype_update_arraySize(this, n)
  PROVE  WriteSlot(this, [Meta[SlotOf(this)] EXCEPT !.size = n])
  <1> DEFINE w == BitypeLookupStart'[Idx1(this)] + WordOf(this)
             c == [cell[w] EXCEPT !.size = n]
  <1>1. this \in Nat
    BY InputTypes
  <1>2. EnsureTable(this) /\ cell' = [cell EXCEPT ![w] = c]
    BY DEF bitype_update_arraySize
  <1>3. WriteSlot(this, c)
    BY <1>2 DEF WriteSlot, Store
  <1>4. w \in CellAddrs
    BY <1>1, <1>2, EnsureTableInv, IndexRange, CellsDistinct DEF IInv
  <1>5. c \in Cell
    BY <1>4 DEF IInv, TypeOK, Cell
  <1>6. cell[w] = Meta[SlotOf(this)]
    BY <1>1, <1>3, <1>5, WriteSlotInv DEF IInv
  <1>. QED
    BY <1>3, <1>6

LEMMA ReinterpretWrites ==
  ASSUME IInv, NEW this \in Addr, NEW ref \in Refs,
         bitype_handle_reinterpret_cast(this, ref)
  PROVE  \/ /\ Meta[SlotOf(this)].ref = NULL \/ Meta[SlotOf(this)].off = -1
            /\ WriteSlot(this, [ref |-> ref, size |-> 0, off |-> -1])
         \/ /\ Meta[SlotOf(this)].ref # NULL /\ Meta[SlotOf(this)].off # -1
            /\ WriteSlot(this, Meta[SlotOf(this)])
  <1> DEFINE w == BitypeLookupStart'[Idx1(this)] + WordOf(this)
             c == [ref |-> ref, size |-> 0, off |-> -1]
  <1>1. this \in Nat
    BY InputTypes
  <1>2. EnsureTable(this)
    BY DEF bitype_handle_reinterpret_cast
  <1>3. w \in CellAddrs
    BY <1>1, <1>2, EnsureTableInv, IndexRange, CellsDistinct DEF IInv
  <1>4. CASE cell[w].ref # NULL /\ cell[w].off # -1
    <2>1. cell' = cell
      BY <1>4 DEF bitype_handle_reinterpret_cast
    <2>2. WriteSlot(this, cell[w])
      BY <1>2, <1>3, <2>1 DEF WriteSlot, Store, IInv, TypeOK
    <2>3. cell[w] \in Cell
      BY <1>3 DEF IInv, TypeOK
    <2>4. cell[w] = Meta[SlotOf(this)]
      BY <1>1, <2>2, <2>3, WriteSlotInv DEF IInv
    <2>. QED
      BY <1>4, <2>2, <2>4
  <1>5. CASE ~(cell[w].ref # NULL /\ cell[w].off # -1)
    <2>1. WriteSlot(this, c)
      BY <1>2, <1>5 DEF bitype_handle_reinterpret_cast, WriteSlot
    <2>2. c \in Cell
      BY InputTypes DEF Cell
    <2>3. cell[w] = Meta[SlotOf(this)]
      BY <1>1, <2>1, <2>2, WriteSlotInv DEF IInv
    <2>. QED
      BY <1>5, <2>1, <2>3
  <1>. QED
    BY <1>4, <1>5

LEMMA UpdateElementWrites ==
  ASSUME UpdateElement
  PROVE  WriteSlot(ElementAddr,
                   [ref |-> call.ref, size |-> 0, off |-> call.off])
  BY DEF UpdateElement, WriteSlot

LEMMA EraseElementWrites ==
  ASSUME IInv, EraseElement
  PROVE  \/ Level2(ElementAddr) = 0 /\ UNCHANGED <<tableVars, cell>>
         \/ WriteSlot(ElementAddr,
                      [Meta[SlotOf(ElementAddr)] EXCEPT !.ref = NULL])
  <1> DEFINE a == ElementAddr
             c == [cell[CellOf(a)] EXCEPT !.ref = NULL]
  <1>1. a \in Nat
    BY ElementType DEF IInv
  <1>2. UNCHANGED tableVars
    BY DEF EraseElement
  <1>3. CASE Level2(a) = 0
    BY <1>2, <1>3 DEF EraseElement
  <1>4. CASE Level2(a) # 0
    <2>1. EnsureTable(a) /\ BitypeLookupStart'[Idx1(a)] + WordOf(a) = CellOf(a)
      BY <1>1, <1>2, <1>4, EnsuredTable DEF IInv
    <2>2. cell' = [cell EXCEPT ![CellOf(a)] = c]
      BY <1>4 DEF EraseElement
    <2>3. WriteSlot(a, c)
      BY <2>1, <2>2 DEF WriteSlot, Store
    <2>4. CellOf(a) \in CellAddrs
      BY <1>1, <2>1, EnsureTableInv, IndexRange, CellsDistinct DEF IInv
    <2>5. c \in Cell
      BY <2>4 DEF IInv, TypeOK, Cell
    <2>6. cell[CellOf(a)] = Meta[SlotOf(a)]
      BY <1>1, <2>1, <2>3, <2>5, WriteSlotInv DEF IInv
    <2>. QED
      BY <2>3, <2>6
  <1>. QED
    BY <1>3, <1>4

LEMMA DirectEraseWrites ==
  ASSUME IInv, NEW this \in Addr
  PROVE  /\ bitype_direct_eraseObj(this) => WriteSlot(this, ZeroCell)
         /\ bitype_direct_eraseArraySize(this) =>
              WriteSlot(this, [Meta[SlotOf(this)] EXCEPT !.size = 0, !.off = 0])
  <1> DEFINE c == [cell[CellOf(this)] EXCEPT !.size = 0, !.off = 0]
  <1>1. this \in Nat
    BY InputTypes
  <1>2. ASSUME bitype_direct_eraseObj(this)
        PROVE  WriteSlot(this, ZeroCell)
    BY <1>1, <1>2, EnsuredTable
       DEF IInv, bitype_direct_eraseObj, WriteSlot, Store
  <1>3. ASSUME bitype_direct_eraseArraySize(this)
        PROVE  WriteSlot(this, [Meta[SlotOf(this)] EXCEPT !.size = 0, !.off = 0])
    <2>1. /\ EnsureTable(this)
          /\ BitypeLookupStart'[Idx1(this)] + WordOf(this) = CellOf(this)
      BY <1>1, <1>3, EnsuredTable DEF IInv, bitype_direct_eraseArraySize
    <2>2. CellOf(this) \in CellAddrs
      BY SMTT(30), <1>1, <2>1, EnsureTableInv, IndexRange, CellsDistinct DEF IInv
    <2>3. c \in Cell
      BY <2>2, InputTypes DEF IInv, TypeOK, Cell
    <2>4. cell' = [cell EXCEPT ![CellOf(this)] = c]
      BY <1>3, <2>2 DEF bitype_direct_eraseArraySize, IInv, TypeOK
    <2>5. WriteSlot(this, c)
      BY <2>1, <2>4 DEF WriteSlot, Store
    <2>6. cell[CellOf(this)] = Meta[SlotOf(this)]
      BY <1>1, <2>1, <2>3, <2>5, WriteSlotInv DEF IInv
    <2>. QED
      BY <2>5, <2>6
  <1>. QED
    BY <1>2, <1>3

(* Every step leaves the metadata alone or writes one slot of it.          *)
LEMMA StepWrites ==
  ASSUME IInv, [Next]_vars
  PROVE  \/ UNCHANGED <<tableVars, cell>>
         \/ \E a \in Nat, c \in Cell : WriteSlot(a, c)
  <1>1. Meta \in [Slots -> Cell] /\ \A a \in Nat : SlotOf(a) \in Slots
    BY MetaType, IndexRange DEF IInv
  <1>2. ASSUME NEW a \in Nat
        PROVE  /\ Meta[SlotOf(a)] \in Cell
               /\ \A n \in Sizes : [Meta[SlotOf(a)] EXCEPT !.size = n] \in Cell
               /\ [Meta[SlotOf(a)] EXCEPT !.ref = NULL] \in Cell
               /\ [Meta[SlotOf(a)] EXCEPT !.size = 0, !.off = 0] \in Cell
    BY <1>1, InputTypes DEF Cell
  <1>3. Addr \subseteq Nat
    BY InputTypes
  <1>4. CASE Register
    <2>1. PICK this \in Addr, ref \in Refs, offset \in Offsets :
            \/ bitype_direct_updateObjTrace(this, ref, offset)
                 \/ InlineUpdateObjTrace(this, ref, offset)
            \/ \E step \in TypeSizes, n \in Sizes :
                 bitype_updateObjTrace(this, ref, step, n, offset)
      BY <1>4 DEF Register
    <2>2. CASE \/ bitype_direct_updateObjTrace(this, ref, offset)
               \/ InlineUpdateObjTrace(this, ref, offset)
      <3>1. PICK n \in {0, 1} :
              WriteSlot(this, [ref |-> ref, size |-> n, off |-> offset])
        BY <2>2, RegisterWrites
      <3>2. [ref |-> ref, size |-> n, off |-> offset] \in Cell
        BY InputTypes DEF Cell
      <3>. QED
        BY <1>3, <3>1, <3>2
    <2>3. CASE \E step \in TypeSizes, n \in Sizes :
                 bitype_updateObjTrace(this, ref, step, n, offset)
      BY <2>3 DEF bitype_updateObjTrace
    <2>. QED
      BY <2>1, <2>2, <2>3
  <1>5. CASE Annotate
    <2>1. ASSUME NEW this \in Addr, NEW n \in Sizes,
                 bitype_update_arraySize(this, n)
          PROVE  \E a \in Nat, c \in Cell : WriteSlot(a, c)
      BY <1>2, <1>3, <2>1, ArraySizeWrites
    <2>2. ASSUME NEW this \in Addr, NEW ref \in Refs,
                 bitype_handle_reinterpret_cast(this, ref)
          PROVE  \E a \in Nat, c \in Cell : WriteSlot(a, c)
      <3>1. [ref |-> ref, size |-> 0, off |-> -1] \in Cell
        BY InputTypes DEF Cell
      <3>. QED
        BY <1>2, <1>3, <2>2, <3>1, ReinterpretWrites
    <2>. QED
      BY <1>5, <2>1, <2>2 DEF Annotate
  <1>6. CASE Erase
    <2>1. ASSUME NEW this \in Addr,
                 bitype_direct_eraseObj(this) \/ bitype_direct_eraseArraySize(this)
          PROVE  \E a \in Nat, c \in Cell : WriteSlot(a, c)
      <3>1. ZeroCell \in Cell
        BY InputTypes DEF ZeroCell, Cell
      <3>. QED
        BY <1>2, <1>3, <2>1, <3>1, DirectEraseWrites
    <2>2. ASSUME NEW this \in Addr, NEW obj \in Addr, NEW step \in TypeSizes,
                 NEW n \in Counts, NEW heap \in BOOLEAN,
                 bitype_eraseObj(this, obj, step, n, heap)
          PROVE  UNCHANGED <<tableVars, cell>>
      BY <2>2 DEF bitype_eraseObj
    <2>. QED
      BY <1>6, <2>1, <2>2 DEF Erase
  <1>7. CASE Cast
    BY <1>7 DEF Cast, bitype_cast_verification, bitype_dynamic_cast_verification
  <1>8. CASE Report
    BY <1>8 DEF Report, bitype_print_type_confusion
  <1>9. CASE UpdateElement
    <2>1. call.op = "update"
      BY <1>9 DEF UpdateElement
    <2>2. ElementAddr \in Nat
      BY ElementType DEF IInv
    <2>3. call.ref \in Refs \cup {NULL} /\ call.off \in Offsets
      BY DEF IInv, TypeOK
    <2>4. [ref |-> call.ref, size |-> 0, off |-> call.off] \in Cell
      BY <2>3, InputTypes DEF Cell
    <2>. QED
      BY <1>9, <2>2, <2>4, UpdateElementWrites
  <1>10. CASE EraseElement
    <2>1. ElementAddr \in Nat
      BY ElementType DEF IInv
    <2>. QED
      BY <1>2, <1>10, <2>1, EraseElementWrites
  <1>11. CASE OutOfMemory
    BY <1>11 DEF OutOfMemory, MapFailed
  <1>12. CASE UNCHANGED vars
    BY <1>12 DEF vars
  <1>. QED
    BY <1>4, <1>5, <1>6, <1>7, <1>8, <1>9, <1>10, <1>11, <1>12 DEF Next

-----------------------------------------------------------------------------
(* Invariance.                                                             *)

LEMMA InitInv == Init => IInv
  <1> SUFFICES ASSUME Init
               PROVE  IInv
    OBVIOUS
  <1> USE DEF Init
  <1>1. FirstChunk \in TableAddrs /\ FirstChunk \in ChunkBases
    BY FirstTable, MmapAssumption
  <1>2. ZeroCell \in Cell /\ Idle.off \in Offsets /\ 0 \in 0 .. UINT32 - 1
    BY InputTypes DEF ZeroCell, Cell, Idle
  <1>3. TypeOK
    BY <1>1, <1>2 DEF TypeOK, Idle, Verdicts, NoVerdict, Outcomes
  <1>4. Cursor
    BY <1>1, Geometry DEF Cursor
  <1>5. Tables = {}
    BY DEF Tables
  <1>6. NoTableWasted
    BY <1>1, <1>5, Geometry DEF NoTableWasted, FreeTables
  <1>7. TableInv
    BY <1>3, <1>4, <1>5, <1>6 DEF TypeOK, TableInv, TablesDistinct, TablesInChunks
  <1>8. FreshTables
    BY DEF FreshTables, CellAddrs
  <1>. QED
    BY <1>3, <1>7, <1>8 DEF IInv

(* The handler in progress keeps well-formed arguments.                    *)
LEMMA CallType ==
  ASSUME IInv, [Next]_vars
  PROVE  /\ call' \in [op : {"idle", "update", "erase"}, this : Nat,
                       ref : Refs \cup {NULL}, step : Nat, n : Nat,
                       off : Offsets, i : 0 .. UINT32 - 1]
         /\ verdict' \in Verdicts
         /\ debugArray' \subseteq Sites
         /\ exited' \in BOOLEAN
  <1> DEFINE CallSet == [op : {"idle", "update", "erase"}, this : Nat,
                         ref : Refs \cup {NULL}, step : Nat, n : Nat,
                         off : Offsets, i : 0 .. UINT32 - 1]
  <1>1. /\ call \in CallSet
        /\ verdict \in Verdicts
        /\ debugArray \subseteq Sites
        /\ exited \in BOOLEAN
    BY DEF IInv, TypeOK
  <1>2. Idle \in CallSet
    BY InputTypes DEF Idle
  <1>3. ASSUME NEW this \in Addr, NEW ref \in Refs \cup {NULL}, NEW step \in TypeSizes,
               NEW n \in Nat, NEW offset \in Offsets, NEW op \in {"update", "erase"},
               Start(op, this, ref, step, n, offset)
        PROVE  call' \in CallSet
    BY <1>2, <1>3, InputTypes DEF Start
  <1>4. NextElement => call' \in CallSet
    <2>1. NextIndex \in 0 .. UINT32 - 1
      BY NextIndexType DEF IInv
    <2>. QED
      BY <1>1, <1>2, <2>1 DEF NextElement
  <1>5. ASSUME NEW this \in Addr, NEW obj \in Addr, NEW step \in TypeSizes,
               NEW n \in Counts, NEW heap \in BOOLEAN,
               bitype_eraseObj(this, obj, step, n, heap)
        PROVE  call' \in CallSet /\ UNCHANGED <<verdict, debugArray, exited>>
    <2> DEFINE sized == cell[CellOf(obj)].size
               count == IF ~heap THEN n ELSE IF sized # 0 THEN sized ELSE 1
    <2>1. Start("erase", this, NULL, step, count, 0)
      BY <1>5 DEF bitype_eraseObj
    <2>2. heap => sized \in Nat
      <3> HAVE heap
      <3>1. obj \in Nat /\ Level2(obj) # 0
        BY <1>5, InputTypes DEF bitype_eraseObj
      <3>2. Level2(obj) \in TableAddrs
        BY <3>1, IndexRange DEF IInv, TypeOK, Level2
      <3>3. CellOf(obj) \in CellAddrs
        BY <3>1, <3>2, IndexRange, CellsDistinct DEF CellOf
      <3>. QED
        BY <3>3, InputTypes DEF IInv, TypeOK, Cell
    <2>3. count \in Nat
      BY <2>2, InputTypes
    <2>. QED
      BY <1>3, <1>5, <2>1, <2>3, InputTypes DEF bitype_eraseObj
  <1>6. ASSUME NEW this \in Addr, NEW source \in Addr, NEW code \in Codes,
               NEW debug \in Sites \cup {-1},
               bitype_cast_verification(source, this, code, debug)
        PROVE  /\ verdict' \in Verdicts /\ debugArray' \subseteq Sites
               /\ UNCHANGED <<call, exited>>
    <2>1. PICK v \in bitype_verify_cast(source, this, code) :
             /\ verdict' = [source |-> source, target |-> this, code |-> code,
                            outcome |-> v]
             /\ IF v = "confusion" THEN print_confusion_inline(debug)
                                  ELSE UNCHANGED debugArray
      BY <1>6 DEF bitype_cast_verification
    <2>2. v \in Outcomes
      BY DEF bitype_verify_cast, Outcomes
    <2>4. verdict' \in Verdicts
      BY <2>1, <2>2 DEF Verdicts
    <2>3. debugArray' \subseteq Sites
      BY <1>1, <2>1 DEF print_confusion_inline
    <2>. QED
      BY <1>6, <2>3, <2>4 DEF bitype_cast_verification
  <1>7. CASE Register
    <2>1. ASSUME NEW this \in Addr, NEW ref \in Refs, NEW offset \in Offsets,
                 NEW step \in TypeSizes, NEW n \in Sizes,
                 bitype_updateObjTrace(this, ref, step, n, offset)
          PROVE  call' \in CallSet
      BY <1>3, <2>1, InputTypes DEF bitype_updateObjTrace
    <2>. QED
      BY <1>1, <1>7, <2>1
         DEF Register, bitype_direct_updateObjTrace, InlineUpdateObjTrace,
             bitype_updateObjTrace
  <1>8. CASE Annotate
    BY <1>1, <1>8 DEF Annotate, bitype_update_arraySize,
                      bitype_handle_reinterpret_cast
  <1>9. CASE Erase
    BY <1>1, <1>5, <1>9 DEF Erase, bitype_direct_eraseObj,
                            bitype_direct_eraseArraySize
  <1>10. CASE Cast
    BY <1>1, <1>6, <1>10 DEF Cast, bitype_dynamic_cast_verification
  <1>11. CASE Report
    BY <1>1, <1>11 DEF Report, bitype_print_type_confusion, print_confusion_inline
  <1>12. CASE UpdateElement
    BY <1>1, <1>4, <1>12 DEF UpdateElement
  <1>13. CASE EraseElement
    BY <1>1, <1>4, <1>13 DEF EraseElement
  <1>14. CASE OutOfMemory
    BY <1>1, <1>14 DEF OutOfMemory, MapFailed
  <1>15. CASE UNCHANGED vars
    BY <1>1, <1>15 DEF vars
  <1>. QED
    BY <1>7, <1>8, <1>9, <1>10, <1>11, <1>12, <1>13, <1>14, <1>15 DEF Next

LEMMA StepInv == IInv /\ [Next]_vars => IInv'
  <1> SUFFICES ASSUME IInv, [Next]_vars
               PROVE  IInv'
    OBVIOUS
  <1>1. CASE UNCHANGED <<tableVars, cell>>
    <2>1. TableInv' /\ FreshTables' /\ cell' \in [CellAddrs -> Cell]
      BY <1>1 DEF IInv, TypeOK, tableVars, TableInv, Cursor, TablesDistinct,
                  TablesInChunks, NoTableWasted, Tables, FreeTables, Within,
                  FreshTables
    <2>. QED
      BY <2>1, CallType DEF IInv, TypeOK, TableInv
  <1>2. ASSUME NEW a \in Nat, NEW c \in Cell, WriteSlot(a, c)
        PROVE  IInv'
    <2>1. TableInv' /\ FreshTables' /\ cell' \in [CellAddrs -> Cell]
      BY <1>2, WriteSlotInv DEF IInv
    <2>. QED
      BY <2>1, CallType DEF IInv, TypeOK, TableInv
  <1>. QED
    BY <1>1, <1>2, StepWrites

(* The inductive invariant holds in every run of the runtime.              *)
THEOREM InvariantHolds == Spec => []IInv
  <1>. QED
    BY InitInv, StepInv, PTL DEF Spec

(* Every variable keeps its type; in particular table pointers are only    *)
(* ever addresses of tables (bitype.cpp:86-100 and its copies).            *)
THEOREM TypeCorrect == Spec => []TypeOK
  <1>1. IInv => TypeOK
    BY DEF IInv
  <1>. QED
    BY <1>1, InvariantHolds, PTL

LEMMA IInvSafety == IInv => TablesApart /\ TablesMapped
  <1> SUFFICES ASSUME IInv
               PROVE  TablesApart /\ TablesMapped
    OBVIOUS
  <1>1. TablesApart
    BY TablesSpaced DEF IInv, TableInv, TablesDistinct, TablesApart
  <1>2. TablesMapped
    <2> SUFFICES ASSUME NEW t \in Tables
                 PROVE  \E b \in chunks : b <= t /\ t + Stride <= b + mmap_words
      BY DEF TablesMapped
    <2>1. t \in TableAddrs
      BY DEF IInv, TableInv, Tables
    <2>2. PICK b \in chunks : Within(t, b)
      BY DEF IInv, TableInv, TablesInChunks
    <2>3. b \in ChunkBases
      BY DEF IInv, TableInv
    <2>. QED
      BY <2>1, <2>2, <2>3, WithinWhole DEF Within
  <1>. QED
    BY <1>1, <1>2

(* Two regions never share a word of metadata, whatever addresses mmap     *)
(* answers (bitype.cpp:99: the cursor advances by a whole table).          *)
THEOREM TablesApartHolds == Spec => []TablesApart
  BY InvariantHolds, IInvSafety, PTL

(* No table reaches past the end of its chunk (bitype.cpp:87-95).          *)
THEOREM TablesMappedHolds == Spec => []TablesMapped
  BY InvariantHolds, IInvSafety, PTL

(* Every table of a mapped chunk is in use or still to be handed out.      *)
THEOREM NoTableWastedHolds == Spec => []NoTableWasted
  <1>1. IInv => NoTableWasted
    BY DEF IInv, TableInv
  <1>. QED
    BY <1>1, InvariantHolds, PTL

(* A table that no region uses holds no entry.                             *)
THEOREM FreshTablesHolds == Spec => []FreshTables
  <1>1. IInv => FreshTables
    BY DEF IInv
  <1>. QED
    BY <1>1, InvariantHolds, PTL

-----------------------------------------------------------------------------
(* The array handlers: what is registered or forgotten half-way.           *)

(* ElementDone, said of the metadata instead of the tables.                *)
MetaDone(k) ==
  IF call.op = "update"
  THEN /\ Level2(Element(k)) # 0
       /\ Meta[SlotOf(Element(k))] =
            [ref |-> call.ref, size |-> 0, off |-> call.off]
  ELSE Meta[SlotOf(Element(k))].ref = NULL

LEMMA DoneIsMetaDone ==
  IInv => \A k \in Nat : ElementDone(k) <=> MetaDone(k)
  <1> SUFFICES ASSUME IInv, NEW k \in Nat
               PROVE  ElementDone(k) <=> MetaDone(k)
    OBVIOUS
  <1> DEFINE a == Element(k)
  <1>1. a \in Nat
    BY ElementAddrType DEF IInv, TypeOK, Element
  <1>2. Meta[SlotOf(a)] = IF Level2(a) = 0 THEN ZeroCell ELSE cell[CellOf(a)]
    BY <1>1, IndexRange DEF Meta, Level2, CellOf
  <1>3. ZeroCell.ref = NULL
    BY DEF ZeroCell
  <1>4. ElementDone(k) <=>
          IF call.op = "update"
          THEN /\ Level2(a) # 0
               /\ cell[CellOf(a)] =
                    [ref |-> call.ref, size |-> 0, off |-> call.off]
          ELSE Level2(a) # 0 => cell[CellOf(a)].ref = NULL
    BY DEF ElementDone, Element
  <1> HIDE DEF a
  <1>5. MetaDone(k) <=>
          IF call.op = "update"
          THEN /\ Level2(a) # 0
               /\ Meta[SlotOf(a)] =
                    [ref |-> call.ref, size |-> 0, off |-> call.off]
          ELSE Meta[SlotOf(a)].ref = NULL
    BY DEF MetaDone, a
  <1>. QED
    BY <1>2, <1>3, <1>4, <1>5

(* A slot written once keeps what it holds until it is written again, and  *)
(* a region keeps its table.                                               *)
LEMMA WriteSlotKeeps ==
  ASSUME IInv, NEW a \in Nat, NEW c \in Cell, WriteSlot(a, c)
  PROVE  /\ \A s \in Slots :
              Meta'[s] = IF s = SlotOf(a) THEN c ELSE Meta[s]
         /\ \A x \in Nat : Level2(x) # 0 \/ Idx1(x) = Idx1(a)
                             => BitypeLookupStart'[Idx1(x)] # 0
  <1>1. Meta' = [Meta EXCEPT ![SlotOf(a)] = c]
    BY WriteSlotInv DEF IInv
  <1>2. Meta \in [Slots -> Cell]
    BY MetaType DEF IInv
  <1>3. /\ BitypeLookupStart'[Idx1(a)] \in TableAddrs
        /\ \A i \in 0 .. L1_BITS - 1 :
             i # Idx1(a) => BitypeLookupStart'[i] = BitypeLookupStart[i]
    BY EnsureTableInv DEF IInv, WriteSlot
  <1>4. BitypeLookupStart'[Idx1(a)] # 0
    BY <1>3, TableBounds
  <1>. QED
    BY <1>1, <1>2, <1>3, <1>4, IndexRange DEF Level2

(* The handler moves on to an element it has yet to do, or ends.           *)
LEMMA NextElementMoves ==
  ASSUME IInv, ArrayProgress, call.op # "idle", NextElement
  PROVE  \/ call'.op = "idle"
         \/ call'.i = 0 /\ call'.i < call'.n
         \/ /\ call'.op = call.op /\ call'.this = call.this
            /\ call'.step = call.step /\ call'.ref = call.ref
            /\ call'.off = call.off /\ call'.n = call.n
            /\ call'.i = call.i + 1 /\ call'.i < call'.n
            /\ \A k \in 0 .. call'.i - 1 : k \in 0 .. call.i - 1 \/ k = call.i
  <1>1. /\ call \in [op : {"idle", "update", "erase"}, this : Nat,
                     ref : Refs \cup {NULL}, step : Nat, n : Nat,
                     off : Offsets, i : 0 .. UINT32 - 1]
        /\ call.i \in Nat /\ NextIndex \in Nat
        /\ NextIndex = call.i + 1 \/ NextIndex = 0
    BY NextIndexType DEF IInv, TypeOK
  <1>2. CASE ~(NextIndex < call.n)
    BY <1>2 DEF NextElement, Idle
  <1>3. CASE NextIndex < call.n
    BY <1>1, <1>3 DEF NextElement
  <1>. QED
    BY <1>2, <1>3

(* A counter at its start has no element behind it.                        *)
LEMMA NothingBehind ==
  ASSUME call'.i = 0, call'.i < call'.n
  PROVE  ArrayProgress'
  <1>1. 0 .. call'.i - 1 = {}
    OBVIOUS
  <1>. QED
    BY <1>1 DEF ArrayProgress

(* A handler that starts has no element behind it.                         *)
LEMMA StartProgress ==
  ASSUME NEW op, NEW this, NEW ref, NEW step, NEW n \in Nat, NEW offset,
         Start(op, this, ref, step, n, offset)
  PROVE  ArrayProgress'
  <1>1. CASE n = 0
    BY <1>1 DEF Start, Idle, ArrayProgress
  <1>2. CASE n # 0
    <2>1. call'.i = 0 /\ call'.n = n
      BY <1>2 DEF Start
    <2>2. call'.i < call'.n /\ 0 .. call'.i - 1 = {}
      BY <1>2, <2>1
    <2>. QED
      BY <2>2 DEF ArrayProgress
  <1>. QED
    BY <1>1, <1>2

LEMMA UpdateElementProgress ==
  ASSUME IInv, ArrayProgress, UpdateElement
  PROVE  ArrayProgress'
  <1> DEFINE c == [ref |-> call.ref, size |-> 0, off |-> call.off]
  <1>1. IInv' /\ (IInv' => \A k \in Nat : ElementDone(k)' <=> MetaDone(k)')
    <2>1. IInv'
      BY StepInv DEF Next
    <2>2. IInv' => (\A k \in Nat : ElementDone(k) <=> MetaDone(k))'
      BY DoneIsMetaDone, PTL
    <2>. QED
      BY <2>1, <2>2
  <1>2. /\ call.op = "update" /\ NextElement
        /\ call.i \in Nat /\ call.this \in Nat /\ call.step \in Nat
    BY NextIndexType DEF UpdateElement, IInv, TypeOK
  <1>3. ElementAddr = Element(call.i) /\ \A k \in Nat : Element(k) \in Nat
    BY <1>2, ElementAddrType DEF ElementAddr, Element
  <1>4. c \in Cell
    BY InputTypes DEF IInv, TypeOK, Cell
  <1>5. WriteSlot(Element(call.i), c)
    BY <1>3, UpdateElementWrites
  <1> HIDE DEF c
  <1>6. ASSUME NEW k \in 0 .. call.i
        PROVE  /\ Meta'[SlotOf(Element(k))] = c
               /\ BitypeLookupStart'[Idx1(Element(k))] # 0
    <2>1. k \in Nat /\ Element(k) \in Nat /\ SlotOf(Element(k)) \in Slots
      BY <1>2, <1>3, IndexRange
    <2>2. CASE k = call.i
      BY <1>2, <1>3, <1>4, <1>5, <2>1, <2>2, WriteSlotKeeps
    <2>3. CASE k # call.i
      <3>1. MetaDone(k)
        BY <1>2, <2>1, <2>3, DoneIsMetaDone DEF ArrayProgress
      <3>2. Meta[SlotOf(Element(k))] = c /\ Level2(Element(k)) # 0
        BY <1>2, <3>1 DEF MetaDone, c
      <3>. QED
        BY <1>2, <1>3, <1>4, <1>5, <2>1, <3>2, WriteSlotKeeps
    <2>. QED
      BY <2>2, <2>3
  <1>7. CASE call'.op = "idle"
    BY <1>7 DEF ArrayProgress
  <1>8. CASE /\ call'.op = call.op /\ call'.this = call.this
             /\ call'.step = call.step /\ call'.ref = call.ref
             /\ call'.off = call.off
             /\ call'.i = call.i + 1 /\ call'.i < call'.n
    <2>1. ASSUME NEW k \in 0 .. call'.i - 1
          PROVE  ElementDone(k)'
      <3>1. k \in 0 .. call.i /\ k \in Nat
        BY <1>2, <1>8, <2>1
      <3>2. Element(k)' = Element(k)
        BY <1>8 DEF Element
      <3>3. MetaDone(k)'
        BY <1>2, <1>6, <1>8, <3>1, <3>2 DEF MetaDone, Level2, c
      <3>. QED
        BY <1>1, <3>1, <3>3
    <2>. QED
      BY <1>8, <2>1 DEF ArrayProgress
  <1>9. call.op # "idle"
    BY <1>2
  <1>. QED
    BY <1>2, <1>7, <1>8, <1>9, NextElementMoves, NothingBehind

LEMMA EraseElementProgress ==
  ASSUME IInv, ArrayProgress, EraseElement
  PROVE  ArrayProgress'
  <1> DEFINE s == SlotOf(ElementAddr)
             c == [Meta[s] EXCEPT !.ref = NULL]
  <1>1. IInv' /\ (IInv' => \A k \in Nat : ElementDone(k)' <=> MetaDone(k)')
    <2>1. IInv'
      BY StepInv DEF Next
    <2>2. IInv' => (\A k \in Nat : ElementDone(k) <=> MetaDone(k))'
      BY DoneIsMetaDone, PTL
    <2>. QED
      BY <2>1, <2>2
  <1>2. /\ call.op = "erase" /\ NextElement
        /\ call.i \in Nat /\ call.this \in Nat /\ call.step \in Nat
    BY NextIndexType DEF EraseElement, IInv, TypeOK
  <1>3. ElementAddr = Element(call.i) /\ \A k \in Nat : Element(k) \in Nat
    BY <1>2, ElementAddrType DEF ElementAddr, Element
  <1>4. s \in Slots
    BY <1>2, <1>3, IndexRange
  <1>5. Meta \in [Slots -> Cell]
    BY MetaType DEF IInv
  <1>6. c \in Cell /\ c.ref = NULL
    BY <1>4, <1>5 DEF Cell
  <1>7. Meta'[s].ref = NULL
        /\ \A r \in Slots : Meta'[r] = Meta[r] \/ Meta'[r].ref = NULL
    <2>1. CASE WriteSlot(ElementAddr, c)
      BY ZenonT(60), <1>2, <1>3, <1>4, <1>6, <2>1, WriteSlotKeeps
    <2>2. CASE UNCHANGED <<tableVars, cell>>
      <3>1. Meta' = Meta
        BY <2>2 DEF Meta, tableVars
      <3>2. Meta[s].ref = NULL
        <4>1. CASE Level2(ElementAddr) = 0
          BY <1>2, <1>3, <4>1, IndexRange DEF Meta, Level2, ZeroCell
        <4>2. CASE Level2(ElementAddr) # 0
          <5>1. CellOf(ElementAddr) \in CellAddrs
            <6>1. ElementAddr \in Nat /\ Level2(ElementAddr) # 0
              BY <1>2, <1>3, <4>2
            <6>. QED
              BY <6>1, IndexRange, CellsDistinct DEF CellOf, IInv, TypeOK, Level2
          <5>2. cell'[CellOf(ElementAddr)].ref = NULL
            BY <4>2, <5>1 DEF EraseElement, IInv, TypeOK, Cell
          <5>3. Meta[s] = cell[CellOf(ElementAddr)]
            BY <1>2, <1>3, <4>2, IndexRange DEF Meta, Level2, CellOf
          <5>. QED
            BY <2>2, <5>2, <5>3
        <4>. QED
          BY <4>1, <4>2
      <3>. QED
        BY <3>1, <3>2
    <2>. QED
      BY <2>1, <2>2, EraseElementWrites
  <1>8. ASSUME NEW k \in 0 .. call.i
        PROVE  Meta'[SlotOf(Element(k))].ref = NULL
    <2>1. k \in Nat /\ SlotOf(Element(k)) \in Slots
      BY <1>2, <1>3, IndexRange
    <2>2. CASE k = call.i
      BY <1>3, <1>7, <2>2
    <2>3. CASE k # call.i
      <3>1. MetaDone(k)
        BY <1>2, <2>1, <2>3, DoneIsMetaDone DEF ArrayProgress
      <3>2. Meta[SlotOf(Element(k))].ref = NULL
        BY <1>2, <3>1 DEF MetaDone
      <3>. QED
        BY <1>7, <2>1, <3>2
    <2>. QED
      BY <2>2, <2>3
  <1>9. CASE call'.op = "idle"
    BY <1>9 DEF ArrayProgress
  <1>10. CASE /\ call'.op = call.op /\ call'.this = call.this
              /\ call'.step = call.step
              /\ call'.i = call.i + 1 /\ call'.i < call'.n
    <2>1. ASSUME NEW k \in 0 .. call'.i - 1
          PROVE  ElementDone(k)'
      <3>1. k \in 0 .. call.i /\ k \in Nat
        BY <1>2, <1>10, <2>1
      <3>2. Element(k)' = Element(k)
        BY <1>10 DEF Element
      <3>3. MetaDone(k)'
        BY <1>2, <1>8, <1>10, <3>1, <3>2 DEF MetaDone
      <3>. QED
        BY <1>1, <3>1, <3>3
    <2>. QED
      BY <1>10, <2>1 DEF ArrayProgress
  <1>. QED
    BY <1>2, <1>9, <1>10, NextElementMoves, NothingBehind

LEMMA StepProgress == IInv /\ ArrayProgress /\ [Next]_vars => ArrayProgress'
  <1> SUFFICES ASSUME IInv, ArrayProgress, [Next]_vars
               PROVE  ArrayProgress'
    OBVIOUS
  <1>1. call.op = "idle" /\ UNCHANGED call => ArrayProgress'
    BY DEF ArrayProgress
  <1>2. CASE Register
    <2>1. ASSUME NEW this \in Addr, NEW ref \in Refs, NEW offset \in Offsets,
                 NEW step \in TypeSizes, NEW n \in Sizes,
                 bitype_updateObjTrace(this, ref, step, n, offset)
          PROVE  ArrayProgress'
      BY <2>1, InputTypes, StartProgress DEF bitype_updateObjTrace
    <2>. QED
      BY <1>1, <1>2, <2>1 DEF Register, Running,
         bitype_direct_updateObjTrace, InlineUpdateObjTrace
  <1>3. CASE Annotate
    BY <1>1, <1>3 DEF Annotate, Running, bitype_update_arraySize,
                      bitype_handle_reinterpret_cast
  <1>4. CASE Erase
    <2>1. ASSUME NEW this \in Addr, NEW obj \in Addr, NEW step \in TypeSizes,
                 NEW n \in Counts, NEW heap \in BOOLEAN,
                 bitype_eraseObj(this, obj, step, n, heap)
          PROVE  ArrayProgress'
      <3> DEFINE sized == cell[CellOf(obj)].size
                 count == IF ~heap THEN n ELSE IF sized # 0 THEN sized ELSE 1
      <3>1. Start("erase", this, NULL, step, count, 0)
        BY <2>1 DEF bitype_eraseObj
      <3>2. heap => sized \in Nat
        <4> HAVE heap
        <4>1. obj \in Nat /\ Level2(obj) # 0
          BY <2>1, InputTypes DEF bitype_eraseObj
        <4>2. CellOf(obj) \in CellAddrs
          BY <4>1, IndexRange, CellsDistinct DEF CellOf, IInv, TypeOK, Level2
        <4>. QED
          BY <4>2, InputTypes DEF IInv, TypeOK, Cell
      <3>3. count \in Nat
        BY <3>2, InputTypes
      <3>. QED
        BY <3>1, <3>3, StartProgress
    <2>. QED
      BY <1>1, <1>4, <2>1 DEF Erase, Running, bitype_direct_eraseObj,
                              bitype_direct_eraseArraySize
  <1>5. CASE Cast
    BY <1>1, <1>5 DEF Cast, Running, bitype_cast_verification,
                      bitype_dynamic_cast_verification
  <1>6. CASE Report
    BY <1>1, <1>6 DEF Report, Running, bitype_print_type_confusion
  <1>7. CASE UpdateElement
    BY <1>7, UpdateElementProgress
  <1>8. CASE EraseElement
    BY <1>8, EraseElementProgress
  <1>9. CASE UNCHANGED <<tableVars, cell, call>>
    BY <1>9 DEF tableVars, ArrayProgress, ElementDone, Element, Level2, CellOf
  <1>10. OutOfMemory \/ UNCHANGED vars => UNCHANGED <<tableVars, cell, call>>
    BY DEF OutOfMemory, MapFailed, vars
  <1>. QED
    BY <1>2, <1>3, <1>4, <1>5, <1>6, <1>7, <1>8, <1>9, <1>10 DEF Next

(* Between two elements of an array, those behind the counter are done,    *)
(* even where elements share a slot or a product wraps (the loops of       *)
(* bitype_updateObjTrace and bitype_eraseObj, bitype.cpp:157 and 373).     *)
THEOREM ArrayProgressHolds == Spec => []ArrayProgress
  <1>1. Init => ArrayProgress
    BY DEF Init, Idle, ArrayProgress
  <1>. QED
    BY <1>1, InvariantHolds, StepProgress, PTL DEF Spec

-----------------------------------------------------------------------------
(* LookupTable implements TypeMap: every call of the runtime, and every    *)
(* step of an array handler, is one operation of the map or a stutter.     *)

(* The element in progress of an array registration has a code vector.     *)
CallRef == call.op = "update" => call.ref \in Refs

(* The names of TypeMap, instantiated, mean what LookupTable's mean.       *)
LEMMA MapNames ==
  /\ Map!Slots = Slots
  /\ \A a \in Nat : Map!SlotOf(a) = SlotOf(a)
  /\ Map!NoEntry = ZeroCell
  /\ Map!NoVerdict = NoVerdict
  BY DEF Map!Slots, Slots, Map!SlotOf, SlotOf, Map!Idx1, Idx1, Map!Idx2, Idx2,
         Map!NoEntry, ZeroCell, Map!NoVerdict, NoVerdict

(* The one-byte test (byte ^ mask) > byte reads the bit of the mask:       *)
(* it rejects exactly when the bit is clear (bitype.cpp:300-313).          *)
LEMMA RejectsBit ==
  ASSUME NEW byte \in Byte, NEW code \in Nat \ {0}
  PROVE  Rejects(byte, code) <=> (byte \div BitMask(code)) % 2 # 1
  <1>1. (code - 1) % 8 \in 0 .. 7
    OBVIOUS
  <1>2. ASSUME NEW k \in 0 .. 7
        PROVE  2^k \in {1, 2, 4, 8, 16, 32, 64, 128}
    <2>1. CASE k = 0
      BY <2>1
    <2>2. CASE k = 1
      BY <2>2
    <2>3. CASE k = 2
      BY <2>3
    <2>4. CASE k = 3
      BY <2>4
    <2>5. CASE k = 4
      BY <2>5
    <2>6. CASE k = 5
      BY <2>6
    <2>7. CASE k = 6
      BY <2>7
    <2>8. CASE k = 7
      BY <2>8
    <2>. QED
      BY <2>1, <2>2, <2>3, <2>4, <2>5, <2>6, <2>7, <2>8
  <1>3. BitMask(code) \in Nat \ {0}
    <2>1. BitMask(code) \in {1, 2, 4, 8, 16, 32, 64, 128}
      BY <1>1, <1>2, Zenon DEF BitMask
    <2>. QED
      BY <2>1
  <1>4. byte \in Int
    BY DEF Byte
  <1>. QED
    BY <1>3, <1>4 DEF Rejects, XorBit

-----------------------------------------------------------------------------
(* Steps.                                                                  *)

LEMMA MapInitial == Init => Map!MapInit
  <1> SUFFICES ASSUME Init
               PROVE  Map!MapInit
    OBVIOUS
  <1>1. Meta = [s \in Slots |-> ZeroCell]
    BY DEF Init, Meta, Slots
  <1>. QED
    BY <1>1, MapNames DEF Init, Map!MapInit

(* One slot written is one tracing operation of the map.                   *)
LEMMA WriteIsTrace ==
  ASSUME IInv, NEW a \in Nat, NEW c \in Cell, WriteSlot(a, c),
         UNCHANGED <<verdict, debugArray>>
  PROVE  /\ SlotOf(a) \in Map!Slots
         /\ Meta' = [Meta EXCEPT ![SlotOf(a)] = c]
         /\ c = Meta[SlotOf(a)] => UNCHANGED Map!mapVars
  <1>1. /\ Meta' = [Meta EXCEPT ![SlotOf(a)] = c]
        /\ SlotOf(a) \in Slots
        /\ Meta \in [Slots -> Cell]
    BY WriteSlotInv, IndexRange, MetaType DEF IInv
  <1>. QED
    BY <1>1, MapNames DEF Map!mapVars

LEMMA RegisterStep ==
  ASSUME IInv, Register
  PROVE  Map!Trace \/ UNCHANGED Map!mapVars
  <1>1. PICK this \in Addr, ref \in Refs, offset \in Offsets :
          \/ bitype_direct_updateObjTrace(this, ref, offset)
               \/ InlineUpdateObjTrace(this, ref, offset)
          \/ \E step \in TypeSizes, n \in Sizes :
               bitype_updateObjTrace(this, ref, step, n, offset)
    BY DEF Register
  <1>2. CASE \/ bitype_direct_updateObjTrace(this, ref, offset)
             \/ InlineUpdateObjTrace(this, ref, offset)
    <2>1. PICK n \in {0, 1} :
            WriteSlot(this, [ref |-> ref, size |-> n, off |-> offset])
      BY <1>2, RegisterWrites
    <2>2. UNCHANGED <<verdict, debugArray>>
      BY <1>2 DEF bitype_direct_updateObjTrace, InlineUpdateObjTrace
    <2>3. [ref |-> ref, size |-> n, off |-> offset] \in Cell
      BY InputTypes DEF Cell
    <2>4. /\ SlotOf(this) \in Map!Slots
          /\ Map!Register(SlotOf(this), ref, n, offset)
      BY <2>1, <2>2, <2>3, WriteIsTrace, InputTypes DEF Map!Register
    <2>. QED
      BY <2>2, <2>4 DEF Map!Trace
  <1>3. CASE \E step \in TypeSizes, n \in Sizes :
               bitype_updateObjTrace(this, ref, step, n, offset)
    BY <1>3 DEF bitype_updateObjTrace, Map!mapVars, Meta, tableVars
  <1>. QED
    BY <1>1, <1>2, <1>3

LEMMA AnnotateStep ==
  ASSUME IInv, Annotate
  PROVE  Map!Trace \/ UNCHANGED Map!mapVars
  <1>1. UNCHANGED <<verdict, debugArray>>
    BY DEF Annotate, bitype_update_arraySize, bitype_handle_reinterpret_cast
  <1>2. Addr \subseteq Nat /\ Meta \in [Slots -> Cell]
    BY InputTypes, MetaType DEF IInv
  <1>3. ASSUME NEW this \in Addr, NEW n \in Sizes,
               bitype_update_arraySize(this, n)
        PROVE  Map!Trace
    <2> DEFINE s == SlotOf(this)
               c == [Meta[s] EXCEPT !.size = n]
    <2>1. WriteSlot(this, c)
      BY <1>3, ArraySizeWrites
    <2>2. c \in Cell
      BY <1>2, IndexRange DEF Cell
    <2>3. s \in Map!Slots /\ Map!SetArraySize(s, n)
      BY <1>1, <1>2, <2>1, <2>2, WriteIsTrace DEF Map!SetArraySize
    <2>. QED
      BY <1>1, <2>3 DEF Map!Trace
  <1>4. ASSUME NEW this \in Addr, NEW ref \in Refs,
               bitype_handle_reinterpret_cast(this, ref)
        PROVE  Map!Trace \/ UNCHANGED Map!mapVars
    <2> DEFINE s == SlotOf(this)
               c == [ref |-> ref, size |-> 0, off |-> -1]
    <2>1. \/ /\ Meta[s].ref = NULL \/ Meta[s].off = -1
             /\ WriteSlot(this, c)
          \/ WriteSlot(this, Meta[s])
      BY <1>4, ReinterpretWrites
    <2>2. c \in Cell /\ Meta[s] \in Cell
      BY <1>2, IndexRange, InputTypes DEF Cell
    <2>3. CASE /\ Meta[s].ref = NULL \/ Meta[s].off = -1
               /\ WriteSlot(this, c)
      <3>1. s \in Map!Slots /\ Map!Reinterpret(s, ref)
        BY <1>1, <1>2, <2>2, <2>3, WriteIsTrace DEF Map!Reinterpret, Map!Register
      <3>. QED
        BY <1>1, <3>1 DEF Map!Trace
    <2>4. CASE WriteSlot(this, Meta[s])
      BY <1>1, <1>2, <2>2, <2>4, WriteIsTrace
    <2>. QED
      BY <2>1, <2>3, <2>4
  <1>. QED
    BY <1>3, <1>4 DEF Annotate

LEMMA EraseStep ==
  ASSUME IInv, Erase
  PROVE  Map!Trace \/ UNCHANGED Map!mapVars
  <1>1. UNCHANGED <<verdict, debugArray>>
    BY DEF Erase, bitype_direct_eraseObj, bitype_direct_eraseArraySize,
           bitype_eraseObj
  <1>2. Addr \subseteq Nat /\ Meta \in [Slots -> Cell]
    BY InputTypes, MetaType DEF IInv
  <1>3. ASSUME NEW this \in Addr, bitype_direct_eraseObj(this)
        PROVE  Map!Trace
    <2>1. WriteSlot(this, ZeroCell)
      BY <1>3, DirectEraseWrites
    <2>2. ZeroCell \in Cell
      BY InputTypes DEF ZeroCell, Cell
    <2>3. SlotOf(this) \in Map!Slots /\ Map!Forget(SlotOf(this))
      BY <1>1, <1>2, <2>1, <2>2, WriteIsTrace, MapNames DEF Map!Forget
    <2>. QED
      BY <1>1, <2>3 DEF Map!Trace
  <1>4. ASSUME NEW this \in Addr, bitype_direct_eraseArraySize(this)
        PROVE  Map!Trace
    <2> DEFINE s == SlotOf(this)
               c == [Meta[s] EXCEPT !.size = 0, !.off = 0]
    <2>1. WriteSlot(this, c)
      BY <1>4, DirectEraseWrites
    <2>2. c \in Cell
      <3>1. Meta[s] \in Cell
        BY <1>2, IndexRange
      <3>. QED
        BY <3>1, InputTypes DEF Cell
    <2>3. s \in Map!Slots /\ Map!ForgetSize(s)
      BY <1>1, <1>2, <2>1, <2>2, WriteIsTrace DEF Map!ForgetSize
    <2>. QED
      BY <1>1, <2>3 DEF Map!Trace
  <1>5. ASSUME NEW this \in Addr, NEW obj \in Addr, NEW step \in TypeSizes,
               NEW n \in Counts, NEW heap \in BOOLEAN,
               bitype_eraseObj(this, obj, step, n, heap)
        PROVE  UNCHANGED Map!mapVars
    BY <1>5 DEF bitype_eraseObj, Map!mapVars, Meta, tableVars
  <1>. QED
    BY <1>3, <1>4, <1>5 DEF Erase

LEMMA ElementStep ==
  ASSUME IInv, CallRef, UpdateElement \/ EraseElement
  PROVE  Map!Trace \/ UNCHANGED Map!mapVars
  <1> DEFINE a == ElementAddr
             s == SlotOf(a)
  <1>1. UNCHANGED <<verdict, debugArray>>
    BY DEF UpdateElement, EraseElement
  <1>2. a \in Nat /\ Meta \in [Slots -> Cell]
    BY ElementType, MetaType DEF IInv
  <1>3. CASE UpdateElement
    <2> DEFINE c == [ref |-> call.ref, size |-> 0, off |-> call.off]
    <2>1. WriteSlot(a, c)
      BY <1>3, UpdateElementWrites
    <2>2. call.ref \in Refs /\ call.off \in Offsets
      BY <1>3 DEF IInv, TypeOK, CallRef, UpdateElement
    <2>3. c \in Cell
      BY <2>2, InputTypes DEF Cell
    <2>4. s \in Map!Slots /\ Map!Register(s, call.ref, 0, call.off)
      BY <1>1, <1>2, <2>1, <2>3, WriteIsTrace DEF Map!Register
    <2>. QED
      BY <1>1, <2>2, <2>4 DEF Map!Trace
  <1>4. CASE EraseElement
    <2> DEFINE c == [Meta[s] EXCEPT !.ref = NULL]
    <2>1. UNCHANGED <<tableVars, cell>> \/ WriteSlot(a, c)
      BY <1>4, EraseElementWrites
    <2>2. CASE UNCHANGED <<tableVars, cell>>
      BY <1>1, <2>2 DEF Map!mapVars, Meta, tableVars
    <2>3. CASE WriteSlot(a, c)
      <3>1. c \in Cell
        BY <1>2, IndexRange DEF Cell
      <3>2. s \in Map!Slots /\ Map!ForgetRef(s)
        BY <1>1, <1>2, <2>3, <3>1, WriteIsTrace DEF Map!ForgetRef
      <3>. QED
        BY <1>1, <3>2 DEF Map!Trace
    <2>. QED
      BY <2>1, <2>2, <2>3
  <1>. QED
    BY <1>3, <1>4
(* The runtime's verdict is one the entries allow: reading the tables is   *)
(* reading the map.                                                        *)
LEMMA VerdictAllowed ==
  ASSUME IInv, NEW source \in Addr, NEW this \in Addr, NEW code \in Codes,
         NEW v \in bitype_verify_cast(source, this, code)
  PROVE  v \in Map!Allowed(source, this, code)
  <1>1. \A a \in Nat : /\ SlotOf(a) \in Slots
                       /\ SlotOf(a)[1] = Idx1(a) /\ SlotOf(a)[2] = Idx2(a)
                       /\ WordOf(a) = 2 * Idx2(a)
                       /\ Map!SlotOf(a) = SlotOf(a)
    BY IndexRange, MapNames
  <1>2. ASSUME NEW a \in Nat
        PROVE  Meta[SlotOf(a)] = IF Level2(a) = 0 THEN ZeroCell ELSE cell[CellOf(a)]
    BY <1>1 DEF Meta, Level2, CellOf
  <1>3. source \in Nat /\ this \in Nat /\ code \in Nat \ {0}
    BY InputTypes
  <1>4. /\ Found(source) <=> Map!Tracks(source)
        /\ Found(this) <=> Map!Tracks(this)
    BY <1>1, <1>2, <1>3 DEF Found, Map!Tracks, ZeroCell
  <1>5. Found(source) =>
          (BelowObject(source, this) <=> Map!OutOfObject(source, this))
    BY <1>1, <1>2, <1>3 DEF Found, BelowObject, Map!OutOfObject
  <1>6. CASE source = 0 \/ ~Found(source)
    BY <1>4, <1>6 DEF bitype_verify_cast, Map!Allowed, Map!Outcomes
  <1>7. CASE /\ source # 0 /\ Found(source) /\ source # this
             /\ BelowObject(source, this) \/ ~Found(this)
    BY <1>4, <1>5, <1>7 DEF bitype_verify_cast, Map!Allowed, Map!Outcomes
  <1>8. CASE /\ source # 0 /\ Found(source) /\ Found(this)
             /\ source # this => ~BelowObject(source, this)
    <2> DEFINE vector == Vector[cell[CellOf(this)].ref]
    <2>1. Map!VectorAt(this) = vector
      BY <1>1, <1>2, <1>3, <1>8 DEF Map!VectorAt, Found
    <2>2. /\ Map!Covers(vector, code) <=> Covers(vector, code)
          /\ Map!InSafeSet(vector, code) <=> InSafeSet(vector, code)
      BY DEF Map!Covers, Covers, Map!InSafeSet, InSafeSet, Map!HeaderBytes,
             HeaderBytes, Map!ByteIndex, ByteIndex, Map!BitMask, BitMask
    <2>3. PICK byte \in ByteAt(vector, code) :
            v = IF Rejects(byte, code) THEN "confusion" ELSE "ok"
      BY <1>8 DEF bitype_verify_cast
    <2>4. this \in Nat /\ cell[CellOf(this)].ref \in Refs
      <3>1. Meta[SlotOf(this)] \in Cell
        BY <1>1, <1>3, MetaType DEF IInv
      <3>. QED
        BY <1>2, <1>3, <1>8, <3>1 DEF Found, Cell
    <2>5. byte \in Byte
      BY <2>3, <2>4, TableAssumption DEF ByteAt, Covers
    <2>6. v = "ok" => (Covers(vector, code) => InSafeSet(vector, code))
      BY <1>3, <2>3, <2>5, RejectsBit DEF ByteAt, InSafeSet
    <2>7. v = "confusion" => ~InSafeSet(vector, code)
      BY <1>3, <2>3, <2>5, RejectsBit DEF ByteAt, InSafeSet
    <2>. QED
      BY <1>4, <1>5, <1>8, <2>1, <2>2, <2>3, <2>6, <2>7
         DEF Map!Allowed, Map!Outcomes
  <1>. QED
    BY <1>6, <1>7, <1>8

LEMMA CastStep ==
  ASSUME IInv, Cast
  PROVE  Map!Verify
  <1>1. PICK source \in Addr, this \in Addr, code \in Codes,
             debug \in Sites \cup {-1} :
          bitype_cast_verification(source, this, code, debug)
    BY DEF Cast, bitype_dynamic_cast_verification
  <1>2. PICK v \in bitype_verify_cast(source, this, code) :
          /\ verdict' = [source |-> source, target |-> this, code |-> code,
                         outcome |-> v]
          /\ IF v = "confusion" THEN print_confusion_inline(debug)
                                ELSE UNCHANGED debugArray
    BY <1>1 DEF bitype_cast_verification
  <1>3. v \in Map!Allowed(source, this, code)
    BY <1>2, VerdictAllowed
  <1>4. UNCHANGED Meta
    BY <1>1 DEF bitype_cast_verification, Meta, tableVars
  <1>. QED
    BY <1>2, <1>3, <1>4 DEF Map!Verify, Map!ReportOnly, print_confusion_inline

LEMMA CallRefStep ==
  ASSUME IInv, CallRef, [Next]_vars
  PROVE  CallRef'
  <1>1. NextElement => CallRef'
    BY DEF IInv, TypeOK, CallRef, NextElement, Idle
  <1>2. CASE Register
    BY <1>2 DEF Register, bitype_direct_updateObjTrace, InlineUpdateObjTrace,
                bitype_updateObjTrace, Start, Idle, CallRef
  <1>3. CASE Annotate
    BY <1>3 DEF Annotate, bitype_update_arraySize,
                bitype_handle_reinterpret_cast, CallRef
  <1>4. CASE Erase
    BY <1>4 DEF Erase, bitype_direct_eraseObj, bitype_direct_eraseArraySize,
                bitype_eraseObj, Start, Idle, CallRef
  <1>5. CASE Cast
    BY <1>5 DEF Cast, bitype_cast_verification,
                bitype_dynamic_cast_verification, CallRef
  <1>6. CASE UpdateElement \/ EraseElement
    BY <1>1, <1>6 DEF UpdateElement, EraseElement
  <1>7. CASE Report \/ OutOfMemory \/ UNCHANGED vars
    BY <1>7 DEF Report, bitype_print_type_confusion, OutOfMemory, MapFailed,
                vars, CallRef
  <1>. QED
    BY <1>2, <1>3, <1>4, <1>5, <1>6, <1>7 DEF Next

(* Every step of the runtime is a step of the map, or changes nothing the  *)
(* map can see.                                                            *)
LEMMA MapStep ==
  ASSUME IInv, CallRef, [Next]_vars
  PROVE  [Map!MapNext]_(Map!mapVars)
  <1>1. CASE Register
    BY <1>1, RegisterStep DEF Map!MapNext
  <1>2. CASE Annotate
    BY <1>2, AnnotateStep DEF Map!MapNext
  <1>3. CASE Erase
    BY <1>3, EraseStep DEF Map!MapNext
  <1>4. CASE Cast
    BY <1>4, CastStep DEF Map!MapNext
  <1>5. CASE Report
    <2>1. PICK debug \in Sites : bitype_print_type_confusion(debug)
      BY <1>5 DEF Report
    <2>2. UNCHANGED Meta
      BY <2>1 DEF bitype_print_type_confusion, Meta, tableVars
    <2>3. Map!Report
      BY <2>1, <2>2 DEF bitype_print_type_confusion, print_confusion_inline,
                        Map!Report, Map!ReportOnly
    <2>. QED
      BY <2>3 DEF Map!MapNext
  <1>6. CASE UpdateElement \/ EraseElement
    BY <1>6, ElementStep DEF Map!MapNext
  <1>7. CASE OutOfMemory \/ UNCHANGED vars
    BY <1>7 DEF OutOfMemory, MapFailed, vars, tableVars, Map!mapVars, Meta
  <1>. QED
    BY <1>1, <1>2, <1>3, <1>4, <1>5, <1>6, <1>7 DEF Next

(* Every call performs the operation of the map it stands for, at the slot *)
(* of its own address.                                                     *)
LEMMA OwnEntryStep ==
  ASSUME IInv
  PROVE  OwnEntry
  <1>0. Addr \subseteq Nat /\ Meta \in [Slots -> Cell]
    BY InputTypes, MetaType DEF IInv
  <1>1. ASSUME NEW a \in Nat, NEW c \in Cell, WriteSlot(a, c)
        PROVE  Meta' = [Meta EXCEPT ![SlotOf(a)] = c]
    BY <1>1, WriteSlotInv DEF IInv
  <1>2. ASSUME NEW a \in Nat
        PROVE  SlotOf(a) \in Slots /\ Meta[SlotOf(a)] \in Cell
    BY <1>0, IndexRange
  <1>3. ASSUME NEW this \in Addr, NEW ref \in Refs, NEW offset \in Offsets
        PROVE  /\ bitype_direct_updateObjTrace(this, ref, offset)
                    => Map!Register(SlotOf(this), ref, 0, offset)
               /\ InlineUpdateObjTrace(this, ref, offset)
                    => \E n \in {0, 1} : Map!Register(SlotOf(this), ref, n, offset)
    <2>1. \A n \in {0, 1} : [ref |-> ref, size |-> n, off |-> offset] \in Cell
      BY InputTypes DEF Cell
    <2>2. ASSUME NEW n \in {0, 1},
                 WriteSlot(this, [ref |-> ref, size |-> n, off |-> offset])
          PROVE  Map!Register(SlotOf(this), ref, n, offset)
      BY <1>0, <1>1, <2>1, <2>2 DEF Map!Register
    <2>. QED
      BY <2>2, RegisterWrites
  <1>4. ASSUME NEW this \in Addr, NEW n \in Sizes,
               bitype_update_arraySize(this, n)
        PROVE  Map!SetArraySize(SlotOf(this), n)
    <2> DEFINE c == [Meta[SlotOf(this)] EXCEPT !.size = n]
    <2>1. WriteSlot(this, c)
      BY <1>4, ArraySizeWrites
    <2>2. c \in Cell
      BY <1>0, <1>2 DEF Cell
    <2>. QED
      BY <1>0, <1>1, <2>1, <2>2 DEF Map!SetArraySize
  <1>5. ASSUME NEW this \in Addr, NEW ref \in Refs,
               bitype_handle_reinterpret_cast(this, ref)
        PROVE  \/ Map!Reinterpret(SlotOf(this), ref)
               \/ /\ Meta[SlotOf(this)].ref # NULL
                  /\ Meta[SlotOf(this)].off # -1
                  /\ UNCHANGED Meta
    <2> DEFINE s == SlotOf(this)
               c == [ref |-> ref, size |-> 0, off |-> -1]
    <2>1. CASE (Meta[s].ref = NULL \/ Meta[s].off = -1) /\ WriteSlot(this, c)
      <3>1. c \in Cell
        BY InputTypes DEF Cell
      <3>. QED
        BY <1>0, <1>1, <2>1, <3>1 DEF Map!Reinterpret, Map!Register
    <2>2. CASE /\ Meta[s].ref # NULL /\ Meta[s].off # -1
               /\ WriteSlot(this, Meta[s])
      <3>1. s \in Slots /\ Meta[s] \in Cell /\ this \in Nat
        BY <1>0, <1>2
      <3>2. Meta' = [Meta EXCEPT ![s] = Meta[s]]
        BY <1>1, <2>2, <3>1
      <3>. QED
        BY <1>0, <2>2, <3>1, <3>2
    <2>. QED
      BY <1>5, <2>1, <2>2, ReinterpretWrites
  <1>6. ASSUME NEW this \in Addr
        PROVE  /\ bitype_direct_eraseObj(this) => Map!Forget(SlotOf(this))
               /\ bitype_direct_eraseArraySize(this) => Map!ForgetSize(SlotOf(this))
    <2> DEFINE c == [Meta[SlotOf(this)] EXCEPT !.size = 0, !.off = 0]
    <2>1. ZeroCell \in Cell /\ this \in Nat
      BY <1>0, InputTypes DEF ZeroCell, Cell
    <2>2. c \in Cell
      BY <1>2, <2>1, InputTypes DEF Cell
    <2>3. bitype_direct_eraseObj(this) => Map!Forget(SlotOf(this))
      BY <1>1, <2>1, DirectEraseWrites, MapNames DEF Map!Forget
    <2>4. bitype_direct_eraseArraySize(this) => Map!ForgetSize(SlotOf(this))
      <3>1. bitype_direct_eraseArraySize(this) => WriteSlot(this, c)
        BY DirectEraseWrites
      <3>. QED
        BY <1>1, <2>1, <2>2, <3>1 DEF Map!ForgetSize
    <2>. QED
      BY <2>3, <2>4
  <1> DEFINE a == ElementAddr
             s == SlotOf(a)
  <1>7. a = Element(call.i) /\ a \in Nat
    BY ElementType DEF IInv, ElementAddr
  <1>8. ASSUME UpdateElement
        PROVE  Map!Register(SlotOf(Element(call.i)), call.ref, 0, call.off)
    <2> DEFINE c == [ref |-> call.ref, size |-> 0, off |-> call.off]
    <2>1. c \in Cell
      BY InputTypes DEF IInv, TypeOK, Cell
    <2>2. WriteSlot(a, c)
      BY <1>8, UpdateElementWrites
    <2>. QED
      BY <1>1, <1>7, <2>1, <2>2 DEF Map!Register
  <1>9. ASSUME EraseElement
        PROVE  Map!ForgetRef(SlotOf(Element(call.i)))
    <2> DEFINE c == [Meta[s] EXCEPT !.ref = NULL]
    <2>0. s \in Slots /\ Meta[s] \in Cell
      BY <1>2, <1>7
    <2>1. c \in Cell
      BY <2>0 DEF Cell
    <2>2. CASE WriteSlot(a, c)
      BY <1>1, <1>7, <2>1, <2>2 DEF Map!ForgetRef
    <2>3. CASE Level2(a) = 0 /\ UNCHANGED <<tableVars, cell>>
      <3>1. Meta' = Meta
        BY <2>3 DEF Meta, tableVars
      <3>2. Meta[s] = ZeroCell
        BY <1>7, <2>0, <2>3, IndexRange DEF Meta, Level2
      <3>3. c = Meta[s]
        BY <3>2 DEF ZeroCell
      <3>4. [Meta EXCEPT ![s] = c] = Meta
        BY <1>0, <2>0, <3>3
      <3>. QED
        BY <1>7, <3>1, <3>4 DEF Map!ForgetRef
    <2>. QED
      BY <1>9, <2>2, <2>3, EraseElementWrites
  <1>. QED
    BY <1>3, <1>4, <1>5, <1>6, <1>8, <1>9 DEF OwnEntry

(* The two-level table implements the map from slots to entries, each call *)
(* at the slot of its own address and at no other, whatever the geometry,  *)
(* the addresses mmap answers and the calls of the program (all entry      *)
(* points of bitype.cpp:80-467).                                           *)
THEOREM Refinement == Spec => ImplementsMap
  <1>1. Init => CallRef
    BY DEF Init, Idle, CallRef
  <1>2. Spec => []CallRef
    BY <1>1, CallRefStep, InvariantHolds, PTL DEF Spec
  <1>. QED
    BY <1>2, InvariantHolds, MapInitial, MapStep, OwnEntryStep, PTL
       DEF Spec, ImplementsMap, Map!MapSpec
=============================================================================

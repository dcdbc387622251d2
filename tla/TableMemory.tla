----------------------------- MODULE TableMemory -----------------------------
(***************************************************************************)
(* The memory second-level tables live in: chunks that mmap returns, each  *)
(* cut into BitypePageNum tables of Stride words.  Pointers are word       *)
(* addresses, 0 is NULL; the two words of a slot are one cell, kept at the *)
(* address of the first.  Code: bitype.cpp:22-25 and 57-75.                *)
(***************************************************************************)
EXTENDS LookupAddress

CONSTANTS
  BitypePageNum,  (* Second-level tables per chunk, 10 in the code.        *)
  ChunkBases,     (* Word addresses mmap may return.                       *)
  FirstChunk      (* The chunk the initialisation maps.                    *)

Stride            == L2_BITS * 2
mmap_words        == L2_BITS * BitypePageNum * 2
added_memory_size == L2_BITS * BitypePageNum * 2

(* What mmap guarantees: mappings are never at address 0 and never overlap. *)
ASSUME MmapAssumption ==
  /\ BitypePageNum \in Nat \ {0}
  /\ ChunkBases \subseteq Nat \ {0}
  /\ FirstChunk \in ChunkBases
  /\ \A b, c \in ChunkBases : b < c => b + mmap_words <= c

TableAddrs == {b + m * Stride : b \in ChunkBases, m \in 0 .. BitypePageNum - 1}
CellAddrs  == {t + 2 * j : t \in TableAddrs, j \in 0 .. L2_BITS - 1}
=============================================================================

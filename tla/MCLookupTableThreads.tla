------------------------- MODULE MCLookupTableThreads -------------------------
(***************************************************************************)
(* Two threads, two regions of two slots, chunks of one table, room for    *)
(* two chunks.  Addresses 0 and 8 are two slots of one region and 16 is in *)
(* another, so threads can miss the same table, different tables, or share *)
(* a table without sharing a slot; the second table needs an mmap and a    *)
(* third, which only a race asks for, finds none left.  The threads are    *)
(* interchangeable; the run for CallsReturn keeps them apart.              *)
(***************************************************************************)
EXTENDS LookupTableThreads, TLC

CONSTANTS t1, t2, base

Symmetry == Permutations(Threads)
=============================================================================

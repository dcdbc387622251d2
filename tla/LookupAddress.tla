---------------------------- MODULE LookupAddress ----------------------------
(***************************************************************************)
(* How the runtime splits a program address: the first-level index, the    *)
(* slot of the second-level table, and the two words a slot occupies       *)
(* there.  Code: bitype.h:4-8 and the index computations that open every   *)
(* entry point of bitype.cpp.                                              *)
(***************************************************************************)
EXTENDS Integers

CONSTANTS
  L1_BITS,  (* Entries of the first-level table, 2^22 in the code.         *)
  L2_BITS,  (* Slots of one second-level table, 2^23 in the code.          *)
  L2_NUM    (* Shift that selects the first-level index, 26 in the code.   *)

(* The shift drops exactly the three alignment bits and the slot bits:     *)
(* 2^26 = 8 * 2^23.  Otherwise slots of two regions would collide.         *)
ASSUME AddressAssumption ==
  /\ L1_BITS \in Nat \ {0}
  /\ L2_BITS \in Nat \ {0}
  /\ 2^L2_NUM = 8 * L2_BITS

(* addr >> L2_NUM & L1_MASK *)
Idx1(addr) == (addr \div 2^L2_NUM) % L1_BITS

(* Faulty: the mask is missing.                                            *)
Idx2Unmasked(addr) == addr \div 8

(* addr >> 3 & L2_MASK: all addresses of one aligned 8-byte word share it. *)
Idx2(addr) == (addr \div 8) % L2_BITS

(* The index idx2 << 1 of the slot's first word: its code vector.          *)
WordOf(addr) == 2 * Idx2(addr)

Slots == (0 .. L1_BITS - 1) \X (0 .. L2_BITS - 1)

SlotOf(addr) == <<Idx1(addr), Idx2(addr)>>
=============================================================================

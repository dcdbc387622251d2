---------------------------- MODULE MCLookupTable ----------------------------
(***************************************************************************)
(* Two small runtimes.                                                     *)
(*   LookupTable.cfg: three regions of two slots, chunks of two tables and *)
(*   room for two chunks, so that the third region touched forces a second *)
(*   mmap; arrays of two elements reach from one region into the next.     *)
(*   The 32-bit product wraps after two elements, and an array of 32       *)
(*   elements that is no heap object has more than the counter can count.  *)
(*   LookupCast.cfg: one-slot tables, two addresses in two regions and the *)
(*   code vectors of two classes of one family.  base (code 1) may be cast *)
(*   to itself, derived (code 2) to both; a vector has one byte of code    *)
(*   bits, so code 9 asks for a byte past its end.                         *)
(***************************************************************************)
EXTENDS LookupTable

CONSTANTS base, derived

MCVector ==
  [r \in Refs |-> [i \in 0 .. 2 |-> IF i < 2 THEN 0
                                    ELSE IF r = base THEN 1 ELSE 3]]

TableOffsets == {-1, 0}
CastOffsets  == {-1, 0, 8}
CastSites    == {7}
=============================================================================

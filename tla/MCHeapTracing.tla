---------------------------- MODULE MCHeapTracing ----------------------------
(***************************************************************************)
(* A heap of four words.  A node is one tracked word; a pair is a tracked  *)
(* class of two words whose second word is a tracked member; raw memory is *)
(* not tracked.                                                            *)
(***************************************************************************)
EXTENDS HeapTracing, TLC

CONSTANTS t1, t2, node, pair, raw, nodeCodes, pairCodes

MCSize == [y \in Types |-> IF y = pair THEN 2 ELSE 1]

MCElements ==
  [y \in Types |-> CASE y = node -> << <<0, nodeCodes>> >>
                     [] y = pair -> << <<0, pairCodes>>, <<1, nodeCodes>> >>
                     [] y = raw  -> <<>>]

Symmetry == Permutations(Threads)

(* HeapExact says nothing once unhandled holds: explore no further.        *)
Handled == ~unhandled
=============================================================================

--------------------------- MODULE MCClangTracing ----------------------------
(***************************************************************************)
(* The heap of MCHeapTracing with a field: of its two words only the       *)
(* second is tracked.  The second member of a pair is of a class too small *)
(* for the handles of Clang; so is one of the two classes a field has in   *)
(* its tracked word, and the handles know the other one alone.             *)
(***************************************************************************)
EXTENDS ClangTracing, TLC

CONSTANTS t1, pair, field, raw, nodeCodes, pairCodes, fieldCodes

MCSize == [y \in Types |-> IF y = raw THEN 1 ELSE 2]

MCElements ==
  [y \in Types |-> CASE y = pair -> << <<0, pairCodes>>, <<1, nodeCodes>> >>
                     [] y = field -> << <<1, fieldCodes>> >>
                     [] y = raw  -> <<>>]

MCExtended ==
  [y \in Types |-> CASE y = pair -> << <<0, pairCodes>> >>
                     [] y = field -> << <<1, nodeCodes>> >>
                     [] y = raw  -> <<>>]

(* What the pass does not handle, and what Clang announces, apart.         *)
Apart ==
  unhandled => placed = {} /\ left = {} /\ \A w \in Words : meta[w].off # -1
=============================================================================

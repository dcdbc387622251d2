---------------------------- MODULE MCCastElision ----------------------------
(***************************************************************************)
(* Two pointer variables and three stores: a variable that gets its value  *)
(* from the other one, and circles.  The compiler's stack has room for     *)
(* more calls than there are variables.                                    *)
(***************************************************************************)
EXTENDS CastElision

CONSTANTS p, q

SmallValues ==
  {[kind |-> "object"], Element, Foreign, [kind |-> "address", of |-> q]}
    \cup [kind : {"load"}, of : {p, q}]
=============================================================================

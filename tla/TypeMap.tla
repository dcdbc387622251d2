------------------------------- MODULE TypeMap -------------------------------
(***************************************************************************)
(* What the Bitype runtime promises: one metadata entry for every slot of  *)
(* the address space, written by the tracing calls of that slot and by     *)
(* nothing else, and cast verdicts that depend on those entries alone.     *)
(* There is no table, no allocation and no pointer here: LookupTable       *)
(* implements this specification.  The constants are those of LookupTable, *)
(* which states the assumptions on them.                                   *)
(***************************************************************************)
EXTENDS LookupAddress, SafeSetCode

CONSTANTS
  Refs,     (* The code vectors the compiler emitted (global arrays).      *)
  NULL,     (* No code vector.                                             *)
  Vector,   (* The bytes of each code vector.                              *)
  Addr,     (* Pointers the instrumented program passes to the runtime.    *)
  Sizes,    (* Array sizes it passes.                                      *)
  Offsets,  (* Offsets of a tracked type within an object.                 *)
  Codes,    (* Class codes of its cast sites.                              *)
  Sites     (* Debug indexes of its cast sites; -1 is a site without one.  *)

VARIABLES
  meta,     (* The entry of every slot.                                    *)
  verdict,  (* The last verification and its outcome.                      *)
  reported  (* debugArray: the cast sites already reported.                *)

mapVars == <<meta, verdict, reported>>

Outcomes  == {"null", "miss", "ok", "confusion"}
NoVerdict == [source |-> 0, target |-> 0, code |-> 0, outcome |-> "none"]

Entry    == [ref : Refs \cup {NULL}, size : Sizes, off : Offsets]
NoEntry  == [ref |-> NULL, size |-> 0, off |-> 0]

MapInit ==
  /\ meta = [s \in Slots |-> NoEntry]
  /\ verdict = NoVerdict
  /\ reported = {}

(***************************************************************************)
(* Tracing: every operation writes the entry of one slot.                  *)
(***************************************************************************)
Register(s, r, n, o) ==
  meta' = [meta EXCEPT ![s] = [ref |-> r, size |-> n, off |-> o]]

SetArraySize(s, n) == meta' = [meta EXCEPT ![s].size = n]

Forget(s) == meta' = [meta EXCEPT ![s] = NoEntry]

ForgetRef(s) == meta' = [meta EXCEPT ![s].ref = NULL]

ForgetSize(s) == meta' = [meta EXCEPT ![s].size = 0, ![s].off = 0]

(* A reinterpret_cast names the type of memory nobody registered, or       *)
(* renames memory an earlier reinterpret_cast named.                       *)
Reinterpret(s, r) ==
  /\ meta[s].ref = NULL \/ meta[s].off = -1
  /\ Register(s, r, 0, -1)

Trace ==
  /\ UNCHANGED <<verdict, reported>>
  /\ \E s \in Slots :
        \/ Forget(s) \/ ForgetRef(s) \/ ForgetSize(s)
        \/ \E n \in Sizes : SetArraySize(s, n)
        \/ \E r \in Refs : Reinterpret(s, r)
        \/ \E r \in Refs, n \in {0, 1}, o \in Offsets : Register(s, r, n, o)

(***************************************************************************)
(* Verification of a cast of source, adjusted to target, to the class with *)
(* the given code.                                                         *)
(***************************************************************************)
Tracks(a) == meta[SlotOf(a)].ref # NULL

VectorAt(a) == Vector[meta[SlotOf(a)].ref]

(* The adjusted pointer lies below the object that contains the source.    *)
OutOfObject(source, target) ==
  LET o == meta[SlotOf(source)].off
  IN  target - (source - (IF o = -1 THEN 0 ELSE o)) < 0

Allowed(source, target, code) ==
  {o \in Outcomes :
    /\ o = "null" <=> source = 0
    /\ o = "miss" <=> source # 0 /\ ~Tracks(source)
    /\ o = "ok" =>
         /\ Tracks(target)
         /\ source # target => ~OutOfObject(source, target)
         /\ Covers(VectorAt(target), code) => InSafeSet(VectorAt(target), code)
    /\ o = "confusion" =>
         \/ ~Tracks(target)
         \/ source # target /\ OutOfObject(source, target)
         \/ ~InSafeSet(VectorAt(target), code)}

(* A site with a debug index is reported once; -1 stands for no index.     *)
ReportOnly(debugIndex) ==
  reported' = IF debugIndex < 0 THEN reported ELSE reported \cup {debugIndex}

Verify ==
  /\ UNCHANGED meta
  /\ \E source, target \in Addr, code \in Codes, d \in Sites \cup {-1} :
       \E o \in Allowed(source, target, code) :
         /\ verdict' = [source |-> source, target |-> target, code |-> code,
                        outcome |-> o]
         /\ IF o = "confusion" THEN ReportOnly(d) ELSE UNCHANGED reported

(* The inlined check found a confusion and only reports it.                *)
Report == UNCHANGED <<meta, verdict>> /\ \E d \in Sites : ReportOnly(d)

MapNext == Verify \/ Report \/ Trace

MapSpec == MapInit /\ [][MapNext]_mapVars
=============================================================================

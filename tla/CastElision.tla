----------------------------- MODULE CastElision -----------------------------
(***************************************************************************)
(* The checks the initialise pass removes (compile-time-verify-opt): those *)
(* of casts whose source it takes for the address of an object the         *)
(* function itself allocates, or of a global.  The class of the object is  *)
(* not compared with the target of the cast.                               *)
(*                                                                         *)
(* The pass looks at one function: its pointer variables (allocas) and the *)
(* stores to them, in the order of the instructions, whatever the control  *)
(* flow.  A bitcast is looked through and is no value of its own here.     *)
(* After the pass the function runs: stores happen in any order.           *)
(***************************************************************************)
EXTENDS Naturals, Sequences, FiniteSets, SequencesExt

CONSTANTS
  Pointer,     (* The pointer variables of the function.                   *)
  Values,      (* The values the function stores or casts.                 *)
  MaxStores,   (* Store instructions of the function.                      *)
  StackLimit   (* Calls of isSafePointer the compiler's stack has room for. *)

(* Objects of an interesting class in a local variable, in memory this     *)
(* function allocates or in a global.                                      *)
Known == [kind : {"object", "heap", "global"}]

(* The address of an element of class type in whatever the base of a       *)
(* getelementptr points to: the pass does not look at the base.            *)
Element == [kind |-> "element"]

(* Anything else that is no variable: arguments, results of other calls    *)
(* and of invoke, null, phi, loads from anything but a variable, memory of *)
(* another type.                                                           *)
Foreign == [kind |-> "foreign"]

(* What a variable holds, or the address of the variable.                  *)
Load    == [kind : {"load"}, of : Pointer]
Address == [kind : {"address"}, of : Pointer]

Undefined == [kind |-> "undefined"]

ASSUME ValuesAssumption ==
  Values \subseteq Known \cup {Element, Foreign} \cup Load \cup Address

ASSUME BoundsAssumption ==
  IsFiniteSet(Pointer) /\ MaxStores \in Nat /\ StackLimit \in Nat

VARIABLES
  stores,    (* The stores to variables: [to, value].                      *)
  source,    (* The source of the cast.                                    *)
  exposed,   (* Variables the pass does not see all stores to: the address *)
             (* is given to other functions, or the function stores by a   *)
             (* pointer to the variable, a bitcast of it or a memcpy.      *)
  calls,     (* Calls of isSafePointer: [target, at], at the next store.   *)
  answer,    (* "asked", "walking"; then "safe", "unsafe" or "overflow".   *)
  content,   (* What the variables hold when the function runs.            *)
  casted     (* The pointer the cast had last.                             *)

function == <<stores, source, exposed>>
walk     == <<calls, answer>>
run      == <<content, casted>>
vars     == <<function, walk, run>>

Stores == [to : Pointer, value : Values]
Calls  == [target : Pointer, at : 1 .. MaxStores + 1]

Init ==
  /\ stores \in UNION {[1 .. n -> Stores] : n \in 0 .. MaxStores}
  /\ source \in Values
  /\ exposed \in SUBSET Pointer
  /\ calls = <<>> /\ answer = "asked"
  /\ content = [p \in Pointer |-> Undefined] /\ casted = Undefined

-----------------------------------------------------------------------------
FirstStoreOnly(p, at) ==
  {i \in DOMAIN stores : stores[i].to = p /\ i >= at /\ \A j \in 1 .. i - 1 : stores[j].to # p}

StoresToAny(p, at) == {i \in DOMAIN stores : i >= at}

StoresFromTheStart(p, at) == {i \in DOMAIN stores : stores[i].to = p}

(* The stores to p from the instruction at on.                             *)
StoresTo(p, at) == {i \in DOMAIN stores : stores[i].to = p /\ i >= at}

FalseEndsOneCall(v, below) ==
  /\ calls' = IF v \in Load \cup Address /\ Len(below) < StackLimit
              THEN Append(below, [target |-> v.of, at |-> 1]) ELSE below
  /\ answer' = IF v = Foreign THEN "unsafe" ELSE "walking"

LoadsAreSafe(v, below) ==
  /\ calls' = IF v = Foreign THEN <<>> ELSE below
  /\ answer' = IF v = Foreign THEN "unsafe" ELSE "walking"

(* isSafeSrcValue(v), called with the calls below.  An answer FALSE ends   *)
(* them all.                                                               *)
isSafeSrcValue(v, below) ==
  \/ /\ v \in Known \cup {Element}
     /\ calls' = below /\ answer' = "walking"
  \/ /\ v = Foreign
     /\ calls' = <<>> /\ answer' = "unsafe"
  \/ /\ v \in Load \cup Address
     /\ IF Len(below) = StackLimit
        THEN calls' = <<>> /\ answer' = "overflow"
        ELSE /\ calls' = Append(below, [target |-> v.of, at |-> 1])
             /\ answer' = "walking"

compiletime_verification ==
  /\ answer = "asked"
  /\ isSafeSrcValue(source, <<>>)
  /\ UNCHANGED <<function, run>>

(* The loop of isSafePointer comes to the next store to its variable.      *)
NextStore ==
  /\ calls # <<>>
  /\ LET c == Last(calls)
     IN  \E i \in StoresTo(c.target, c.at) :
           /\ \A k \in StoresTo(c.target, c.at) : i <= k
           /\ isSafeSrcValue(stores[i].value,
                             Append(Front(calls), [c EXCEPT !.at = i + 1]))
  /\ UNCHANGED <<function, run>>

(* isSafePointer has seen all stores and returns TRUE.                     *)
ReturnTrue ==
  /\ calls # <<>> /\ StoresTo(Last(calls).target, Last(calls).at) = {}
  /\ calls' = Front(calls)
  /\ UNCHANGED <<function, answer, run>>

(* The call at the cast is erased.                                         *)
Erase ==
  /\ answer = "walking" /\ calls = <<>>
  /\ answer' = "safe"
  /\ UNCHANGED <<function, calls, run>>

Walk == compiletime_verification \/ NextStore \/ ReturnTrue \/ Erase

-----------------------------------------------------------------------------
Compiled == answer \in {"safe", "unsafe"}

Evaluate(v) == IF v \in Load THEN content[v.of] ELSE v

(* A program reads no variable it has not set.                             *)
RunStore ==
  /\ Compiled
  /\ \E i \in DOMAIN stores :
       /\ Evaluate(stores[i].value) # Undefined
       /\ content' = [content EXCEPT ![stores[i].to] = Evaluate(stores[i].value)]
  /\ UNCHANGED <<function, walk, casted>>

(* A store whose pointer operand is not the variable, the function's own   *)
(* or another function's (isSafePointer compares with the operand only).   *)
StoreUnseen ==
  /\ Compiled
  /\ \E p \in exposed, v \in Values \cup {Foreign} :
       /\ Evaluate(v) # Undefined
       /\ content' = [content EXCEPT ![p] = Evaluate(v)]
  /\ UNCHANGED <<function, walk, casted>>

Cast ==
  /\ Compiled /\ Evaluate(source) # Undefined
  /\ casted' = Evaluate(source)
  /\ UNCHANGED <<function, walk, content>>

Next == Walk \/ RunStore \/ StoreUnseen \/ Cast

Spec == Init /\ [][Next]_vars /\ WF_vars(Walk)

-----------------------------------------------------------------------------
(* Types; calls are open for known variables only.                         *)
TypeOK ==
  /\ stores \in Seq(Stores) /\ source \in Values /\ exposed \subseteq Pointer
  /\ calls \in Seq(Calls)
  /\ answer \in {"asked", "walking", "safe", "unsafe", "overflow"}
  /\ calls # <<>> => answer = "walking"
  /\ content \in [Pointer -> Values \cup {Foreign, Undefined}]
  /\ casted \in Values \cup {Foreign, Undefined}

(* A set of variables with all those that are stored to one of them.       *)
Closed(S) ==
  \A i \in DOMAIN stores :
    stores[i].to \in S /\ stores[i].value \in Load \cup Address
      => stores[i].value.of \in S

(* The variables whose contents v can come from.                           *)
Origins(v) ==
  IF v \in Load \cup Address
  THEN {p \in Pointer : \A S \in SUBSET Pointer : v.of \in S /\ Closed(S) => p \in S}
  ELSE {}

OriginValues(v) ==
  {v} \cup {s.value : s \in {t \in ToSet(stores) : t.to \in Origins(v)}}

(* Where a check is removed, every run of the cast has an object of the    *)
(* function or a global, with three exceptions: a variable it can come     *)
(* from is stored to in a way the pass does not look for, an address of a  *)
(* variable is taken for the variable, and an element of class type may be *)
(* part of any object (BitypeInitializePass.cpp isSafeSrcValue,            *)
(* isSafePointer).                                                         *)
RemovedSourceKnown ==
  answer = "safe" =>
    \/ casted \in Known \cup {Undefined}
    \/ Origins(source) \cap exposed # {}
    \/ casted \in (Address \cup {Element}) \cap OriginValues(source)

(* The walk finds just this: no value the source can come from is foreign. *)
WalkExact ==
  /\ answer = "safe" => Foreign \notin OriginValues(source)
  /\ answer = "unsafe" => Foreign \in OriginValues(source)

(* The compiler runs out of stack only where variables are assigned to     *)
(* each other in a circle: otherwise it has a call open for each variable  *)
(* at most (isSafePointer keeps no set of visited variables).              *)
OverflowNeedsCircle ==
  LET circular == {p \in Pointer :
                     \E s \in ToSet(stores) : /\ s.to = p
                                              /\ p \in Origins(s.value)}
  IN  /\ answer = "overflow" => Origins(source) \cap circular # {}
      /\ circular = {} => Len(calls) <= Cardinality(Pointer)

(* The pass comes to an answer, or runs out of stack.                      *)
PassAnswers == <>(answer \in {"safe", "unsafe", "overflow"})
=============================================================================

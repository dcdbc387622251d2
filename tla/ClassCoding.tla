----------------------------- MODULE ClassCoding -----------------------------
(***************************************************************************)
(* find-class-decls: the walk of ClassGraph, then one pass that splits the *)
(* names into families, gives the downcast targets of every family codes   *)
(* from 1 on, and writes the files the compiler reads.                     *)
(***************************************************************************)
EXTENDS ClassGraph

VARIABLES
  bitypeCodeMap,           (* coding-num.txt: codes of classes.            *)
  bitypeCastRelatedClass,  (* castrelated-set.txt: family size of classes. *)
  BitypeInheritanceSet,    (* safecast.txt: a class and its target bases.  *)
  written                  (* The files are there.                         *)

fileVars == <<bitypeCodeMap, bitypeCastRelatedClass, BitypeInheritanceSet, written>>

CodingInit ==
  /\ bitypeCodeMap = <<>> /\ bitypeCastRelatedClass = <<>>
  /\ BitypeInheritanceSet = <<>> /\ written = FALSE

-----------------------------------------------------------------------------
(* One search with an explicit stack; a name is seen when it is pushed.    *)
PushNew(edges, v, s, n) ==
  IF <<v, n>> \in edges /\ n \notin s.seen
  THEN [stack |-> Append(s.stack, n), seen |-> s.seen \cup {n}, order |-> s.order]
  ELSE s

Pushed(edges, v, s) ==
  LET pushed[i \in 0 .. Len(numberName)] ==
        IF i = 0 THEN s ELSE PushNew(edges, v, pushed[i - 1], numberName[i])
  IN  pushed[Len(numberName)]

Pop(edges, s) ==
  IF s.stack = <<>> THEN s
  ELSE Pushed(edges, Last(s.stack),
              [stack |-> Front(s.stack), seen |-> s.seen,
               order |-> Append(s.order, Last(s.stack))])

(* A name is pushed once, so the stack is empty after as many pops.        *)
Search(edges, n, seen) ==
  LET popped[k \in 0 .. Len(numberName)] ==
        IF k = 0 THEN [stack |-> <<n>>, seen |-> seen \cup {n}, order |-> <<>>]
        ELSE Pop(edges, popped[k - 1])
  IN  popped[Len(numberName)]

StartAt(edges, found, n) ==
  IF n \in found.seen THEN found
  ELSE LET search == Search(edges, n, found.seen)
       IN  [sets |-> Append(found.sets, search.order), seen |-> search.seen]

(* Every search starts at the lowest number not yet seen.                  *)
DFS(edges) ==
  LET found[i \in 0 .. Len(numberName)] ==
        IF i = 0 THEN [sets |-> <<>>, seen |-> {}]
        ELSE StartAt(edges, found[i - 1], numberName[i])
  IN  found[Len(numberName)].sets

PhantomSetAlone(sets, c) == {c}

PhantomSet(sets, c) ==
  {c} \cup UNION {s \in {ToSet(sets[i]) : i \in DOMAIN sets} : c \in s}

(* insert of a map: an entry that is there stays.                          *)
Insert(map, S, value) ==
  [x \in DOMAIN map \cup S |-> IF x \in DOMAIN map THEN map[x] ELSE value]

CodeClassAgain(sets, acc, c) ==
  IF c \notin downCastVec \/ c \in DOMAIN acc.codes THEN acc
  ELSE [codes |-> Insert(acc.codes, PhantomSet(sets, c), acc.index), index |-> acc.index]

(* The code of a class; one that has a code keeps it.                      *)
CodeClass(sets, acc, c) ==
  IF c \notin downCastVec \/ c \in DOMAIN acc.codes THEN acc
  ELSE [codes |-> Insert(acc.codes, PhantomSet(sets, c), acc.index),
        index |-> acc.index + 1]

CodeAllButLast(sets, codes, family) ==
  LET coded[i \in 0 .. Len(family)] ==
        IF i = 0 THEN [codes |-> codes, index |-> 1]
        ELSE CodeClass(sets, coded[i - 1], family[i])
  IN  coded[Len(family) - 1]

(* The codes of one family, from 1 on.                                     *)
CodeFamily(sets, codes, family) ==
  LET coded[i \in 0 .. Len(family)] ==
        IF i = 0 THEN [codes |-> codes, index |-> 1]
        ELSE CodeClass(sets, coded[i - 1], family[i])
  IN  coded[Len(family)]

AddFamilyBeforeLast(sets, acc, family) ==
  [codes |-> CodeFamily(sets, acc.codes, family).codes,
   sizes |-> Insert(acc.sizes, ToSet(family),
                    CodeAllButLast(sets, acc.codes, family).index - 1)]

AddFamily(sets, acc, family) ==
  LET coded == CodeFamily(sets, acc.codes, family)
  IN  [codes |-> coded.codes,
       sizes |-> Insert(acc.sizes, ToSet(family), coded.index - 1)]

codingFunc(families, sets) ==
  LET result[i \in 0 .. Len(families)] ==
        IF i = 0 THEN [codes |-> <<>>, sizes |-> <<>>]
        ELSE AddFamily(sets, result[i - 1], families[i])
  IN  result[Len(families)]

castrelatedClass ==
  downCastVec \cup basedCastClass
    \cup {c \in Class : relations[c] \cap basedCastClass # {}}

(* A line of safecast.txt without a base is dropped by its reader.         *)
SafeCast(c) == IF relations[c] \cap downCastVec = {} THEN {}
               ELSE {c} \cup (relations[c] \cap downCastVec)

WriteFiles ==
  /\ ~written /\ written' = TRUE
  /\ LET result  == codingFunc(DFS(graph), DFS(graph_phantoms))
         related == {c \in castrelatedClass \cap DOMAIN result.sizes : result.sizes[c] > 0}
     IN  /\ bitypeCodeMap' = result.codes
         /\ bitypeCastRelatedClass' = [c \in related |-> result.sizes[c]]
  /\ BitypeInheritanceSet' =
       [c \in {x \in castrelatedClass : SafeCast(x) # {}} |-> SafeCast(c)]
  /\ UNCHANGED <<graphVars, castVars>>

CodingNext == (~written /\ Walk /\ UNCHANGED fileVars) \/ WriteFiles
=============================================================================

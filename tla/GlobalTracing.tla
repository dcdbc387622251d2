---------------------------- MODULE GlobalTracing ----------------------------
(***************************************************************************)
(* Global objects and the start of a program (BitypePass.cpp).  The pass   *)
(* gives every module a constructor __init_global_object that registers    *)
(* the globals the module mentions, those it only declares included; the   *)
(* linker puts the constructors of all modules in the order of their       *)
(* priorities, then of the modules.  The entries of globals are never      *)
(* removed.  Initialisers of globals, and in the end main, run functions   *)
(* as StackTracing has them.                                               *)
(*                                                                         *)
(* The tables of the runtime are mapped from .preinit_array, before all    *)
(* constructors.                                                           *)
(***************************************************************************)
EXTENDS StackTracing

CONSTANTS
  Modules,         (* The instrumented modules, in the order of the link.  *)
  Mentions,        (* Mentions[u]: the globals module u defines or declares. *)
  Defines,         (* Defines[u]: the globals module u defines.            *)
  Initialiser,     (* Initialiser[u]: functions that may initialise them.  *)
  ModuleOf,        (* ModuleOf[f]: the module of function f.               *)
  GlobalSlot,      (* GlobalSlot[o]: the first word of o.                  *)
  Length,          (* Length[o]: the elements of an array; 1 for an object. *)
  TypeWidth,       (* TypeWidth[o]: the words of one of them.              *)
  GlobalElements,  (* GlobalElements[o]: getArrayAlignment of its type.    *)
  GlobalWords      (* The words of global memory.                          *)

Globals == UNION {Mentions[Modules[i]] : i \in DOMAIN Modules}

(* Globals have words of their own.                                        *)
ASSUME GlobalAssumption ==
  /\ GlobalWords \in Nat
  /\ \A f \in Functions : ModuleOf[f] \in {Modules[i] : i \in DOMAIN Modules}
  /\ \A i \in DOMAIN Modules : Initialiser[Modules[i]] \subseteq Functions
  /\ \A o \in Globals :
       /\ GlobalSlot[o] \in Nat /\ Length[o] \in Nat /\ TypeWidth[o] \in Nat \ {0}
       /\ DOMAIN GlobalElements[o] \subseteq 0 .. TypeWidth[o] - 1
       /\ GlobalSlot[o] + Length[o] * TypeWidth[o] <= GlobalWords
  /\ \A o, p \in Globals :
       \/ o = p
       \/ GlobalSlot[o] + Length[o] * TypeWidth[o] <= GlobalSlot[p]
       \/ GlobalSlot[p] + Length[p] * TypeWidth[p] <= GlobalSlot[o]

VARIABLES
  start,    (* What is to be run yet: constructors, and main.              *)
  globals   (* Entries of the words of global memory.                      *)

programVars == <<vars, start, globals>>

DefaultPriority == 65535

(* Faulty: a constructor as others are.                                    *)
LatePriority == DefaultPriority

(* The priority appendToGlobalCtors is given.                              *)
TracePriority == 0

(* The constructors of the i-th module, by their places in it.             *)
global_ctors(i) ==
  {[run |-> "initialise", priority |-> DefaultPriority, at |-> i, place |-> 1],
   [run |-> "trace", priority |-> TracePriority, at |-> i, place |-> 2]}

Main == [run |-> "main", priority |-> DefaultPriority + 1, at |-> 0, place |-> 0]

Constructors == UNION {global_ctors(i) : i \in DOMAIN Modules}

(* By priority, then as the modules are linked.                            *)
Before(c, d) ==
  \/ c.priority < d.priority
  \/ c.priority = d.priority /\ c.at < d.at
  \/ c.priority = d.priority /\ c.at = d.at /\ c.place < d.place

ProgramInit ==
  /\ frames = <<>> /\ unwinding = FALSE /\ abandoned = {}
  /\ meta = [w \in Words |-> NoMeta]
  /\ start = Constructors \cup {Main}
  /\ globals = [w \in 0 .. GlobalWords - 1 |-> NoMeta]

-----------------------------------------------------------------------------
(* Faulty: an array is registered as one object.                           *)
FirstElementOnly(o) ==
  [w \in {GlobalSlot[o] + k : k \in DOMAIN GlobalElements[o]} |->
     [ref |-> GlobalElements[o][w - GlobalSlot[o]], off |-> w - GlobalSlot[o]]]

(* The entries of o, element by element, with offsets in the element.      *)
GlobalEntries(o) ==
  LET place(w) == (w - GlobalSlot[o]) % TypeWidth[o]
  IN  [w \in {GlobalSlot[o] + i * TypeWidth[o] + k :
                i \in 0 .. Length[o] - 1, k \in DOMAIN GlobalElements[o]} |->
         [ref |-> GlobalElements[o][place(w)], off |-> place(w)]]

(* Faulty: a module registers what it defines.                             *)
DefinedGlobals(u) == Defines[u]

TracedGlobals(u) == Mentions[u]

(* What is to be run next, c, starts when nothing is running.              *)
Starts(c) ==
  /\ frames = <<>> /\ c \in start
  /\ \A d \in start \ {c} : Before(c, d)
  /\ start' = start \ {c}

globalObjTracing ==
  /\ \E c \in start :
       /\ c.run = "trace" /\ Starts(c)
       /\ LET traced == TracedGlobals(Modules[c.at])
          IN  globals' = [w \in DOMAIN globals |->
                            LET here == {o \in traced : w \in DOMAIN GlobalEntries(o)}
                            IN  IF here = {} THEN globals[w]
                                ELSE GlobalEntries(CHOOSE o \in here : TRUE)[w]]
  /\ UNCHANGED vars

Initialise ==
  /\ \E c \in start :
       /\ c.run = "initialise" /\ Starts(c)
       /\ \/ \E f \in Initialiser[Modules[c.at]] : frames' = <<Frame(f, 0)>>
          \/ UNCHANGED frames
  /\ UNCHANGED <<meta, unwinding, abandoned, globals>>

StartMain ==
  /\ Starts(Main)
  /\ frames' = <<Frame(main, 0)>>
  /\ UNCHANGED <<meta, unwinding, abandoned, globals>>

(* An exception that nothing catches ends the program.                     *)
RunStep ==
  /\ Next
  /\ start' = IF frames' = <<>> /\ ~At("ret") THEN {} ELSE start
  /\ UNCHANGED globals

ProgramNext == globalObjTracing \/ Initialise \/ StartMain \/ RunStep

ProgramSpec == ProgramInit /\ [][ProgramNext]_programVars

-----------------------------------------------------------------------------
(* Types of the whole program.                                             *)
ProgramTypeOK ==
  /\ TypeOK
  /\ start \subseteq Constructors \cup {Main} /\ (start # {} => Main \in start)
  /\ \A w \in DOMAIN globals :
       globals[w] = NoMeta \/ \E o \in Globals : w \in DOMAIN GlobalEntries(o)

(* No instrumented function, called from an initialiser or from main, of   *)
(* this module or of another one, comes upon a global of its module that   *)
(* is not described element by element, whichever module defines it and    *)
(* whether or not that one is instrumented (BitypePass globalObjTracing).  *)
GlobalsDescribed ==
  \A i \in DOMAIN frames : \A o \in Mentions[ModuleOf[frames[i].fn]] :
    \A n \in 0 .. Length[o] - 1 : \A k \in DOMAIN GlobalElements[o] :
      globals[GlobalSlot[o] + n * TypeWidth[o] + k]
        = [ref |-> GlobalElements[o][k], off |-> k]
=============================================================================

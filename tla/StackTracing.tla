---------------------------- MODULE StackTracing -----------------------------
(***************************************************************************)
(* What the compiler pass makes of stack memory (BitypePass.cpp): where a  *)
(* function registers its local variables and where it removes them, and   *)
(* what its paths, calls and exceptions then leave in the metadata.        *)
(*                                                                         *)
(* A function is its instructions in the order the pass meets them.  The   *)
(* ones that matter are allocas, lifetime markers, calls, returns and the  *)
(* resume of an exception; the rest is op "other".  A marker whose size is *)
(* unknown (-1) is such an instruction.  Every normal path through a scope *)
(* with markers passes one of its end markers.                             *)
(*                                                                         *)
(* Addresses count words and grow with the depth of the stack.  Variables  *)
(* with disjoint lifetimes may share words (StackColoring).                *)
(***************************************************************************)
EXTENDS Naturals, Sequences, SequencesExt

CONSTANTS
  Functions, main,
  Code,      (* Code[f][i]: [op, var, next, pad]; next are the successors, *)
             (* pad is where an exception of a call lands, 0: nowhere.     *)
  Variables, (* Variables[f]: the local variables of f.                    *)
  Slot,      (* Slot[v]: the first word of v in the frame.                 *)
  Width,     (* Width[v]: the words of v.                                  *)
  Elements,  (* Elements[v]: getArrayAlignment of its type, the code       *)
             (* vectors of its tracked words; none for a type of no        *)
             (* interest or a variable isSafeStackAlloca leaves alone.     *)
  Room,      (* Room[f]: the words of a frame.                             *)
  NULL,
  Limit      (* The words of the stack.                                    *)

Locals == UNION {Variables[f] : f \in Functions}

Instructions ==
  [op : {"alloca", "start", "end", "call", "ret", "resume", "other"},
   var : Locals \cup {NULL}, next : SUBSET Nat, pad : Nat]

ASSUME CodeAssumption ==
  /\ main \in Functions
  /\ Code \in [Functions -> Seq(Instructions) \ {<<>>}]
  /\ \A f \in Functions : \A i \in DOMAIN Code[f] :
       /\ Code[f][i].next \cup ({Code[f][i].pad} \ {0}) \subseteq DOMAIN Code[f]
       /\ Code[f][i].op \in {"alloca", "start", "end"} => Code[f][i].var \in Variables[f]

ASSUME FrameAssumption ==
  /\ Slot \in [Locals -> Nat] /\ Width \in [Locals -> Nat]
  /\ Room \in [Functions -> 0 .. Limit] /\ Limit \in Nat
  /\ \A f \in Functions : \A v \in Variables[f] : Slot[v] + Width[v] <= Room[f]
  /\ DOMAIN Elements = Locals
  /\ \A v \in Locals : DOMAIN Elements[v] \subseteq 0 .. Width[v] - 1

VARIABLES
  frames,    (* The stack: [fn, base, pc, live], live maps a variable in   *)
             (* its lifetime to the instruction that began it, others to 0. *)
  meta,      (* Entries of the words of the stack, as in TypeMap.          *)
  unwinding, (* An exception looks for a frame to land in.                 *)
  abandoned  (* Ghost: words where a lifetime ended and the pass knows it  *)
             (* removes nothing.                                           *)

vars == <<frames, meta, unwinding, abandoned>>

Words  == 0 .. Limit - 1
NoMeta == [ref |-> NULL, off |-> 0]

Frames == [fn : Functions, base : Nat, pc : Nat, live : [Locals -> Nat]]

Frame(f, base) == [fn |-> f, base |-> base, pc |-> 1, live |-> [v \in Locals |-> 0]]

Init ==
  /\ frames = <<Frame(main, 0)>>
  /\ meta = [w \in Words |-> NoMeta]
  /\ unwinding = FALSE
  /\ abandoned = {}

-----------------------------------------------------------------------------
(* The pass.                                                               *)

Sites(f, op, v) ==
  {i \in DOMAIN Code[f] : Code[f][i].op = op /\ Code[f][i].var = v}

Returns(f) == {i \in DOMAIN Code[f] : Code[f][i].op = "ret"}

(* LifeTimeStartMap and LifeTimeEndMap keep what was inserted first.       *)
FirstOf(S) == {i \in S : \A k \in S : i <= k}

Successors(f, i) == Code[f][i].next \cup ({Code[f][i].pad} \ {0})

(* Some set that holds the entry, and with every instruction but i its     *)
(* successors, lacks r: every path to r passes i.                          *)
dominates(f, i, r) ==
  \E S \in SUBSET DOMAIN Code[f] :
    /\ 1 \in S /\ r \notin S
    /\ \A k \in S \ {i} : Successors(f, k) \subseteq S

(* Faulty: lifetime markers are ignored.                                   *)
UpdatesAtAlloca(f, v) == Sites(f, "alloca", v)

(* Registration: at the first marker, without one after the alloca.        *)
handleAllocaAdd(f, v) ==
  IF Sites(f, "start", v) = {} THEN Sites(f, "alloca", v)
  ELSE FirstOf(Sites(f, "start", v))

DominatedReturns(f, v) ==
  {r \in Returns(f) : \A i \in Sites(f, "alloca", v) : dominates(f, i, r)}

(* Faulty: one return of the function is enough.                           *)
RemovesAtFirstReturn(f, v) ==
  IF \E r \in DominatedReturns(f, v) : Code[f][r].var = v THEN {}
  ELSE IF Sites(f, "end", v) # {} THEN FirstOf(Sites(f, "end", v))
  ELSE FirstOf(DominatedReturns(f, v))

(* Removal: at the first marker, without one before every return; nowhere  *)
(* when a return gives the address of the variable away.                   *)
handleAllocaDelete(f, v) ==
  IF \E r \in DominatedReturns(f, v) : Code[f][r].var = v THEN {}
  ELSE IF Sites(f, "end", v) # {} THEN FirstOf(Sites(f, "end", v))
  ELSE DominatedReturns(f, v)

stackObjTracing ==
  [f \in Functions |->
     [v \in Variables[f] |-> [update |-> handleAllocaAdd(f, v),
                              remove |-> handleAllocaDelete(f, v)]]]

-----------------------------------------------------------------------------
(* The instrumented program.                                               *)

Top   == Last(frames)
Instr == Code[Top.fn][Top.pc]

Alive(frame) == {v \in Variables[frame.fn] : frame.live[v] # 0}

At(op) == frames # <<>> /\ ~unwinding /\ Instr.op = op

FrameWords(frame) == frame.base .. frame.base + Room[frame.fn] - 1

Extent(frame, v) == {frame.base + Slot[v] + k : k \in 0 .. Width[v] - 1}

MemberWords(frame, v) == {frame.base + Slot[v] + k : k \in DOMAIN Elements[v]}

(* Faulty: offsets count from the start of the frame.                      *)
EntryInFrame(frame, v, w) ==
  [ref |-> Elements[v][w - frame.base - Slot[v]], off |-> w - frame.base]

(* The entry of a member: its code vector and its offset in the variable.  *)
Entry(frame, v, w) ==
  [ref |-> Elements[v][w - frame.base - Slot[v]], off |-> w - frame.base - Slot[v]]

(* The runtime calls the pass put at the instruction of the top frame.     *)
Trace ==
  LET plan    == stackObjTracing[Top.fn]
      removed == UNION {MemberWords(Top, v) :
                          v \in {u \in Variables[Top.fn] : Top.pc \in plan[u].remove}}
      updated == UNION {MemberWords(Top, v) :
                          v \in {u \in Variables[Top.fn] : Top.pc \in plan[u].update}}
  IN  meta' = [w \in Words |-> IF w \in updated THEN Entry(Top, Instr.var, w)
                               ELSE IF w \in removed THEN NoMeta ELSE meta[w]]

(* Words keep what they hold and no one will remove it.                    *)
Abandon(words) ==
  abandoned' = {w \in abandoned : meta'[w] = meta[w]} \cup words

Goto(frame, i) == [frame EXCEPT !.pc = i]

Step(live) ==
  /\ \E i \in Instr.next :
       frames' = Append(Front(frames), [Goto(Top, i) EXCEPT !.live = live])
  /\ Trace
  /\ UNCHANGED unwinding

Began(v) == [Top.live EXCEPT ![v] = Top.pc]
Over(v)  == [Top.live EXCEPT ![v] = 0]

(* A variable with start markers has no lifetime before the first of them. *)
Alloca ==
  /\ At("alloca")
  /\ Step(IF Sites(Top.fn, "start", Instr.var) = {} THEN Began(Instr.var)
          ELSE Top.live)
  /\ Abandon({})

LifetimeStart == At("start") /\ Step(Began(Instr.var)) /\ Abandon({})

(* A second end marker is none to the pass, nor is the end marker of a     *)
(* variable whose address is returned.                                     *)
LifetimeEnd ==
  /\ At("end")
  /\ Step(Over(Instr.var))
  /\ Abandon(IF Top.pc \in handleAllocaDelete(Top.fn, Instr.var) THEN {}
             ELSE Extent(Top, Instr.var))

Other == At("other") /\ Step(Top.live) /\ Abandon({})

Call ==
  /\ At("call")
  /\ \E g \in Functions \ {main} :
       LET base == Top.base + Room[Top.fn]
       IN  /\ base + Room[g] <= Limit
           /\ frames' = Append(frames, Frame(g, base))
  /\ UNCHANGED <<meta, unwinding, abandoned>>

(* A call into code without instrumentation returns, or throws.            *)
CallOutside == At("call") /\ Step(Top.live) /\ Abandon({})

Throw ==
  /\ At("call") /\ unwinding' = TRUE
  /\ UNCHANGED <<frames, meta, abandoned>>

(* Abandoned: a variable whose address is returned, and one that lives to  *)
(* the end of the function but does not exist on every path to the return. *)
Return ==
  LET given  == {v \in Variables[Top.fn] :
                   \E r \in DominatedReturns(Top.fn, v) : Code[Top.fn][r].var = v}
      partly == {v \in Alive(Top) : Top.pc \notin DominatedReturns(Top.fn, v)}
  IN  /\ At("ret")
      /\ Trace
      /\ Abandon(UNION {Extent(Top, v) : v \in given \cup partly})
      /\ IF Len(frames) = 1 THEN frames' = <<>>
         ELSE LET caller == frames[Len(frames) - 1]
              IN  \E i \in Code[caller.fn][caller.pc].next :
                    frames' = Append(Front(Front(frames)), Goto(caller, i))
      /\ UNCHANGED unwinding

(* A frame an exception leaves disappears and none of its code is run.     *)
Leave ==
  /\ frames' = Front(frames)
  /\ unwinding' = (Len(frames) > 1)
  /\ UNCHANGED meta
  /\ Abandon(FrameWords(Top))

(* The end of a cleanup: the exception goes on in the caller.              *)
Resume == At("resume") /\ Leave

Unwind == unwinding /\ Instr.pad = 0 /\ Leave

Land ==
  /\ unwinding /\ Instr.pad # 0
  /\ frames' = Append(Front(frames), Goto(Top, Instr.pad))
  /\ unwinding' = FALSE
  /\ UNCHANGED <<meta, abandoned>>

Next ==
  \/ Alloca \/ LifetimeStart \/ LifetimeEnd \/ Other \/ Call \/ CallOutside
  \/ Throw \/ Return \/ Resume \/ Unwind \/ Land

Spec == Init /\ [][Next]_vars

-----------------------------------------------------------------------------
(* Types; an entry is one of a tracked word of some variable.              *)
TypeOK ==
  /\ frames \in Seq(Frames)
  /\ \A k \in DOMAIN frames : /\ frames[k].pc \in DOMAIN Code[frames[k].fn]
                              /\ FrameWords(frames[k]) \subseteq Words
  /\ \A w \in Words : \/ meta[w] = NoMeta
                      \/ \E v \in DOMAIN Elements : \E k \in DOMAIN Elements[v] :
                           meta[w] = [ref |-> Elements[v][k], off |-> k]
  /\ unwinding \in BOOLEAN /\ (unwinding => frames # <<>>)
  /\ abandoned \subseteq Words

(* The variables of a frame whose lifetime began at the first of its start *)
(* markers, or at the alloca for want of markers.                          *)
Registered(frame) ==
  {v \in Alive(frame) :
     \A i \in Sites(frame.fn, "start", v) : frame.live[v] <= i}

(* What a compiler sees to.  Variables of a function share words only when *)
(* their lifetimes are disjoint; a lifetime does not begin again before it *)
(* ends; a path to a return passes an end marker of a variable that has    *)
(* any.                                                                    *)
Disciplined ==
  frames # <<>> /\ ~unwinding =>
    /\ Instr.op \in {"alloca", "start", "end"} =>
         \A v \in Alive(Top) \ {Instr.var} :
           Extent(Top, v) \cap Extent(Top, Instr.var) = {}
    /\ Instr.op = "start" => Instr.var \notin Alive(Top)
    /\ Instr.op = "ret" => \A v \in Alive(Top) : Sites(Top.fn, "end", v) = {}

(* The same of the text of a function: table pairs instructions of f with  *)
(* variables that may be in their lifetimes when it comes to them.         *)
After(f, i, alive) ==
  LET begun == {v \in Variables[f] :
                  \/ i \in Sites(f, "start", v)
                  \/ i \in Sites(f, "alloca", v) /\ Sites(f, "start", v) = {}}
  IN  (alive \cup begun) \ {v \in Variables[f] : i \in Sites(f, "end", v)}

Span(v) == Slot[v] .. Slot[v] + Width[v] - 1

Scoped(f, table) ==
  /\ <<1, {}>> \in table
  /\ \A p \in table :
       /\ {<<k, After(f, p[1], p[2])>> : k \in Successors(f, p[1])} \subseteq table
       /\ \A v \in Variables[f] :
            p[1] \in Sites(f, "alloca", v) \cup Sites(f, "start", v) \cup Sites(f, "end", v)
              => \A u \in p[2] \ {v} : Span(u) \cap Span(v) = {}
       /\ \A v \in p[2] : p[1] \notin Sites(f, "start", v)
       /\ \A v \in p[2] : p[1] \in Returns(f) => Sites(f, "end", v) = {}

(* During such a lifetime the entries of a variable are those of its type, *)
(* whatever earlier frames and exceptions left in its words, and whichever *)
(* variable of the function has the same words at other times (BitypePass  *)
(* handleAllocaAdd, handleAllocaDelete).                                   *)
LiveDescribed ==
  \A k \in DOMAIN frames : \A v \in Registered(frames[k]) :
    \A w \in MemberWords(frames[k], v) : meta[w] = Entry(frames[k], v, w)

(* An entry outlives its variable only where an exception left the frame,  *)
(* a lifetime ended at a second end marker, a return gave the address away *)
(* or was reached by paths without the alloca as well: nowhere else is an  *)
(* untracked or dead word taken for an object.                             *)
NothingElse ==
  \A w \in Words \ abandoned :
    meta[w] # NoMeta =>
      \E k \in DOMAIN frames : \E v \in Registered(frames[k]) :
        w \in MemberWords(frames[k], v)
=============================================================================

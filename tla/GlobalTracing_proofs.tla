------------------------- MODULE GlobalTracing_proofs -------------------------
(***************************************************************************)
(* Proofs about StackTracing and GlobalTracing, for every program: any     *)
(* functions, control flow, variables and modules.                         *)
(***************************************************************************)
EXTENDS GlobalTracing, SequenceTheorems, TLAPS

-----------------------------------------------------------------------------
(* Frames.                                                                 *)

LEMMA FrontFrames ==
  ASSUME NEW q \in Seq(Frames), q # <<>>
  PROVE  /\ Len(q) \in Nat /\ Len(q) > 0
         /\ Front(q) \in Seq(Frames) /\ Len(Front(q)) = Len(q) - 1
         /\ \A k \in 1 .. Len(q) - 1 : Front(q)[k] = q[k]
         /\ Last(q) = q[Len(q)] /\ Last(q) \in Frames
  <1>1. Len(q) \in Nat /\ Len(q) > 0 /\ q[Len(q)] \in Frames
    OBVIOUS
  <1>2. Front(q) = SubSeq(q, 1, Len(q) - 1) /\ Last(q) = q[Len(q)]
    BY DEF Front, Last
  <1>3. /\ SubSeq(q, 1, Len(q) - 1) \in Seq(Frames)
        /\ Len(SubSeq(q, 1, Len(q) - 1)) = Len(q) - 1
        /\ \A k \in 1 .. Len(q) - 1 : SubSeq(q, 1, Len(q) - 1)[k] = q[k]
    <2> DEFINE m == Len(q) - 1
    <2>1. m \in Nat /\ \A k \in 1 .. m : q[k] \in Frames
      BY <1>1
    <2> HIDE DEF m
    <2>2. SubSeq(q, 1, m) \in Seq(Frames)
      BY <2>1, SubSeqProperties
    <2>3. /\ Len(SubSeq(q, 1, m)) = IF 1 <= m THEN m - 1 + 1 ELSE 0
          /\ \A k \in 1 .. m - 1 + 1 : SubSeq(q, 1, m)[k] = q[1 + k - 1]
      BY <2>1, SubSeqProperties
    <2>4. Len(SubSeq(q, 1, m)) = m /\ \A k \in 1 .. m : SubSeq(q, 1, m)[k] = q[k]
      BY <2>1, <2>3
    <2>. QED
      BY <2>2, <2>4 DEF m
  <1>. QED
    BY <1>1, <1>2, <1>3

LEMMA Positions ==
  ASSUME NEW n \in Nat
  PROVE  /\ \A k \in 1 .. n : k # n => k \in 1 .. n - 1
         /\ \A k \in 1 .. n - 1 : k \in 1 .. n /\ k # n
         /\ \A k \in 1 .. n + 1 : k \notin 1 .. n => k = n + 1
  OBVIOUS

LEMMA AppendedFrame ==
  ASSUME NEW q \in Seq(Frames), NEW F \in Frames
  PROVE  /\ Append(q, F) \in Seq(Frames) /\ Len(q) \in Nat
         /\ Len(Append(q, F)) = Len(q) + 1
         /\ \A k \in 1 .. Len(q) : Append(q, F)[k] = q[k]
         /\ Append(q, F)[Len(q) + 1] = F
  OBVIOUS

LEMMA MovedFrame ==
  ASSUME NEW F \in Frames, NEW i \in Nat, NEW live \in [Locals -> Nat]
  PROVE  /\ Goto(F, i) \in Frames /\ Goto(F, i).pc = i
         /\ Goto(F, i).fn = F.fn /\ Goto(F, i).base = F.base /\ Goto(F, i).live = F.live
         /\ [Goto(F, i) EXCEPT !.live = live] \in Frames
         /\ [Goto(F, i) EXCEPT !.live = live].pc = i
         /\ [Goto(F, i) EXCEPT !.live = live].fn = F.fn
         /\ [Goto(F, i) EXCEPT !.live = live].base = F.base
         /\ [Goto(F, i) EXCEPT !.live = live].live = live
  <1>1. /\ Goto(F, i) \in Frames /\ Goto(F, i).pc = i
        /\ Goto(F, i).fn = F.fn /\ Goto(F, i).base = F.base /\ Goto(F, i).live = F.live
    BY DEF Goto, Frames
  <1> DEFINE G == Goto(F, i)
  <1>2. G \in Frames /\ G.pc = i /\ G.fn = F.fn /\ G.base = F.base
    BY <1>1
  <1> HIDE DEF G
  <1>3. /\ [G EXCEPT !.live = live] \in Frames /\ [G EXCEPT !.live = live].pc = i
        /\ [G EXCEPT !.live = live].fn = F.fn /\ [G EXCEPT !.live = live].base = F.base
        /\ [G EXCEPT !.live = live].live = live
    BY <1>2 DEF Frames
  <1>. QED
    BY <1>1, <1>3 DEF G

LEMMA NewFrame ==
  ASSUME NEW f \in Functions, NEW base \in Nat
  PROVE  /\ Frame(f, base) \in Frames
         /\ Frame(f, base).fn = f /\ Frame(f, base).base = base
         /\ Frame(f, base).pc = 1 /\ 1 \in DOMAIN Code[f]
         /\ Frame(f, base).live = [v \in Locals |-> 0]
         /\ Alive(Frame(f, base)) = {}
  <1>1. /\ Frame(f, base) \in Frames
        /\ Frame(f, base).fn = f /\ Frame(f, base).base = base
        /\ Frame(f, base).pc = 1 /\ Frame(f, base).live = [v \in Locals |-> 0]
    BY DEF Frame, Frames
  <1>2. 1 \in DOMAIN Code[f]
    <2>1. Code[f] \in Seq(Instructions) /\ Code[f] # <<>>
      BY CodeAssumption
    <2>. QED
      BY <2>1
  <1>3. \A v \in Variables[f] : v \in Locals
    BY DEF Locals
  <1>. QED
    BY <1>1, <1>2, <1>3 DEF Alive

-----------------------------------------------------------------------------
(* The top frame and its instruction.                                      *)

LEMMA Layout ==
  ASSUME NEW f \in Functions, NEW v \in Variables[f]
  PROVE  /\ v \in Locals /\ v \in DOMAIN Elements
         /\ Slot[v] \in Nat /\ Width[v] \in Nat /\ Room[f] \in Nat /\ Room[f] <= Limit
         /\ Limit \in Nat
         /\ Slot[v] + Width[v] <= Room[f]
         /\ \A k \in DOMAIN Elements[v] : k \in Nat /\ k < Width[v]
  <1>1. v \in Locals /\ Room[f] \in 0 .. Limit /\ Limit \in Nat
    BY FrameAssumption DEF Locals
  <1>2. Slot[v] \in Nat /\ Width[v] \in Nat /\ Slot[v] + Width[v] <= Room[f]
    BY <1>1, FrameAssumption
  <1>3. DOMAIN Elements[v] \subseteq 0 .. Width[v] - 1
    BY <1>1, FrameAssumption
  <1>4. v \in DOMAIN Elements
    BY <1>1, FrameAssumption
  <1>. QED
    BY <1>1, <1>2, <1>3, <1>4

(* Variables lie inside their frames.                                      *)
LEMMA WordsOfFrame ==
  ASSUME NEW F \in Frames, NEW v \in Variables[F.fn]
  PROVE  /\ Extent(F, v) \subseteq FrameWords(F)
         /\ MemberWords(F, v) \subseteq Extent(F, v)
         /\ \A w \in MemberWords(F, v) : w - F.base - Slot[v] \in DOMAIN Elements[v]
  <1>1. F.fn \in Functions /\ F.base \in Nat
    BY DEF Frames
  <1> DEFINE f == F.fn
             base == F.base
             slot == Slot[v]
             width == Width[v]
  <1>2. /\ slot \in Nat /\ width \in Nat /\ Room[f] \in Nat
        /\ slot + width <= Room[f] /\ base \in Nat
        /\ \A k \in DOMAIN Elements[v] : k \in Nat /\ k < width
    BY <1>1, Layout
  <1>3. /\ FrameWords(F) = base .. base + Room[f] - 1
        /\ Extent(F, v) = {base + slot + k : k \in 0 .. width - 1}
        /\ MemberWords(F, v) = {base + slot + k : k \in DOMAIN Elements[v]}
    BY DEF FrameWords, Extent, MemberWords
  <1> HIDE DEF f, base, slot, width
  <1>4. \A k \in 0 .. width - 1 : base + slot + k \in base .. base + Room[f] - 1
    BY <1>2
  <1>5. \A k \in DOMAIN Elements[v] : k \in 0 .. width - 1
    BY <1>2
  <1>6. \A k \in DOMAIN Elements[v] : (base + slot + k) - base - slot = k
    BY <1>2
  <1>7. \A w \in MemberWords(F, v) : w - base - slot \in DOMAIN Elements[v]
    BY <1>3, <1>6
  <1>. QED
    BY <1>3, <1>4, <1>5, <1>7 DEF base, slot

LEMMA TopTyped ==
  ASSUME TypeOK, frames # <<>>
  PROVE  /\ frames \in Seq(Frames) /\ Len(frames) \in Nat /\ Len(frames) > 0
         /\ DOMAIN frames = 1 .. Len(frames)
         /\ Top = frames[Len(frames)] /\ Top \in Frames
         /\ Top.fn \in Functions /\ Top.base \in Nat
         /\ Top.live \in [Locals -> Nat]
         /\ Top.pc \in DOMAIN Code[Top.fn] /\ Top.pc \in Nat /\ Top.pc # 0
         /\ FrameWords(Top) \subseteq Words
         /\ Instr \in Instructions
         /\ Instr.next \subseteq DOMAIN Code[Top.fn]
         /\ Instr.pad # 0 => Instr.pad \in DOMAIN Code[Top.fn]
         /\ Instr.op \in {"alloca", "start", "end"} => Instr.var \in Variables[Top.fn]
         /\ \A i \in DOMAIN Code[Top.fn] : i \in Nat
  <1>1. /\ frames \in Seq(Frames)
        /\ \A k \in DOMAIN frames : /\ frames[k].pc \in DOMAIN Code[frames[k].fn]
                                    /\ FrameWords(frames[k]) \subseteq Words
    BY DEF TypeOK
  <1>2. /\ Len(frames) \in Nat /\ Len(frames) > 0 /\ DOMAIN frames = 1 .. Len(frames)
        /\ Top = frames[Len(frames)] /\ Top \in Frames
    BY <1>1, FrontFrames DEF Top
  <1>3. /\ Top.fn \in Functions /\ Top.base \in Nat /\ Top.live \in [Locals -> Nat]
        /\ Top.pc \in Nat
    BY <1>2 DEF Frames
  <1>4. Top.pc \in DOMAIN Code[Top.fn] /\ FrameWords(Top) \subseteq Words
    BY <1>1, <1>2
  <1> DEFINE f == Top.fn
  <1>5. Code[f] \in Seq(Instructions)
    BY <1>3, CodeAssumption
  <1>6. \A i \in DOMAIN Code[f] : i \in Nat /\ i # 0 /\ Code[f][i] \in Instructions
    BY <1>5
  <1>7. \A i \in DOMAIN Code[f] :
          /\ Code[f][i].next \subseteq DOMAIN Code[f]
          /\ Code[f][i].pad # 0 => Code[f][i].pad \in DOMAIN Code[f]
          /\ Code[f][i].op \in {"alloca", "start", "end"} => Code[f][i].var \in Variables[f]
    BY <1>3, CodeAssumption
  <1>. QED
    BY <1>1, <1>2, <1>3, <1>4, <1>6, <1>7 DEF Instr

(* Where the pass registers a variable and where it removes it.            *)
LEMMA Placement ==
  ASSUME NEW f \in Functions, NEW v \in Variables[f], NEW i \in DOMAIN Code[f]
  PROVE  /\ i \in handleAllocaAdd(f, v) <=>
              /\ Code[f][i].var = v
              /\ \/ Code[f][i].op = "alloca" /\ Sites(f, "start", v) = {}
                 \/ Code[f][i].op = "start" /\ \A k \in Sites(f, "start", v) : i <= k
         /\ i \in handleAllocaDelete(f, v) =>
              \/ Code[f][i].op = "end" /\ Code[f][i].var = v
              \/ /\ Code[f][i].op = "ret" /\ i \in DominatedReturns(f, v)
                 /\ Sites(f, "end", v) = {}
         /\ /\ i \in DominatedReturns(f, v) /\ Sites(f, "end", v) = {}
            /\ \A r \in DominatedReturns(f, v) : Code[f][r].var # v
            => i \in handleAllocaDelete(f, v)
  <1>1. \A op : i \in Sites(f, op, v) <=> Code[f][i].op = op /\ Code[f][i].var = v
    BY DEF Sites
  <1>2. i \in DominatedReturns(f, v) => Code[f][i].op = "ret"
    BY DEF DominatedReturns, Returns
  <1>3. i \in handleAllocaAdd(f, v) <=>
          IF Sites(f, "start", v) = {} THEN i \in Sites(f, "alloca", v)
          ELSE i \in Sites(f, "start", v) /\ \A k \in Sites(f, "start", v) : i <= k
    BY DEF handleAllocaAdd, FirstOf
  <1>4. i \in handleAllocaAdd(f, v) <=>
              /\ Code[f][i].var = v
              /\ \/ Code[f][i].op = "alloca" /\ Sites(f, "start", v) = {}
                 \/ Code[f][i].op = "start" /\ \A k \in Sites(f, "start", v) : i <= k
    <2>1. CASE Sites(f, "start", v) = {}
      <3>1. ~(Code[f][i].op = "start" /\ Code[f][i].var = v)
        BY <1>1, <2>1
      <3>. QED
        BY <1>1, <1>3, <2>1, <3>1
    <2>2. CASE Sites(f, "start", v) # {}
      BY <1>1, <1>3, <2>2
    <2>. QED
      BY <2>1, <2>2
  <1>. QED
    BY <1>1, <1>2, <1>4 DEF handleAllocaDelete, FirstOf

(* The runtime calls at the instruction of the top frame.                  *)
Registers == /\ Instr.op \in {"alloca", "start"}
             /\ Top.pc \in handleAllocaAdd(Top.fn, Instr.var)

Removes(v) == v \in Variables[Top.fn] /\ Top.pc \in handleAllocaDelete(Top.fn, v)

LEMMA TraceEffect ==
  ASSUME TypeOK, frames # <<>>, Trace
  PROVE  /\ meta' = [w \in Words |-> meta'[w]]
         /\ Registers => \A w \in MemberWords(Top, Instr.var) :
                           w \in Words => meta'[w] = Entry(Top, Instr.var, w)
         /\ Instr.op \notin {"end", "ret"} => \A v : ~Removes(v)
         /\ ~Registers => \A v : Removes(v) =>
              \A w \in MemberWords(Top, v) : w \in Words => meta'[w] = NoMeta
         /\ \A w \in Words :
              \/ meta'[w] = meta[w]
              \/ Registers /\ w \in MemberWords(Top, Instr.var)
              \/ meta'[w] = NoMeta /\ \E v : Removes(v) /\ w \in MemberWords(Top, v)
  <1>1. /\ Top.fn \in Functions /\ Top.pc \in DOMAIN Code[Top.fn]
        /\ Instr = Code[Top.fn][Top.pc]
        /\ Instr.op \in {"alloca", "start", "end"} => Instr.var \in Variables[Top.fn]
    BY TopTyped DEF Instr
  <1> DEFINE Adds(v) == v \in Variables[Top.fn] /\ Top.pc \in handleAllocaAdd(Top.fn, v)
             removed == UNION {MemberWords(Top, v) : v \in {u \in Variables[Top.fn] : Removes(u)}}
             updated == UNION {MemberWords(Top, v) : v \in {u \in Variables[Top.fn] : Adds(u)}}
  <1>2. \A v : Adds(v) <=> Registers /\ v = Instr.var
    BY <1>1, Placement DEF Registers
  <1>3. \A v : Removes(v) => Instr.op \in {"end", "ret"}
    BY <1>1, Placement DEF Removes
  <1>4. meta' = [w \in Words |-> IF w \in updated THEN Entry(Top, Instr.var, w)
                                 ELSE IF w \in removed THEN NoMeta ELSE meta[w]]
    BY <1>1 DEF Trace, stackObjTracing, Removes
  <1>5. \A w : w \in updated <=> \E v : Adds(v) /\ w \in MemberWords(Top, v)
    OBVIOUS
  <1>6. \A w : w \in removed <=> \E v : Removes(v) /\ w \in MemberWords(Top, v)
    BY DEF Removes
  <1> HIDE DEF Adds, removed, updated
  <1>7. \A w : w \in updated <=> Registers /\ w \in MemberWords(Top, Instr.var)
    BY <1>2, <1>5
  <1>8. \A w \in Words : meta'[w] = IF w \in updated THEN Entry(Top, Instr.var, w)
                                    ELSE IF w \in removed THEN NoMeta ELSE meta[w]
    BY <1>4
  <1>9. meta' = [w \in Words |-> meta'[w]]
    BY <1>4
  <1>10. Registers => Instr.op \notin {"end", "ret"}
    BY DEF Registers
  <1>. QED
    BY <1>3, <1>6, <1>7, <1>8, <1>9, <1>10

-----------------------------------------------------------------------------
(* What a step does to the stack: the top frame goes on, a frame is put on *)
(* top of it, or it disappears.                                            *)

Ending(F) == F.base + Room[F.fn]

Alike(F, G) == F.fn = G.fn /\ F.base = G.base /\ F.live = G.live

Stays(live) ==
  /\ frames # <<>>
  /\ frames' \in Seq(Frames) /\ Len(frames') = Len(frames)
  /\ \A k \in 1 .. Len(frames) - 1 : frames'[k] = frames[k]
  /\ frames'[Len(frames)].fn = Top.fn /\ frames'[Len(frames)].base = Top.base
  /\ frames'[Len(frames)].live = live
  /\ frames'[Len(frames)].pc \in DOMAIN Code[Top.fn]

Enters ==
  /\ frames' \in Seq(Frames) /\ Len(frames') = Len(frames) + 1
  /\ \A k \in 1 .. Len(frames) : frames'[k] = frames[k]
  /\ frames'[Len(frames) + 1].pc \in DOMAIN Code[frames'[Len(frames) + 1].fn]
  /\ frames'[Len(frames) + 1].base = IF frames = <<>> THEN 0 ELSE Ending(Top)
  /\ Ending(frames'[Len(frames) + 1]) <= Limit
  /\ Alive(frames'[Len(frames) + 1]) = {}

Leaves ==
  /\ frames # <<>>
  /\ frames' \in Seq(Frames) /\ Len(frames') = Len(frames) - 1
  /\ \A k \in 1 .. Len(frames) - 1 : /\ Alike(frames'[k], frames[k])
                                     /\ frames'[k].pc \in DOMAIN Code[frames[k].fn]

LEMMA ReplacesTop ==
  ASSUME TypeOK, frames # <<>>, NEW F \in Frames,
         F.fn = Top.fn, F.base = Top.base, F.pc \in DOMAIN Code[Top.fn],
         frames' = Append(Front(frames), F)
  PROVE  Stays(F.live)
  <1>1. /\ frames \in Seq(Frames) /\ Len(frames) \in Nat
        /\ Front(frames) \in Seq(Frames) /\ Len(Front(frames)) = Len(frames) - 1
        /\ \A k \in 1 .. Len(frames) - 1 : Front(frames)[k] = frames[k]
    BY FrontFrames, TopTyped
  <1> DEFINE q == Front(frames)
  <1>2. q \in Seq(Frames) /\ Len(q) = Len(frames) - 1 /\ frames' = Append(q, F)
    BY <1>1
  <1> HIDE DEF q
  <1>3. /\ frames' \in Seq(Frames) /\ Len(frames') = Len(q) + 1
        /\ \A k \in 1 .. Len(q) : frames'[k] = q[k]
        /\ frames'[Len(q) + 1] = F
    BY <1>2, AppendedFrame
  <1>4. Len(q) + 1 = Len(frames)
    BY <1>1, <1>2
  <1>5. \A k \in 1 .. Len(frames) - 1 : frames'[k] = frames[k]
    BY <1>1, <1>2, <1>3 DEF q
  <1>. QED
    BY SMTT(30), <1>3, <1>4, <1>5 DEF Stays

LEMMA StepStays ==
  ASSUME TypeOK, frames # <<>>, NEW live \in [Locals -> Nat], Step(live)
  PROVE  Stays(live) /\ Trace /\ unwinding' = unwinding
  <1>1. Top \in Frames /\ \A i \in Instr.next : i \in Nat /\ i \in DOMAIN Code[Top.fn]
    BY TopTyped
  <1>2. PICK i \in Instr.next :
          frames' = Append(Front(frames), [Goto(Top, i) EXCEPT !.live = live])
    BY DEF Step
  <1> DEFINE F == [Goto(Top, i) EXCEPT !.live = live]
  <1>3. /\ F \in Frames /\ F.pc = i /\ F.fn = Top.fn /\ F.base = Top.base
        /\ F.live = live /\ frames' = Append(Front(frames), F)
    BY <1>1, <1>2, MovedFrame
  <1> HIDE DEF F
  <1>4. F.pc \in DOMAIN Code[Top.fn]
    BY <1>1, <1>3
  <1>5. Stays(F.live)
    BY <1>3, <1>4, ReplacesTop
  <1>. QED
    BY <1>3, <1>5 DEF Step

LEMMA LandStays ==
  ASSUME TypeOK, Land
  PROVE  Stays(Top.live) /\ UNCHANGED <<meta, abandoned>> /\ unwinding' = FALSE
  <1>1. frames # <<>> /\ Instr.pad # 0 /\ frames' = Append(Front(frames), Goto(Top, Instr.pad))
    BY DEF TypeOK, Land
  <1>2. Top \in Frames /\ Instr.pad \in DOMAIN Code[Top.fn] /\ Instr.pad \in Nat
        /\ Top.live \in [Locals -> Nat]
    BY <1>1, TopTyped
  <1> DEFINE F == Goto(Top, Instr.pad)
  <1>3. /\ F \in Frames /\ F.pc = Instr.pad /\ F.fn = Top.fn /\ F.base = Top.base
        /\ F.live = Top.live /\ frames' = Append(Front(frames), F)
    BY <1>1, <1>2, MovedFrame
  <1> HIDE DEF F
  <1>4. Stays(F.live)
    BY <1>1, <1>2, <1>3, ReplacesTop
  <1>. QED
    BY <1>3, <1>4 DEF Land

LEMMA CallEnters ==
  ASSUME TypeOK, Call
  PROVE  Enters /\ frames # <<>> /\ UNCHANGED <<meta, unwinding, abandoned>>
  <1>1. frames # <<>> /\ UNCHANGED <<meta, unwinding, abandoned>>
    BY DEF Call, At
  <1> DEFINE base == Top.base + Room[Top.fn]
  <1>2. PICK g \in Functions : base + Room[g] <= Limit /\ frames' = Append(frames, Frame(g, base))
    BY DEF Call
  <1>3. frames \in Seq(Frames) /\ Len(frames) \in Nat /\ Top.base \in Nat /\ Top.fn \in Functions
    BY <1>1, TopTyped
  <1>4. base \in Nat
    BY <1>3, FrameAssumption
  <1>5. base = Ending(Top)
    BY DEF Ending
  <1> HIDE DEF base
  <1> DEFINE F == Frame(g, base)
  <1>6. F \in Frames /\ F.fn = g /\ F.base = base /\ F.pc \in DOMAIN Code[g] /\ Alive(F) = {}
    BY <1>4, NewFrame
  <1> HIDE DEF F
  <1>7. frames' = Append(frames, F)
    BY <1>2 DEF F
  <1>8. /\ frames' \in Seq(Frames) /\ Len(frames') = Len(frames) + 1
        /\ \A k \in 1 .. Len(frames) : frames'[k] = frames[k]
        /\ frames'[Len(frames) + 1] = F
    BY <1>3, <1>6, <1>7, AppendedFrame
  <1>. QED
    BY <1>1, <1>2, <1>5, <1>6, <1>8 DEF Enters, Ending

LEMMA StartEnters ==
  ASSUME NEW f \in Functions, frames = <<>>, frames' = <<Frame(f, 0)>>
  PROVE  Enters
  <1> DEFINE F == Frame(f, 0)
  <1>1. F \in Frames /\ F.fn = f /\ F.base = 0 /\ F.pc \in DOMAIN Code[f] /\ Alive(F) = {}
    BY NewFrame
  <1>2. Room[f] \in Nat /\ Room[f] <= Limit
    BY FrameAssumption
  <1> HIDE DEF F
  <1>3. /\ frames' \in Seq(Frames) /\ Len(frames') = 1 /\ frames'[1] = F
        /\ Len(frames) = 0
    BY <1>1 DEF F
  <1>. QED
    BY <1>1, <1>2, <1>3 DEF Enters, Ending

LEMMA FrontLeaves ==
  ASSUME TypeOK, frames # <<>>, frames' = Front(frames)
  PROVE  Leaves
  <1>1. /\ Front(frames) \in Seq(Frames) /\ Len(Front(frames)) = Len(frames) - 1
        /\ \A k \in 1 .. Len(frames) - 1 : Front(frames)[k] = frames[k]
        /\ DOMAIN frames = 1 .. Len(frames) /\ Len(frames) \in Nat
    BY FrontFrames, TopTyped
  <1>2. \A k \in 1 .. Len(frames) - 1 : frames[k].pc \in DOMAIN Code[frames[k].fn]
    BY SMTT(30), <1>1 DEF TypeOK
  <1>. QED
    BY SMTT(30), <1>1, <1>2 DEF Leaves, Alike

LEMMA ReturnLeaves ==
  ASSUME TypeOK, Return
  PROVE  Leaves
  <1>1. /\ frames # <<>> /\ frames \in Seq(Frames) /\ Len(frames) \in Nat
        /\ Len(frames) > 0 /\ DOMAIN frames = 1 .. Len(frames)
    BY TopTyped DEF Return, At
  <1>2. CASE Len(frames) = 1
    <2>1. frames' = <<>>
      BY <1>2 DEF Return
    <2>2. <<>> \in Seq(Frames) /\ Len(<<>>) = 0
      OBVIOUS
    <2>. QED
      BY <1>1, <1>2, <2>1, <2>2 DEF Leaves
  <1>3. CASE Len(frames) # 1
    <2> DEFINE n == Len(frames) - 1
               caller == frames[n]
               q == Front(Front(frames))
    <2>1. PICK i \in Code[caller.fn][caller.pc].next : frames' = Append(q, Goto(caller, i))
      BY <1>3 DEF Return
    <2>2. n \in 1 .. Len(frames) /\ caller \in Frames
      BY <1>1, <1>3
    <2>3. caller.pc \in DOMAIN Code[caller.fn] /\ caller.fn \in Functions
          /\ caller.live \in [Locals -> Nat]
      BY <1>1, <2>2 DEF TypeOK, Frames
    <2>4. i \in DOMAIN Code[caller.fn] /\ i \in Nat
      <3>1. Code[caller.fn] \in Seq(Instructions)
        BY <2>3, CodeAssumption
      <3>2. Code[caller.fn][caller.pc].next \subseteq DOMAIN Code[caller.fn]
        BY <2>3, CodeAssumption
      <3>. QED
        BY <2>1, <3>1, <3>2
    <2> DEFINE F == Goto(caller, i)
    <2>5. F \in Frames /\ Alike(F, caller) /\ F.pc = i
      BY ZenonT(60), <2>2, <2>3, <2>4, MovedFrame DEF Alike
    <2>6. /\ Front(frames) \in Seq(Frames) /\ Len(Front(frames)) = n
          /\ \A k \in 1 .. n : Front(frames)[k] = frames[k]
      BY <1>1, FrontFrames
    <2>7. /\ q \in Seq(Frames) /\ Len(q) = n - 1
          /\ \A k \in 1 .. n - 1 : q[k] = Front(frames)[k]
      <3>1. Front(frames) # <<>>
        BY <1>1, <1>3, <2>6
      <3>. QED
        BY <2>6, <3>1, FrontFrames
    <2>8. frames' = Append(q, F)
      BY <2>1
    <2>9. n \in Nat /\ n = Len(frames) - 1
      BY <1>1, <1>3
    <2> HIDE DEF F, q, caller, n
    <2>10. /\ frames' \in Seq(Frames) /\ Len(frames') = n
           /\ \A k \in 1 .. n - 1 : frames'[k] = q[k]
           /\ frames'[n] = F
      BY <2>5, <2>7, <2>8, <2>9, AppendedFrame
    <2>11. \A k \in 1 .. n - 1 : frames'[k] = frames[k]
      BY <2>6, <2>7, <2>9, <2>10
    <2>12. \A k \in 1 .. n : /\ Alike(frames'[k], frames[k])
                             /\ frames'[k].pc \in DOMAIN Code[frames[k].fn]
      <3>1. SUFFICES ASSUME NEW k \in 1 .. n
                     PROVE  /\ Alike(frames'[k], frames[k])
                            /\ frames'[k].pc \in DOMAIN Code[frames[k].fn]
        OBVIOUS
      <3>2. CASE k = n
        BY <2>4, <2>5, <2>10, <3>2 DEF caller
      <3>3. CASE k # n
        <4>1. k \in 1 .. n - 1 /\ k \in 1 .. Len(frames)
          <5>1. k \in 1 .. n - 1
            BY <2>9, <3>3, Positions
          <5>2. n \in Nat /\ n + 1 \in Nat /\ n + 1 = Len(frames)
            BY <1>1, <2>9
          <5>3. \A j \in 1 .. n : j \in 1 .. n + 1
            BY <5>2
          <5>. QED
            BY <5>1, <5>2, <5>3
        <4>2. k \in DOMAIN frames
          BY <1>1, <4>1
        <4>. QED
          BY <2>11, <4>1, <4>2 DEF Alike, TypeOK
      <3>. QED
        BY <3>2, <3>3
    <2>. QED
      BY <1>1, <2>9, <2>10, <2>12 DEF Leaves
  <1>. QED
    BY <1>2, <1>3

-----------------------------------------------------------------------------
(* Frames lie on top of each other.                                        *)

FramesOK(q) ==
  /\ q \in Seq(Frames)
  /\ \A k \in 1 .. Len(q) : /\ q[k].pc \in DOMAIN Code[q[k].fn]
                            /\ FrameWords(q[k]) \subseteq Words
  /\ \A j, k \in 1 .. Len(q) : j < k => Ending(q[j]) <= q[k].base

LEMMA EndingTyped ==
  ASSUME NEW F \in Frames
  PROVE  /\ F.fn \in Functions /\ F.base \in Nat /\ Ending(F) \in Nat
         /\ F.base <= Ending(F)
         /\ FrameWords(F) = F.base .. Ending(F) - 1
  <1>1. F.fn \in Functions /\ F.base \in Nat
    BY DEF Frames
  <1>2. Room[F.fn] \in Nat
    BY <1>1, FrameAssumption
  <1>. QED
    BY SMTT(30), <1>1, <1>2 DEF Ending, FrameWords

LEMMA AlikeFrames ==
  ASSUME NEW F \in Frames, NEW G \in Frames, Alike(F, G)
  PROVE  /\ Ending(F) = Ending(G) /\ FrameWords(F) = FrameWords(G)
         /\ F.base = G.base /\ F.fn = G.fn
         /\ Alive(F) = Alive(G) /\ Registered(F) = Registered(G)
         /\ \A v : Extent(F, v) = Extent(G, v)
         /\ \A v : MemberWords(F, v) = MemberWords(G, v)
         /\ \A v, w : Entry(F, v, w) = Entry(G, v, w)
  BY DEF Alike, Ending, FrameWords, Alive, Registered, Extent, MemberWords, Entry

(* What is below the top frame has no word of it.                          *)
LEMMA BelowTop ==
  ASSUME TypeOK, FramesOK(frames), frames # <<>>, NEW k \in 1 .. Len(frames), k # Len(frames)
  PROVE  /\ frames[k] \in Frames
         /\ \A w \in FrameWords(frames[k]) : w \notin FrameWords(Top)
  <1>1. /\ Len(frames) \in Nat /\ Len(frames) > 0 /\ Top = frames[Len(frames)]
        /\ Top \in Frames /\ frames \in Seq(Frames)
    BY TopTyped
  <1>2. frames[k] \in Frames
    BY <1>1
  <1>3. Ending(frames[k]) <= Top.base
    <2>1. k < Len(frames) /\ Len(frames) \in 1 .. Len(frames)
      BY <1>1
    <2>. QED
      BY <1>1, <2>1 DEF FramesOK
  <1>4. /\ FrameWords(frames[k]) = frames[k].base .. Ending(frames[k]) - 1
        /\ FrameWords(Top) = Top.base .. Ending(Top) - 1
        /\ frames[k].base \in Nat /\ Ending(frames[k]) \in Nat
        /\ Top.base \in Nat /\ Ending(Top) \in Nat
    BY <1>1, <1>2, EndingTyped
  <1>. QED
    BY <1>2, <1>3, <1>4

LEMMA FramesStay ==
  ASSUME TypeOK, FramesOK(frames), NEW live, Stays(live)
  PROVE  FramesOK(frames')
  <1>1. /\ Len(frames) \in Nat /\ Top = frames[Len(frames)] /\ frames \in Seq(Frames)
        /\ frames # <<>> /\ Top \in Frames
    BY TopTyped DEF Stays
  <1>2. /\ frames' \in Seq(Frames) /\ Len(frames') = Len(frames)
        /\ \A k \in 1 .. Len(frames) - 1 : frames'[k] = frames[k]
        /\ frames'[Len(frames)].fn = Top.fn /\ frames'[Len(frames)].base = Top.base
        /\ frames'[Len(frames)].pc \in DOMAIN Code[Top.fn]
    BY DEF Stays
  <1>3. \A k \in 1 .. Len(frames) : k = Len(frames) \/ frames'[k] = frames[k]
    BY <1>1, <1>2
  <1>4. \A k \in 1 .. Len(frames) : /\ frames'[k].fn = frames[k].fn
                                    /\ frames'[k].base = frames[k].base
    BY <1>1, <1>2, <1>3
  <1>5. \A k \in 1 .. Len(frames) : frames'[k].pc \in DOMAIN Code[frames'[k].fn]
    BY <1>1, <1>2, <1>3 DEF FramesOK
  <1>6. \A k \in 1 .. Len(frames) : /\ Ending(frames'[k]) = Ending(frames[k])
                                    /\ FrameWords(frames'[k]) = FrameWords(frames[k])
    BY <1>4 DEF Ending, FrameWords
  <1>7. /\ \A k \in 1 .. Len(frames) : FrameWords(frames[k]) \subseteq Words
        /\ \A j, k \in 1 .. Len(frames) : j < k => Ending(frames[j]) <= frames[k].base
    BY DEF FramesOK
  <1>. QED
    BY <1>2, <1>4, <1>5, <1>6, <1>7 DEF FramesOK

LEMMA FramesEnter ==
  ASSUME TypeOK, FramesOK(frames), Enters
  PROVE  FramesOK(frames')
  <1> DEFINE n == Len(frames) + 1
             new == frames'[n]
  <1>1. /\ frames' \in Seq(Frames) /\ Len(frames') = n
        /\ \A k \in 1 .. Len(frames) : frames'[k] = frames[k]
        /\ new.pc \in DOMAIN Code[new.fn]
        /\ new.base = IF frames = <<>> THEN 0 ELSE Ending(Top)
        /\ Ending(new) <= Limit
    BY DEF Enters
  <1>2. frames \in Seq(Frames) /\ Len(frames) \in Nat /\ n \in Nat /\ Limit \in Nat
    BY FrameAssumption DEF TypeOK
  <1>3. new \in Frames
    BY <1>1, <1>2
  <1>4. FrameWords(new) \subseteq Words
    <2>1. FrameWords(new) = new.base .. Ending(new) - 1 /\ new.base \in Nat /\ Ending(new) \in Nat
      BY <1>3, EndingTyped
    <2>. QED
      BY <1>1, <1>2, <2>1 DEF Words
  <1>5. \A k \in 1 .. Len(frames) : Ending(frames[k]) <= new.base
    <2>1. SUFFICES ASSUME NEW k \in 1 .. Len(frames)
                   PROVE  Ending(frames[k]) <= new.base
      OBVIOUS
    <2>2. frames # <<>>
      BY <1>2
    <2>3. Top = frames[Len(frames)] /\ Top \in Frames /\ new.base = Ending(Top)
      BY <1>1, <2>2, TopTyped
    <2>4. CASE k = Len(frames)
      BY <2>3, <2>4, EndingTyped
    <2>5. CASE k # Len(frames)
      <3>1. k < Len(frames) /\ Len(frames) \in 1 .. Len(frames) /\ frames[k] \in Frames
        BY <1>2, <2>5
      <3>2. Ending(frames[k]) <= Top.base
        BY <2>3, <3>1 DEF FramesOK
      <3>3. Top.base <= Ending(Top) /\ Top.base \in Nat /\ Ending(Top) \in Nat
            /\ Ending(frames[k]) \in Nat
        BY <2>3, <3>1, EndingTyped
      <3>. QED
        BY <2>3, <3>2, <3>3
    <2>. QED
      BY <2>4, <2>5
  <1>6. \A k \in 1 .. n : k = n \/ k \in 1 .. Len(frames)
    BY <1>2
  <1> HIDE DEF n, new
  <1>7. \A k \in 1 .. n : /\ frames'[k].pc \in DOMAIN Code[frames'[k].fn]
                          /\ FrameWords(frames'[k]) \subseteq Words
    <2>1. \A k \in 1 .. Len(frames) : /\ frames'[k].pc \in DOMAIN Code[frames'[k].fn]
                                      /\ FrameWords(frames'[k]) \subseteq Words
      BY <1>1 DEF FramesOK
    <2>2. frames'[n] = new
      BY DEF new
    <2>. QED
      BY <1>1, <1>4, <1>6, <2>1, <2>2
  <1>8. \A j, k \in 1 .. n : j < k => Ending(frames'[j]) <= frames'[k].base
    <2>1. SUFFICES ASSUME NEW j \in 1 .. n, NEW k \in 1 .. n, j < k
                   PROVE  Ending(frames'[j]) <= frames'[k].base
      OBVIOUS
    <2>2. j \in 1 .. Len(frames) /\ frames'[j] = frames[j]
      <3>1. j \in 1 .. Len(frames)
        BY <1>2, <2>1 DEF n
      <3>. QED
        BY <1>1, <3>1
    <2>3. CASE k = n
      BY <1>5, <2>2, <2>3 DEF new
    <2>4. CASE k \in 1 .. Len(frames)
      BY <1>1, <2>1, <2>2, <2>4 DEF FramesOK
    <2>. QED
      BY <1>6, <2>3, <2>4
  <1>. QED
    BY <1>1, <1>7, <1>8 DEF FramesOK

LEMMA FramesLeave ==
  ASSUME TypeOK, FramesOK(frames), Leaves
  PROVE  FramesOK(frames')
  <1> DEFINE n == Len(frames) - 1
  <1>1. frames \in Seq(Frames) /\ Len(frames) \in Nat /\ frames # <<>> /\ n \in Nat
        /\ Len(frames) = n + 1
    BY TopTyped DEF Leaves
  <1>2. /\ frames' \in Seq(Frames) /\ Len(frames') = n
        /\ \A k \in 1 .. n : /\ Alike(frames'[k], frames[k])
                             /\ frames'[k].pc \in DOMAIN Code[frames[k].fn]
    BY DEF Leaves
  <1> HIDE DEF n
  <1>3. \A k \in 1 .. n : k \in 1 .. Len(frames) /\ frames[k] \in Frames /\ frames'[k] \in Frames
    BY <1>1, <1>2
  <1>4. \A k \in 1 .. n : /\ Ending(frames'[k]) = Ending(frames[k])
                          /\ FrameWords(frames'[k]) = FrameWords(frames[k])
                          /\ frames'[k].base = frames[k].base /\ frames'[k].fn = frames[k].fn
    BY <1>2, <1>3, AlikeFrames
  <1>5. /\ \A k \in 1 .. n : FrameWords(frames[k]) \subseteq Words
        /\ \A j, k \in 1 .. n : j < k => Ending(frames[j]) <= frames[k].base
    BY <1>3 DEF FramesOK
  <1>. QED
    BY <1>2, <1>4, <1>5 DEF FramesOK

-----------------------------------------------------------------------------
(* The kinds of steps.                                                     *)

Quiet == abandoned' = abandoned /\ \A w \in Words : meta'[w] = meta[w]

(* A lifetime begins.                                                      *)
Begins ==
  /\ \/ Instr.op = "alloca" /\ Sites(Top.fn, "start", Instr.var) = {}
     \/ Instr.op = "start"
  /\ ~unwinding /\ unwinding' = unwinding
  /\ Stays(Began(Instr.var)) /\ Trace /\ Abandon({})

Ends ==
  /\ Instr.op = "end"
  /\ ~unwinding /\ unwinding' = unwinding
  /\ Stays(Over(Instr.var)) /\ Trace
  /\ Abandon(IF Top.pc \in handleAllocaDelete(Top.fn, Instr.var) THEN {}
             ELSE Extent(Top, Instr.var))

GoesOn == Stays(Top.live) /\ Quiet /\ unwinding' \in BOOLEAN

Waits == frames # <<>> /\ UNCHANGED frames /\ Quiet /\ unwinding' \in BOOLEAN

Given  == {v \in Variables[Top.fn] :
             \E r \in DominatedReturns(Top.fn, v) : Code[Top.fn][r].var = v}
Partly == {v \in Alive(Top) : Top.pc \notin DominatedReturns(Top.fn, v)}

Returning ==
  /\ Instr.op = "ret" /\ ~unwinding /\ unwinding' = unwinding
  /\ Leaves /\ Trace
  /\ Abandon(UNION {Extent(Top, v) : v \in Given \cup Partly})

Disappears ==
  /\ Leaves /\ (\A w \in Words : meta'[w] = meta[w])
  /\ Abandon(FrameWords(Top))
  /\ unwinding' = (Len(frames) > 1)

LEMMA LiveTyped ==
  ASSUME TypeOK, frames # <<>>, NEW v \in Variables[Top.fn]
  PROVE  /\ Began(v) \in [Locals -> Nat] /\ Over(v) \in [Locals -> Nat]
         /\ v \in Locals
         /\ Began(v)[v] = Top.pc /\ Over(v)[v] = 0
         /\ \A u \in Locals : u # v => Began(v)[u] = Top.live[u] /\ Over(v)[u] = Top.live[u]
  <1>1. Top.live \in [Locals -> Nat] /\ Top.pc \in Nat /\ Top.fn \in Functions
    BY TopTyped
  <1>2. v \in Locals
    BY <1>1 DEF Locals
  <1> DEFINE live == Top.live
             pc == Top.pc
  <1>3. live \in [Locals -> Nat] /\ pc \in Nat
    BY <1>1
  <1>4. Began(v) = [live EXCEPT ![v] = pc] /\ Over(v) = [live EXCEPT ![v] = 0]
    BY DEF Began, Over
  <1> HIDE DEF live, pc
  <1>5. /\ Began(v) \in [Locals -> Nat] /\ Over(v) \in [Locals -> Nat]
        /\ Began(v)[v] = pc /\ Over(v)[v] = 0
        /\ \A u \in Locals : u # v => Began(v)[u] = live[u] /\ Over(v)[u] = live[u]
    BY <1>2, <1>3, <1>4
  <1>. QED
    BY <1>2, <1>5 DEF live, pc

LEMMA TraceQuiet ==
  ASSUME TypeOK, frames # <<>>, Trace, Abandon({}),
         Instr.op \notin {"end", "ret"}, ~Registers
  PROVE  Quiet
  <1>1. \A w \in Words : meta'[w] = meta[w]
    BY TraceEffect
  <1>2. abandoned' = abandoned
    BY <1>1 DEF Abandon, TypeOK
  <1>. QED
    BY <1>1, <1>2 DEF Quiet

LEMMA StackKinds ==
  ASSUME TypeOK, Next
  PROVE  \/ Begins \/ Ends \/ GoesOn \/ Waits \/ Returning \/ Disappears
         \/ Enters /\ Quiet /\ unwinding' = FALSE
  <1>1. unwinding \in BOOLEAN /\ (unwinding => frames # <<>>)
    BY DEF TypeOK
  <1>2. CASE Alloca
    <2>1. frames # <<>> /\ ~unwinding /\ Instr.op = "alloca"
      BY <1>2 DEF Alloca, At
    <2>2. /\ Instr.var \in Variables[Top.fn] /\ Top.live \in [Locals -> Nat]
          /\ Top.fn \in Functions /\ Top.pc \in DOMAIN Code[Top.fn]
      BY <2>1, TopTyped
    <2>3. CASE Sites(Top.fn, "start", Instr.var) = {}
      <3>1. Step(Began(Instr.var)) /\ Abandon({})
        BY <1>2, <2>3 DEF Alloca
      <3>2. Began(Instr.var) \in [Locals -> Nat]
        BY <2>1, <2>2, LiveTyped
      <3>. QED
        BY <2>1, <2>3, <3>1, <3>2, StepStays DEF Begins
    <2>4. CASE Sites(Top.fn, "start", Instr.var) # {}
      <3>1. Step(Top.live) /\ Abandon({})
        BY <1>2, <2>4 DEF Alloca
      <3>2. Stays(Top.live) /\ Trace /\ unwinding' = unwinding
        BY <2>1, <2>2, <3>1, StepStays
      <3>3. ~Registers
        <4>1. Instr.op # "start" /\ Instr = Code[Top.fn][Top.pc]
          BY <2>1 DEF Instr
        <4>. QED
          BY <2>2, <2>4, <4>1, Placement DEF Registers
      <3>4. Quiet
        BY <2>1, <3>1, <3>2, <3>3, TraceQuiet
      <3>. QED
        BY <1>1, <3>2, <3>4 DEF GoesOn
    <2>. QED
      BY <2>3, <2>4
  <1>3. CASE LifetimeStart
    <2>1. frames # <<>> /\ ~unwinding /\ Instr.op = "start"
      BY <1>3 DEF LifetimeStart, At
    <2>2. Instr.var \in Variables[Top.fn]
      BY <2>1, TopTyped
    <2>3. Step(Began(Instr.var)) /\ Abandon({})
      BY <1>3 DEF LifetimeStart
    <2>4. Began(Instr.var) \in [Locals -> Nat]
      BY <2>1, <2>2, LiveTyped
    <2>. QED
      BY <2>1, <2>3, <2>4, StepStays DEF Begins
  <1>4. CASE LifetimeEnd
    <2>1. frames # <<>> /\ ~unwinding /\ Instr.op = "end"
      BY <1>4 DEF LifetimeEnd, At
    <2>2. Instr.var \in Variables[Top.fn]
      BY <2>1, TopTyped
    <2>3. /\ Step(Over(Instr.var))
          /\ Abandon(IF Top.pc \in handleAllocaDelete(Top.fn, Instr.var) THEN {}
                     ELSE Extent(Top, Instr.var))
      BY <1>4 DEF LifetimeEnd
    <2>4. Over(Instr.var) \in [Locals -> Nat]
      BY <2>1, <2>2, LiveTyped
    <2>. QED
      BY <2>1, <2>3, <2>4, StepStays DEF Ends
  <1>5. CASE Other \/ CallOutside
    <2>1. frames # <<>> /\ ~unwinding /\ Instr.op \in {"other", "call"}
          /\ Step(Top.live) /\ Abandon({})
      BY <1>5 DEF Other, CallOutside, At
    <2>2. Top.live \in [Locals -> Nat]
      BY <2>1, TopTyped
    <2>3. Stays(Top.live) /\ Trace /\ unwinding' = unwinding
      BY <2>1, <2>2, StepStays
    <2>4. ~Registers
      BY <2>1 DEF Registers
    <2>5. Quiet
      BY <2>1, <2>3, <2>4, TraceQuiet
    <2>. QED
      BY <1>1, <2>3, <2>5 DEF GoesOn
  <1>6. CASE Call
    BY <1>6, CallEnters DEF Quiet, Call, At, TypeOK
  <1>7. CASE Throw
    BY <1>7 DEF Throw, At, Waits, Quiet
  <1>8. CASE Return
    <2>1. frames # <<>> /\ ~unwinding /\ Instr.op = "ret"
      BY <1>8 DEF Return, At
    <2>2. Trace /\ unwinding' = unwinding
          /\ Abandon(UNION {Extent(Top, v) : v \in Given \cup Partly})
      BY <1>8 DEF Return, Given, Partly
    <2>. QED
      BY <1>8, <2>1, <2>2, ReturnLeaves DEF Returning
  <1>9. CASE Resume \/ Unwind
    <2>1. frames # <<>> /\ Leave
      BY <1>1, <1>9 DEF Resume, Unwind, At
    <2>. QED
      BY <2>1, FrontLeaves DEF Leave, Disappears
  <1>10. CASE Land
    <2>1. Stays(Top.live) /\ UNCHANGED <<meta, abandoned>> /\ unwinding' = FALSE
      BY <1>10, LandStays
    <2>. QED
      BY <2>1 DEF GoesOn, Quiet
  <1>. QED
    BY <1>2, <1>3, <1>4, <1>5, <1>6, <1>7, <1>8, <1>9, <1>10 DEF Next

-----------------------------------------------------------------------------
(* Types.                                                                  *)

MetaOK(m) ==
  \A w \in Words : \/ m[w] = NoMeta
                   \/ \E v \in DOMAIN Elements : \E k \in DOMAIN Elements[v] :
                        m[w] = [ref |-> Elements[v][k], off |-> k]

LEMMA TracedMeta ==
  ASSUME TypeOK, frames # <<>>, Trace
  PROVE  MetaOK(meta')
  <1>1. SUFFICES ASSUME NEW w \in Words
                 PROVE  \/ meta'[w] = NoMeta
                        \/ \E v \in DOMAIN Elements : \E k \in DOMAIN Elements[v] :
                             meta'[w] = [ref |-> Elements[v][k], off |-> k]
    BY DEF MetaOK
  <1>2. CASE meta'[w] = meta[w]
    BY <1>2 DEF TypeOK
  <1>3. CASE Registers /\ w \in MemberWords(Top, Instr.var)
    <2> DEFINE v == Instr.var
               k == w - Top.base - Slot[v]
    <2>1. v \in Variables[Top.fn] /\ Top \in Frames /\ Top.fn \in Functions
      BY <1>3, TopTyped DEF Registers
    <2>2. k \in DOMAIN Elements[v] /\ v \in DOMAIN Elements
      BY <1>3, <2>1, WordsOfFrame, Layout
    <2>3. meta'[w] = Entry(Top, v, w)
      BY <1>3, TraceEffect
    <2>4. meta'[w] = [ref |-> Elements[v][k], off |-> k]
      BY <2>3 DEF Entry
    <2>. QED
      BY <2>2, <2>4
  <1>. QED
    BY <1>2, <1>3, TraceEffect

LEMMA AbandonTyped ==
  ASSUME TypeOK, NEW words \in SUBSET Words, Abandon(words)
  PROVE  abandoned' \subseteq Words
  BY DEF Abandon, TypeOK

LEMMA ExtentTyped ==
  ASSUME TypeOK, frames # <<>>, NEW v \in Variables[Top.fn]
  PROVE  Extent(Top, v) \subseteq Words
  <1>1. Top \in Frames /\ FrameWords(Top) \subseteq Words
    BY TopTyped
  <1>. QED
    BY <1>1, WordsOfFrame

LEMMA StackTyped ==
  ASSUME TypeOK, FramesOK(frames), Next
  PROVE  TypeOK' /\ FramesOK(frames')
  <1>1. frames \in Seq(Frames) /\ Len(frames) \in Nat /\ abandoned \subseteq Words
    BY DEF TypeOK
  <1>2. (\E live : Stays(live)) \/ Enters \/ Leaves \/ (frames # <<>> /\ UNCHANGED frames)
    BY StackKinds DEF Begins, Ends, GoesOn, Waits, Returning, Disappears
  <1>3. FramesOK(frames')
    BY <1>2, FramesStay, FramesEnter, FramesLeave
  <1>4. MetaOK(meta')
    <2>1. (\A w \in Words : meta'[w] = meta[w]) => MetaOK(meta')
      BY DEF TypeOK, MetaOK
    <2>2. frames # <<>> /\ Trace => MetaOK(meta')
      BY TracedMeta
    <2>3. (\A w \in Words : meta'[w] = meta[w]) \/ (frames # <<>> /\ Trace)
      BY StackKinds DEF Begins, Ends, GoesOn, Waits, Returning, Disappears, Quiet,
                        Stays, Leaves
    <2>. QED
      BY <2>1, <2>2, <2>3
  <1>5. unwinding' \in BOOLEAN /\ (unwinding' => frames' # <<>>)
    <2>1. CASE Begins \/ Ends \/ Returning
      <3>1. ~unwinding' /\ unwinding' \in BOOLEAN
        BY <2>1 DEF Begins, Ends, Returning, TypeOK
      <3>. QED
        BY <3>1
    <2>2. CASE GoesOn \/ Waits
      <3>1. unwinding' \in BOOLEAN /\ frames # <<>>
            /\ (frames' = frames \/ (frames' \in Seq(Frames) /\ Len(frames') = Len(frames)))
        BY <2>2 DEF GoesOn, Waits, Stays
      <3>. QED
        BY <1>1, <3>1
    <2>3. CASE Disappears
      <3>1. unwinding' = (Len(frames) > 1) /\ frames' \in Seq(Frames)
            /\ Len(frames') = Len(frames) - 1
        BY <2>3 DEF Disappears, Leaves
      <3>2. unwinding' \in BOOLEAN
        BY <3>1
      <3>3. Len(frames) > 1 => frames' # <<>>
        BY <1>1, <3>1
      <3>. QED
        BY <3>1, <3>2, <3>3
    <2>4. CASE Enters /\ unwinding' = FALSE
      BY <2>4
    <2>. QED
      BY <2>1, <2>2, <2>3, <2>4, StackKinds
  <1>6. abandoned' \subseteq Words
    <2>1. CASE Quiet
      BY <1>1, <2>1 DEF Quiet
    <2>2. CASE Begins
      BY <2>2, AbandonTyped DEF Begins
    <2>3. CASE Ends
      <3>1. frames # <<>> /\ Instr.op = "end"
        BY <2>3 DEF Ends, Stays
      <3>2. Extent(Top, Instr.var) \subseteq Words
        BY <3>1, TopTyped, ExtentTyped
      <3>. QED
        BY <2>3, <3>2, AbandonTyped DEF Ends
    <2>4. CASE Returning
      <3>1. frames # <<>>
        BY <2>4 DEF Returning, Leaves
      <3>2. Given \cup Partly \subseteq Variables[Top.fn]
        BY DEF Given, Partly, Alive
      <3>3. UNION {Extent(Top, v) : v \in Given \cup Partly} \subseteq Words
        BY <3>1, <3>2, ExtentTyped
      <3>. QED
        BY <2>4, <3>3, AbandonTyped DEF Returning
    <2>5. CASE Disappears
      <3>1. FrameWords(Top) \subseteq Words
        BY <2>5, TopTyped DEF Disappears, Leaves
      <3>. QED
        BY <2>5, <3>1, AbandonTyped DEF Disappears
    <2>. QED
      BY <2>1, <2>2, <2>3, <2>4, <2>5, StackKinds DEF GoesOn, Waits
  <1>7. TypeOK'
    <2>1. /\ frames' \in Seq(Frames)
          /\ \A k \in 1 .. Len(frames') : /\ frames'[k].pc \in DOMAIN Code[frames'[k].fn]
                                          /\ FrameWords(frames'[k]) \subseteq Words
      BY <1>3 DEF FramesOK
    <2>2. DOMAIN frames' = 1 .. Len(frames')
      BY <2>1
    <2>. QED
      BY <1>4, <1>5, <1>6, <2>1, <2>2 DEF TypeOK, MetaOK
  <1>. QED
    BY <1>3, <1>7

-----------------------------------------------------------------------------
(* Live variables are described.                                           *)

Described(F, m) ==
  \A v \in Registered(F) : \A w \in MemberWords(F, v) : m[w] = Entry(F, v, w)

(* A frame is described as long as the entries of its variables stay.      *)
LEMMA DescribedStays ==
  ASSUME NEW F \in Frames, NEW G \in Frames, Alike(G, F), Described(F, meta),
         FrameWords(F) \subseteq Words,
         \A w \in FrameWords(F) : meta'[w] = meta[w]
  PROVE  Described(G, meta')
  <1>1. SUFFICES ASSUME NEW v \in Registered(G), NEW w \in MemberWords(G, v)
                 PROVE  meta'[w] = Entry(G, v, w)
    BY DEF Described
  <1>2. v \in Registered(F) /\ w \in MemberWords(F, v) /\ Entry(G, v, w) = Entry(F, v, w)
    BY AlikeFrames
  <1>3. w \in FrameWords(F)
    <2>1. v \in Variables[F.fn]
      BY <1>2 DEF Registered, Alive
    <2>. QED
      BY <1>2, <2>1, WordsOfFrame
  <1>. QED
    BY <1>2, <1>3 DEF Described

(* The calls at an instruction of the top frame touch no word below it.    *)
LEMMA TraceInTop ==
  ASSUME TypeOK, frames # <<>>, Trace, NEW w \in Words, w \notin FrameWords(Top)
  PROVE  meta'[w] = meta[w]
  <1>1. Top \in Frames /\ (Registers => Instr.var \in Variables[Top.fn])
    BY TopTyped DEF Registers
  <1>2. \A v : Removes(v) => v \in Variables[Top.fn]
    BY DEF Removes
  <1>3. \A v \in Variables[Top.fn] : w \notin MemberWords(Top, v)
    BY <1>1, WordsOfFrame
  <1>. QED
    BY <1>1, <1>2, <1>3, TraceEffect

(* Markers and allocas change no entry of another live variable.           *)
LEMMA OthersStay ==
  ASSUME TypeOK, frames # <<>>, Trace, Disciplined, ~unwinding,
         Instr.op \in {"alloca", "start", "end"},
         NEW v \in Alive(Top), v # Instr.var, NEW w \in MemberWords(Top, v)
  PROVE  meta'[w] = meta[w]
  <1>1. /\ Top \in Frames /\ Instr.var \in Variables[Top.fn] /\ v \in Variables[Top.fn]
        /\ Top.fn \in Functions /\ Top.pc \in DOMAIN Code[Top.fn]
        /\ FrameWords(Top) \subseteq Words
    BY TopTyped DEF Alive
  <1>2. w \in Extent(Top, v) /\ w \in Words
    BY <1>1, WordsOfFrame
  <1>3. Extent(Top, v) \cap Extent(Top, Instr.var) = {}
    BY DEF Disciplined
  <1>4. w \notin MemberWords(Top, Instr.var)
    BY <1>1, <1>2, <1>3, WordsOfFrame
  <1>5. \A u : Removes(u) => u = Instr.var
    <2>1. Instr = Code[Top.fn][Top.pc] /\ Instr.op # "ret"
      BY DEF Instr
    <2>. QED
      BY <1>1, <2>1, Placement DEF Removes
  <1>. QED
    BY <1>2, <1>4, <1>5, TraceEffect

(* The top frame after a marker or an alloca.                              *)
LEMMA TopAfter ==
  ASSUME TypeOK, Begins \/ Ends
  PROVE  LET F == frames'[Len(frames)]
         IN  /\ F \in Frames /\ F.fn = Top.fn /\ F.base = Top.base
             /\ frames # <<>> /\ Trace /\ ~unwinding
             /\ Instr.op \in {"alloca", "start", "end"}
             /\ Instr.var \in Variables[Top.fn]
             /\ \A v : v # Instr.var => (v \in Registered(F) <=> v \in Registered(Top))
             /\ Begins => F.live[Instr.var] = Top.pc
             /\ Ends => F.live[Instr.var] = 0
             /\ \A v : MemberWords(F, v) = MemberWords(Top, v)
             /\ \A v : Extent(F, v) = Extent(Top, v)
             /\ \A v, w : Entry(F, v, w) = Entry(Top, v, w)
  <1> DEFINE F == frames'[Len(frames)]
  <1>1. /\ frames # <<>> /\ Trace /\ ~unwinding
        /\ Instr.op \in {"alloca", "start", "end"}
    BY DEF Begins, Ends, Stays
  <1>2. /\ Instr.var \in Variables[Top.fn] /\ Len(frames) \in Nat /\ Len(frames) > 0
        /\ Top.live \in [Locals -> Nat] /\ Top.fn \in Functions
    BY <1>1, TopTyped
  <1>3. /\ frames' \in Seq(Frames) /\ Len(frames') = Len(frames)
        /\ F.fn = Top.fn /\ F.base = Top.base
        /\ Begins => F.live = Began(Instr.var)
        /\ Ends => F.live = Over(Instr.var)
    BY DEF Begins, Ends, Stays
  <1>4. F \in Frames
    <2>1. Len(frames) \in 1 .. Len(frames')
      BY <1>2, <1>3
    <2>. QED
      BY <1>3, <2>1
  <1>5. /\ Begins => F.live[Instr.var] = Top.pc
        /\ Ends => F.live[Instr.var] = 0
        /\ \A v \in Locals : v # Instr.var => F.live[v] = Top.live[v]
    BY <1>1, <1>2, <1>3, LiveTyped
  <1> HIDE DEF F
  <1>6. ASSUME NEW v, v # Instr.var
        PROVE  v \in Registered(F) <=> v \in Registered(Top)
    <2>1. v \in Variables[Top.fn] => v \in Locals
      BY <1>2 DEF Locals
    <2>. QED
      BY <1>3, <1>5, <1>6, <2>1 DEF Registered, Alive
  <1>7. /\ \A v : MemberWords(F, v) = MemberWords(Top, v)
        /\ \A v : Extent(F, v) = Extent(Top, v)
        /\ \A v, w : Entry(F, v, w) = Entry(Top, v, w)
    BY <1>3 DEF MemberWords, Extent, Entry
  <1>. QED
    BY <1>1, <1>2, <1>3, <1>4, <1>5, <1>6, <1>7 DEF F

LEMMA TopDescribed ==
  ASSUME TypeOK, Disciplined, Described(Top, meta), Begins \/ Ends
  PROVE  Described(frames'[Len(frames)], meta')
  <1> DEFINE F == frames'[Len(frames)]
  <1>1. /\ F \in Frames /\ F.fn = Top.fn /\ frames # <<>> /\ Trace /\ ~unwinding
        /\ Instr.op \in {"alloca", "start", "end"} /\ Instr.var \in Variables[Top.fn]
        /\ \A v : v # Instr.var => (v \in Registered(F) <=> v \in Registered(Top))
        /\ Begins => F.live[Instr.var] = Top.pc
        /\ Ends => F.live[Instr.var] = 0
        /\ \A v : MemberWords(F, v) = MemberWords(Top, v)
        /\ \A v, w : Entry(F, v, w) = Entry(Top, v, w)
    BY TopAfter
  <1> HIDE DEF F
  <1>2. SUFFICES ASSUME NEW v \in Registered(F), NEW w \in MemberWords(F, v)
                 PROVE  meta'[w] = Entry(F, v, w)
    BY DEF Described, F
  <1>3. CASE v # Instr.var
    <2>1. v \in Registered(Top) /\ w \in MemberWords(Top, v)
      BY <1>1, <1>3
    <2>2. v \in Alive(Top)
      BY <2>1 DEF Registered
    <2>3. meta'[w] = meta[w]
      BY <1>1, <1>3, <2>1, <2>2, OthersStay
    <2>. QED
      BY <1>1, <2>1, <2>3 DEF Described
  <1>4. CASE v = Instr.var
    <2>1. /\ F.live[v] # 0
          /\ \A i \in Sites(F.fn, "start", v) : F.live[v] <= i
      BY DEF Registered, Alive
    <2>2. Begins /\ F.live[v] = Top.pc
      BY <1>1, <1>4, <2>1
    <2>3. Registers
      <3>1. Instr = Code[Top.fn][Top.pc] /\ Top.fn \in Functions /\ Top.pc \in DOMAIN Code[Top.fn]
        BY <1>1, TopTyped DEF Instr
      <3>2. Instr.op = "start" \/ (Instr.op = "alloca" /\ Sites(Top.fn, "start", v) = {})
        BY <1>4, <2>2 DEF Begins
      <3>3. \A i \in Sites(Top.fn, "start", v) : Top.pc <= i
        BY <1>1, <2>1, <2>2
      <3>. QED
        BY <1>1, <1>4, <3>1, <3>2, <3>3, Placement DEF Registers
    <2>4. w \in MemberWords(Top, Instr.var) /\ w \in Words
      <3>1. w \in MemberWords(Top, Instr.var)
        BY <1>1, <1>4
      <3>. QED
        BY <1>1, <3>1, TopTyped, WordsOfFrame
    <2>. QED
      BY <1>1, <1>4, <2>3, <2>4, TraceEffect
  <1>. QED
    BY <1>3, <1>4

LEMMA BelowDescribed ==
  ASSUME TypeOK, FramesOK(frames), LiveDescribed, frames # <<>>,
         (\A w \in Words : meta'[w] = meta[w]) \/ Trace,
         NEW k \in 1 .. Len(frames), k # Len(frames), NEW G \in Frames, Alike(G, frames[k])
  PROVE  Described(G, meta')
  <1>1. /\ frames[k] \in Frames /\ FrameWords(frames[k]) \subseteq Words
        /\ \A w \in FrameWords(frames[k]) : w \notin FrameWords(Top)
    BY SMTT(30), BelowTop DEF FramesOK
  <1>2. Described(frames[k], meta)
    BY TopTyped DEF LiveDescribed, Described
  <1>3. \A w \in FrameWords(frames[k]) : meta'[w] = meta[w]
    BY <1>1, TraceInTop
  <1>. QED
    BY <1>1, <1>2, <1>3, DescribedStays

LEMMA LiveStep ==
  ASSUME TypeOK, FramesOK(frames), Disciplined, LiveDescribed, Next
  PROVE  LiveDescribed'
  <1>1. /\ frames \in Seq(Frames) /\ Len(frames) \in Nat /\ DOMAIN frames = 1 .. Len(frames)
        /\ \A k \in 1 .. Len(frames) : /\ frames[k] \in Frames
                                       /\ FrameWords(frames[k]) \subseteq Words
                                       /\ Described(frames[k], meta)
    <2>1. frames \in Seq(Frames) /\ Len(frames) \in Nat /\ DOMAIN frames = 1 .. Len(frames)
      BY DEF TypeOK
    <2>2. \A k \in 1 .. Len(frames) : frames[k] \in Frames
      BY <2>1
    <2>. QED
      BY <2>1, <2>2 DEF LiveDescribed, Described, FramesOK
  <1>2. SUFFICES ASSUME NEW k \in 1 .. Len(frames')
                 PROVE  Described(frames'[k], meta')
    <2>1. FramesOK(frames')
      BY StackTyped
    <2>2. DOMAIN frames' = 1 .. Len(frames')
      BY <2>1 DEF FramesOK
    <2>. QED
      BY <2>2 DEF LiveDescribed, Described
  <1>3. frames' \in Seq(Frames) /\ Len(frames') \in Nat /\ frames'[k] \in Frames
    <2>1. frames' \in Seq(Frames)
      BY StackTyped DEF FramesOK
    <2>. QED
      BY <2>1
  <1>4. CASE Begins \/ Ends
    <2>1. /\ frames # <<>> /\ Trace /\ Len(frames') = Len(frames)
          /\ \A j \in 1 .. Len(frames) - 1 : frames'[j] = frames[j]
      BY <1>4 DEF Begins, Ends, Stays
    <2>2. CASE k = Len(frames)
      <3>1. Described(Top, meta)
        BY <1>1, <2>1, TopTyped
      <3>. QED
        BY <1>4, <2>2, <3>1, TopDescribed
    <2>3. CASE k # Len(frames)
      <3>1. k \in 1 .. Len(frames) - 1 /\ k \in 1 .. Len(frames)
        <4>1. k \in 1 .. Len(frames)
          BY <2>1
        <4>. QED
          BY <1>1, <2>3, <4>1, Positions
      <3>2. Alike(frames'[k], frames[k])
        BY <2>1, <3>1 DEF Alike
      <3>. QED
        BY SMTT(30), <1>3, <2>1, <2>3, <3>1, <3>2, BelowDescribed
    <2>. QED
      BY <2>2, <2>3
  <1>5. CASE GoesOn \/ Waits
    <2>1. /\ frames # <<>> /\ Len(frames') = Len(frames)
          /\ \A w \in Words : meta'[w] = meta[w]
      BY <1>5 DEF GoesOn, Waits, Stays, Quiet
    <2>2. k \in 1 .. Len(frames)
      BY <2>1
    <2>3. Alike(frames'[k], frames[k])
      <3>1. CASE Waits
        BY <3>1 DEF Waits, Alike
      <3>2. CASE GoesOn
        <4>1. Stays(Top.live)
          BY <3>2 DEF GoesOn
        <4>2. CASE k = Len(frames)
          BY <2>1, <4>1, <4>2, TopTyped DEF Stays, Alike
        <4>3. CASE k # Len(frames)
          <5>1. k \in 1 .. Len(frames) - 1
            BY <1>1, <2>2, <4>3, Positions
          <5>. QED
            BY SMTT(30), <4>1, <5>1 DEF Stays, Alike
        <4>. QED
          BY <4>2, <4>3
      <3>. QED
        BY <1>5, <3>1, <3>2
    <2>4. \A w \in FrameWords(frames[k]) : meta'[w] = meta[w]
      BY <1>1, <2>1, <2>2
    <2>. QED
      BY <1>1, <1>3, <2>2, <2>3, <2>4, DescribedStays
  <1>6. CASE Returning \/ Disappears
    <2>1. /\ frames # <<>> /\ Len(frames') = Len(frames) - 1
          /\ (\A w \in Words : meta'[w] = meta[w]) \/ Trace
          /\ \A j \in 1 .. Len(frames) - 1 : Alike(frames'[j], frames[j])
      BY SMTT(30), <1>6 DEF Returning, Disappears, Leaves
    <2>2. k \in 1 .. Len(frames) - 1 /\ k \in 1 .. Len(frames) /\ k # Len(frames)
      <3>1. k \in 1 .. Len(frames) - 1
        BY <2>1
      <3>. QED
        BY <1>1, <3>1, Positions
    <2>. QED
      BY <1>3, <2>1, <2>2, BelowDescribed
  <1>7. CASE Enters /\ Quiet
    <2>1. CASE k \in 1 .. Len(frames)
      <3>1. frames'[k] = frames[k] /\ \A w \in Words : meta'[w] = meta[w]
        BY <1>7, <2>1 DEF Enters, Quiet
      <3>2. Alike(frames'[k], frames[k])
        BY <3>1 DEF Alike
      <3>. QED
        BY <1>1, <1>3, <2>1, <3>1, <3>2, DescribedStays
    <2>2. CASE k \notin 1 .. Len(frames)
      <3>1. Len(frames') = Len(frames) + 1 /\ Alive(frames'[Len(frames) + 1]) = {}
        BY <1>7 DEF Enters
      <3>2. k = Len(frames) + 1
        BY <1>1, <2>2, <3>1
      <3>. QED
        BY <3>1, <3>2 DEF Described, Registered
    <2>. QED
      BY <2>1, <2>2
  <1>. QED
    BY <1>4, <1>5, <1>6, <1>7, StackKinds

-----------------------------------------------------------------------------
(* Nothing else has an entry.                                              *)

Tracked(F, w) == \E v \in Registered(F) : w \in MemberWords(F, v)

LEMMA AbandonKeeps ==
  ASSUME TypeOK, NEW words, Abandon(words), NEW w \in Words, w \notin abandoned'
  PROVE  w \notin words /\ (meta'[w] = meta[w] => w \notin abandoned)
  BY DEF Abandon, TypeOK

LEMMA AlikeTracked ==
  ASSUME NEW F \in Frames, NEW G \in Frames, Alike(G, F), NEW w, Tracked(F, w)
  PROVE  Tracked(G, w)
  BY AlikeFrames DEF Tracked

(* An entry is that of a variable registered in some frame, or new.        *)
LEMMA EntriesTracked ==
  ASSUME TypeOK, NothingElse, NEW w \in Words, meta[w] # NoMeta, w \notin abandoned
  PROVE  \E k \in 1 .. Len(frames) : Tracked(frames[k], w)
  <1>1. DOMAIN frames = 1 .. Len(frames)
    BY DEF TypeOK
  <1>. QED
    BY <1>1 DEF NothingElse, Tracked

(* At an alloca or a marker the words of the function's other variables    *)
(* and the new ones stay tracked.                                          *)
LEMMA TopTracked ==
  ASSUME TypeOK, Disciplined, Begins \/ Ends, NEW w \in Words,
         w \notin abandoned', meta'[w] # NoMeta,
         Tracked(Top, w) \/ meta'[w] # meta[w]
  PROVE  Tracked(frames'[Len(frames)], w)
  <1> DEFINE F == frames'[Len(frames)]
             u == Instr.var
  <1>1. /\ F \in Frames /\ F.fn = Top.fn /\ frames # <<>> /\ Trace /\ ~unwinding
        /\ Instr.op \in {"alloca", "start", "end"} /\ u \in Variables[Top.fn]
        /\ \A v : v # u => (v \in Registered(F) <=> v \in Registered(Top))
        /\ Begins => F.live[u] = Top.pc
        /\ Ends => F.live[u] = 0
        /\ \A v : MemberWords(F, v) = MemberWords(Top, v)
    BY TopAfter
  <1>2. /\ Instr = Code[Top.fn][Top.pc] /\ Top.fn \in Functions
        /\ Top.pc \in DOMAIN Code[Top.fn] /\ Top \in Frames /\ Top.pc # 0
    BY <1>1, TopTyped DEF Instr
  <1> HIDE DEF F
  <1>3. /\ Begins => Instr.op = "start" \/ Sites(Top.fn, "start", u) = {}
        /\ Ends => Instr.op = "end"
        /\ Instr.op = "end" => ~Registers
    BY DEF Begins, Ends, Registers
  <1>4. CASE Registers /\ w \in MemberWords(Top, u)
    <2>1. Begins /\ F.live[u] = Top.pc
      BY <1>1, <1>3, <1>4
    <2>2. \A i \in Sites(Top.fn, "start", u) : Top.pc <= i
      BY <1>1, <1>2, <1>4, Placement DEF Registers
    <2>3. u \in Registered(F)
      BY <1>1, <1>2, <2>1, <2>2 DEF Registered, Alive
    <2>. QED
      BY <1>1, <1>4, <2>3 DEF Tracked, F
  <1>5. CASE ~(Registers /\ w \in MemberWords(Top, u))
    <2>1. meta'[w] = meta[w]
      BY <1>1, <1>5, TraceEffect
    <2>2. PICK v \in Registered(Top) : w \in MemberWords(Top, v)
      BY <2>1 DEF Tracked
    <2>3. CASE v # u
      BY <1>1, <2>2, <2>3 DEF Tracked, F
    <2>4. CASE v = u
      <3>1. u \in Alive(Top)
        BY <2>2, <2>4 DEF Registered
      <3>2. CASE Ends
        <4>1. ~Registers /\ w \in MemberWords(Top, u) /\ w \in Extent(Top, u)
          BY <1>1, <1>2, <1>3, <2>2, <2>4, <3>2, WordsOfFrame
        <4>2. CASE Top.pc \in handleAllocaDelete(Top.fn, u)
          <5>1. Removes(u)
            BY <1>1, <4>2 DEF Removes
          <5>2. meta'[w] = NoMeta
            BY <1>1, <4>1, <5>1, TraceEffect
          <5>. QED
            BY <5>2
        <4>3. CASE Top.pc \notin handleAllocaDelete(Top.fn, u)
          <5>1. Abandon(Extent(Top, u))
            BY <3>2, <4>3 DEF Ends
          <5>. QED
            BY <4>1, <5>1, AbandonKeeps
        <4>. QED
          BY <4>2, <4>3
      <3>3. CASE Begins
        <4>1. Instr.op # "start"
          BY <1>1, <3>1 DEF Disciplined
        <4>2. Sites(Top.fn, "start", u) = {}
          BY <1>3, <3>3, <4>1
        <4>3. u \in Registered(F)
          BY <1>1, <1>2, <3>3, <4>2 DEF Registered, Alive
        <4>. QED
          BY <1>1, <2>2, <2>4, <4>3 DEF Tracked, F
      <3>. QED
        BY <3>2, <3>3
    <2>. QED
      BY <2>3, <2>4
  <1>. QED
    BY <1>4, <1>5

(* The variables of a frame that returns are removed or abandoned.         *)
LEMMA ReturnForgets ==
  ASSUME TypeOK, Disciplined, Returning, NEW w \in Words,
         w \notin abandoned', Tracked(Top, w)
  PROVE  meta'[w] = NoMeta
  <1>1. /\ frames # <<>> /\ Trace /\ Instr.op = "ret" /\ ~unwinding
        /\ Abandon(UNION {Extent(Top, v) : v \in Given \cup Partly})
    BY DEF Returning, Leaves
  <1>2. /\ Instr = Code[Top.fn][Top.pc] /\ Top.fn \in Functions
        /\ Top.pc \in DOMAIN Code[Top.fn] /\ Top \in Frames
    BY <1>1, TopTyped DEF Instr
  <1>3. PICK v \in Registered(Top) : w \in MemberWords(Top, v)
    BY DEF Tracked
  <1>4. v \in Alive(Top) /\ v \in Variables[Top.fn]
    BY DEF Registered, Alive
  <1>5. w \in Extent(Top, v)
    BY <1>2, <1>3, <1>4, WordsOfFrame
  <1>6. v \notin Given /\ v \notin Partly
    <2>1. w \notin UNION {Extent(Top, u) : u \in Given \cup Partly}
      BY <1>1, AbandonKeeps
    <2>. QED
      BY <1>5, <2>1
  <1>7. /\ Top.pc \in DominatedReturns(Top.fn, v)
        /\ \A r \in DominatedReturns(Top.fn, v) : Code[Top.fn][r].var # v
    BY <1>4, <1>6 DEF Given, Partly
  <1>8. Sites(Top.fn, "end", v) = {}
    BY <1>1, <1>4 DEF Disciplined
  <1>9. Removes(v)
    BY <1>2, <1>4, <1>7, <1>8, Placement DEF Removes
  <1>10. ~Registers
    BY <1>1 DEF Registers
  <1>. QED
    BY <1>1, <1>3, <1>9, <1>10, TraceEffect

LEMMA NothingStep ==
  ASSUME TypeOK, FramesOK(frames), Disciplined, NothingElse, Next
  PROVE  NothingElse'
  <1>1. frames \in Seq(Frames) /\ Len(frames) \in Nat
    BY DEF TypeOK
  <1>2. frames' \in Seq(Frames) /\ DOMAIN frames' = 1 .. Len(frames')
    <2>1. frames' \in Seq(Frames)
      BY StackTyped DEF FramesOK
    <2>. QED
      BY <2>1
  <1>3. SUFFICES ASSUME NEW w \in Words, w \notin abandoned', meta'[w] # NoMeta
                 PROVE  \E k \in 1 .. Len(frames') : Tracked(frames'[k], w)
    BY <1>2 DEF NothingElse, Tracked
  <1>4. meta'[w] = meta[w] /\ w \notin abandoned
          => \E k \in 1 .. Len(frames) : Tracked(frames[k], w)
    BY <1>3, EntriesTracked
  <1>5. CASE Begins \/ Ends
    <2>1. /\ frames # <<>> /\ Trace /\ Len(frames') = Len(frames)
          /\ \A j \in 1 .. Len(frames) - 1 : frames'[j] = frames[j]
          /\ \E words : Abandon(words)
      BY <1>5 DEF Begins, Ends, Stays
    <2>2. Len(frames) \in 1 .. Len(frames') /\ Top = frames[Len(frames)]
      BY <1>1, <2>1, TopTyped
    <2>3. CASE Tracked(Top, w) \/ meta'[w] # meta[w]
      BY <1>3, <1>5, <2>2, <2>3, TopTracked
    <2>4. CASE ~Tracked(Top, w) /\ meta'[w] = meta[w]
      <3>1. w \notin abandoned
        BY <1>3, <2>1, <2>4, AbandonKeeps
      <3>2. PICK k \in 1 .. Len(frames) : Tracked(frames[k], w)
        BY <1>4, <2>4, <3>1
      <3>3. k \in 1 .. Len(frames) - 1
        BY <1>1, <2>2, <2>4, <3>2, Positions
      <3>4. frames'[k] = frames[k] /\ k \in 1 .. Len(frames')
        BY <2>1, <3>2, <3>3
      <3>. QED
        BY <3>2, <3>4
    <2>. QED
      BY <2>3, <2>4
  <1>6. CASE GoesOn \/ Waits
    <2>1. /\ frames # <<>> /\ Len(frames') = Len(frames)
          /\ meta'[w] = meta[w] /\ abandoned' = abandoned
      BY <1>6 DEF GoesOn, Waits, Stays, Quiet
    <2>2. PICK k \in 1 .. Len(frames) : Tracked(frames[k], w)
      BY <1>3, <1>4, <2>1
    <2>3. Alike(frames'[k], frames[k])
      <3>1. CASE Waits
        BY <3>1 DEF Waits, Alike
      <3>2. CASE GoesOn
        <4>1. Stays(Top.live)
          BY <3>2 DEF GoesOn
        <4>2. CASE k = Len(frames)
          BY <2>1, <4>1, <4>2, TopTyped DEF Stays, Alike
        <4>3. CASE k # Len(frames)
          <5>1. k \in 1 .. Len(frames) - 1
            BY <1>1, <2>2, <4>3, Positions
          <5>. QED
            BY <4>1, <5>1 DEF Stays, Alike
        <4>. QED
          BY <4>2, <4>3
      <3>. QED
        BY <1>6, <3>1, <3>2
    <2>4. k \in 1 .. Len(frames') /\ frames[k] \in Frames /\ frames'[k] \in Frames
      <3>1. k \in 1 .. Len(frames')
        BY <2>1, <2>2
      <3>. QED
        BY <1>1, <1>2, <2>2, <3>1
    <2>. QED
      BY <2>2, <2>3, <2>4, AlikeTracked
  <1>7. CASE Returning \/ Disappears
    <2>1. /\ frames # <<>> /\ Len(frames') = Len(frames) - 1
          /\ \A j \in 1 .. Len(frames) - 1 : Alike(frames'[j], frames[j])
          /\ Top = frames[Len(frames)] /\ Top \in Frames
      BY <1>7, TopTyped DEF Returning, Disappears, Leaves
    <2>2. meta'[w] = meta[w]
      <3>1. CASE Returning
        <4>1. frames # <<>> /\ Trace /\ ~Registers
          BY <2>1, <3>1 DEF Returning, Registers
        <4>. QED
          BY <1>3, <4>1, TraceEffect
      <3>2. CASE Disappears
        BY <3>2 DEF Disappears
      <3>. QED
        BY <1>7, <3>1, <3>2
    <2>3. w \notin abandoned
      BY <1>3, <1>7, <2>2, AbandonKeeps DEF Returning, Disappears
    <2>4. PICK k \in 1 .. Len(frames) : Tracked(frames[k], w)
      BY <1>4, <2>2, <2>3
    <2>5. k # Len(frames)
      <3>1. SUFFICES ASSUME Tracked(Top, w)
                     PROVE  FALSE
        BY <2>1, <2>4
      <3>2. CASE Returning
        BY <1>3, <3>1, <3>2, ReturnForgets
      <3>3. CASE Disappears
        <4>1. w \notin FrameWords(Top)
          BY <1>3, <3>3, AbandonKeeps DEF Disappears
        <4>2. PICK v \in Registered(Top) : w \in MemberWords(Top, v)
          BY <3>1 DEF Tracked
        <4>3. v \in Variables[Top.fn]
          BY DEF Registered, Alive
        <4>. QED
          BY <2>1, <4>1, <4>2, <4>3, WordsOfFrame
      <3>. QED
        BY <1>7, <3>2, <3>3
    <2>6. k \in 1 .. Len(frames) - 1
      BY <1>1, <2>4, <2>5, Positions
    <2>7. k \in 1 .. Len(frames') /\ frames[k] \in Frames /\ frames'[k] \in Frames
          /\ Alike(frames'[k], frames[k])
      <3>1. k \in 1 .. Len(frames')
        BY <2>1, <2>6
      <3>. QED
        BY <1>1, <1>2, <2>1, <2>4, <2>6, <3>1
    <2>. QED
      BY <2>4, <2>7, AlikeTracked
  <1>8. CASE Enters /\ Quiet
    <2>1. meta'[w] = meta[w] /\ w \notin abandoned
      BY <1>3, <1>8 DEF Quiet
    <2>2. PICK k \in 1 .. Len(frames) : Tracked(frames[k], w)
      BY <1>3, <1>4, <2>1
    <2>3. frames'[k] = frames[k] /\ Len(frames') = Len(frames) + 1
      BY <1>8, <2>2 DEF Enters
    <2>4. k \in 1 .. Len(frames')
      <3>1. \A j \in 1 .. Len(frames) : j \in 1 .. Len(frames) + 1
        BY <1>1
      <3>. QED
        BY <2>2, <2>3, <3>1
    <2>. QED
      BY <2>2, <2>3, <2>4
  <1>. QED
    BY <1>5, <1>6, <1>7, <1>8, StackKinds

-----------------------------------------------------------------------------
(* Entries of globals.                                                     *)

DescribedGlobal(o, g) ==
  \A n \in 0 .. Length[o] - 1 : \A k \in DOMAIN GlobalElements[o] :
    g[GlobalSlot[o] + n * TypeWidth[o] + k] = [ref |-> GlobalElements[o][k], off |-> k]

GlobalExtent(o) == GlobalSlot[o] .. GlobalSlot[o] + Length[o] * TypeWidth[o] - 1

(* Elements of an array lie one after the other.                           *)
LEMMA ElementPlace ==
  ASSUME NEW len \in Nat, NEW width \in Nat \ {0},
         NEW n \in 0 .. len - 1, NEW k \in 0 .. width - 1
  PROVE  /\ n * width + k \in Nat /\ n * width + k < len * width
         /\ (n * width + k) % width = k
  <1>1. n \in Nat /\ k \in Nat /\ k < width /\ n + 1 <= len
    OBVIOUS
  <1>2. n * width \in Nat /\ len * width \in Nat
    BY <1>1
  <1>3. (n + 1) * width = n * width + width
    BY <1>1
  <1>4. \A a, b \in Nat : a <= b => a * width <= b * width
    BY Z3
  <1>5. (n + 1) * width <= len * width
    BY <1>1, <1>4
  <1>6. (n * width + k) % width = k
    BY <1>1, Z3
  <1>. QED
    BY <1>1, <1>2, <1>3, <1>5, <1>6

LEMMA EntryOfGlobal ==
  ASSUME NEW o \in Globals
  PROVE  /\ GlobalExtent(o) \subseteq 0 .. GlobalWords - 1
         /\ DOMAIN GlobalEntries(o) \subseteq GlobalExtent(o)
         /\ \A n \in 0 .. Length[o] - 1 : \A k \in DOMAIN GlobalElements[o] :
              LET w == GlobalSlot[o] + n * TypeWidth[o] + k
              IN  /\ w \in DOMAIN GlobalEntries(o)
                  /\ GlobalEntries(o)[w] = [ref |-> GlobalElements[o][k], off |-> k]
  <1> DEFINE slot == GlobalSlot[o]
             len == Length[o]
             width == TypeWidth[o]
             codes == GlobalElements[o]
             places == {slot + n * width + k : n \in 0 .. len - 1, k \in DOMAIN codes}
  <1>1. /\ slot \in Nat /\ len \in Nat /\ width \in Nat \ {0} /\ GlobalWords \in Nat
        /\ DOMAIN codes \subseteq 0 .. width - 1 /\ slot + len * width <= GlobalWords
    BY GlobalAssumption
  <1>2. GlobalEntries(o) = [w \in places |-> [ref |-> codes[(w - slot) % width],
                                             off |-> (w - slot) % width]]
    BY DEF GlobalEntries
  <1>3. GlobalExtent(o) = slot .. slot + len * width - 1
    BY DEF GlobalExtent
  <1> HIDE DEF slot, len, width, codes
  <1>4. \A n \in 0 .. len - 1 : \A k \in DOMAIN codes :
          /\ n * width + k \in Nat /\ n * width + k < len * width
          /\ (n * width + k) % width = k
    BY <1>1, ElementPlace
  <1>5. len * width \in Nat
    BY <1>1
  <1>6. GlobalExtent(o) \subseteq 0 .. GlobalWords - 1
    BY <1>1, <1>3, <1>5
  <1>7. ASSUME NEW n \in 0 .. len - 1, NEW k \in DOMAIN codes
        PROVE  /\ slot + n * width + k \in GlobalExtent(o)
               /\ slot + n * width + k \in places
               /\ GlobalEntries(o)[slot + n * width + k] = [ref |-> codes[k], off |-> k]
    <2> DEFINE m == n * width + k
               w == slot + n * width + k
    <2>1. m \in Nat /\ m < len * width /\ m % width = k
      BY <1>4
    <2>2. w = slot + m /\ w - slot = m
      <3>1. n * width \in Nat /\ k \in Nat
        BY <1>1
      <3>. QED
        BY <1>1, <3>1
    <2>3. w \in places
      OBVIOUS
    <2> HIDE DEF m, w, places
    <2>4. w \in slot .. slot + len * width - 1
      BY <1>1, <1>5, <2>1, <2>2
    <2>5. GlobalEntries(o)[w] = [ref |-> codes[(w - slot) % width], off |-> (w - slot) % width]
      BY <1>2, <2>3
    <2>. QED
      BY <1>3, <2>1, <2>2, <2>3, <2>4, <2>5 DEF w
  <1>8. DOMAIN GlobalEntries(o) = places
    BY <1>2
  <1>9. places \subseteq GlobalExtent(o)
    <2>1. SUFFICES ASSUME NEW w \in places
                   PROVE  w \in GlobalExtent(o)
      OBVIOUS
    <2>2. \E n \in 0 .. len - 1 : \E k \in DOMAIN codes : w = slot + n * width + k
      OBVIOUS
    <2>3. PICK n \in 0 .. len - 1 : \E k \in DOMAIN codes : w = slot + n * width + k
      BY <2>2
    <2>4. PICK k \in DOMAIN codes : w = slot + n * width + k
      BY <2>3
    <2> HIDE DEF places
    <2>5. slot + n * width + k \in GlobalExtent(o)
      BY <1>7
    <2>. QED
      BY <2>4, <2>5
  <1>. QED
    BY <1>6, <1>7, <1>8, <1>9 DEF slot, len, width, codes

(* No word is one of two globals.                                          *)
LEMMA GlobalsApart ==
  ASSUME NEW o \in Globals, NEW p \in Globals, NEW w,
         w \in DOMAIN GlobalEntries(o), w \in DOMAIN GlobalEntries(p)
  PROVE  o = p
  <1>1. w \in GlobalExtent(o) /\ w \in GlobalExtent(p)
    BY EntryOfGlobal
  <1> DEFINE a == Length[o] * TypeWidth[o]
             b == Length[p] * TypeWidth[p]
  <1>2. a \in Nat /\ b \in Nat /\ GlobalSlot[o] \in Nat /\ GlobalSlot[p] \in Nat
    BY GlobalAssumption
  <1>3. \/ o = p
        \/ GlobalSlot[o] + a <= GlobalSlot[p]
        \/ GlobalSlot[p] + b <= GlobalSlot[o]
    BY GlobalAssumption
  <1>4. w \in GlobalSlot[o] .. GlobalSlot[o] + a - 1 /\ w \in GlobalSlot[p] .. GlobalSlot[p] + b - 1
    BY <1>1 DEF GlobalExtent
  <1> HIDE DEF a, b
  <1>. QED
    BY <1>2, <1>3, <1>4

(* What __init_global_object of a module leaves.                           *)
Traces(u) ==
  globals' = [w \in DOMAIN globals |->
                LET here == {o \in Mentions[u] : w \in DOMAIN GlobalEntries(o)}
                IN  IF here = {} THEN globals[w]
                    ELSE GlobalEntries(CHOOSE o \in here : TRUE)[w]]

LEMMA GlobalTraced ==
  ASSUME NEW i \in DOMAIN Modules, Traces(Modules[i]), DOMAIN globals = 0 .. GlobalWords - 1
  PROVE  /\ DOMAIN globals' = 0 .. GlobalWords - 1
         /\ \A o \in Globals : \A w \in DOMAIN GlobalEntries(o) :
              globals'[w] = IF o \in Mentions[Modules[i]] THEN GlobalEntries(o)[w]
                            ELSE globals[w]
         /\ \A w \in DOMAIN globals :
              globals'[w] = globals[w] \/ \E o \in Globals : w \in DOMAIN GlobalEntries(o)
  <1> DEFINE u == Modules[i]
             here(w) == {o \in Mentions[u] : w \in DOMAIN GlobalEntries(o)}
  <1>1. Mentions[u] \subseteq Globals
    BY DEF Globals
  <1>2. globals' = [w \in DOMAIN globals |->
                      IF here(w) = {} THEN globals[w]
                      ELSE GlobalEntries(CHOOSE o \in here(w) : TRUE)[w]]
    BY DEF Traces
  <1>3. DOMAIN globals' = DOMAIN globals
    BY <1>2
  <1>4. \A w \in DOMAIN globals :
          globals'[w] = IF here(w) = {} THEN globals[w]
                        ELSE GlobalEntries(CHOOSE o \in here(w) : TRUE)[w]
    BY <1>2
  <1>5. ASSUME NEW o \in Globals, NEW w \in DOMAIN GlobalEntries(o)
        PROVE  globals'[w] = IF o \in Mentions[u] THEN GlobalEntries(o)[w] ELSE globals[w]
    <2>1. w \in DOMAIN globals
      BY EntryOfGlobal
    <2>2. CASE o \in Mentions[u]
      <3> DEFINE c == CHOOSE p \in here(w) : TRUE
      <3>1. o \in here(w)
        BY <2>2
      <3>2. c \in here(w)
        BY <3>1
      <3>3. c = o
        BY <1>1, <3>2, GlobalsApart
      <3>. QED
        BY <1>4, <2>1, <2>2, <3>1, <3>3
    <2>3. CASE o \notin Mentions[u]
      <3>1. here(w) = {}
        BY <1>1, <2>3, GlobalsApart
      <3>. QED
        BY <1>4, <2>1, <2>3, <3>1
    <2>. QED
      BY <2>2, <2>3
  <1>6. ASSUME NEW w \in DOMAIN globals
        PROVE  globals'[w] = globals[w] \/ \E o \in Globals : w \in DOMAIN GlobalEntries(o)
    BY <1>1, <1>4
  <1>. QED
    BY <1>3, <1>5, <1>6

-----------------------------------------------------------------------------
(* Start-up.                                                               *)

(* The constructor of the i-th module that registers its globals is done.  *)
Traced(i) == \A c \in start : ~(c.run = "trace" /\ c.at = i)

(* While anything runs, all of them are.                                   *)
StartInv ==
  /\ start \subseteq Constructors \cup {Main} /\ (start # {} => Main \in start)
  /\ frames # <<>> => \A i \in DOMAIN Modules : Traced(i)
  /\ DOMAIN globals = 0 .. GlobalWords - 1
  /\ \A w \in DOMAIN globals :
       globals[w] = NoMeta \/ \E o \in Globals : w \in DOMAIN GlobalEntries(o)
  /\ \A i \in DOMAIN Modules : Traced(i) =>
       \A o \in Mentions[Modules[i]] : DescribedGlobal(o, globals)

LEMMA Priorities ==
  ASSUME NEW c \in Constructors \cup {Main}
  PROVE  /\ c.run = "trace" =>
              c \in Constructors /\ c.at \in DOMAIN Modules /\ c.priority = 0
         /\ c.run = "initialise" =>
              c \in Constructors /\ c.at \in DOMAIN Modules /\ c.priority = 65535
         /\ c = Main => c.run = "main" /\ c.priority = 65536
         /\ c \in Constructors => c # Main /\ c.priority \in {0, 65535}
         /\ c.run # "trace" => c.priority \in {65535, 65536}
  <1>1. c \in Constructors => \E i \in DOMAIN Modules : c \in global_ctors(i)
    BY DEF Constructors
  <1>2. Main.run = "main" /\ Main.priority = 65536
    BY DEF Main, DefaultPriority
  <1>3. ASSUME NEW i \in DOMAIN Modules, c \in global_ctors(i)
        PROVE  \/ c.run = "initialise" /\ c.priority = 65535 /\ c.at = i
               \/ c.run = "trace" /\ c.priority = 0 /\ c.at = i
    BY <1>3 DEF global_ctors, DefaultPriority, TracePriority
  <1>4. c \in Constructors =>
          \E i \in DOMAIN Modules : \/ c.run = "initialise" /\ c.priority = 65535 /\ c.at = i
                                    \/ c.run = "trace" /\ c.priority = 0 /\ c.at = i
    BY <1>1, <1>3
  <1>. QED
    BY <1>2, <1>4

(* No registration of globals is left to be run after an initialiser or    *)
(* main.                                                                   *)
LEMMA TracesFirst ==
  ASSUME StartInv, NEW c \in start, c.run # "trace", Starts(c)
  PROVE  /\ \A d \in start : d.run # "trace"
         /\ start' \subseteq start
         /\ c = Main => start' = {}
         /\ c # Main => start' = start \ {c} /\ Main \in start'
  <1>1. /\ start \subseteq Constructors \cup {Main} /\ Main \in start
        /\ start' = start \ {c}
        /\ \A d \in start \ {c} : Before(c, d)
    BY DEF StartInv, Starts
  <1>2. c.priority \in {65535, 65536} /\ (c = Main => c.priority = 65536)
    BY <1>1, Priorities
  <1>3. \A d \in start : d.priority \in {0, 65535, 65536}
    BY <1>1, Priorities
  <1>4. \A d \in start \ {c} : d.priority >= c.priority
    BY <1>1, <1>2, <1>3 DEF Before
  <1>5. \A d \in start : d.run = "trace" => d.priority = 0
    BY <1>1, Priorities
  <1>6. \A d \in start \ {c} : d.run # "trace"
    BY <1>2, <1>4, <1>5
  <1>7. c = Main => start \ {c} = {}
    <2>1. SUFFICES ASSUME c = Main, NEW d \in start \ {c}
                   PROVE  FALSE
      OBVIOUS
    <2>2. d \in Constructors
      BY <1>1, <2>1
    <2>3. d.priority \in {0, 65535}
      BY <2>2, Priorities
    <2>. QED
      BY <1>2, <1>4, <2>1, <2>3
  <1>. QED
    BY <1>1, <1>6, <1>7

LEMMA DescribedKept ==
  ASSUME NEW o \in Globals, NEW g, NEW h, DescribedGlobal(o, g),
         \A w \in DOMAIN GlobalEntries(o) : h[w] = g[w] \/ h[w] = GlobalEntries(o)[w]
  PROVE  DescribedGlobal(o, h)
  <1>1. SUFFICES ASSUME NEW n \in 0 .. Length[o] - 1, NEW k \in DOMAIN GlobalElements[o]
                 PROVE  h[GlobalSlot[o] + n * TypeWidth[o] + k]
                          = [ref |-> GlobalElements[o][k], off |-> k]
    BY DEF DescribedGlobal
  <1> DEFINE w == GlobalSlot[o] + n * TypeWidth[o] + k
             e == [ref |-> GlobalElements[o][k], off |-> k]
  <1>2. w \in DOMAIN GlobalEntries(o) /\ GlobalEntries(o)[w] = e
    BY EntryOfGlobal
  <1>3. g[w] = e
    BY DEF DescribedGlobal
  <1> HIDE DEF w, e
  <1>4. h[w] = e
    BY <1>2, <1>3
  <1>. QED
    BY <1>4 DEF w, e

LEMMA DescribedNow ==
  ASSUME NEW o \in Globals, NEW h,
         \A w \in DOMAIN GlobalEntries(o) : h[w] = GlobalEntries(o)[w]
  PROVE  DescribedGlobal(o, h)
  <1>1. SUFFICES ASSUME NEW n \in 0 .. Length[o] - 1, NEW k \in DOMAIN GlobalElements[o]
                 PROVE  h[GlobalSlot[o] + n * TypeWidth[o] + k]
                          = [ref |-> GlobalElements[o][k], off |-> k]
    BY DEF DescribedGlobal
  <1> DEFINE w == GlobalSlot[o] + n * TypeWidth[o] + k
             e == [ref |-> GlobalElements[o][k], off |-> k]
  <1>2. w \in DOMAIN GlobalEntries(o) /\ GlobalEntries(o)[w] = e
    BY EntryOfGlobal
  <1> HIDE DEF w, e
  <1>3. h[w] = e
    BY <1>2
  <1>. QED
    BY <1>3 DEF w, e

LEMMA StartTraced ==
  ASSUME StartInv, globalObjTracing
  PROVE  StartInv'
  <1>1. PICK c \in start : /\ c.run = "trace" /\ Starts(c)
                           /\ Traces(Modules[c.at])
    BY DEF globalObjTracing, TracedGlobals, Traces
  <1>2. /\ start \subseteq Constructors \cup {Main} /\ Main \in start
        /\ start' = start \ {c} /\ frames = <<>>
    BY <1>1 DEF StartInv, Starts
  <1>3. c.at \in DOMAIN Modules /\ c # Main
    BY <1>1, <1>2, Priorities
  <1>4. frames' = frames
    BY DEF globalObjTracing, vars
  <1>5. /\ DOMAIN globals' = 0 .. GlobalWords - 1
        /\ \A o \in Globals : \A w \in DOMAIN GlobalEntries(o) :
             globals'[w] = IF o \in Mentions[Modules[c.at]] THEN GlobalEntries(o)[w]
                           ELSE globals[w]
        /\ \A w \in DOMAIN globals :
             globals'[w] = globals[w] \/ \E o \in Globals : w \in DOMAIN GlobalEntries(o)
    BY <1>1, <1>3, GlobalTraced DEF StartInv
  <1>6. ASSUME NEW i \in DOMAIN Modules, Traced(i)', NEW o \in Mentions[Modules[i]]
        PROVE  DescribedGlobal(o, globals')
    <2>1. o \in Globals
      BY DEF Globals
    <2>2. CASE Traced(i)
      <3>1. DescribedGlobal(o, globals)
        BY <2>2 DEF StartInv
      <3>2. \A w \in DOMAIN GlobalEntries(o) :
              globals'[w] = globals[w] \/ globals'[w] = GlobalEntries(o)[w]
        BY <1>5, <2>1
      <3>. QED
        BY <2>1, <3>1, <3>2, DescribedKept
    <2>3. CASE ~Traced(i)
      <3>1. c.at = i
        BY <1>2, <1>6, <2>3 DEF Traced
      <3>2. \A w \in DOMAIN GlobalEntries(o) : globals'[w] = GlobalEntries(o)[w]
        BY <1>5, <2>1, <3>1
      <3>. QED
        BY <2>1, <3>2, DescribedNow
    <2>. QED
      BY <2>2, <2>3
  <1>7. \A w \in DOMAIN globals' :
          globals'[w] = NoMeta \/ \E o \in Globals : w \in DOMAIN GlobalEntries(o)
    BY <1>5 DEF StartInv
  <1>8. start' \subseteq Constructors \cup {Main} /\ Main \in start'
    BY <1>2, <1>3
  <1>9. frames' = <<>>
    BY <1>2, <1>4
  <1>. QED
    BY <1>5, <1>6, <1>7, <1>8, <1>9 DEF StartInv

LEMMA NextRuns ==
  ASSUME TypeOK, Next
  PROVE  frames # <<>>
  BY DEF TypeOK, Next, Alloca, LifetimeStart, LifetimeEnd, Other, Call, CallOutside,
         Throw, Return, Resume, Unwind, Land, At

LEMMA StartStep ==
  ASSUME TypeOK, StartInv, [ProgramNext]_programVars
  PROVE  StartInv'
  <1>1. CASE globalObjTracing
    BY <1>1, StartTraced
  <1>2. CASE Initialise \/ StartMain
    <2>1. PICK c \in start : c.run # "trace" /\ Starts(c)
      <3>1. Main.run # "trace"
        BY DEF Main
      <3>. QED
        BY <1>2, <3>1 DEF Initialise, StartMain, Starts
    <2>2. /\ \A d \in start : d.run # "trace"
          /\ start' \subseteq start
          /\ start' # {} => Main \in start'
      BY <2>1, TracesFirst
    <2>3. globals' = globals /\ frames = <<>>
      BY <1>2, <2>1 DEF Initialise, StartMain, Starts
    <2>4. \A i \in DOMAIN Modules : Traced(i) /\ Traced(i)'
      BY <2>2 DEF Traced
    <2>. QED
      BY <2>2, <2>3, <2>4 DEF StartInv
  <1>3. CASE RunStep
    <2>1. frames # <<>> /\ globals' = globals /\ (start' = {} \/ start' = start)
      BY <1>3, NextRuns DEF RunStep
    <2>2. \A i \in DOMAIN Modules : Traced(i) /\ Traced(i)'
      BY <2>1 DEF StartInv, Traced
    <2>. QED
      BY <2>1, <2>2 DEF StartInv
  <1>4. CASE UNCHANGED programVars
    BY <1>4 DEF programVars, vars, StartInv, Traced
  <1>. QED
    BY <1>1, <1>2, <1>3, <1>4 DEF ProgramNext

-----------------------------------------------------------------------------
(* The program.                                                            *)

ProgramInv == TypeOK /\ FramesOK(frames) /\ StartInv

StackInv == LiveDescribed /\ NothingElse

LEMMA EmptyStack ==
  /\ FramesOK(<<>>)
  /\ frames = <<>> => LiveDescribed /\ DOMAIN frames = {}
  <1>1. <<>> \in Seq(Frames) /\ Len(<<>>) = 0 /\ DOMAIN <<>> = {}
    OBVIOUS
  <1>2. FramesOK(<<>>)
    BY <1>1 DEF FramesOK
  <1>. QED
    BY <1>1, <1>2 DEF LiveDescribed

LEMMA InitProgram == ProgramInit => ProgramInv /\ StackInv
  <1> SUFFICES ASSUME ProgramInit
               PROVE  ProgramInv /\ StackInv
    OBVIOUS
  <1>1. /\ frames = <<>> /\ unwinding = FALSE /\ abandoned = {}
        /\ \A w \in Words : meta[w] = NoMeta
        /\ start = Constructors \cup {Main}
        /\ DOMAIN globals = 0 .. GlobalWords - 1
        /\ \A w \in DOMAIN globals : globals[w] = NoMeta
    BY DEF ProgramInit
  <1>2. FramesOK(frames) /\ LiveDescribed /\ frames \in Seq(Frames) /\ DOMAIN frames = {}
    BY <1>1, EmptyStack
  <1>3. TypeOK
    BY <1>1, <1>2 DEF TypeOK
  <1>4. NothingElse
    BY <1>1 DEF NothingElse
  <1>5. \A i \in DOMAIN Modules : ~Traced(i)
    <2>1. SUFFICES ASSUME NEW i \in DOMAIN Modules
                   PROVE  \E c \in start : c.run = "trace" /\ c.at = i
      BY DEF Traced
    <2> DEFINE c == [run |-> "trace", priority |-> TracePriority, at |-> i, place |-> 2]
    <2>2. c \in global_ctors(i) /\ c.run = "trace" /\ c.at = i
      BY DEF global_ctors
    <2>3. c \in Constructors
      BY <2>2 DEF Constructors
    <2>. QED
      BY <1>1, <2>2, <2>3
  <1>6. StartInv
    BY <1>1, <1>5 DEF StartInv
  <1>. QED
    BY <1>2, <1>3, <1>4, <1>6 DEF ProgramInv, StackInv

LEMMA InitialisersTyped ==
  ASSUME NEW i \in DOMAIN Modules, NEW f \in Initialiser[Modules[i]]
  PROVE  f \in Functions
  BY GlobalAssumption

(* A function that an initialiser calls, or main, is the first frame.      *)
LEMMA Starting ==
  ASSUME StartInv, Initialise \/ StartMain
  PROVE  /\ frames = <<>> /\ UNCHANGED <<meta, unwinding, abandoned>>
         /\ frames' = frames \/ \E f \in Functions : frames' = <<Frame(f, 0)>>
  <1>1. CASE StartMain
    BY <1>1, CodeAssumption DEF StartMain, Starts
  <1>2. CASE Initialise
    <2>1. PICK c \in start :
            /\ c.run = "initialise" /\ Starts(c)
            /\ \/ \E f \in Initialiser[Modules[c.at]] : frames' = <<Frame(f, 0)>>
               \/ UNCHANGED frames
      BY <1>2 DEF Initialise
    <2>2. c.at \in DOMAIN Modules
      BY <2>1, Priorities DEF StartInv
    <2>3. \A f \in Initialiser[Modules[c.at]] : f \in Functions
      BY <2>2, InitialisersTyped
    <2>. QED
      BY <1>2, <2>1, <2>3 DEF Initialise, Starts
  <1>. QED
    BY <1>1, <1>2

LEMMA ProgramTypes ==
  ProgramInv /\ [ProgramNext]_programVars => ProgramInv'
  <1> SUFFICES ASSUME ProgramInv, [ProgramNext]_programVars
               PROVE  ProgramInv'
    OBVIOUS
  <1>1. TypeOK /\ FramesOK(frames) /\ StartInv /\ StartInv'
    BY StartStep DEF ProgramInv
  <1>2. CASE Initialise \/ StartMain
    <2>1. /\ frames = <<>> /\ UNCHANGED <<meta, unwinding, abandoned>>
          /\ frames' = frames \/ \E f \in Functions : frames' = <<Frame(f, 0)>>
      BY <1>1, <1>2, Starting
    <2>2. FramesOK(frames')
      <3>1. CASE frames' = frames
        BY <1>1, <3>1
      <3>2. CASE \E f \in Functions : frames' = <<Frame(f, 0)>>
        BY <1>1, <2>1, <3>2, StartEnters, FramesEnter
      <3>. QED
        BY <2>1, <3>1, <3>2
    <2>3. unwinding = FALSE
      BY <1>1, <2>1 DEF TypeOK
    <2>4. /\ frames' \in Seq(Frames) /\ DOMAIN frames' = 1 .. Len(frames')
      BY <2>2 DEF FramesOK
    <2>5. TypeOK'
      BY <1>1, <2>1, <2>2, <2>3, <2>4 DEF TypeOK, FramesOK
    <2>. QED
      BY <1>1, <2>2, <2>5 DEF ProgramInv
  <1>3. CASE RunStep
    BY <1>1, <1>3, StackTyped DEF RunStep, ProgramInv
  <1>4. CASE globalObjTracing \/ UNCHANGED programVars
    <2>1. UNCHANGED vars
      BY <1>4 DEF globalObjTracing, programVars
    <2>. QED
      BY <1>1, <2>1 DEF vars, ProgramInv, TypeOK, FramesOK
  <1>. QED
    BY <1>2, <1>3, <1>4 DEF ProgramNext

LEMMA ProgramStack ==
  ProgramInv /\ StackInv /\ Disciplined /\ [ProgramNext]_programVars => StackInv'
  <1> SUFFICES ASSUME ProgramInv, StackInv, Disciplined, [ProgramNext]_programVars
               PROVE  StackInv'
    OBVIOUS
  <1>1. TypeOK /\ FramesOK(frames) /\ StartInv /\ LiveDescribed /\ NothingElse
    BY DEF ProgramInv, StackInv
  <1>2. CASE Initialise \/ StartMain
    <2>1. /\ frames = <<>> /\ UNCHANGED <<meta, unwinding, abandoned>>
          /\ frames' = frames \/ \E f \in Functions : frames' = <<Frame(f, 0)>>
      BY <1>1, <1>2, Starting
    <2>2. \A w \in Words \ abandoned : meta[w] = NoMeta
      BY <1>1, <2>1, EmptyStack DEF NothingElse
    <2>3. NothingElse'
      BY <2>1, <2>2 DEF NothingElse
    <2>4. LiveDescribed'
      <3>1. CASE frames' = frames
        BY <1>1, <2>1, <3>1 DEF LiveDescribed
      <3>2. CASE \E f \in Functions : frames' = <<Frame(f, 0)>>
        <4>1. PICK f \in Functions : frames' = <<Frame(f, 0)>>
          BY <3>2
        <4>2. Alive(Frame(f, 0)) = {}
          BY NewFrame
        <4> DEFINE F == Frame(f, 0)
        <4>3. Registered(F) = {}
          BY <4>2 DEF Registered
        <4>4. frames' = <<F>>
          BY <4>1
        <4> HIDE DEF F
        <4>5. \A k \in DOMAIN frames' : frames'[k] = F
          BY <4>4
        <4>. QED
          BY <4>3, <4>5 DEF LiveDescribed
      <3>. QED
        BY <2>1, <3>1, <3>2
    <2>. QED
      BY <2>3, <2>4 DEF StackInv
  <1>3. CASE RunStep
    BY <1>1, <1>3, LiveStep, NothingStep DEF RunStep, StackInv
  <1>4. CASE globalObjTracing \/ UNCHANGED programVars
    <2>1. UNCHANGED vars
      BY <1>4 DEF globalObjTracing, programVars
    <2>. QED
      BY <1>1, <2>1 DEF vars, StackInv, LiveDescribed, NothingElse
  <1>. QED
    BY <1>2, <1>3, <1>4 DEF ProgramNext

(* The invariant of the whole program: types; frames lie in the stack,     *)
(* above those of their callers; while anything runs, every module has     *)
(* registered its globals, and what a module registered stays described    *)
(* (globalObjTracing).                                                     *)
THEOREM ProgramInvariant == ProgramSpec => []ProgramInv
  BY InitProgram, ProgramTypes, PTL DEF ProgramSpec

(* Stack, start-up and globals keep their types: every frame fits, every   *)
(* entry on the stack is one of a tracked word of some variable, and every *)
(* entry among the globals lies in one of them.                            *)
THEOREM ProgramTyped == ProgramSpec => []ProgramTypeOK
  <1>1. ProgramInv => ProgramTypeOK
    BY DEF ProgramInv, StartInv, ProgramTypeOK
  <1>. QED
    BY <1>1, ProgramInvariant, PTL

(* No function of an instrumented program runs, for an initialiser or for  *)
(* main, before the globals its module mentions are described, whatever    *)
(* the order of the modules (globalObjTracing).                            *)
THEOREM GlobalsDescribedHolds == ProgramSpec => []GlobalsDescribed
  <1>1. ProgramInv => GlobalsDescribed
    <2> SUFFICES ASSUME ProgramInv, NEW k \in DOMAIN frames,
                        NEW o \in Mentions[ModuleOf[frames[k].fn]]
                 PROVE  DescribedGlobal(o, globals)
      BY DEF GlobalsDescribed, DescribedGlobal
    <2>1. StartInv /\ frames \in Seq(Frames)
      BY DEF ProgramInv, TypeOK
    <2>2. frames[k] \in Frames /\ frames # <<>>
      <3>1. DOMAIN frames # {}
        OBVIOUS
      <3>. QED
        BY <2>1, <3>1
    <2>3. frames[k].fn \in Functions
      BY <2>2 DEF Frames
    <2>4. PICK i \in DOMAIN Modules : ModuleOf[frames[k].fn] = Modules[i]
      BY <2>3, GlobalAssumption
    <2>. QED
      BY <2>1, <2>2, <2>4 DEF StartInv
  <1>. QED
    BY <1>1, ProgramInvariant, PTL

(* What registration and removal make of the stack in a program the        *)
(* compiler laid out with disjoint lifetimes (handleAllocaAdd,             *)
(* handleAllocaDelete).                                                    *)
THEOREM StackInvariant == ProgramSpec /\ []Disciplined => []StackInv
  BY InitProgram, ProgramTypes, ProgramStack, PTL DEF ProgramSpec

(* In a program whose compiler lets variables share words only while their *)
(* lifetimes are disjoint, a registered live variable has the entries of   *)
(* its type, whatever calls, returns and exceptions left in its words      *)
(* (handleAllocaAdd, handleAllocaDelete).                                  *)
THEOREM LiveDescribedHolds == ProgramSpec /\ []Disciplined => []LiveDescribed
  <1>1. StackInv => LiveDescribed
    BY DEF StackInv
  <1>. QED
    BY <1>1, StackInvariant, PTL

(* In such a program no other word of the stack has an entry, up to those  *)
(* the pass is known to abandon (handleAllocaDelete).                      *)
THEOREM NothingElseHolds == ProgramSpec /\ []Disciplined => []NothingElse
  <1>1. StackInv => NothingElse
    BY DEF StackInv
  <1>. QED
    BY <1>1, StackInvariant, PTL


-----------------------------------------------------------------------------
(* From the text of the functions to Disciplined: what is alive in a frame *)
(* is in the table of its function at its place, and a frame with another  *)
(* one above, or an exception under way, is at a call.                     *)

OpOf(F) == Code[F.fn][F.pc].op

InTable(table, F) == <<F.pc, Alive(F)>> \in table[F.fn]

Tabled(table, q, waits) ==
  \A k \in DOMAIN q : /\ InTable(table, q[k])
                      /\ k < Len(q) \/ waits => OpOf(q[k]) = "call"

AllScoped(table) == \A f \in Functions : Scoped(f, table[f])

LEMMA AliveAfter ==
  ASSUME TypeOK, frames # <<>>, Instr.op \in {"alloca", "start", "end"},
         NEW live \in [Locals -> Nat],
         live = IF Instr.op = "end" THEN Over(Instr.var)
                ELSE IF Instr.op = "alloca" /\ Sites(Top.fn, "start", Instr.var) # {}
                THEN Top.live ELSE Began(Instr.var),
         NEW F \in Frames, F.fn = Top.fn, F.live = live
  PROVE  Alive(F) = After(Top.fn, Top.pc, Alive(Top))
  <1> DEFINE f == Top.fn
             i == Top.pc
             v == Instr.var
  <1>1. /\ Top.live \in [Locals -> Nat] /\ i # 0 /\ i \in Nat /\ i \in DOMAIN Code[f]
        /\ v \in Variables[f] /\ Instr = Code[f][i] /\ f \in Functions
    BY TopTyped DEF Instr
  <1>2. \A u \in Variables[f] : u \in Locals
    BY <1>1 DEF Locals
  <1>3. \A u \in Variables[f] : \A op \in {"alloca", "start", "end"} :
          i \in Sites(f, op, u) <=> Instr.op = op /\ u = v
    BY <1>1 DEF Sites
  <1>4. Alive(F) = {u \in Variables[f] : live[u] # 0}
        /\ Alive(Top) = {u \in Variables[f] : Top.live[u] # 0}
    BY DEF Alive
  <1>5. \A u \in Variables[f] :
          /\ Over(v)[u] = IF u = v THEN 0 ELSE Top.live[u]
          /\ Began(v)[u] = IF u = v THEN i ELSE Top.live[u]
    BY <1>1, <1>2 DEF Over, Began
  <1> DEFINE starts == Sites(f, "start", v) # {}
  <1>6. \A u \in Variables[f] :
          u \in After(f, i, Alive(Top)) <=>
            /\ \/ u \in Alive(Top)
               \/ Instr.op = "start" /\ u = v
               \/ Instr.op = "alloca" /\ u = v /\ ~starts
            /\ ~ (Instr.op = "end" /\ u = v)
    BY <1>3 DEF After
  <1>7. After(f, i, Alive(Top)) \subseteq Variables[f]
    BY <1>4 DEF After
  <1> HIDE DEF f, i, v
  <1>8. CASE Instr.op = "end"
    <2>1. live = Over(v)
      BY <1>8 DEF v
    <2>. QED
      BY <1>4, <1>5, <1>6, <1>7, <1>8, <2>1 DEF f, i
  <1>9. CASE Instr.op = "start"
    <2>1. live = Began(v)
      BY <1>9 DEF v
    <2>. QED
      BY <1>1, <1>4, <1>5, <1>6, <1>7, <1>9, <2>1 DEF f, i
  <1>10. CASE Instr.op = "alloca" /\ starts
    <2>1. live = Top.live
      BY <1>10 DEF v, f
    <2>. QED
      BY <1>4, <1>6, <1>7, <1>10, <2>1 DEF f, i
  <1>11. CASE Instr.op = "alloca" /\ ~starts
    <2>1. live = Began(v)
      BY <1>11 DEF v, f
    <2>. QED
      BY <1>1, <1>4, <1>5, <1>6, <1>7, <1>11, <2>1 DEF f, i
  <1>. QED
    BY <1>8, <1>9, <1>10, <1>11

(* Instructions of another kind begin and end no lifetime.                 *)
LEMMA SameAlive ==
  ASSUME NEW F \in Frames, OpOf(F) \notin {"alloca", "start", "end"}
  PROVE  After(F.fn, F.pc, Alive(F)) = Alive(F)
  <1>1. \A v \in Variables[F.fn] : \A op \in {"alloca", "start", "end"} :
          F.pc \notin Sites(F.fn, op, v)
    BY DEF Sites, OpOf
  <1>. QED
    BY <1>1 DEF After, Alive

LEMMA TableFollows ==
  ASSUME NEW table, AllScoped(table), NEW F \in Frames, InTable(table, F),
         NEW G \in Frames, G.fn = F.fn, G.pc \in Successors(F.fn, F.pc),
         Alive(G) = After(F.fn, F.pc, Alive(F))
  PROVE  InTable(table, G)
  <1>1. F.fn \in Functions
    BY DEF Frames
  <1> DEFINE p == <<F.pc, Alive(F)>>
  <1>2. p \in table[F.fn] /\ p[1] = F.pc /\ p[2] = Alive(F)
    BY DEF InTable
  <1> HIDE DEF p
  <1>3. Scoped(F.fn, table[F.fn])
    BY <1>1 DEF AllScoped
  <1>4. \A k \in Successors(F.fn, p[1]) : <<k, After(F.fn, p[1], p[2])>> \in table[F.fn]
    BY <1>2, <1>3 DEF Scoped
  <1>. QED
    BY <1>2, <1>4 DEF InTable

LEMMA ReplacedTabled ==
  ASSUME TypeOK, frames # <<>>, NEW table, Tabled(table, frames, unwinding),
         NEW F \in Frames, InTable(table, F), frames' = Append(Front(frames), F),
         unwinding' = FALSE
  PROVE  Tabled(table, frames', unwinding')
  <1> DEFINE q == Front(frames)
             n == Len(frames)
  <1>1. /\ frames \in Seq(Frames) /\ n \in Nat /\ n > 0 /\ DOMAIN frames = 1 .. n
        /\ q \in Seq(Frames) /\ Len(q) = n - 1 /\ \A k \in 1 .. n - 1 : q[k] = frames[k]
    BY FrontFrames, TopTyped
  <1>2. frames' = Append(q, F)
    OBVIOUS
  <1> HIDE DEF q, n
  <1>3. /\ frames' \in Seq(Frames) /\ Len(frames') = n
        /\ \A k \in 1 .. n - 1 : frames'[k] = q[k]
        /\ frames'[n] = F
    <2>1. /\ Append(q, F) \in Seq(Frames) /\ Len(Append(q, F)) = Len(q) + 1
          /\ \A k \in 1 .. Len(q) : Append(q, F)[k] = q[k]
          /\ Append(q, F)[Len(q) + 1] = F
      BY <1>1, AppendedFrame
    <2>2. Len(q) + 1 = n
      BY <1>1
    <2>. QED
      BY <1>1, <1>2, <2>1, <2>2
  <1>4. DOMAIN frames' = 1 .. n
    BY <1>3
  <1>5. ASSUME NEW k \in 1 .. n
        PROVE  InTable(table, frames'[k]) /\ (k < n => OpOf(frames'[k]) = "call")
    <2>1. CASE k = n
      BY <1>1, <1>3, <2>1
    <2>2. CASE k # n
      <3>1. k \in 1 .. n - 1 /\ k \in DOMAIN frames /\ k < n
        BY <1>1, <2>2
      <3>2. frames'[k] = frames[k]
        BY <1>1, <1>3, <3>1
      <3>3. InTable(table, frames[k]) /\ OpOf(frames[k]) = "call"
        BY <3>1 DEF Tabled, n
      <3>. QED
        BY <3>2, <3>3
    <2>. QED
      BY <2>1, <2>2
  <1>. QED
    BY <1>3, <1>4, <1>5 DEF Tabled


LEMMA TopTabled ==
  ASSUME TypeOK, frames # <<>>, NEW table, Tabled(table, frames, unwinding)
  PROVE  /\ Len(frames) \in DOMAIN frames /\ InTable(table, Top)
         /\ unwinding => Instr.op = "call"
         /\ OpOf(Top) = Instr.op
         /\ Instr.next \subseteq Successors(Top.fn, Top.pc)
         /\ Instr.pad # 0 => Instr.pad \in Successors(Top.fn, Top.pc)
  <1>1. Len(frames) \in DOMAIN frames /\ Top = frames[Len(frames)]
    BY TopTyped
  <1>2. InTable(table, Top) /\ (unwinding => OpOf(Top) = "call")
    BY <1>1 DEF Tabled
  <1>3. OpOf(Top) = Instr.op
    BY DEF OpOf, Instr
  <1>. QED
    BY <1>1, <1>2, <1>3 DEF Successors, Instr

LEMMA StepTabled ==
  ASSUME TypeOK, NEW table, AllScoped(table), Tabled(table, frames, unwinding),
         frames # <<>>, ~unwinding, NEW live \in [Locals -> Nat], Step(live),
         \A F \in Frames : F.fn = Top.fn /\ F.live = live
                             => Alive(F) = After(Top.fn, Top.pc, Alive(Top))
  PROVE  Tabled(table, frames', unwinding')
  <1>1. Top \in Frames /\ \A i \in Instr.next : i \in Nat
    BY TopTyped
  <1>2. PICK i \in Instr.next :
          frames' = Append(Front(frames), [Goto(Top, i) EXCEPT !.live = live])
    BY DEF Step
  <1> DEFINE F == [Goto(Top, i) EXCEPT !.live = live]
  <1>3. /\ F \in Frames /\ F.pc = i /\ F.fn = Top.fn /\ F.live = live
        /\ frames' = Append(Front(frames), F)
    BY <1>1, <1>2, MovedFrame
  <1> HIDE DEF F
  <1>4. InTable(table, Top) /\ F.pc \in Successors(Top.fn, Top.pc)
    BY <1>3, TopTabled
  <1>5. InTable(table, F)
    BY <1>1, <1>3, <1>4, TableFollows
  <1>6. unwinding' = FALSE
    BY DEF Step, TypeOK
  <1>. QED
    BY <1>3, <1>5, <1>6, ReplacedTabled

LEMMA LandTabled ==
  ASSUME TypeOK, NEW table, AllScoped(table), Tabled(table, frames, unwinding), Land
  PROVE  Tabled(table, frames', unwinding')
  <1>1. /\ frames # <<>> /\ unwinding /\ Instr.pad # 0 /\ unwinding' = FALSE
        /\ frames' = Append(Front(frames), Goto(Top, Instr.pad))
    BY DEF TypeOK, Land
  <1>2. Top \in Frames /\ Instr.pad \in Nat /\ Top.live \in [Locals -> Nat]
        /\ Top.fn \in Functions
    BY <1>1, TopTyped
  <1> DEFINE F == Goto(Top, Instr.pad)
  <1>3. /\ F \in Frames /\ F.pc = Instr.pad /\ F.fn = Top.fn /\ F.live = Top.live
        /\ frames' = Append(Front(frames), F)
    BY <1>1, <1>2, MovedFrame
  <1> HIDE DEF F
  <1>4. InTable(table, Top) /\ F.pc \in Successors(Top.fn, Top.pc) /\ OpOf(Top) = "call"
    BY <1>1, <1>3, TopTabled
  <1>5. Alive(F) = Alive(Top)
    BY <1>3 DEF Alive
  <1>6. After(Top.fn, Top.pc, Alive(Top)) = Alive(Top)
    BY <1>2, <1>4, SameAlive
  <1>7. InTable(table, F)
    BY <1>2, <1>3, <1>4, <1>5, <1>6, TableFollows
  <1>. QED
    BY <1>1, <1>3, <1>7, ReplacedTabled

LEMMA NewTabled ==
  ASSUME NEW table, AllScoped(table), NEW f \in Functions, NEW base \in Nat
  PROVE  InTable(table, Frame(f, base))
  <1>1. Scoped(f, table[f])
    BY DEF AllScoped
  <1>2. <<1, {}>> \in table[f]
    BY <1>1 DEF Scoped
  <1>. QED
    BY <1>2, NewFrame DEF InTable

LEMMA CallTabled ==
  ASSUME TypeOK, NEW table, AllScoped(table), Tabled(table, frames, unwinding), Call
  PROVE  Tabled(table, frames', unwinding')
  <1>1. frames # <<>> /\ ~unwinding /\ unwinding' = unwinding /\ Instr.op = "call"
    BY DEF Call, At
  <1> DEFINE base == Top.base + Room[Top.fn]
             n == Len(frames)
  <1>2. PICK g \in Functions : frames' = Append(frames, Frame(g, base))
    BY DEF Call
  <1>3. /\ frames \in Seq(Frames) /\ n \in Nat /\ DOMAIN frames = 1 .. n
        /\ Top.base \in Nat /\ Top.fn \in Functions /\ Top = frames[n]
    BY <1>1, TopTyped
  <1>4. base \in Nat
    BY <1>3, FrameAssumption
  <1> HIDE DEF base
  <1> DEFINE F == Frame(g, base)
  <1>5. F \in Frames /\ InTable(table, F)
    BY <1>4, NewFrame, NewTabled
  <1> HIDE DEF F
  <1>6. frames' = Append(frames, F)
    BY <1>2 DEF F
  <1>7. /\ frames' \in Seq(Frames) /\ Len(frames') = n + 1
        /\ \A k \in 1 .. n : frames'[k] = frames[k]
        /\ frames'[n + 1] = F
    BY <1>3, <1>5, <1>6, AppendedFrame
  <1> HIDE DEF n
  <1>8. DOMAIN frames' = 1 .. n + 1
    BY <1>7
  <1>9. ASSUME NEW k \in 1 .. n + 1
        PROVE  InTable(table, frames'[k]) /\ (k < n + 1 => OpOf(frames'[k]) = "call")
    <2>1. CASE k = n + 1
      BY <1>3, <1>5, <1>7, <2>1
    <2>2. CASE k # n + 1
      <3>1. k \in 1 .. n /\ k \in DOMAIN frames /\ (k < n \/ k = n)
        BY <1>3, <2>2
      <3>2. frames'[k] = frames[k]
        BY <1>7, <3>1
      <3>3. InTable(table, frames[k]) /\ (k < n => OpOf(frames[k]) = "call")
        BY <3>1 DEF Tabled, n
      <3>4. k = n => OpOf(frames[k]) = "call"
        BY <1>1, <1>3 DEF OpOf, Instr
      <3>. QED
        BY <3>1, <3>2, <3>3, <3>4
    <2>. QED
      BY <2>1, <2>2
  <1>10. ~unwinding'
    BY <1>1
  <1>. QED
    BY <1>7, <1>8, <1>9, <1>10 DEF Tabled

LEMMA LeaveTabled ==
  ASSUME TypeOK, frames # <<>>, NEW table, Tabled(table, frames, unwinding), Leave
  PROVE  Tabled(table, frames', unwinding')
  <1> DEFINE n == Len(frames)
  <1>1. /\ frames' \in Seq(Frames) /\ Len(frames') = n - 1
        /\ \A k \in 1 .. n - 1 : frames'[k] = frames[k]
        /\ DOMAIN frames = 1 .. n /\ n \in Nat
    BY FrontFrames, TopTyped DEF Leave
  <1>2. DOMAIN frames' = 1 .. n - 1
    BY <1>1
  <1>3. ASSUME NEW k \in 1 .. n - 1
        PROVE  InTable(table, frames'[k]) /\ OpOf(frames'[k]) = "call"
    <2>1. k \in DOMAIN frames /\ k < n /\ frames'[k] = frames[k]
      BY <1>1
    <2>. QED
      BY <2>1 DEF Tabled
  <1> HIDE DEF n
  <1>. QED
    BY <1>2, <1>3 DEF Tabled

LEMMA ReturnTabled ==
  ASSUME TypeOK, NEW table, AllScoped(table), Tabled(table, frames, unwinding), Return
  PROVE  Tabled(table, frames', unwinding')
  <1>1. /\ frames # <<>> /\ ~unwinding /\ unwinding' = unwinding
        /\ frames \in Seq(Frames) /\ Len(frames) \in Nat
        /\ Len(frames) > 0 /\ DOMAIN frames = 1 .. Len(frames)
    BY TopTyped DEF Return, At
  <1>2. CASE Len(frames) = 1
    <2>1. frames' = <<>>
      BY <1>2 DEF Return
    <2>. QED
      BY <2>1 DEF Tabled
  <1>3. CASE Len(frames) # 1
    <2> DEFINE n == Len(frames) - 1
               caller == frames[n]
               q == Front(Front(frames))
    <2>1. PICK i \in Code[caller.fn][caller.pc].next : frames' = Append(q, Goto(caller, i))
      BY <1>3 DEF Return
    <2>2. n \in DOMAIN frames /\ n < Len(frames) /\ caller \in Frames
      BY <1>1, <1>3
    <2>3. caller.pc \in DOMAIN Code[caller.fn] /\ caller.fn \in Functions
          /\ caller.live \in [Locals -> Nat]
      BY <1>1, <2>2 DEF TypeOK, Frames
    <2>4. i \in Nat /\ i \in Successors(caller.fn, caller.pc)
      <3>1. Code[caller.fn] \in Seq(Instructions)
        BY <2>3, CodeAssumption
      <3>2. Code[caller.fn][caller.pc].next \subseteq DOMAIN Code[caller.fn]
        BY <2>3, CodeAssumption
      <3>. QED
        BY <2>1, <3>1, <3>2 DEF Successors
    <2> DEFINE F == Goto(caller, i)
    <2>5. F \in Frames /\ F.fn = caller.fn /\ F.live = caller.live /\ F.pc = i
      BY ZenonT(60), <2>2, <2>3, <2>4, MovedFrame
    <2>6. InTable(table, caller) /\ OpOf(caller) = "call"
      BY <2>2 DEF Tabled
    <2>7. /\ Front(frames) \in Seq(Frames) /\ Len(Front(frames)) = n
          /\ \A k \in 1 .. n : Front(frames)[k] = frames[k]
      BY <1>1, FrontFrames
    <2>8. /\ q \in Seq(Frames) /\ Len(q) = n - 1
          /\ \A k \in 1 .. n - 1 : q[k] = Front(frames)[k]
      <3>1. Front(frames) # <<>>
        BY <1>1, <1>3, <2>7
      <3>. QED
        BY <2>7, <3>1, FrontFrames
    <2>9. frames' = Append(q, F)
      BY <2>1
    <2>10. n \in Nat /\ n = Len(frames) - 1
      BY <1>1, <1>3
    <2> HIDE DEF F, q, caller, n
    <2>11. Alive(F) = Alive(caller)
      BY <2>5 DEF Alive
    <2>12. After(caller.fn, caller.pc, Alive(caller)) = Alive(caller)
      BY <2>2, <2>6, SameAlive
    <2>13. InTable(table, F)
      BY <2>2, <2>4, <2>5, <2>6, <2>11, <2>12, TableFollows
    <2>14. /\ frames' \in Seq(Frames) /\ Len(frames') = n
           /\ \A k \in 1 .. n - 1 : frames'[k] = q[k]
           /\ frames'[n] = F
      BY <2>5, <2>8, <2>9, <2>10, AppendedFrame
    <2>15. DOMAIN frames' = 1 .. n
      BY <2>14
    <2>16. ASSUME NEW k \in 1 .. n
           PROVE  InTable(table, frames'[k]) /\ (k < n => OpOf(frames'[k]) = "call")
      <3>1. CASE k = n
        BY <2>10, <2>13, <2>14, <3>1
      <3>2. CASE k # n
        <4>1. k \in 1 .. n - 1 /\ k \in DOMAIN frames /\ k < Len(frames) /\ k \in 1 .. n
          <5> DEFINE L == Len(frames)
          <5>1. L \in Nat /\ DOMAIN frames = 1 .. L /\ n \in Nat /\ n = L - 1
            BY <1>1, <2>10
          <5> HIDE DEF L
          <5>2. k \in 1 .. n - 1 /\ k \in 1 .. L /\ k < L /\ k \in 1 .. n
            BY <3>2, <5>1
          <5>. QED
            BY <5>1, <5>2 DEF L
        <4>2. frames'[k] = frames[k]
          BY <2>7, <2>8, <2>14, <4>1
        <4>. QED
          BY <4>1, <4>2 DEF Tabled
      <3>. QED
        BY <3>1, <3>2
    <2>17. ~unwinding'
      BY <1>1
    <2>. QED
      BY <2>14, <2>15, <2>16, <2>17 DEF Tabled
  <1>. QED
    BY <1>2, <1>3


LEMMA StackTabled ==
  ASSUME TypeOK, NEW table, AllScoped(table), Tabled(table, frames, unwinding), Next
  PROVE  Tabled(table, frames', unwinding')
  <1>1. CASE At("alloca") /\ Alloca
    <2> DEFINE live == IF Sites(Top.fn, "start", Instr.var) = {} THEN Began(Instr.var)
                       ELSE Top.live
    <2>1. frames # <<>> /\ ~unwinding /\ Instr.op = "alloca" /\ Step(live)
      BY <1>1 DEF Alloca, At
    <2>2. live \in [Locals -> Nat]
      BY <2>1, LiveTyped, TopTyped
    <2>3. \A F \in Frames : F.fn = Top.fn /\ F.live = live
                              => Alive(F) = After(Top.fn, Top.pc, Alive(Top))
      <3>1. live = IF Instr.op = "end" THEN Over(Instr.var)
                   ELSE IF Instr.op = "alloca" /\ Sites(Top.fn, "start", Instr.var) # {}
                   THEN Top.live ELSE Began(Instr.var)
        BY <2>1
      <3> HIDE DEF live
      <3>. QED
        BY <2>1, <2>2, <3>1, AliveAfter
    <2> HIDE DEF live
    <2>. QED
      BY <2>1, <2>2, <2>3, StepTabled
  <1>2. CASE LifetimeStart
    <2> DEFINE live == Began(Instr.var)
    <2>1. frames # <<>> /\ ~unwinding /\ Instr.op = "start" /\ Step(live)
      BY <1>2 DEF LifetimeStart, At
    <2>2. live \in [Locals -> Nat]
      <3>1. Instr.var \in Variables[Top.fn]
        BY <2>1, TopTyped
      <3>. QED
        BY <2>1, <3>1, LiveTyped
    <2>3. \A F \in Frames : F.fn = Top.fn /\ F.live = live
                              => Alive(F) = After(Top.fn, Top.pc, Alive(Top))
      <3>1. live = IF Instr.op = "end" THEN Over(Instr.var)
                   ELSE IF Instr.op = "alloca" /\ Sites(Top.fn, "start", Instr.var) # {}
                   THEN Top.live ELSE Began(Instr.var)
        BY <2>1
      <3> HIDE DEF live
      <3>. QED
        BY <2>1, <2>2, <3>1, AliveAfter
    <2> HIDE DEF live
    <2>. QED
      BY <2>1, <2>2, <2>3, StepTabled
  <1>3. CASE LifetimeEnd
    <2> DEFINE live == Over(Instr.var)
    <2>1. frames # <<>> /\ ~unwinding /\ Instr.op = "end" /\ Step(live)
      BY <1>3 DEF LifetimeEnd, At
    <2>2. live \in [Locals -> Nat]
      <3>1. Instr.var \in Variables[Top.fn]
        BY <2>1, TopTyped
      <3>. QED
        BY <2>1, <3>1, LiveTyped
    <2>3. \A F \in Frames : F.fn = Top.fn /\ F.live = live
                              => Alive(F) = After(Top.fn, Top.pc, Alive(Top))
      <3>1. live = IF Instr.op = "end" THEN Over(Instr.var)
                   ELSE IF Instr.op = "alloca" /\ Sites(Top.fn, "start", Instr.var) # {}
                   THEN Top.live ELSE Began(Instr.var)
        BY <2>1
      <3> HIDE DEF live
      <3>. QED
        BY <2>1, <2>2, <3>1, AliveAfter
    <2> HIDE DEF live
    <2>. QED
      BY <2>1, <2>2, <2>3, StepTabled
  <1>4. CASE Other \/ CallOutside
    <2> DEFINE live == Top.live
    <2>1. frames # <<>> /\ ~unwinding /\ Instr.op \in {"other", "call"} /\ Step(live)
      BY <1>4 DEF Other, CallOutside, At
    <2>2. live \in [Locals -> Nat] /\ Top \in Frames
      BY <2>1, TopTyped
    <2>3. OpOf(Top) \notin {"alloca", "start", "end"}
      BY <2>1 DEF OpOf, Instr
    <2>4. After(Top.fn, Top.pc, Alive(Top)) = Alive(Top)
      BY <2>2, <2>3, SameAlive
    <2>5. \A F \in Frames : F.fn = Top.fn /\ F.live = live
                              => Alive(F) = After(Top.fn, Top.pc, Alive(Top))
      BY <2>4 DEF Alive
    <2> HIDE DEF live
    <2>. QED
      BY <2>1, <2>2, <2>5, StepTabled
  <1>5. CASE Throw
    <2>1. /\ frames # <<>> /\ Instr.op = "call" /\ frames' = frames
      BY <1>5 DEF Throw, At
    <2>2. /\ Len(frames) \in Nat /\ DOMAIN frames = 1 .. Len(frames)
          /\ Top = frames[Len(frames)]
      BY <2>1, TopTyped
    <2>3. \A k \in DOMAIN frames : k < Len(frames) \/ k = Len(frames)
      BY <2>2
    <2>4. \A k \in DOMAIN frames : OpOf(frames[k]) = "call"
      BY <2>1, <2>2, <2>3 DEF Tabled, OpOf, Instr
    <2>. QED
      BY <2>1, <2>4 DEF Tabled
  <1>6. CASE Resume \/ Unwind
    <2>1. frames # <<>> /\ Leave
      BY <1>6 DEF Resume, Unwind, At, TypeOK
    <2>. QED
      BY <2>1, LeaveTabled
  <1>7. Alloca => At("alloca")
    BY DEF Alloca
  <1>. QED
    BY <1>1, <1>2, <1>3, <1>4, <1>5, <1>6, <1>7, CallTabled, ReturnTabled, LandTabled DEF Next

LEMMA TablesStep ==
  ASSUME ProgramInv, NEW table, AllScoped(table), Tabled(table, frames, unwinding),
         [ProgramNext]_programVars
  PROVE  Tabled(table, frames', unwinding')
  <1>1. TypeOK /\ StartInv
    BY DEF ProgramInv
  <1>2. CASE Initialise \/ StartMain
    <2>1. /\ frames = <<>> /\ UNCHANGED <<meta, unwinding, abandoned>>
          /\ frames' = frames \/ \E f \in Functions : frames' = <<Frame(f, 0)>>
      BY <1>1, <1>2, Starting
    <2>2. ~unwinding'
      BY <1>1, <2>1 DEF TypeOK
    <2>3. CASE \E f \in Functions : frames' = <<Frame(f, 0)>>
      <3>1. PICK f \in Functions : frames' = <<Frame(f, 0)>>
        BY <2>3
      <3> DEFINE F == Frame(f, 0)
      <3>2. InTable(table, F) /\ frames' = <<F>>
        BY <3>1, NewTabled
      <3> HIDE DEF F
      <3>3. Len(frames') = 1 /\ DOMAIN frames' = {1} /\ frames'[1] = F
        BY <3>2
      <3>. QED
        BY <2>2, <3>2, <3>3 DEF Tabled
    <2>. QED
      BY <2>1, <2>3
  <1>3. CASE RunStep
    BY <1>1, <1>3, StackTabled DEF RunStep
  <1>4. CASE globalObjTracing \/ UNCHANGED programVars
    <2>1. UNCHANGED vars
      BY <1>4 DEF globalObjTracing, programVars
    <2>. QED
      BY <2>1 DEF vars
  <1>. QED
    BY <1>2, <1>3, <1>4 DEF ProgramNext

LEMMA TabledDisciplined ==
  ASSUME ProgramInv, NEW table, AllScoped(table), Tabled(table, frames, unwinding)
  PROVE  Disciplined
  <1> SUFFICES ASSUME frames # <<>>, ~unwinding
               PROVE  /\ Instr.op \in {"alloca", "start", "end"} =>
                           \A v \in Alive(Top) \ {Instr.var} :
                             Extent(Top, v) \cap Extent(Top, Instr.var) = {}
                      /\ Instr.op = "start" => Instr.var \notin Alive(Top)
                      /\ Instr.op = "ret" => \A v \in Alive(Top) : Sites(Top.fn, "end", v) = {}
    BY DEF Disciplined
  <1>1. TypeOK
    BY DEF ProgramInv
  <1> DEFINE f == Top.fn
             i == Top.pc
  <1>2. /\ f \in Functions /\ i \in DOMAIN Code[f] /\ Top.base \in Nat /\ Instr = Code[f][i]
        /\ Instr.op \in {"alloca", "start", "end"} => Instr.var \in Variables[f]
    BY <1>1, TopTyped DEF Instr
  <1>3. InTable(table, Top) /\ Scoped(f, table[f])
    BY <1>1, <1>2, TopTabled DEF AllScoped
  <1> DEFINE p == <<i, Alive(Top)>>
  <1>4. p \in table[f] /\ p[1] = i /\ p[2] = Alive(Top)
    BY <1>3 DEF InTable
  <1> HIDE DEF p
  <1>5. /\ \A v \in Variables[f] :
             i \in Sites(f, "alloca", v) \cup Sites(f, "start", v) \cup Sites(f, "end", v)
               => \A u \in Alive(Top) \ {v} : Span(u) \cap Span(v) = {}
        /\ \A v \in Alive(Top) : i \notin Sites(f, "start", v)
        /\ \A v \in Alive(Top) : i \in Returns(f) => Sites(f, "end", v) = {}
    BY <1>3, <1>4 DEF Scoped
  <1>6. Alive(Top) \subseteq Variables[f]
    BY DEF Alive
  <1>7. ASSUME NEW u \in Variables[f], NEW v \in Variables[f], Span(u) \cap Span(v) = {}
        PROVE  Extent(Top, u) \cap Extent(Top, v) = {}
    <2>1. SUFFICES ASSUME NEW w \in Extent(Top, u), w \in Extent(Top, v)
                   PROVE  FALSE
      OBVIOUS
    <2>2. /\ Slot[u] \in Nat /\ Slot[v] \in Nat /\ Width[u] \in Nat /\ Width[v] \in Nat
      BY <1>2, Layout
    <2>3. PICK k \in 0 .. Width[u] - 1 : w = Top.base + Slot[u] + k
      BY DEF Extent
    <2>4. PICK j \in 0 .. Width[v] - 1 : w = Top.base + Slot[v] + j
      BY <2>1 DEF Extent
    <2> DEFINE s == Slot[u] + k
    <2>5. s = Slot[v] + j
      <3> DEFINE base == Top.base
                 su   == Slot[u]
                 sv   == Slot[v]
      <3>1. base \in Nat /\ su \in Nat /\ sv \in Nat /\ k \in Int /\ j \in Int
            /\ base + su + k = base + sv + j
        BY <1>2, <2>2, <2>3, <2>4
      <3> HIDE DEF base, su, sv
      <3>2. su + k = sv + j
        BY <3>1
      <3>. QED
        BY <3>2 DEF su, sv
    <2>6. s \in Span(u) /\ s \in Span(v)
      BY <2>2, <2>5 DEF Span
    <2>. QED
      BY <1>7, <2>6
  <1>8. ASSUME Instr.op \in {"alloca", "start", "end"}, NEW u \in Alive(Top) \ {Instr.var}
        PROVE  Extent(Top, u) \cap Extent(Top, Instr.var) = {}
    <2> DEFINE v == Instr.var
    <2>1. i \in Sites(f, "alloca", v) \cup Sites(f, "start", v) \cup Sites(f, "end", v)
          /\ v \in Variables[f]
      BY <1>2, <1>8 DEF Sites
    <2>2. Span(u) \cap Span(v) = {}
      BY <1>5, <1>8, <2>1
    <2>. QED
      BY <1>6, <1>7, <1>8, <2>1, <2>2
  <1>9. Instr.op = "start" => Instr.var \notin Alive(Top)
    BY <1>2, <1>5 DEF Sites
  <1>10. Instr.op = "ret" => \A v \in Alive(Top) : Sites(f, "end", v) = {}
    BY <1>2, <1>5 DEF Returns
  <1>. QED
    BY <1>8, <1>9, <1>10

(* The condition on the compiler read off the text of its functions: if    *)
(* each function has a table of the variables that may be alive at its     *)
(* instructions, closed under its edges, in which live variables do not    *)
(* share words, none begins again and none with an end marker reaches a    *)
(* return, then every run of every program of such functions, with calls   *)
(* and exceptions between them, is disciplined (handleAllocaAdd,           *)
(* handleAllocaDelete).                                                    *)
THEOREM ScopedDisciplined ==
  (\A f \in Functions : \E T : Scoped(f, T)) => (ProgramSpec => []Disciplined)
  <1> SUFFICES ASSUME \A f \in Functions : \E T : Scoped(f, T)
               PROVE  ProgramSpec => []Disciplined
    OBVIOUS
  <1> DEFINE table == [f \in Functions |-> CHOOSE T : Scoped(f, T)]
  <1>1. AllScoped(table)
    BY DEF AllScoped
  <1> HIDE DEF table
  <1> DEFINE I == Tabled(table, frames, unwinding)
  <1>2. ProgramInit => I
    BY DEF ProgramInit, Tabled
  <1>3. ProgramInv /\ I /\ [ProgramNext]_programVars => I'
    BY <1>1, TablesStep
  <1>4. ProgramInv /\ I => Disciplined
    BY <1>1, TabledDisciplined
  <1> HIDE DEF I
  <1>. QED
    BY <1>2, <1>3, <1>4, ProgramInvariant, PTL DEF ProgramSpec

(* In a program of such functions the registration and the removal of the  *)
(* pass describe what they should (handleAllocaAdd, handleAllocaDelete).   *)
THEOREM ScopedDescribed ==
  (\A f \in Functions : \E T : Scoped(f, T))
    => (ProgramSpec => [](LiveDescribed /\ NothingElse))
  <1> SUFFICES ASSUME \A f \in Functions : \E T : Scoped(f, T)
               PROVE  ProgramSpec => [](LiveDescribed /\ NothingElse)
    OBVIOUS
  <1>1. ProgramSpec => []Disciplined
    BY ScopedDisciplined
  <1>. QED
    BY <1>1, StackInvariant, PTL DEF StackInv
=============================================================================

-------------------------- MODULE ClangTracing_proofs -------------------------
(***************************************************************************)
(* Proofs about ClangTracing, for every heap, every layout of the types    *)
(* and any number of threads: typed blocks keep their description, and the *)
(* objects of placement new theirs, between placement news, reinterpret    *)
(* casts, allocations and releases, and every entry has an owner or is a   *)
(* name the next reinterpret_cast may change.                              *)
(***************************************************************************)
EXTENDS ClangTracing, HeapTracing_proofs

-----------------------------------------------------------------------------
(* The inductive invariant: what holds whatever the program does.          *)

Announcing(t) == call[t].op \in {"place", "name"}

(* The calls of HeapTracing and those about the members of Extended.       *)
ClangCalls ==
  {c \in [op : {"update", "size", "erase", "clear", "place", "name"},
          addr : Nat, len : Nat, type : Types, count : Nat, k : Nat] :
     /\ c.op \in {"update", "size", "erase", "clear"} =>
          c.k \in 1 .. Len(Elements[c.type])
     /\ c.op = "clear" => c.k = Len(Elements[c.type])
     /\ c.op \in {"place", "name"} =>
          c.k \in 1 .. Len(Extended[c.type]) /\ c.len = Size[c.type]}

ClangEntry == [ref : Vectors \cup {NULL}, size : Nat, off : Nat \cup {-1}]

ClangTypes ==
  /\ heap \subseteq Objects
  /\ placed \subseteq Objects
  /\ meta \in [Words -> ClangEntry]
  /\ call \in [Threads -> {Idle} \cup ClangCalls]
  /\ unhandled \in BOOLEAN

(* What Clang announces lies in a live block.                              *)
InBlock(p) == \E o \in heap : Extent(p) \subseteq Extent(o)

Announcements == \A t \in Threads : Announcing(t) => InBlock(call[t])

PlacedShape == \A p \in placed : p.len = Size[p.type] /\ InBlock(p)

ClangShape ==
  /\ ClangTypes
  /\ HeapShape
  /\ Registrations
  /\ Announcements
  /\ PlacedShape

-----------------------------------------------------------------------------
(* What holds while the program does only what the pass handles.           *)

(* Runtime calls are told the right number of elements, or stay below the  *)
(* heap, and they erase dead memory.                                       *)
CallsTold ==
  \A t \in Threads :
    /\ Updating(t) => Counted(call[t])
    /\ Erasing(t) => /\ Extent(call[t]) \subseteq Words
                     /\ Size[call[t].type] <= call[t].len
                     /\ \A o \in heap : Extent(call[t]) \cap Extent(o) = {}

PendingApart ==
  \A t, u \in Threads : t = u \/ Pending(t) \cap Pending(u) \cap Words = {}

(* No registration or erasure of the words of o is under way.              *)
Untouched(o) ==
  \A t \in Threads :
    Updating(t) \/ Erasing(t) => Extent(call[t]) \cap Extent(o) = {}

Registered(o) ==
  /\ \A w \in Extent(o) : \A j \in MembersAt(o, w) : Describes(w, o, j)
  /\ Elements[o.type] # <<>> => meta[o.addr].size = Count(o)

Blocks == \A o \in heap : Untouched(o) => Registered(o)

(* How far a thread is with its object.                                    *)
HalfDone(t) ==
  /\ Updating(t) =>
       \A w \in Words : \A j \in MembersAt(call[t], w) :
         j <= Done(t) => Describes(w, call[t], j)
  /\ Erasing(t) => meta[call[t].addr].size = Count(call[t])

ToErase(w) ==
  \E t \in Threads :
    Erasing(t) /\ \E j \in MembersAt(call[t], w) : j > Done(t)

Explained ==
  \A w \in Words : meta[w].ref # NULL => NamedWord(w) \/ Taken(w) \/ ToErase(w)

RawPlaces ==
  \A p \in placed :
    \E o \in heap : Extent(p) \subseteq Extent(o) /\ Elements[o.type] = <<>>

PlacedApart ==
  \A p, q \in placed : p = q \/ Extent(p) \cap Extent(q) = {}

PlaceCalls ==
  \A t \in Threads : call[t].op = "place" => Object(call[t]) \in placed

MemberPlaced(p, k) ==
  /\ meta[p.addr + Extended[p.type][k][1]].ref = Extended[p.type][k][2]
  /\ meta[p.addr + Extended[p.type][k][1]].off = Extended[p.type][k][1]

(* A thread still has to make the call for the k-th member of p.           *)
ToPlace(p, k) ==
  \E t \in Threads :
    call[t].op = "place" /\ Object(call[t]) = p /\ call[t].k <= k

PlacedEntries ==
  \A p \in placed : \A k \in 1 .. Len(Extended[p.type]) :
    MemberPlaced(p, k) \/ ToPlace(p, k)

(* No name is given to a first word that is not a member: it carries the   *)
(* number of elements.                                                     *)
NameCalls ==
  \A t \in Threads : call[t].op = "name" =>
    \A o \in heap :
      Extent(call[t]) \subseteq Extent(o) /\ Elements[o.type] # <<>> =>
        MembersAt(o, o.addr) # {} \/ o.addr \notin ExtendedWords(call[t])

PlacedInv == RawPlaces /\ PlacedApart /\ PlaceCalls /\ PlacedEntries

ClangHandled ==
  /\ CallsTold
  /\ PendingApart
  /\ Blocks
  /\ \A t \in Threads : HalfDone(t)
  /\ Explained
  /\ PlacedInv
  /\ NameCalls

ClangInv == ClangShape /\ (~unhandled => ClangHandled)

-----------------------------------------------------------------------------
(* The members of Extended are where members of Elements are.              *)
LEMMA ExtendedLayout ==
  ASSUME NEW y \in Types
  PROVE  /\ Len(Extended[y]) \in Nat
         /\ Extended[y] = <<>> <=> Len(Extended[y]) = 0
         /\ DOMAIN Extended[y] = 1 .. Len(Extended[y])
         /\ \A k \in 1 .. Len(Extended[y]) :
              /\ Extended[y][k][1] \in Nat /\ Extended[y][k][1] < Size[y]
              /\ Extended[y][k][2] \in Vectors /\ Extended[y][k][2] # NULL
              /\ \A j \in 1 .. Len(Extended[y]) :
                   j # k => Extended[y][j][1] # Extended[y][k][1]
  <1>1. Extended[y] \in Seq(Nat \X Vectors)
    BY ExtendedAssumption
  <1>2. /\ Len(Extended[y]) \in Nat
        /\ Extended[y] = <<>> <=> Len(Extended[y]) = 0
        /\ DOMAIN Extended[y] = 1 .. Len(Extended[y])
    BY <1>1
  <1>3. ASSUME NEW k \in 1 .. Len(Extended[y])
        PROVE  /\ Extended[y][k][1] \in Nat /\ Extended[y][k][1] < Size[y]
               /\ Extended[y][k][2] \in Vectors /\ Extended[y][k][2] # NULL
    <2>1. PICK j \in 1 .. Len(Elements[y]) : Extended[y][k][1] = Elements[y][j][1]
      BY ExtendedAssumption
    <2>2. Extended[y][k] \in Nat \X Vectors
      BY <1>1, <1>2
    <2>3. Extended[y][k][2] \in Vectors /\ Extended[y][k][2] # NULL
      BY <2>2, ExtendedAssumption
    <2>. QED
      BY <2>1, <2>3, Layout
  <1>4. ASSUME NEW k \in 1 .. Len(Extended[y]), NEW j \in 1 .. Len(Extended[y]), j # k
        PROVE  Extended[y][j][1] # Extended[y][k][1]
    <2>1. j \in 1 .. k - 1 \/ k \in 1 .. j - 1
      BY <1>2, <1>4
    <2>2. Extended[y][j][1] < Extended[y][k][1] \/ Extended[y][k][1] < Extended[y][j][1]
      BY <2>1, ExtendedAssumption
    <2>. QED
      BY <1>3, <2>2
  <1>. QED
    BY <1>2, <1>3, <1>4

(* What a thread that is calling is about.                                 *)
LEMMA ClangFields ==
  ASSUME ClangTypes, NEW t \in Threads
  PROVE  /\ Calling(t) <=> call[t] # Idle
         /\ Calling(t) <=> Updating(t) \/ Erasing(t) \/ Announcing(t)
         /\ ~(Updating(t) /\ Erasing(t))
         /\ Announcing(t) => ~Updating(t) /\ ~Erasing(t)
         /\ Calling(t) =>
              /\ call[t] \in ClangCalls
              /\ call[t].addr \in Nat /\ call[t].len \in Nat
              /\ call[t].type \in Types /\ call[t].count \in Nat
              /\ call[t].k \in Nat /\ Done(t) \in Int
         /\ Updating(t) \/ Erasing(t) =>
              /\ call[t] \in Calls
              /\ call[t].k \in 1 .. Len(Elements[call[t].type])
              /\ call[t].op = "clear" => Last(t)
         /\ Announcing(t) =>
              /\ call[t].k \in 1 .. Len(Extended[call[t].type])
              /\ call[t].len = Size[call[t].type]
  <1>1. call[t] \in {Idle} \cup ClangCalls
    BY DEF ClangTypes
  <1>2. CASE call[t] = Idle
    BY <1>2 DEF Idle, Calling, Updating, Erasing, Announcing
  <1>3. CASE call[t] \in ClangCalls
    <2>1. call[t].op \in {"update", "size", "erase", "clear", "place", "name"}
      BY <1>3 DEF ClangCalls
    <2>2. Calling(t) /\ call[t] # Idle
      BY <2>1 DEF Calling, Idle
    <2>3. /\ call[t].addr \in Nat /\ call[t].len \in Nat
          /\ call[t].type \in Types /\ call[t].count \in Nat /\ call[t].k \in Nat
      BY <1>3 DEF ClangCalls
    <2>4. Done(t) \in Int
      BY <2>3 DEF Done
    <2>5. call[t].op \in {"update", "size", "erase", "clear"} =>
            /\ call[t] \in Calls
            /\ call[t].k \in 1 .. Len(Elements[call[t].type])
      BY <1>3 DEF ClangCalls, Calls
    <2>6. call[t].op = "clear" => Last(t)
      BY <1>3 DEF ClangCalls, Last
    <2>7. call[t].op \in {"place", "name"} =>
            /\ call[t].k \in 1 .. Len(Extended[call[t].type])
            /\ call[t].len = Size[call[t].type]
      BY <1>3 DEF ClangCalls
    <2>. QED
      BY <1>3, <2>1, <2>2, <2>3, <2>4, <2>5, <2>6, <2>7 DEF Updating, Erasing, Announcing
  <1>. QED
    BY <1>1, <1>2, <1>3

(* Blocks are not empty, lie in the heap and apart.                        *)
LEMMA ClangObject ==
  ASSUME heap \subseteq Objects, HeapShape, NEW o \in heap
  PROVE  /\ o.addr \in Nat /\ o.len \in Nat /\ o.type \in Types /\ o.len > 0
         /\ Size[o.type] <= o.len
         /\ o.addr \in Extent(o) /\ Extent(o) \subseteq Words
         /\ o = [addr |-> o.addr, len |-> o.len, type |-> o.type]
         /\ \A p \in heap : o = p \/ Extent(o) \cap Extent(p) = {}
  <1>1. /\ \A p \in heap : /\ p.addr \in Nat /\ p.len \in Nat /\ p.type \in Types
                           /\ p.len > 0 /\ Inside(p)
        /\ Size[o.type] <= o.len
    BY Layout DEF HeapShape, Objects, Words
  <1>2. o.addr \in Extent(o) /\ Extent(o) \subseteq Words
    BY <1>1, ApartExtents
  <1>3. o = [addr |-> o.addr, len |-> o.len, type |-> o.type]
    BY DEF Objects
  <1>4. \A p \in heap : o = p \/ Apart(o, p)
    BY DEF HeapShape
  <1>5. \A p \in heap : o = p \/ Extent(o) \cap Extent(p) = {}
    BY <1>1, <1>4, ApartExtents
  <1>. QED
    BY <1>1, <1>2, <1>3, <1>5

(* Words of the members Extended has of an object as large as its class.   *)
LEMMA ExtendedInside ==
  ASSUME NEW p, p.addr \in Nat, p.len = Size[p.type], p.type \in Types
  PROVE  /\ p.len \in Nat /\ p.len > 0 /\ p.addr \in Extent(p)
         /\ \A k \in 1 .. Len(Extended[p.type]) :
              p.addr + Extended[p.type][k][1] \in Extent(p)
         /\ ExtendedWords(p) \subseteq Extent(p)
         /\ ExtendedWords(p) = {p.addr + Extended[p.type][k][1] :
                                  k \in 1 .. Len(Extended[p.type])}
  <1>1. Size[p.type] \in Nat \ {0}
    BY Layout
  <1>2. p.len \in Nat /\ p.len > 0 /\ p.addr \in Extent(p)
    BY <1>1 DEF Extent
  <1>3. ASSUME NEW k \in 1 .. Len(Extended[p.type])
        PROVE  p.addr + Extended[p.type][k][1] \in Extent(p)
    <2> DEFINE off == Extended[p.type][k][1]
    <2>1. off \in Nat /\ off < p.len
      BY ExtendedLayout
    <2> HIDE DEF off
    <2>2. p.addr + off \in p.addr .. p.addr + p.len - 1
      BY <1>2, <2>1
    <2>. QED
      BY <2>2 DEF Extent, off
  <1>4. ExtendedWords(p) = {p.addr + Extended[p.type][k][1] :
                              k \in 1 .. Len(Extended[p.type])}
    BY ExtendedLayout DEF ExtendedWords
  <1>. QED
    BY <1>2, <1>3, <1>4

LEMMA PlacedObject ==
  ASSUME ClangShape, NEW p \in placed
  PROVE  /\ p.addr \in Nat /\ p.len \in Nat /\ p.type \in Types /\ p.len > 0
         /\ p.len = Size[p.type] /\ InBlock(p)
         /\ p.addr \in Extent(p) /\ Extent(p) \subseteq Words
         /\ p = [addr |-> p.addr, len |-> p.len, type |-> p.type]
         /\ ExtendedWords(p) \subseteq Extent(p)
         /\ \A k \in 1 .. Len(Extended[p.type]) :
              p.addr + Extended[p.type][k][1] \in ExtendedWords(p)
  <1>1. /\ p.addr \in Nat /\ p.type \in Types /\ p.len = Size[p.type] /\ InBlock(p)
        /\ p = [addr |-> p.addr, len |-> p.len, type |-> p.type]
    BY Layout DEF ClangShape, ClangTypes, PlacedShape, Objects, Words
  <1>2. Extent(p) \subseteq Words
    BY <1>1, ClangObject DEF ClangShape, ClangTypes, InBlock
  <1>3. /\ p.len \in Nat /\ p.len > 0 /\ p.addr \in Extent(p)
        /\ ExtendedWords(p) \subseteq Extent(p)
        /\ \A k \in 1 .. Len(Extended[p.type]) :
             p.addr + Extended[p.type][k][1] \in ExtendedWords(p)
    BY <1>1, ExtendedInside
  <1>. QED
    BY <1>1, <1>2, <1>3

(* What a call is about.                                                   *)
LEMMA ClangCallInside ==
  ASSUME ClangShape, NEW t \in Threads, Calling(t)
  PROVE  /\ Pending(t) = Extent(call[t])
         /\ Updating(t) => \/ Extent(call[t]) \cap Words = {}
                           \/ Object(call[t]) \in heap
         /\ Object(call[t]) \in heap =>
              /\ Extent(call[t]) \subseteq Words
              /\ Extent(call[t]) = Extent(Object(call[t]))
              /\ Size[call[t].type] <= call[t].len
         /\ Announcing(t) =>
              /\ InBlock(call[t])
              /\ Extent(call[t]) \subseteq Words
              /\ call[t].addr \in Extent(call[t])
              /\ ExtendedWords(call[t]) \subseteq Extent(call[t])
              /\ ExtendedWord(t) \in ExtendedWords(call[t])
              /\ ExtendedMember(t)[1] \in Nat
              /\ ExtendedMember(t)[2] \in Vectors /\ ExtendedMember(t)[2] # NULL
  <1>1. ClangTypes /\ heap \subseteq Objects /\ HeapShape
    BY DEF ClangShape, ClangTypes
  <1>2. /\ call[t].addr \in Nat /\ call[t].len \in Nat /\ call[t].type \in Types
        /\ Announcing(t) => /\ call[t].k \in 1 .. Len(Extended[call[t].type])
                            /\ call[t].len = Size[call[t].type]
    BY <1>1, ClangFields
  <1>3. Pending(t) = Extent(call[t])
    BY DEF Calling, Pending
  <1>4. Outside(call[t]) => Extent(call[t]) \cap Words = {}
    <2>1. Outside(call[t]) => \A w \in Extent(call[t]) : w < Base
      BY <1>2, ApartExtents
    <2>. QED
      BY <1>2, <2>1, Layout DEF Words
  <1>5. Updating(t) => Outside(call[t]) \/ Object(call[t]) \in heap
    BY DEF ClangShape, Registrations
  <1>6. ASSUME Object(call[t]) \in heap
        PROVE  /\ Extent(call[t]) \subseteq Words
               /\ Extent(call[t]) = Extent(Object(call[t]))
               /\ Size[call[t].type] <= call[t].len
    <2>1. Extent(call[t]) = Extent(Object(call[t]))
      BY DEF Object, Extent
    <2>2. /\ Extent(Object(call[t])) \subseteq Words
          /\ Size[Object(call[t]).type] <= Object(call[t]).len
      BY <1>1, <1>6, ClangObject
    <2>. QED
      BY <2>1, <2>2 DEF Object
  <1>7. ASSUME Announcing(t)
        PROVE  /\ InBlock(call[t])
               /\ Extent(call[t]) \subseteq Words
               /\ call[t].addr \in Extent(call[t])
               /\ ExtendedWords(call[t]) \subseteq Extent(call[t])
               /\ ExtendedWord(t) \in ExtendedWords(call[t])
    <2>1. InBlock(call[t])
      BY <1>7 DEF ClangShape, Announcements
    <2>2. Extent(call[t]) \subseteq Words
      BY <1>1, <2>1, ClangObject DEF InBlock
    <2>. QED
      BY <1>2, <1>7, <2>1, <2>2, ExtendedInside DEF ExtendedWord, ExtendedMember
  <1>8. Announcing(t) => /\ ExtendedMember(t)[1] \in Nat
                         /\ ExtendedMember(t)[2] \in Vectors
                         /\ ExtendedMember(t)[2] # NULL
    BY <1>2, ExtendedLayout DEF ExtendedMember
  <1>. QED
    BY <1>3, <1>4, <1>5, <1>6, <1>7, <1>8

-----------------------------------------------------------------------------
(* Steps of the program: allocations and releases.                         *)

LEMMA ClangStarts ==
  ASSUME ClangTypes, NEW t \in Threads, call[t] = Idle,
         NEW op \in {"update", "erase"}, NEW addr \in Nat, NEW len \in Nat,
         NEW y \in Types, NEW count \in Nat,
         Starts(t, op, addr, len, y, count)
  PROVE  /\ call' \in [Threads -> {Idle} \cup ClangCalls]
         /\ \A u \in Threads \ {t} : call'[u] = call[u]
         /\ Elements[y] = <<>> => call'[t] = Idle
         /\ Elements[y] # <<>> =>
              /\ call'[t].op = op /\ call'[t].addr = addr /\ call'[t].len = len
              /\ call'[t].type = y /\ call'[t].count = count
              /\ Done(t)' = 0
  <1> DEFINE h == Hook(op, addr, len, y, count)
  <1>1. /\ Elements[y] = <<>> => h = Idle
        /\ Elements[y] # <<>> =>
              /\ h \in Calls
              /\ h.op = op /\ h.addr = addr /\ h.len = len
              /\ h.type = y /\ h.count = count /\ h.k = 1
              /\ 1 \in 1 .. Len(Elements[y])
    <2>1. Elements[y] = <<>> => h = Idle
      BY HookType
    <2>2. Elements[y] # <<>> => h \in Calls /\ 1 \in 1 .. Len(Elements[y])
      BY HookType
    <2>3. Elements[y] # <<>> => h.op = op /\ h.addr = addr /\ h.len = len
      BY SMTT(30), HookType
    <2>4. Elements[y] # <<>> => h.type = y /\ h.count = count /\ h.k = 1
      BY HookType
    <2>. QED
      BY <2>1, <2>2, <2>3, <2>4
  <1>2. call \in [Threads -> {Idle} \cup ClangCalls]
    BY DEF ClangTypes
  <1> HIDE DEF h
  <1>3. Elements[y] # <<>> => h \in ClangCalls
    BY <1>1 DEF Calls, ClangCalls
  <1>4. /\ call' \in [Threads -> {Idle} \cup ClangCalls]
        /\ call'[t] = h
        /\ \A u \in Threads \ {t} : call'[u] = call[u]
    BY <1>1, <1>2, <1>3 DEF h, Starts
  <1>5. Elements[y] # <<>> => Done(t)' = 0
    BY <1>1, <1>4 DEF Done
  <1>. QED
    BY <1>1, <1>4, <1>5

(* What allocations and releases have in common.                           *)
ProgramStep(t) ==
  /\ call[t] = Idle
  /\ \A u \in Threads \ {t} : call'[u] = call[u]
  /\ ~Announcing(t)'
  /\ meta' = meta
  /\ \A o \in heap \ heap' : Owned(o)
  /\ placed' = {p \in placed : \E o \in heap \cap heap' : Extent(p) \subseteq Extent(o)}

(* Blocks in which a call is announced stay.                               *)
LEMMA AnnouncedBlock ==
  ASSUME ClangShape, NEW t \in Threads, ProgramStep(t),
         NEW u \in Threads, Announcing(u)
  PROVE  /\ u # t /\ call'[u] = call[u]
         /\ \E b \in heap \cap heap' : Extent(call[u]) \subseteq Extent(b)
  <1>1. u # t /\ call'[u] = call[u] /\ Calling(u)
    BY DEF ProgramStep, Announcing, Idle, Calling
  <1>2. /\ Pending(u) = Extent(call[u]) /\ call[u].addr \in Extent(call[u])
        /\ InBlock(call[u])
    BY <1>1, ClangCallInside
  <1>3. PICK b \in heap : Extent(call[u]) \subseteq Extent(b)
    BY <1>2 DEF InBlock
  <1>4. ~Owned(b)
    BY <1>2, <1>3 DEF Owned, Quiet
  <1>. QED
    BY <1>1, <1>3, <1>4 DEF ProgramStep

LEMMA ProgramShape ==
  ASSUME ClangShape, NEW t \in Threads, ProgramStep(t),
         heap' \subseteq Objects, HeapShape', unhandled' \in BOOLEAN,
         call' \in [Threads -> {Idle} \cup ClangCalls],
         Updating(t)' => Outside(call'[t]) \/ Object(call'[t]) \in heap'
  PROVE  ClangShape'
  <1>1. ClangTypes'
    BY DEF ClangShape, ClangTypes, ProgramStep
  <1>2. ASSUME NEW u \in Threads, Updating(u)'
        PROVE  Outside(call'[u]) \/ Object(call'[u]) \in heap'
    <2>1. CASE u = t
      BY <1>2, <2>1
    <2>2. CASE u # t
      <3>1. call'[u] = call[u] /\ Updating(u) /\ Calling(u)
        BY <1>2, <2>2 DEF ProgramStep, Updating, Calling
      <3>2. ASSUME Object(call[u]) \in heap, Object(call[u]) \notin heap'
            PROVE  FALSE
        <4>1. Owned(Object(call[u]))
          BY <3>2 DEF ProgramStep
        <4>. QED
          BY <3>1, <3>2, <4>1, OwnedApart DEF ClangShape, ClangTypes
      <3>. QED
        BY <3>1, <3>2 DEF ClangShape, Registrations
    <2>. QED
      BY <2>1, <2>2
  <1>3. Registrations'
    BY <1>2 DEF Registrations, Outside, Ended, Object
  <1>4. Announcements'
    <2>1. ASSUME NEW u \in Threads, Announcing(u)'
          PROVE  \E b \in heap' : Extent(call'[u]) \subseteq Extent(b)
      <3>1. u # t /\ Announcing(u)
        BY <2>1 DEF ProgramStep, Announcing
      <3>. QED
        BY <3>1, AnnouncedBlock
    <2>. QED
      BY <2>1 DEF Announcements, InBlock, Extent
  <1>5. PlacedShape'
    <2>1. \A p \in placed' : /\ p \in placed
                             /\ \E b \in heap' : Extent(p) \subseteq Extent(b)
      BY DEF ProgramStep
    <2>. QED
      BY <2>1 DEF ClangShape, PlacedShape, InBlock
  <1>. QED
    BY <1>1, <1>3, <1>4, <1>5 DEF ClangShape

(* What such a step leaves alone.                                          *)
LEMMA ProgramKeeps ==
  ASSUME ClangShape, ClangHandled, NEW t \in Threads, ProgramStep(t),
         heap' \subseteq Objects, HeapShape'
  PROVE  /\ \A u \in Threads \ {t} : HalfDone(u)'
         /\ \A o \in heap : Untouched(o)' => Registered(o)'
         /\ \A w : ToErase(w) => ToErase(w)'
         /\ PlacedInv'
         /\ NameCalls'
  <1>1. /\ \A u \in Threads \ {t} : call'[u] = call[u]
        /\ call[t] = Idle /\ meta' = meta
        /\ ~Updating(t) /\ ~Erasing(t)
    BY DEF ProgramStep, Updating, Erasing, Idle
  <1>2. \A u \in Threads \ {t} : /\ Updating(u)' <=> Updating(u)
                                 /\ Erasing(u)' <=> Erasing(u)
                                 /\ Done(u)' = Done(u)
    BY <1>1 DEF Updating, Erasing, Done
  <1>3. ASSUME NEW u \in Threads \ {t}
        PROVE  HalfDone(u)'
    <2>1. HalfDone(u)
      BY DEF ClangHandled
    <2>. QED
      BY SMTT(30), <1>1, <1>2, <2>1 DEF HalfDone, MembersAt, Describes, Count
  <1>4. ASSUME NEW o \in heap, Untouched(o)'
        PROVE  Registered(o)'
    <2>1. Untouched(o)
      BY <1>1, <1>2, <1>4 DEF Untouched, Extent
    <2>2. Registered(o)
      BY <2>1 DEF ClangHandled, Blocks
    <2>. QED
      BY <1>1, <2>2 DEF Registered, MembersAt, Describes, Count, Extent
  <1>5. ASSUME NEW w, ToErase(w)
        PROVE  ToErase(w)'
    <2>1. PICK u \in Threads : Erasing(u) /\ \E j \in MembersAt(call[u], w) : j > Done(u)
      BY <1>5 DEF ToErase
    <2>2. u # t
      BY <1>1, <2>1
    <2>3. Erasing(u)' /\ \E j \in MembersAt(call'[u], w) : j > Done(u)'
      BY <1>1, <1>2, <2>1, <2>2
    <2>. QED
      BY <2>3 DEF ToErase, MembersAt
  <1>6. RawPlaces'
    <2>1. ASSUME NEW p \in placed'
          PROVE  \E o \in heap' : Extent(p) \subseteq Extent(o) /\ Elements[o.type] = <<>>
      <3>1. p \in placed
        BY <2>1 DEF ProgramStep
      <3>2. PICK o \in heap \cap heap' : Extent(p) \subseteq Extent(o)
        BY <2>1 DEF ProgramStep
      <3>3. PICK b \in heap : Extent(p) \subseteq Extent(b) /\ Elements[b.type] = <<>>
        BY <3>1 DEF ClangHandled, PlacedInv, RawPlaces
      <3>4. p.addr \in Extent(p)
        BY <3>1, PlacedObject
      <3>5. o = b
        BY <3>2, <3>3, <3>4, ClangObject DEF ClangShape, ClangTypes
      <3>. QED
        BY <3>2, <3>3, <3>5
    <2>. QED
      BY <2>1 DEF RawPlaces
  <1>7. PlacedApart'
    BY DEF ClangHandled, PlacedInv, PlacedApart, ProgramStep
  <1>8. PlaceCalls'
    <2>1. ASSUME NEW u \in Threads, call'[u].op = "place"
          PROVE  Object(call'[u]) \in placed'
      <3>1. u # t
        BY <2>1 DEF ProgramStep, Announcing
      <3>2. call'[u] = call[u] /\ Announcing(u) /\ Object(call[u]) \in placed
        BY <1>1, <2>1, <3>1 DEF Announcing, ClangHandled, PlacedInv, PlaceCalls
      <3>3. \E b \in heap \cap heap' : Extent(call[u]) \subseteq Extent(b)
        BY <3>2, AnnouncedBlock
      <3>4. Extent(Object(call[u])) = Extent(call[u])
        BY DEF Object, Extent
      <3>. QED
        BY <3>2, <3>3, <3>4 DEF ProgramStep
    <2>. QED
      BY <2>1 DEF PlaceCalls, Object
  <1>9. PlacedEntries'
    <2>1. ASSUME NEW p \in placed', NEW k \in 1 .. Len(Extended[p.type])
          PROVE  MemberPlaced(p, k)' \/ ToPlace(p, k)'
      <3>1. MemberPlaced(p, k) \/ ToPlace(p, k)
        <4>1. p \in placed
          BY <2>1 DEF ProgramStep
        <4>. QED
          BY <4>1 DEF ClangHandled, PlacedInv, PlacedEntries
      <3>2. MemberPlaced(p, k) => MemberPlaced(p, k)'
        BY <1>1 DEF MemberPlaced
      <3>3. ASSUME ToPlace(p, k)
            PROVE  ToPlace(p, k)'
        <4>1. PICK u \in Threads :
                call[u].op = "place" /\ Object(call[u]) = p /\ call[u].k <= k
          BY <3>3 DEF ToPlace
        <4>2. call'[u] = call[u]
          BY <1>1, <4>1 DEF Idle
        <4>3. call'[u].op = "place" /\ Object(call'[u]) = p /\ call'[u].k <= k
          BY <4>1, <4>2
        <4>. QED
          BY <4>3 DEF ToPlace, Object
      <3>. QED
        BY <3>1, <3>2, <3>3
    <2>. QED
      BY <2>1 DEF PlacedEntries
  <1>10. NameCalls'
    <2>1. ASSUME NEW u \in Threads, call'[u].op = "name", NEW o \in heap',
                 Extent(call'[u]) \subseteq Extent(o), Elements[o.type] # <<>>
          PROVE  MembersAt(o, o.addr) # {} \/ o.addr \notin ExtendedWords(call'[u])
      <3>1. u # t
        BY <2>1 DEF ProgramStep, Announcing
      <3>2. call'[u] = call[u] /\ Announcing(u) /\ Calling(u)
        BY <1>1, <2>1, <3>1 DEF Announcing, Calling
      <3>3. PICK b \in heap \cap heap' : Extent(call[u]) \subseteq Extent(b)
        BY <3>2, AnnouncedBlock
      <3>4. call[u].addr \in Extent(call[u])
        BY <3>2, ClangCallInside
      <3>5. o = b
        <4>1. /\ o.addr \in Nat /\ o.len \in Nat /\ b.addr \in Nat /\ b.len \in Nat
          BY <2>1, <3>3, Layout DEF Objects, Words
        <4>2. o = b \/ Apart(o, b)
          BY <2>1, <3>3 DEF HeapShape, Apart, Ended
        <4>3. call[u].addr \in Extent(o) /\ call[u].addr \in Extent(b)
          BY <2>1, <3>2, <3>3, <3>4
        <4>. QED
          BY <4>1, <4>2, <4>3, ApartExtents
      <3>6. o \in heap
        BY <3>3, <3>5
      <3>. QED
        BY <2>1, <3>2, <3>6 DEF ClangHandled, NameCalls
    <2>. QED
      BY <2>1 DEF NameCalls, Extent, MembersAt, ExtendedWords
  <1>11. PlacedInv'
    BY <1>6, <1>7, <1>8, <1>9 DEF PlacedInv
  <1>. QED
    BY <1>3, <1>4, <1>5, <1>10, <1>11

(* What HeapStep remembers.                                                *)
LEMMA LeftOver ==
  ASSUME HeapStep
  PROVE  /\ \A w \in left : meta'[w].ref # NULL => w \in left'
         /\ \A p \in placed \ placed' : ExtendedWords(p) \subseteq left'
         /\ \A w \in Words : LosesName(w) => w \in left'
  <1>1. left' = (left \ Removed) \cup Abandoned
    BY DEF HeapStep
  <1>2. \A w \in left : meta'[w].ref # NULL => w \notin Removed
    BY DEF Removed
  <1>3. \A p \in placed \ placed' : ExtendedWords(p) \subseteq Abandoned
    BY DEF Abandoned
  <1>4. \A w \in Words : LosesName(w) => w \in Abandoned
    BY DEF Abandoned
  <1>. QED
    BY <1>1, <1>2, <1>3, <1>4

(* Entries stay explained if those of a block that ends are about to be    *)
(* erased or belong to the block that grew from it.                        *)
LEMMA ProgramExplained ==
  ASSUME ClangShape, ClangHandled, NEW t \in Threads, ProgramStep(t), HeapStep,
         heap' \subseteq Objects, HeapShape',
         \A o \in heap \ heap' : \A w \in Extent(o) :
           MembersAt(o, w) # {} =>
             \/ ToErase(w)'
             \/ \E q \in heap' : w \in Extent(q) /\ MembersAt(q, w) # {}
  PROVE  Explained'
  <1>1. meta' = meta
    BY DEF ProgramStep
  <1>2. ASSUME NEW w \in Words, meta'[w].ref # NULL
        PROVE  \/ NamedWord(w)
               \/ w \in left'
               \/ \E o \in heap' : w \in Extent(o) /\ MembersAt(o, w) # {}
               \/ \E p \in placed' : w \in ExtendedWords(p)
               \/ ToErase(w)'
    <2>1. NamedWord(w) \/ Taken(w) \/ ToErase(w)
      BY <1>1, <1>2 DEF ClangHandled, Explained
    <2>2. ToErase(w) => ToErase(w)'
      BY ProgramKeeps
    <2>3. w \in left => w \in left'
      BY <1>2, LeftOver
    <2>4. ASSUME NEW o \in heap, w \in Extent(o), MembersAt(o, w) # {}
          PROVE  \/ ToErase(w)'
                 \/ \E q \in heap' : w \in Extent(q) /\ MembersAt(q, w) # {}
      <3>1. CASE o \in heap'
        BY <2>4, <3>1
      <3>2. CASE o \notin heap'
        BY <2>4, <3>2
      <3>. QED
        BY <3>1, <3>2
    <2>5. ASSUME NEW p \in placed, w \in ExtendedWords(p)
          PROVE  w \in left' \/ \E q \in placed' : w \in ExtendedWords(q)
      <3>1. p \notin placed' => w \in left'
        BY <2>5, LeftOver
      <3>. QED
        BY <2>5, <3>1
    <2>. QED
      BY <2>1, <2>2, <2>3, <2>4, <2>5 DEF Taken
  <1>3. \A w : NamedWord(w)' <=> NamedWord(w)
    BY <1>1 DEF NamedWord
  <1>. QED
    BY <1>2, <1>3 DEF Explained, Taken, Extent, MembersAt, ExtendedWords

(* A block allocated.                                                      *)
LEMMA ClangAllocated ==
  ASSUME ClangShape, HeapStep, NEW t \in Threads, NEW others \in SUBSET heap,
         NEW addr \in Words, NEW len \in Nat, NEW y \in Types, NEW count \in Nat,
         Allocated(t, others, addr, len, y, count)
  PROVE  /\ ClangShape'
         /\ ~unhandled' => ~unhandled
         /\ ClangHandled /\ ~unhandled' => ClangHandled'
  <1>1. /\ call[t] = Idle
        /\ Size[y] <= len
        /\ \A o \in heap \ others : Owned(o)
        /\ meta' = meta /\ unhandled' \in BOOLEAN
        /\ ~unhandled' =>
             /\ ~unhandled
             /\ count = len \div Size[y]
             /\ ~Reused(t, addr, len)
             /\ \A o \in heap \ others : o.type = y /\ o.addr = addr /\ o.len <= len
    BY DEF Allocated
  <1> DEFINE new == [addr |-> addr, len |-> len, type |-> y]
  <1>2. new = [addr |-> addr, len |-> len, type |-> y]
    OBVIOUS
  <1> HIDE DEF new
  <1>3. ClangTypes /\ heap \subseteq Objects /\ HeapShape
    BY DEF ClangShape, ClangTypes
  <1>4. /\ heap' = others \cup {new}
        /\ heap' \subseteq Objects /\ HeapShape'
        /\ new.addr = addr /\ new.len = len /\ new.type = y
        /\ addr \in Nat /\ len > 0
    BY <1>2, <1>3, AllocatedHeap
  <1>5. Starts(t, "update", addr, len, y, count)
    BY DEF Allocated, Allocate, Starts
  <1>6. /\ call' \in [Threads -> {Idle} \cup ClangCalls]
        /\ \A u \in Threads \ {t} : call'[u] = call[u]
        /\ Elements[y] = <<>> => call'[t] = Idle
        /\ Elements[y] # <<>> =>
             /\ call'[t].op = "update" /\ call'[t].addr = addr /\ call'[t].len = len
             /\ call'[t].type = y /\ call'[t].count = count
             /\ Done(t)' = 0
    BY <1>1, <1>3, <1>4, <1>5, ClangStarts
  <1>7. /\ ~Announcing(t)' /\ ~Erasing(t)'
        /\ Calling(t)' => Elements[y] # <<>>
        /\ Updating(t)' => Elements[y] # <<>>
        /\ Elements[y] # <<>> => Updating(t)'
    BY <1>6 DEF Announcing, Erasing, Calling, Updating, Idle
  <1>8. ProgramStep(t)
    BY <1>1, <1>4, <1>6, <1>7 DEF ProgramStep, HeapStep
  <1>9. ClangShape'
    <2>1. Updating(t)' => Object(call'[t]) \in heap'
      BY <1>2, <1>4, <1>6, <1>7 DEF Object
    <2>. QED
      BY <1>1, <1>4, <1>6, <1>8, <2>1, ProgramShape
  <1>10. ASSUME ClangHandled, ~unhandled'
         PROVE  ClangHandled'
    <2>1. /\ \A u \in Threads \ {t} : HalfDone(u)'
          /\ \A o \in heap : Untouched(o)' => Registered(o)'
          /\ PlacedInv' /\ NameCalls'
      BY <1>4, <1>8, <1>10, ProgramKeeps
    <2>2. \A u \in Threads \ {t} : /\ Updating(u)' <=> Updating(u)
                                   /\ Erasing(u)' <=> Erasing(u)
                                   /\ Pending(u)' = Pending(u)
      BY <1>6 DEF Updating, Erasing, Pending, Extent
    <2>3. \A u \in Threads \ {t} : Pending(u) \cap Extent(new) = {}
      BY <1>1, <1>4, <1>10 DEF Reused, Extent
    <2>4. Elements[y] # <<>> => Extent(call'[t]) = Extent(new)
      BY <1>4, <1>6 DEF Extent
    <2>5. CallsTold'
      <3>1. ASSUME NEW u \in Threads
            PROVE  /\ Updating(u)' => Counted(call'[u])
                   /\ Erasing(u)' => /\ Extent(call'[u]) \subseteq Words
                                     /\ Size[call'[u].type] <= call'[u].len
                                     /\ \A o \in heap' : Extent(call'[u]) \cap Extent(o) = {}
        <4>1. CASE u = t
          <5>1. Updating(t)' => Counted(call'[t])
            <6>1. addr >= Base /\ addr \in Nat /\ Base \in Nat
              BY Layout DEF Words
            <6>2. Updating(t)' => ~Outside(call'[t]) /\ call'[t].count = Count(call'[t])
              BY <1>1, <1>6, <1>7, <1>10, <6>1 DEF Count, Outside
            <6>. QED
              BY <6>2 DEF Counted
          <5>. QED
            BY <1>7, <4>1, <5>1
        <4>2. CASE u # t
          <5>1. /\ Updating(u) => Counted(call[u])
                /\ Erasing(u) => /\ Extent(call[u]) \subseteq Words
                                 /\ Size[call[u].type] <= call[u].len
                                 /\ \A o \in heap : Extent(call[u]) \cap Extent(o) = {}
            BY <1>10 DEF ClangHandled, CallsTold
          <5>2. Erasing(u) => Extent(call[u]) \cap Extent(new) = {}
            BY <2>3, <4>2 DEF Pending, Erasing
          <5>. QED
            BY <1>4, <1>6, <2>2, <4>2, <5>1, <5>2
        <4>. QED
          BY <4>1, <4>2
      <3>. QED
        BY <3>1 DEF CallsTold, Counted, Outside, Ended, Count, Extent
    <2>6. PendingApart'
      <3>1. Pending(t)' \subseteq Extent(new)
        BY <1>7, <2>4 DEF Pending, Calling, Extent
      <3>. QED
        BY <1>10, <2>2, <2>3, <3>1 DEF ClangHandled, PendingApart, Words
    <2>7. Blocks'
      <3>1. ASSUME Untouched(new)'
            PROVE  Registered(new)'
        <4>1. Elements[y] = <<>>
          <5>1. new.addr \in Extent(new)
            BY <1>4 DEF Extent
          <5>. QED
            BY <1>7, <2>4, <3>1, <5>1 DEF Untouched, Extent
        <4>2. \A w : MembersAt(new, w) = {}
          BY <1>4, <4>1, Layout DEF MembersAt
        <4>. QED
          BY <1>4, <4>1, <4>2 DEF Registered, MembersAt
      <3>. QED
        BY <1>4, <2>1, <3>1 DEF Blocks
    <2>8. HalfDone(t)'
      <3>1. ASSUME Updating(t)', NEW w, NEW j \in MembersAt(call'[t], w)
            PROVE  ~(j <= Done(t)')
        <4>1. call'[t].type \in Types /\ Done(t)' = 0
          BY <1>6, <1>7, <3>1
        <4>2. j \in 1 .. Len(Elements[call'[t].type])
          BY <3>1 DEF MembersAt
        <4>. QED
          BY <4>1, <4>2, Layout
      <3>. QED
        BY <1>7, <3>1 DEF HalfDone, MembersAt
    <2>9. Explained'
      <3>1. ASSUME NEW o \in heap \ heap', NEW w \in Extent(o), MembersAt(o, w) # {}
            PROVE  w \in Extent(new) /\ MembersAt(new, w) # {}
        <4>1. /\ o.addr = new.addr /\ o.type = new.type /\ o.len <= new.len
              /\ o.type \in Types /\ o.len \in Nat /\ new.len \in Nat
          BY <1>1, <1>3, <1>4, <1>10, ClangObject
        <4>2. MembersAt(o, w) \subseteq MembersAt(new, w)
          BY <4>1, MembersOfExtended
        <4>3. w \in Extent(new)
          BY <1>4, <4>1 DEF Extent
        <4>. QED
          BY <3>1, <4>2, <4>3
      <3>2. new \in heap'
        BY <1>4
      <3>. QED
        BY <1>4, <1>8, <1>10, <3>1, <3>2, ProgramExplained
    <2>. QED
      BY <2>1, <2>5, <2>6, <2>7, <2>8, <2>9 DEF ClangHandled
  <1>. QED
    BY <1>1, <1>9, <1>10

(* An allocation that failed.                                              *)
LEMMA ClangRequestFailed ==
  ASSUME ClangShape, HeapStep, NEW t \in Threads, NEW y \in Types, NEW count \in Nat,
         RequestFailed(t, y, count)
  PROVE  /\ ClangShape'
         /\ ~unhandled' => ~unhandled
         /\ ClangHandled /\ ~unhandled' => ClangHandled'
  <1>1. Size[y] \in Nat \ {0} /\ Base \in Nat /\ Base > 0
    BY Layout
  <1>2. /\ ~unhandled' => ~unhandled
        /\ ~unhandled' => ~(count * Size[y] > Base)
    BY Zenon DEF RequestFailed
  <1>3. /\ call[t] = Idle /\ ClangTypes
        /\ Starts(t, "update", 0, 0, y, count)
        /\ heap' = heap /\ meta' = meta /\ unhandled' \in BOOLEAN
    <2>1. unhandled' \in BOOLEAN
      BY DEF RequestFailed
    <2>. QED
      BY <2>1 DEF RequestFailed, Starts, ClangShape
  <1>4. heap \subseteq Objects /\ HeapShape /\ unhandled \in BOOLEAN
    BY DEF ClangShape, ClangTypes
  <1>5. heap' \subseteq Objects /\ HeapShape'
    BY <1>3, <1>4 DEF HeapShape, Inside, Apart, Ended
  <1>6. /\ call' \in [Threads -> {Idle} \cup ClangCalls]
        /\ \A u \in Threads \ {t} : call'[u] = call[u]
        /\ Elements[y] = <<>> => call'[t] = Idle
        /\ Elements[y] # <<>> =>
             /\ call'[t].op = "update" /\ call'[t].addr = 0 /\ call'[t].len = 0
             /\ call'[t].type = y /\ call'[t].count = count
             /\ Done(t)' = 0
    <2>1. "update" \in {"update", "erase"} /\ 0 \in Nat
      OBVIOUS
    <2>2. /\ ClangTypes /\ call[t] = Idle /\ count \in Nat
          /\ Starts(t, "update", 0, 0, y, count)
      BY <1>3
    <2>. QED
      BY ONLY SMTT(60), <2>1, <2>2, y \in Types, t \in Threads, ClangStarts
  <1>7. /\ ~Announcing(t)' /\ ~Erasing(t)'
        /\ Calling(t)' => Elements[y] # <<>>
        /\ Updating(t)' => Elements[y] # <<>>
    BY <1>6 DEF Announcing, Erasing, Calling, Updating, Idle
  <1>8. ProgramStep(t)
    BY <1>3, <1>6, <1>7 DEF ProgramStep, HeapStep
  <1>9. Elements[y] # <<>> => Outside(call'[t]) /\ Extent(call'[t]) \cap Words = {}
    <2> SUFFICES ASSUME Elements[y] # <<>>
                 PROVE  Outside(call'[t]) /\ Extent(call'[t]) \cap Words = {}
      OBVIOUS
    <2>1. Outside(call'[t])
      BY <1>1, <1>6 DEF Outside, Ended
    <2>2. Extent(call'[t]) = 0 .. 0 - 1
      BY <1>1, <1>6 DEF Extent
    <2>. QED
      BY <1>1, <2>1, <2>2, Layout DEF Words
  <1>10. ClangShape'
    BY <1>3, <1>4, <1>5, <1>6, <1>7, <1>8, <1>9, ProgramShape
  <1>11. ASSUME ClangHandled, ~unhandled'
         PROVE  ClangHandled'
    <2>1. /\ \A u \in Threads \ {t} : HalfDone(u)'
          /\ \A o \in heap : Untouched(o)' => Registered(o)'
          /\ PlacedInv' /\ NameCalls'
      BY <1>5, <1>8, <1>11, ProgramKeeps
    <2>2. \A u \in Threads \ {t} : /\ Updating(u)' <=> Updating(u)
                                   /\ Erasing(u)' <=> Erasing(u)
                                   /\ Pending(u)' = Pending(u)
      BY <1>6 DEF Updating, Erasing, Pending, Extent
    <2>3. CallsTold'
      <3>1. ASSUME NEW u \in Threads
            PROVE  /\ Updating(u)' => Counted(call'[u])
                   /\ Erasing(u)' => /\ Extent(call'[u]) \subseteq Words
                                     /\ Size[call'[u].type] <= call'[u].len
                                     /\ \A o \in heap' : Extent(call'[u]) \cap Extent(o) = {}
        <4>1. CASE u = t
          <5>1. Updating(t)' => Counted(call'[t])
            <6>1. count * Size[y] \in Nat /\ count * Size[y] <= Base
              BY <1>1, <1>2, <1>11
            <6>2. Updating(t)' => /\ Outside(call'[t]) /\ call'[t].addr = 0
                                  /\ call'[t].count = count /\ call'[t].type = y
              BY <1>6, <1>7, <1>9
            <6>3. 0 + count * Size[y] <= Base
              BY <6>1
            <6>. QED
              BY <6>2, <6>3 DEF Counted
          <5>. QED
            BY <1>7, <4>1, <5>1
        <4>2. CASE u # t
          BY <1>3, <1>6, <1>11, <2>2, <4>2 DEF ClangHandled, CallsTold
        <4>. QED
          BY <4>1, <4>2
      <3>. QED
        BY <3>1 DEF CallsTold, Counted, Outside, Ended, Count, Extent
    <2>4. PendingApart'
      <3>1. Pending(t)' \cap Words = {}
        BY <1>7, <1>9 DEF Pending, Calling, Extent
      <3>. QED
        BY <1>11, <2>2, <3>1 DEF ClangHandled, PendingApart, Words
    <2>5. Blocks'
      BY <1>3, <2>1 DEF Blocks
    <2>6. HalfDone(t)'
      <3>1. ASSUME Updating(t)', NEW w, NEW j \in MembersAt(call'[t], w)
            PROVE  ~(j <= Done(t)')
        <4>1. call'[t].type \in Types /\ Done(t)' = 0
          BY <1>6, <1>7, <3>1
        <4>2. j \in 1 .. Len(Elements[call'[t].type])
          BY <3>1 DEF MembersAt
        <4>. QED
          BY <4>1, <4>2, Layout
      <3>. QED
        BY <1>7, <3>1 DEF HalfDone, MembersAt
    <2>7. Explained'
      BY <1>3, <1>5, <1>8, <1>11, ProgramExplained
    <2>. QED
      BY <2>1, <2>3, <2>4, <2>5, <2>6, <2>7 DEF ClangHandled
  <1>. QED
    BY <1>2, <1>10, <1>11

(* A block released.                                                       *)
LEMMA ClangDeallocate ==
  ASSUME ClangShape, HeapStep, NEW t \in Threads, NEW o \in heap,
         NEW y \in Types \cup {NULL}, Deallocate(t, o, y)
  PROVE  /\ ClangShape'
         /\ ~unhandled' => ~unhandled
         /\ ClangHandled /\ ~unhandled' => ClangHandled'
  <1>1. /\ call[t] = Idle /\ Owned(o)
        /\ heap' = heap \ {o} /\ meta' = meta
        /\ call' = [call EXCEPT ![t] =
                      IF y = NULL THEN Idle ELSE Hook("erase", o.addr, o.len, y, 0)]
        /\ unhandled' =
             (unhandled \/ ~(y = o.type \/ (y = NULL /\ Elements[o.type] = <<>>)))
    BY DEF Deallocate
  <1>2. ClangTypes /\ heap \subseteq Objects /\ HeapShape /\ unhandled \in BOOLEAN
    BY DEF ClangShape, ClangTypes
  <1>3. /\ o.addr \in Nat /\ o.len \in Nat /\ o.type \in Types /\ o.len > 0
        /\ Size[o.type] <= o.len
        /\ o.addr \in Extent(o) /\ Extent(o) \subseteq Words
        /\ \A p \in heap : o = p \/ Extent(o) \cap Extent(p) = {}
    BY <1>2, ClangObject
  <1>4. heap' \subseteq Objects /\ HeapShape'
    BY <1>1, <1>2 DEF HeapShape, Inside, Apart, Ended
  <1>5. /\ call' \in [Threads -> {Idle} \cup ClangCalls]
        /\ \A u \in Threads \ {t} : call'[u] = call[u]
        /\ y = NULL \/ (y \in Types /\ Elements[y] = <<>>) => call'[t] = Idle
        /\ ~(y = NULL \/ (y \in Types /\ Elements[y] = <<>>)) =>
             /\ call'[t].op = "erase" /\ Done(t)' = 0
             /\ call'[t].addr = o.addr /\ call'[t].len = o.len
             /\ call'[t].type = y
    <2>1. CASE y = NULL
      <3>1. call' = call
        BY <1>1, <1>2, <2>1 DEF ClangTypes
      <3>. QED
        BY <1>1, <1>2, <2>1, <3>1 DEF ClangTypes
    <2>2. CASE y # NULL
      <3>1. y \in Types /\ Starts(t, "erase", o.addr, o.len, y, 0)
        BY <1>1, <2>2 DEF Starts
      <3>. QED
        BY <1>1, <1>2, <1>3, <2>2, <3>1, ClangStarts
    <2>. QED
      BY <2>1, <2>2
  <1>6. ~Announcing(t)' /\ ~Updating(t)'
    BY <1>5 DEF Announcing, Updating, Idle
  <1>7. ProgramStep(t)
    BY <1>1, <1>5, <1>6 DEF ProgramStep, HeapStep
  <1>8. ClangShape'
    <2>1. unhandled' \in BOOLEAN
      BY <1>1
    <2>. QED
      BY <1>4, <1>5, <1>6, <1>7, <2>1, ProgramShape
  <1>9. ~unhandled' => ~unhandled
    BY <1>1
  <1>10. ASSUME ClangHandled, ~unhandled'
         PROVE  ClangHandled'
    <2>1. y = o.type \/ (y = NULL /\ Elements[o.type] = <<>>)
      BY <1>1, <1>10
    <2>2. /\ Elements[o.type] = <<>> => call'[t] = Idle
          /\ Elements[o.type] # <<>> =>
               /\ call'[t].op = "erase" /\ Done(t)' = 0
               /\ call'[t].addr = o.addr /\ call'[t].len = o.len
               /\ call'[t].type = o.type
      <3>1. NULL \notin Types
        BY LayoutAssumption
      <3>. QED
        BY <1>3, <1>5, <2>1, <3>1
    <2>3. /\ Erasing(t)' <=> Elements[o.type] # <<>>
          /\ Calling(t)' <=> Elements[o.type] # <<>>
      BY <2>2 DEF Erasing, Calling, Idle
    <2>4. Elements[o.type] # <<>> =>
            /\ Extent(call'[t]) = Extent(o) /\ Count(call'[t]) = Count(o)
            /\ \A w : MembersAt(call'[t], w) = MembersAt(o, w)
      BY <2>2, SameFields
    <2>5. /\ \A u \in Threads \ {t} : HalfDone(u)'
          /\ \A p \in heap : Untouched(p)' => Registered(p)'
          /\ PlacedInv' /\ NameCalls'
      BY <1>4, <1>7, <1>10, ProgramKeeps
    <2>6. \A u \in Threads \ {t} : /\ Updating(u)' <=> Updating(u)
                                   /\ Erasing(u)' <=> Erasing(u)
                                   /\ Pending(u)' = Pending(u)
      BY <1>5 DEF Updating, Erasing, Pending, Extent
    <2>7. CallsTold'
      <3>1. ASSUME NEW u \in Threads
            PROVE  /\ Updating(u)' => Counted(call'[u])
                   /\ Erasing(u)' => /\ Extent(call'[u]) \subseteq Words
                                     /\ Size[call'[u].type] <= call'[u].len
                                     /\ \A p \in heap' : Extent(call'[u]) \cap Extent(p) = {}
        <4>1. CASE u = t
          <5>1. Elements[o.type] # <<>> =>
                  /\ Extent(call'[t]) \subseteq Words
                  /\ Size[call'[t].type] <= call'[t].len
                  /\ \A p \in heap' : Extent(call'[t]) \cap Extent(p) = {}
            BY <1>1, <1>3, <2>2, <2>4
          <5>. QED
            BY <1>6, <2>3, <4>1, <5>1
        <4>2. CASE u # t
          BY <1>1, <1>5, <1>10, <2>6, <4>2 DEF ClangHandled, CallsTold
        <4>. QED
          BY <4>1, <4>2
      <3>. QED
        BY <3>1 DEF CallsTold, Counted, Outside, Ended, Count, Extent
    <2>8. PendingApart'
      <3>1. Pending(t)' \subseteq Extent(o)
        BY <2>3, <2>4 DEF Pending, Calling, Extent
      <3>2. \A u \in Threads : Pending(u) \cap Extent(o) = {}
        BY <1>1 DEF Owned, Quiet
      <3>. QED
        BY <1>10, <2>6, <3>1, <3>2 DEF ClangHandled, PendingApart, Words
    <2>9. Blocks'
      BY <1>1, <2>5 DEF Blocks
    <2>10. Registered(o)
      <3>1. Untouched(o)
        BY <1>1 DEF Owned, Quiet, Pending, Untouched, Updating, Erasing
      <3>. QED
        BY <1>10, <3>1 DEF ClangHandled, Blocks
    <2>11. HalfDone(t)'
      <3>1. Erasing(t)' => meta'[call'[t].addr].size = Count(call'[t])
        BY <1>1, <2>2, <2>3, <2>4, <2>10 DEF Registered
      <3>. QED
        BY <1>6, <3>1 DEF HalfDone, Count
    <2>12. Explained'
      <3>1. ASSUME NEW p \in heap \ heap', NEW w \in Extent(p), MembersAt(p, w) # {}
            PROVE  ToErase(w)'
        <4>1. p = o
          BY <1>1
        <4>2. PICK j \in MembersAt(o, w) : TRUE
          BY <3>1, <4>1
        <4>3. j \in 1 .. Len(Elements[o.type])
          BY <4>2 DEF MembersAt
        <4>4. Elements[o.type] # <<>> /\ j > 0
          BY <1>3, <4>3, Layout
        <4>5. Erasing(t)' /\ j \in MembersAt(call'[t], w) /\ j > Done(t)'
          BY <2>2, <2>3, <2>4, <4>2, <4>4
        <4>. QED
          BY <4>5 DEF ToErase, MembersAt
      <3>. QED
        BY <1>4, <1>7, <1>10, <3>1, ProgramExplained
    <2>. QED
      BY <2>5, <2>7, <2>8, <2>9, <2>11, <2>12 DEF ClangHandled
  <1>. QED
    BY <1>8, <1>9, <1>10

-----------------------------------------------------------------------------
(* Calls: what the runtime does, and the members of what is announced.     *)

(* What all of them have in common.                                        *)
CallStep(t) ==
  /\ Calling(t)
  /\ \A u \in Threads \ {t} : call'[u] = call[u]
  /\ \/ call'[t] = Idle
     \/ /\ call'[t].addr = call[t].addr /\ call'[t].len = call[t].len
        /\ call'[t].type = call[t].type /\ call'[t].count = call[t].count
        /\ Updating(t)' <=> Updating(t)
        /\ Erasing(t)' <=> Erasing(t)
        /\ call'[t].op = "place" <=> call[t].op = "place"
        /\ call'[t].op = "name" <=> call[t].op = "name"
  /\ heap' = heap /\ placed' = placed /\ unhandled' = unhandled
  /\ \A w \in left : meta'[w].ref # NULL => w \in left'

(* Only words of the memory the call is about are written.                 *)
WritesInside(t) == \A w \in Words : w \notin Extent(call[t]) => meta'[w] = meta[w]

LEMMA CallStepFields ==
  ASSUME NEW t \in Threads, CallStep(t), NEW u \in Threads
  PROVE  /\ Calling(u)' => Calling(u)
         /\ Updating(u)' => Updating(u) /\ call'[u].count = call[u].count
         /\ Erasing(u)' => Erasing(u)
         /\ Announcing(u)' => Announcing(u)
         /\ call'[u].op = "place" => call[u].op = "place"
         /\ call'[u].op = "name" => call[u].op = "name"
         /\ Calling(u)' =>
              /\ call'[u].addr = call[u].addr /\ call'[u].len = call[u].len
              /\ call'[u].type = call[u].type
              /\ Extent(call'[u]) = Extent(call[u])
              /\ Object(call'[u]) = Object(call[u])
         /\ Pending(u)' \subseteq Pending(u)
         /\ call'[u] # Idle =>
              (Updating(u)' <=> Updating(u)) /\ (Erasing(u)' <=> Erasing(u))
  <1>1. CASE u # t
    <2>1. call'[u] = call[u]
      BY <1>1 DEF CallStep
    <2>. QED
      BY <2>1 DEF Calling, Updating, Erasing, Announcing, Pending, Extent
  <1>2. CASE u = t /\ call'[t] = Idle
    BY <1>2 DEF Calling, Updating, Erasing, Announcing, Pending, Idle
  <1>3. CASE u = t /\ call'[t] # Idle
    <2>1. /\ Calling(t)
          /\ call'[t].addr = call[t].addr /\ call'[t].len = call[t].len
          /\ call'[t].type = call[t].type /\ call'[t].count = call[t].count
          /\ Updating(t)' <=> Updating(t)
          /\ Erasing(t)' <=> Erasing(t)
          /\ call'[t].op = "place" <=> call[t].op = "place"
          /\ call'[t].op = "name" <=> call[t].op = "name"
      BY <1>3 DEF CallStep
    <2>2. Announcing(t)' => Announcing(t)
      BY <2>1 DEF Announcing
    <2>3. Extent(call'[t]) = Extent(call[t]) /\ Object(call'[t]) = Object(call[t])
      BY <2>1 DEF Extent, Object
    <2>4. Pending(t)' \subseteq Pending(t)
      BY <2>1, <2>3 DEF Pending, Calling, Extent
    <2>. QED
      BY <1>3, <2>1, <2>2, <2>3, <2>4
  <1>. QED
    BY <1>1, <1>2, <1>3

LEMMA CallStepShape ==
  ASSUME ClangShape, NEW t \in Threads, CallStep(t),
         meta' \in [Words -> ClangEntry],
         call' \in [Threads -> {Idle} \cup ClangCalls]
  PROVE  ClangShape'
  <1>1. heap' = heap /\ placed' = placed /\ unhandled' = unhandled
    BY DEF CallStep
  <1>2. ClangTypes' /\ HeapShape'
    BY <1>1 DEF ClangShape, ClangTypes, HeapShape, Inside, Apart, Ended
  <1>3. Registrations'
    <2>1. ASSUME NEW u \in Threads, Updating(u)'
          PROVE  Outside(call'[u]) \/ Object(call'[u]) \in heap
      <3>1. Calling(u)'
        BY <2>1 DEF Updating, Calling
      <3>2. /\ Updating(u) /\ Object(call'[u]) = Object(call[u])
            /\ call'[u].addr = call[u].addr /\ call'[u].len = call[u].len
        BY <2>1, <3>1, CallStepFields
      <3>. QED
        BY <3>2 DEF ClangShape, Registrations, Outside, Ended
    <2>. QED
      BY <1>1, <2>1 DEF Registrations, Outside, Ended, Object
  <1>4. Announcements'
    <2>1. ASSUME NEW u \in Threads, Announcing(u)'
          PROVE  \E o \in heap : Extent(call'[u]) \subseteq Extent(o)
      <3>1. Calling(u)'
        BY <2>1 DEF Announcing, Calling
      <3>2. Announcing(u) /\ Extent(call'[u]) = Extent(call[u])
        BY <2>1, <3>1, CallStepFields
      <3>. QED
        BY <3>2 DEF ClangShape, Announcements, InBlock
    <2>. QED
      BY <1>1, <2>1 DEF Announcements, InBlock, Extent
  <1>5. PlacedShape'
    BY <1>1 DEF ClangShape, PlacedShape, InBlock
  <1>. QED
    BY <1>2, <1>3, <1>4, <1>5 DEF ClangShape

(* Other calls are about other words.                                      *)
LEMMA OthersApart ==
  ASSUME ClangShape, ClangHandled, NEW t \in Threads, NEW u \in Threads \ {t},
         Calling(t), Calling(u), NEW w \in Words
  PROVE  ~(w \in Extent(call[t]) /\ w \in Extent(call[u]))
  BY DEF ClangHandled, PendingApart, Pending, Calling

(* What such a step leaves alone.                                          *)
LEMMA CallKeeps ==
  ASSUME ClangShape, ClangHandled, NEW t \in Threads, CallStep(t), WritesInside(t)
  PROVE  /\ CallsTold' /\ PendingApart' /\ NameCalls'
         /\ RawPlaces' /\ PlacedApart' /\ PlaceCalls'
         /\ \A u \in Threads \ {t} : HalfDone(u)'
         /\ \A o \in heap : Extent(call[t]) \cap Extent(o) = {} =>
              (Untouched(o)' => Registered(o)')
         /\ \A p \in placed : Extent(call[t]) \cap Extent(p) = {} =>
              \A k \in 1 .. Len(Extended[p.type]) : MemberPlaced(p, k)' \/ ToPlace(p, k)'
         /\ \A w \in Words :
              meta'[w].ref # NULL /\ Taken(w) => Taken(w)'
         /\ \A w \in Words :
              w \notin Extent(call[t]) /\ meta'[w].ref # NULL =>
                NamedWord(w)' \/ Taken(w)' \/ ToErase(w)'
  <1>1. /\ Calling(t)
        /\ \A u \in Threads \ {t} : call'[u] = call[u]
        /\ heap' = heap /\ placed' = placed
        /\ \A w \in left : meta'[w].ref # NULL => w \in left'
        /\ \A w \in Words : w \notin Extent(call[t]) => meta'[w] = meta[w]
    BY DEF CallStep, WritesInside
  <1>2. \A u \in Threads \ {t} : /\ Updating(u)' <=> Updating(u)
                                 /\ Erasing(u)' <=> Erasing(u)
                                 /\ Done(u)' = Done(u)
    BY <1>1 DEF Updating, Erasing, Done
  <1>3. CallsTold'
    <2>1. ASSUME NEW u \in Threads
          PROVE  /\ Updating(u)' => Counted(call'[u])
                 /\ Erasing(u)' => /\ Extent(call'[u]) \subseteq Words
                                   /\ Size[call'[u].type] <= call'[u].len
                                   /\ \A o \in heap' : Extent(call'[u]) \cap Extent(o) = {}
      <3>1. /\ Updating(u)' => Updating(u) /\ call'[u].count = call[u].count
            /\ Erasing(u)' => Erasing(u)
            /\ Updating(u)' \/ Erasing(u)' =>
                 /\ Calling(u)'
                 /\ call'[u].type = call[u].type /\ call'[u].len = call[u].len
                 /\ call'[u].addr = call[u].addr
                 /\ Extent(call'[u]) = Extent(call[u])
        <4>1. Updating(u)' \/ Erasing(u)' => Calling(u)'
          BY DEF Updating, Erasing, Calling
        <4>. QED
          BY <4>1, CallStepFields
      <3>2. /\ Updating(u) => Counted(call[u])
            /\ Erasing(u) => /\ Extent(call[u]) \subseteq Words
                             /\ Size[call[u].type] <= call[u].len
                             /\ \A o \in heap : Extent(call[u]) \cap Extent(o) = {}
        BY DEF ClangHandled, CallsTold
      <3>3. Updating(u)' => (Counted(call'[u]) <=> Counted(call[u]))
        BY <3>1 DEF Counted, Outside, Ended, Count
      <3>. QED
        BY <1>1, <3>1, <3>2, <3>3
    <2>. QED
      BY <2>1 DEF CallsTold, Counted, Outside, Ended, Count, Extent
  <1>4. PendingApart'
    <2>1. \A u \in Threads : Pending(u)' \subseteq Pending(u)
      BY CallStepFields
    <2>. QED
      BY <2>1 DEF ClangHandled, PendingApart, Words
  <1>5. NameCalls'
    <2>1. ASSUME NEW u \in Threads, call'[u].op = "name", NEW o \in heap,
                 Extent(call'[u]) \subseteq Extent(o), Elements[o.type] # <<>>
          PROVE  MembersAt(o, o.addr) # {} \/ o.addr \notin ExtendedWords(call'[u])
      <3>1. Calling(u)'
        BY <2>1 DEF Calling
      <3>2. /\ call[u].op = "name" /\ Extent(call'[u]) = Extent(call[u])
            /\ call'[u].addr = call[u].addr /\ call'[u].type = call[u].type
        BY <2>1, <3>1, CallStepFields
      <3>3. ExtendedWords(call'[u]) = ExtendedWords(call[u])
        BY <3>2 DEF ExtendedWords
      <3>. QED
        BY <2>1, <3>2, <3>3 DEF ClangHandled, NameCalls
    <2>. QED
      BY <1>1, <2>1 DEF NameCalls, Extent, MembersAt, ExtendedWords
  <1>6. RawPlaces' /\ PlacedApart'
    BY <1>1 DEF ClangHandled, PlacedInv, RawPlaces, PlacedApart
  <1>7. PlaceCalls'
    <2>1. ASSUME NEW u \in Threads, call'[u].op = "place"
          PROVE  Object(call'[u]) \in placed
      <3>1. Calling(u)'
        BY <2>1 DEF Calling
      <3>2. call[u].op = "place" /\ Object(call'[u]) = Object(call[u])
        BY <2>1, <3>1, CallStepFields
      <3>. QED
        BY <3>2 DEF ClangHandled, PlacedInv, PlaceCalls
    <2>. QED
      BY <1>1, <2>1 DEF PlaceCalls, Object
  <1>8. ASSUME NEW u \in Threads \ {t}
        PROVE  HalfDone(u)'
    <2>1. HalfDone(u)
      BY DEF ClangHandled
    <2>2. ASSUME Updating(u), NEW w \in Words, NEW j \in MembersAt(call[u], w),
                 j <= Done(u)
          PROVE  /\ meta'[w].ref = Elements[call[u].type][j][2]
                 /\ meta'[w].off = Elements[call[u].type][j][1]
      <3>1. Calling(u) /\ ClangTypes
        BY <2>2 DEF Updating, Calling, ClangShape
      <3>2. call[u].addr \in Nat /\ call[u].len \in Nat /\ call[u].type \in Types
        BY <3>1, ClangFields
      <3>3. w \in Extent(call[u])
        BY <2>2, <3>2, MembersAtMostOne
      <3>4. meta'[w] = meta[w]
        BY <1>1, <3>1, <3>3, OthersApart
      <3>. QED
        BY <2>1, <2>2, <3>4 DEF HalfDone, Describes
    <2>3. ASSUME Erasing(u)
          PROVE  meta'[call[u].addr].size = Count(call[u])
      <3>1. Calling(u) /\ ClangTypes
        BY <2>3 DEF Erasing, Calling, ClangShape
      <3>2. call[u].addr \in Nat /\ call[u].len \in Nat /\ call[u].type \in Types
        BY <3>1, ClangFields
      <3>3. Extent(call[u]) \subseteq Words /\ Size[call[u].type] <= call[u].len
        BY <2>3 DEF ClangHandled, CallsTold
      <3>4. call[u].addr \in Extent(call[u])
        BY <3>2, <3>3, Layout DEF Extent
      <3>5. meta'[call[u].addr] = meta[call[u].addr]
        BY <1>1, <3>1, <3>3, <3>4, OthersApart
      <3>. QED
        BY <2>1, <2>3, <3>5 DEF HalfDone
    <2>. QED
      BY <1>1, <1>2, <2>2, <2>3 DEF HalfDone, Describes, MembersAt, Count
  <1>9. ASSUME NEW o \in heap, Extent(call[t]) \cap Extent(o) = {}, Untouched(o)'
        PROVE  Registered(o)'
    <2>1. Untouched(o)
      BY <1>1, <1>2, <1>9 DEF Untouched, Extent
    <2>2. Registered(o)
      BY <2>1 DEF ClangHandled, Blocks
    <2>3. o.addr \in Extent(o) /\ Extent(o) \subseteq Words
      BY ClangObject DEF ClangShape, ClangTypes
    <2>4. \A w \in Extent(o) : meta'[w] = meta[w]
      BY <1>1, <1>9, <2>3
    <2>. QED
      BY <2>2, <2>3, <2>4 DEF Registered, MembersAt, Describes, Count, Extent
  <1>10. ASSUME NEW p \in placed, Extent(call[t]) \cap Extent(p) = {},
                NEW k \in 1 .. Len(Extended[p.type])
         PROVE  MemberPlaced(p, k)' \/ ToPlace(p, k)'
    <2>1. /\ p.addr \in Extent(p) /\ Extent(p) \subseteq Words
          /\ p.addr + Extended[p.type][k][1] \in Extent(p)
      BY PlacedObject
    <2>2. MemberPlaced(p, k) => MemberPlaced(p, k)'
      BY <1>1, <1>10, <2>1 DEF MemberPlaced
    <2>3. ASSUME ToPlace(p, k)
          PROVE  ToPlace(p, k)'
      <3>1. PICK u \in Threads :
              call[u].op = "place" /\ Object(call[u]) = p /\ call[u].k <= k
        BY <2>3 DEF ToPlace
      <3>2. Extent(call[u]) = Extent(p)
        BY <3>1 DEF Object, Extent
      <3>3. call'[u] = call[u]
        BY <1>1, <1>10, <2>1, <3>2
      <3>4. call'[u].op = "place" /\ Object(call'[u]) = p /\ call'[u].k <= k
        BY <3>1, <3>3
      <3>. QED
        BY <3>4 DEF ToPlace, Object
    <2>4. MemberPlaced(p, k) \/ ToPlace(p, k)
      BY DEF ClangHandled, PlacedInv, PlacedEntries
    <2>. QED
      BY <2>2, <2>3, <2>4
  <1>11. ASSUME NEW w \in Words, meta'[w].ref # NULL, Taken(w)
         PROVE  Taken(w)'
    <2>1. \/ w \in left'
          \/ \E o \in heap : w \in Extent(o) /\ MembersAt(o, w) # {}
          \/ \E p \in placed : w \in ExtendedWords(p)
      BY <1>1, <1>11 DEF Taken
    <2>. QED
      BY <1>1, <2>1 DEF Taken, Extent, MembersAt, ExtendedWords
  <1>12. ASSUME NEW w \in Words, w \notin Extent(call[t]), meta'[w].ref # NULL
         PROVE  NamedWord(w)' \/ Taken(w)' \/ ToErase(w)'
    <2>1. meta'[w] = meta[w]
      BY <1>1, <1>12
    <2>2. NamedWord(w) \/ Taken(w) \/ ToErase(w)
      BY <1>12, <2>1 DEF ClangHandled, Explained
    <2>3. NamedWord(w) => NamedWord(w)'
      BY <2>1 DEF NamedWord
    <2>4. ASSUME ToErase(w)
          PROVE  ToErase(w)'
      <3>1. PICK u \in Threads : Erasing(u) /\ \E j \in MembersAt(call[u], w) : j > Done(u)
        BY <2>4 DEF ToErase
      <3>2. Calling(u) /\ ClangTypes
        BY <3>1 DEF Erasing, Calling, ClangShape
      <3>3. call[u].addr \in Nat /\ call[u].len \in Nat /\ call[u].type \in Types
        BY <3>2, ClangFields
      <3>4. w \in Extent(call[u])
        BY <3>1, <3>3, MembersAtMostOne
      <3>5. u # t
        BY <1>12, <3>4
      <3>6. Erasing(u)' /\ \E j \in MembersAt(call'[u], w) : j > Done(u)'
        BY <1>1, <1>2, <3>1, <3>5
      <3>. QED
        BY <3>6 DEF ToErase, MembersAt
    <2>. QED
      BY <1>11, <1>12, <2>2, <2>3, <2>4
  <1>. QED
    BY <1>3, <1>4, <1>5, <1>6, <1>7, <1>8, <1>9, <1>10, <1>11, <1>12

-----------------------------------------------------------------------------
(* The runtime calls of blocks.                                            *)

LEMMA ErasedEntry ==
  ASSUME NEW e \in ClangEntry
  PROVE  [e EXCEPT !.size = 0, !.off = 0] = [[e EXCEPT !.size = 0] EXCEPT !.off = 0]
  BY DEF ClangEntry

LEMMA ClangRuntimeCalls ==
  ASSUME ClangTypes, NEW t \in Threads, Runtime(t)
  PROVE  /\ call' \in [Threads -> {Idle} \cup ClangCalls]
         /\ Updating(t) \/ Erasing(t)
         /\ \A u \in Threads \ {t} : call'[u] = call[u]
         /\ call'[t] = Idle \/
              /\ call'[t].addr = call[t].addr /\ call'[t].len = call[t].len
              /\ call'[t].type = call[t].type /\ call'[t].count = call[t].count
              /\ Updating(t)' <=> Updating(t)
              /\ Erasing(t)' <=> Erasing(t)
              /\ ~Announcing(t)'
         /\ UpdateObjTrace(t) => Updating(t)' /\ Done(t)' = call[t].k
         /\ UpdateArraySize(t) =>
              \/ call'[t] = Idle /\ call[t].k = Len(Elements[call[t].type])
              \/ Updating(t)' /\ Done(t)' = call[t].k
         /\ EraseObj(t) => Erasing(t)' /\ Done(t)' = call[t].k
         /\ EraseArraySize(t) =>
              call'[t] = Idle /\ call[t].k = Len(Elements[call[t].type])
  <1>1. (Updating(t) \/ Erasing(t)) /\ call \in [Threads -> {Idle} \cup ClangCalls]
    BY DEF Runtime, UpdateObjTrace, UpdateArraySize, EraseObj, EraseArraySize,
           Updating, Erasing, ClangTypes
  <1>2. /\ call[t] \in Calls /\ call[t].k \in 1 .. Len(Elements[call[t].type])
        /\ call[t].op = "clear" => Last(t)
    BY <1>1, ClangFields
  <1>3. /\ call' = [call EXCEPT ![t] = call'[t]]
        /\ \A u \in Threads \ {t} : call'[u] = call[u]
        /\ call'[t] = Idle \/
              /\ call'[t] \in Calls /\ call'[t].type = call[t].type
              /\ call'[t].k \in 1 .. Len(Elements[call[t].type])
              /\ call'[t].op = "clear" => call'[t].k = Len(Elements[call[t].type])
    BY <1>1, <1>2, RuntimeTurns
  <1>4. call'[t] # Idle => call'[t] \in ClangCalls /\ ~Announcing(t)'
    <2>1. call'[t] # Idle => call'[t].op \in {"update", "size", "erase", "clear"}
      BY <1>3 DEF Calls
    <2>2. call'[t] # Idle => call'[t] \in ClangCalls
      BY <1>3 DEF Calls, ClangCalls
    <2>. QED
      BY <2>1, <2>2 DEF Announcing
  <1>5. call' \in [Threads -> {Idle} \cup ClangCalls]
    BY <1>1, <1>3, <1>4
  <1>. QED
    BY <1>1, <1>2, <1>4, <1>5, RuntimeTurns

LEMMA ClangRuntimeTypes ==
  ASSUME ClangTypes, NEW t \in Threads, Runtime(t)
  PROVE  meta' \in [Words -> ClangEntry] /\ heap' = heap /\ unhandled' = unhandled
  <1>1. meta \in [Words -> ClangEntry]
    BY DEF ClangTypes
  <1>2. /\ call[t].addr \in Nat /\ call[t].count \in Nat
        /\ Member(t)[1] \in Nat /\ Member(t)[2] \in Vectors
    <2>1. /\ call[t].addr \in Nat /\ call[t].count \in Nat /\ call[t].type \in Types
          /\ call[t].k \in 1 .. Len(Elements[call[t].type])
      BY ClangRuntimeCalls, ClangFields
    <2>. QED
      BY <2>1, Layout DEF Member
  <1>3. CASE UpdateObjTrace(t)
    <2>1. [ref |-> Member(t)[2], size |-> 0, off |-> Member(t)[1]] \in ClangEntry
      BY <1>2 DEF ClangEntry
    <2>. QED
      BY <1>1, <1>3, <2>1 DEF UpdateObjTrace
  <1>4. CASE UpdateArraySize(t)
    BY <1>1, <1>2, <1>4 DEF UpdateArraySize, ClangEntry
  <1>5. CASE EraseObj(t)
    <2>1. \A w \in Words : [meta[w] EXCEPT !.ref = NULL] \in ClangEntry
      BY <1>1 DEF ClangEntry
    <2>2. PICK count : meta' = [w \in Words |-> IF w \in MemberWords(t, count)
                                                THEN [meta[w] EXCEPT !.ref = NULL]
                                                ELSE meta[w]]
      BY <1>5 DEF EraseObj
    <2>. QED
      BY <1>1, <1>5, <2>1, <2>2 DEF EraseObj
  <1>6. CASE EraseArraySize(t)
    BY <1>1, <1>6 DEF EraseArraySize, ClangEntry
  <1>. QED
    BY <1>3, <1>4, <1>5, <1>6
       DEF Runtime, UpdateObjTrace, UpdateArraySize, EraseObj, EraseArraySize

(* Only words of the memory the call is about are written, and of those    *)
(* the ones of the member, or the first.                                   *)
LEMMA ClangRuntimeWrites ==
  ASSUME ClangShape, ClangHandled, NEW t \in Threads, Runtime(t), NEW w \in Words
  PROVE  /\ UpdateObjTrace(t) =>
              meta'[w] = IF call[t].k \in MembersAt(call[t], w)
                         THEN [ref |-> Member(t)[2], size |-> 0, off |-> Member(t)[1]]
                         ELSE meta[w]
         /\ UpdateArraySize(t) =>
              /\ meta'[w].ref = meta[w].ref /\ meta'[w].off = meta[w].off
              /\ w # call[t].addr => meta'[w] = meta[w]
              /\ w = call[t].addr => meta'[w].size = Count(call[t])
         /\ EraseObj(t) =>
              /\ call[t].k \in MembersAt(call[t], w) => meta'[w].ref = NULL
              /\ call[t].k \notin MembersAt(call[t], w) => meta'[w] = meta[w]
              /\ meta'[w].size = meta[w].size
         /\ EraseArraySize(t) =>
              /\ meta'[w].ref = meta[w].ref
              /\ w # call[t].addr => meta'[w] = meta[w]
              /\ w = call[t].addr => meta'[w] = [meta[w] EXCEPT !.size = 0, !.off = 0]
         /\ w \notin Extent(call[t]) => meta'[w] = meta[w]
  <1>1. /\ ClangTypes /\ meta \in [Words -> ClangEntry]
        /\ Updating(t) \/ Erasing(t)
    BY ClangRuntimeCalls DEF ClangShape, ClangTypes
  <1>2. /\ call[t].addr \in Nat /\ call[t].len \in Nat /\ call[t].type \in Types
        /\ call[t].count \in Nat
        /\ call[t].k \in 1 .. Len(Elements[call[t].type])
    BY <1>1, ClangFields
  <1>3. /\ w \in MemberWords(t, Count(call[t])) <=> call[t].k \in MembersAt(call[t], w)
        /\ call[t].k \in MembersAt(call[t], w) => w \in Extent(call[t])
    BY <1>2, MemberWordsAt, MembersAtMostOne
  <1>4. w = call[t].addr => w \in Extent(call[t])
    <2>1. Calling(t)
      BY <1>1, ClangFields
    <2>2. Erasing(t) => Size[call[t].type] <= call[t].len
      BY DEF ClangHandled, CallsTold
    <2>3. Object(call[t]) \in heap => Size[call[t].type] <= call[t].len
      BY <2>1, ClangCallInside
    <2>4. Size[call[t].type] <= call[t].len => call[t].addr \in Extent(call[t])
      BY SMTT(30), <1>2, Layout DEF Extent
    <2>5. Outside(call[t]) => w # call[t].addr
      BY <1>2, Layout DEF Outside, Words
    <2>. QED
      BY <1>1, <2>2, <2>3, <2>4, <2>5 DEF ClangShape, Registrations
  <1>5. meta[w] \in ClangEntry
    BY <1>1
  <1>6. ASSUME UpdateObjTrace(t)
        PROVE  meta'[w] = IF call[t].k \in MembersAt(call[t], w)
                          THEN [ref |-> Member(t)[2], size |-> 0, off |-> Member(t)[1]]
                          ELSE meta[w]
    <2>1. Counted(call[t])
      BY <1>6 DEF UpdateObjTrace, ClangHandled, CallsTold, Updating
    <2>2. w \in MemberWords(t, call[t].count) <=> call[t].k \in MembersAt(call[t], w)
      BY <1>2, <2>1, CountedWords
    <2>. QED
      BY <1>6, <2>2 DEF UpdateObjTrace
  <1>7. ASSUME UpdateArraySize(t)
        PROVE  /\ meta'[w].ref = meta[w].ref /\ meta'[w].off = meta[w].off
               /\ w # call[t].addr => meta'[w] = meta[w]
               /\ w = call[t].addr => meta'[w].size = Count(call[t])
    <2>1. w = call[t].addr => call[t].count = Count(call[t])
      <3>1. Counted(call[t])
        BY <1>7 DEF UpdateArraySize, ClangHandled, CallsTold, Updating
      <3>2. w = call[t].addr => ~Outside(call[t])
        BY <1>2, Layout DEF Outside, Words
      <3>. QED
        BY <3>1, <3>2 DEF Counted
    <2>2. meta' = IF call[t].addr \in Words
                  THEN [meta EXCEPT ![call[t].addr].size = call[t].count]
                  ELSE meta
      BY <1>7 DEF UpdateArraySize
    <2>. QED
      BY <1>1, <1>5, <2>1, <2>2 DEF ClangEntry
  <1>8. ASSUME EraseObj(t)
        PROVE  /\ call[t].k \in MembersAt(call[t], w) => meta'[w].ref = NULL
               /\ call[t].k \notin MembersAt(call[t], w) => meta'[w] = meta[w]
               /\ meta'[w].size = meta[w].size
    <2>1. Erasing(t)
      BY <1>8 DEF EraseObj, Erasing
    <2>2. Extent(call[t]) \subseteq Words /\ Size[call[t].type] <= call[t].len
      BY <2>1 DEF ClangHandled, CallsTold
    <2>3. call[t].addr \in Words
      <3>1. call[t].addr \in Extent(call[t])
        BY <1>2, <2>2, Layout DEF Extent
      <3>. QED
        BY <2>2, <3>1
    <2>4. meta[call[t].addr].size = Count(call[t])
      BY <2>1 DEF ClangHandled, HalfDone
    <2>5. Count(call[t]) > 0
      BY <1>2, <2>2, CountBounds, Layout DEF Count
    <2>6. meta' = [v \in Words |-> IF v \in MemberWords(t, Count(call[t]))
                                   THEN [meta[v] EXCEPT !.ref = NULL]
                                   ELSE meta[v]]
      BY <1>8, <2>3, <2>4, <2>5 DEF EraseObj
    <2>7. meta'[w] = IF call[t].k \in MembersAt(call[t], w)
                     THEN [meta[w] EXCEPT !.ref = NULL]
                     ELSE meta[w]
      BY <1>3, <2>6
    <2>. QED
      BY <1>5, <2>7 DEF ClangEntry
  <1>9. ASSUME EraseArraySize(t)
        PROVE  /\ meta'[w].ref = meta[w].ref
               /\ w # call[t].addr => meta'[w] = meta[w]
               /\ w = call[t].addr => meta'[w] = [meta[w] EXCEPT !.size = 0, !.off = 0]
    <2>1. meta' = IF call[t].addr \in Words
                  THEN [meta EXCEPT ![call[t].addr].size = 0,
                                    ![call[t].addr].off = 0]
                  ELSE meta
      BY <1>9 DEF EraseArraySize
    <2>2. w # call[t].addr => meta'[w] = meta[w]
      BY <1>1, <2>1
    <2>3. meta'[w].ref = meta[w].ref
      BY <1>1, <1>5, <2>1 DEF ClangEntry
    <2>4. w = call[t].addr => meta'[w] = [[meta[w] EXCEPT !.size = 0] EXCEPT !.off = 0]
      BY <1>1, <2>1
    <2>. QED
      BY <1>5, <2>2, <2>3, <2>4, ErasedEntry
  <1>10. w \notin Extent(call[t]) => meta'[w] = meta[w]
    BY <1>3, <1>4, <1>6, <1>7, <1>8, <1>9 DEF Runtime
  <1>. QED
    BY <1>6, <1>7, <1>8, <1>9, <1>10

LEMMA RuntimeCallStep ==
  ASSUME ClangShape, HeapStep, NEW t \in Threads, Runtime(t)
  PROVE  CallStep(t) /\ ClangShape'
  <1>1. ClangTypes
    BY DEF ClangShape
  <1>2. meta' \in [Words -> ClangEntry] /\ heap' = heap /\ unhandled' = unhandled
    BY <1>1, ClangRuntimeTypes
  <1>3. /\ call' \in [Threads -> {Idle} \cup ClangCalls]
        /\ Updating(t) \/ Erasing(t)
        /\ \A u \in Threads \ {t} : call'[u] = call[u]
        /\ call'[t] = Idle \/
              /\ call'[t].addr = call[t].addr /\ call'[t].len = call[t].len
              /\ call'[t].type = call[t].type /\ call'[t].count = call[t].count
              /\ Updating(t)' <=> Updating(t)
              /\ Erasing(t)' <=> Erasing(t)
              /\ ~Announcing(t)'
    BY <1>1, ClangRuntimeCalls
  <1>4. Calling(t) /\ ~Announcing(t)
    BY <1>1, <1>3, ClangFields
  <1>5. placed' = placed
    BY <1>2 DEF HeapStep, ClangShape, PlacedShape, InBlock
  <1>6. CallStep(t)
    BY <1>2, <1>3, <1>4, <1>5, LeftOver DEF CallStep, Announcing
  <1>. QED
    BY <1>2, <1>3, <1>6, CallStepShape

(* Runtime calls of blocks do not concern placed objects.                  *)
LEMMA RuntimeNotPlaced ==
  ASSUME ClangShape, ClangHandled, NEW t \in Threads, Updating(t) \/ Erasing(t),
         NEW p \in placed
  PROVE  Extent(call[t]) \cap Extent(p) = {}
  <1>1. /\ ClangTypes /\ Calling(t) /\ heap \subseteq Objects /\ HeapShape
    BY DEF ClangShape, ClangTypes, Calling, Updating, Erasing
  <1>2. PICK b \in heap : Extent(p) \subseteq Extent(b) /\ Elements[b.type] = <<>>
    BY DEF ClangHandled, PlacedInv, RawPlaces
  <1>3. Extent(p) \subseteq Words
    BY PlacedObject
  <1>4. CASE Erasing(t)
    BY <1>2, <1>4 DEF ClangHandled, CallsTold
  <1>5. CASE Updating(t) /\ Object(call[t]) \in heap
    <2>1. /\ call[t].type \in Types /\ call[t].k \in 1 .. Len(Elements[call[t].type])
          /\ Extent(Object(call[t])) = Extent(call[t])
      BY <1>1, <1>5, ClangFields, ClangCallInside
    <2>2. Elements[call[t].type] # <<>>
      BY <2>1, Layout
    <2>3. Object(call[t]) # b
      BY <1>2, <2>2 DEF Object
    <2>4. Extent(Object(call[t])) \cap Extent(b) = {}
      BY <1>1, <1>2, <1>5, <2>3, ClangObject
    <2>. QED
      BY <1>2, <2>1, <2>4
  <1>6. CASE Updating(t) /\ Extent(call[t]) \cap Words = {}
    BY <1>3, <1>6
  <1>. QED
    BY <1>1, <1>4, <1>5, <1>6, ClangCallInside

(* Entries in memory a thread is at are its own business.                  *)
LEMMA OwnEntries ==
  ASSUME ClangShape, ClangHandled, NEW t \in Threads, Calling(t), NEW w \in Words,
         w \in Extent(call[t]), meta[w].ref # NULL
  PROVE  \/ NamedWord(w) \/ Taken(w)
         \/ Erasing(t) /\ \E j \in MembersAt(call[t], w) : j > Done(t)
  <1>1. NamedWord(w) \/ Taken(w) \/ ToErase(w)
    BY DEF ClangHandled, Explained
  <1>2. ASSUME ToErase(w)
        PROVE  Erasing(t) /\ \E j \in MembersAt(call[t], w) : j > Done(t)
    <2>1. PICK u \in Threads : Erasing(u) /\ \E j \in MembersAt(call[u], w) : j > Done(u)
      BY <1>2 DEF ToErase
    <2>2. Calling(u) /\ ClangTypes
      BY <2>1 DEF Erasing, Calling, ClangShape
    <2>3. call[u].addr \in Nat /\ call[u].len \in Nat /\ call[u].type \in Types
      BY <2>2, ClangFields
    <2>4. w \in Extent(call[u])
      BY <2>1, <2>3, MembersAtMostOne
    <2>5. u = t
      BY <2>2, <2>4, OthersApart
    <2>. QED
      BY <2>1, <2>5
  <1>. QED
    BY <1>1, <1>2

(* How far the thread is after its call.                                   *)
LEMMA RuntimeHalfDone ==
  ASSUME ClangShape, ClangHandled, NEW t \in Threads, Runtime(t)
  PROVE  HalfDone(t)'
  <1> DEFINE c == call[t]
  <1>1. /\ ClangTypes /\ HalfDone(t)
        /\ Updating(t) \/ Erasing(t)
    BY ClangRuntimeCalls DEF ClangShape, ClangHandled
  <1>2. /\ c.addr \in Nat /\ c.len \in Nat /\ c.type \in Types
        /\ c.k \in 1 .. Len(Elements[c.type]) /\ c.k \in Nat
        /\ ~(Updating(t) /\ Erasing(t))
    BY <1>1, ClangFields
  <1>3. call'[t] = Idle \/
          /\ call'[t].addr = c.addr /\ call'[t].len = c.len /\ call'[t].type = c.type
          /\ Updating(t)' <=> Updating(t)
          /\ Erasing(t)' <=> Erasing(t)
    BY <1>1, ClangRuntimeCalls
  <1>4. /\ Updating(t)' \/ Erasing(t)' => call'[t] # Idle
        /\ call'[t] # Idle =>
             /\ Count(call'[t]) = Count(c)
             /\ \A w : MembersAt(call'[t], w) = MembersAt(c, w)
    BY <1>3, SameFields DEF Updating, Erasing, Idle
  <1>5. \A w : \A j \in MembersAt(c, w) : j \in Nat
    BY DEF MembersAt
  <1>6. ASSUME UpdateObjTrace(t), NEW w \in Words, NEW j \in MembersAt(c, w), j <= c.k
        PROVE  /\ meta'[w].ref = Elements[c.type][j][2]
               /\ meta'[w].off = Elements[c.type][j][1]
    <2>1. Updating(t) /\ Done(t) = c.k - 1
      BY <1>6 DEF UpdateObjTrace, Updating, Done
    <2>2. meta'[w] = IF c.k \in MembersAt(c, w)
                     THEN [ref |-> Member(t)[2], size |-> 0, off |-> Member(t)[1]]
                     ELSE meta[w]
      BY <1>6, ClangRuntimeWrites
    <2>3. CASE c.k \in MembersAt(c, w)
      <3>1. j = c.k
        BY <1>2, <2>3, MembersAtMostOne
      <3>2. meta'[w].ref = Member(t)[2] /\ meta'[w].off = Member(t)[1]
        BY <2>2, <2>3
      <3>. QED
        BY <3>1, <3>2 DEF Member
    <2>4. CASE c.k \notin MembersAt(c, w)
      <3>1. j <= Done(t)
        BY <1>2, <1>5, <1>6, <2>1, <2>4
      <3>2. Describes(w, c, j)
        BY <1>1, <2>1, <3>1 DEF HalfDone
      <3>. QED
        BY <2>2, <2>4, <3>2 DEF Describes
    <2>. QED
      BY <2>3, <2>4
  <1>7. ASSUME UpdateArraySize(t), NEW w \in Words, NEW j \in MembersAt(c, w), j <= c.k
        PROVE  /\ meta'[w].ref = Elements[c.type][j][2]
               /\ meta'[w].off = Elements[c.type][j][1]
    <2>1. Updating(t) /\ Done(t) = c.k
      BY <1>7 DEF UpdateArraySize, Updating, Done
    <2>2. Describes(w, c, j)
      BY <1>1, <1>7, <2>1 DEF HalfDone
    <2>3. meta'[w].ref = meta[w].ref /\ meta'[w].off = meta[w].off
      BY <1>7, ClangRuntimeWrites
    <2>. QED
      BY <2>2, <2>3 DEF Describes
  <1>8. ASSUME Updating(t)', NEW w \in Words, NEW j \in MembersAt(call'[t], w),
               j <= Done(t)'
        PROVE  /\ meta'[w].ref = Elements[call'[t].type][j][2]
               /\ meta'[w].off = Elements[call'[t].type][j][1]
    <2>1. /\ Updating(t) /\ ~Erasing(t)
          /\ j \in MembersAt(c, w) /\ call'[t].type = c.type /\ call'[t] # Idle
      BY <1>2, <1>3, <1>4, <1>8
    <2>2. (UpdateObjTrace(t) \/ UpdateArraySize(t)) /\ Done(t)' = c.k
      <3>1. UpdateObjTrace(t) \/ UpdateArraySize(t)
        BY <2>1 DEF Runtime, EraseObj, EraseArraySize, Erasing
      <3>. QED
        BY <1>1, <2>1, <3>1, ClangRuntimeCalls
    <2>. QED
      BY <1>6, <1>7, <1>8, <2>1, <2>2
  <1>9. ASSUME Erasing(t)'
        PROVE  meta'[call'[t].addr].size = Count(call'[t])
    <2>1. /\ Erasing(t) /\ ~Updating(t) /\ call'[t] # Idle
          /\ call'[t].addr = c.addr /\ Count(call'[t]) = Count(c)
      BY <1>2, <1>3, <1>4, <1>9
    <2>2. EraseObj(t)
      <3>1. EraseObj(t) \/ EraseArraySize(t)
        BY <2>1 DEF Runtime, UpdateObjTrace, UpdateArraySize, Updating
      <3>. QED
        BY <1>1, <2>1, <3>1, ClangRuntimeCalls
    <2>3. Extent(c) \subseteq Words /\ Size[c.type] <= c.len
      BY <2>1 DEF ClangHandled, CallsTold
    <2>4. c.addr \in Extent(c)
      BY <1>2, <2>3, Layout DEF Extent
    <2>5. meta'[c.addr].size = meta[c.addr].size
      BY <2>2, <2>3, <2>4, ClangRuntimeWrites
    <2>. QED
      BY <1>1, <2>1, <2>5 DEF HalfDone
  <1>. QED
    BY <1>8, <1>9 DEF HalfDone, Describes, MembersAt, Count

(* Blocks are described when their registration is over.                   *)
LEMMA RuntimeBlocks ==
  ASSUME ClangShape, ClangHandled, HeapStep, NEW t \in Threads, Runtime(t)
  PROVE  Blocks'
  <1> DEFINE c == call[t]
  <1>1. /\ ClangTypes /\ HalfDone(t) /\ heap \subseteq Objects /\ HeapShape
        /\ Updating(t) \/ Erasing(t)
        /\ CallStep(t) /\ heap' = heap /\ Calling(t)
    BY ClangRuntimeCalls, RuntimeCallStep DEF ClangShape, ClangTypes, ClangHandled, CallStep
  <1>2. WritesInside(t)
    BY ClangRuntimeWrites DEF WritesInside
  <1>3. ASSUME NEW o \in heap, Untouched(o)', Extent(c) \cap Extent(o) # {}
        PROVE  Registered(o)'
    <2>1. ~Erasing(t) /\ Updating(t)
      BY <1>1, <1>3 DEF ClangHandled, CallsTold
    <2>2. call'[t] = Idle
      <3>1. call'[t] # Idle => /\ Updating(t)'
                               /\ Extent(call'[t]) = Extent(c)
        <4>1. call'[t] # Idle => Updating(t)'
          BY <1>1, <2>1, CallStepFields
        <4>2. Updating(t)' => Calling(t)'
          BY DEF Updating, Calling
        <4>. QED
          BY <1>1, <4>1, <4>2, CallStepFields
      <3>. QED
        BY <1>3, <3>1 DEF Untouched, Extent
    <2>3. UpdateArraySize(t)
      <3>1. UpdateObjTrace(t) \/ UpdateArraySize(t)
        BY <2>1 DEF Runtime, EraseObj, EraseArraySize, Erasing
      <3>2. ~Updating(t)'
        BY <2>2 DEF Updating, Idle
      <3>. QED
        BY <1>1, <3>1, <3>2, ClangRuntimeCalls
    <2>4. /\ Done(t) = c.k
          /\ c.k = Len(Elements[c.type])
      <3>1. c.k = Len(Elements[c.type])
        <4>1. ~Updating(t)'
          BY <2>2 DEF Updating, Idle
        <4>. QED
          BY <1>1, <2>3, <4>1, ClangRuntimeCalls
      <3>. QED
        BY <2>3, <3>1 DEF UpdateArraySize, Done
    <2>5. /\ o.addr \in Nat /\ o.len \in Nat /\ o.type \in Types
          /\ o.addr \in Extent(o) /\ Extent(o) \subseteq Words
          /\ \A p \in heap : o = p \/ Extent(o) \cap Extent(p) = {}
      BY <1>1, ClangObject
    <2>6. Object(c) = o
      <3>1. Extent(c) \cap Words # {}
        BY <1>3, <2>5
      <3>2. Object(c) \in heap /\ Extent(Object(c)) = Extent(c)
        BY <1>1, <2>1, <3>1, ClangCallInside
      <3>. QED
        BY <1>3, <2>5, <3>2
    <2>7. /\ c.addr = o.addr /\ c.type = o.type
          /\ Count(c) = Count(o)
          /\ \A w : MembersAt(c, w) = MembersAt(o, w)
      <3>1. Object(c).addr = c.addr /\ Object(c).len = c.len /\ Object(c).type = c.type
        BY DEF Object
      <3>. QED
        BY <2>6, <3>1, SameFields
    <2>8. ASSUME NEW w \in Extent(o), NEW j \in MembersAt(o, w)
          PROVE  /\ meta'[w].ref = Elements[o.type][j][2]
                 /\ meta'[w].off = Elements[o.type][j][1]
      <3>1. j \in 1 .. Len(Elements[o.type])
        BY DEF MembersAt
      <3>2. j <= Done(t) /\ j \in MembersAt(c, w) /\ w \in Words
        BY <2>4, <2>5, <2>7, <2>8, <3>1, Layout
      <3>3. Describes(w, c, j)
        BY <1>1, <2>1, <3>2 DEF HalfDone
      <3>4. meta'[w].ref = meta[w].ref /\ meta'[w].off = meta[w].off
        BY <2>3, <3>2, ClangRuntimeWrites
      <3>. QED
        BY <2>7, <3>3, <3>4 DEF Describes
    <2>9. meta'[o.addr].size = Count(o)
      BY <2>3, <2>5, <2>7, ClangRuntimeWrites
    <2>. QED
      BY <2>8, <2>9 DEF Registered, Describes, MembersAt, Count, Extent
  <1>4. ASSUME NEW o \in heap, Untouched(o)', Extent(c) \cap Extent(o) = {}
        PROVE  Registered(o)'
    BY <1>1, <1>2, <1>4, CallKeeps
  <1>. QED
    BY <1>1, <1>3, <1>4 DEF Blocks

(* Entries a runtime call leaves belong to the block it registers, or are  *)
(* still to be erased.                                                     *)
LEMMA RuntimeExplained ==
  ASSUME ClangShape, ClangHandled, HeapStep, NEW t \in Threads, Runtime(t)
  PROVE  Explained'
  <1> DEFINE c == call[t]
  <1>1. /\ ClangTypes
        /\ Updating(t) \/ Erasing(t)
        /\ CallStep(t) /\ heap' = heap /\ Calling(t)
    BY ClangRuntimeCalls, RuntimeCallStep DEF ClangShape, CallStep
  <1>2. /\ c.addr \in Nat /\ c.len \in Nat /\ c.type \in Types
        /\ c.k \in 1 .. Len(Elements[c.type]) /\ c.k \in Nat
        /\ ~(Updating(t) /\ Erasing(t))
    BY <1>1, ClangFields
  <1>3. WritesInside(t)
    BY ClangRuntimeWrites DEF WritesInside
  <1>4. ASSUME NEW w \in Words, meta'[w].ref # NULL, w \in Extent(c)
        PROVE  NamedWord(w)' \/ Taken(w)' \/ ToErase(w)'
    <2>1. Taken(w) => Taken(w)'
      BY <1>1, <1>3, <1>4, CallKeeps
    <2>2. meta'[w] = meta[w] => (NamedWord(w) => NamedWord(w)')
      BY DEF NamedWord
    <2>3. meta[w].ref # NULL =>
            \/ NamedWord(w) \/ Taken(w)
            \/ Erasing(t) /\ \E j \in MembersAt(c, w) : j > Done(t)
      BY <1>1, <1>4, OwnEntries
    <2>4. CASE UpdateObjTrace(t)
      <3>1. ~Erasing(t) /\ Updating(t)
        BY <2>4 DEF UpdateObjTrace, Updating, Erasing
      <3>2. CASE c.k \in MembersAt(c, w)
        <4>1. Object(c) \in heap /\ Extent(Object(c)) = Extent(c)
          BY <1>1, <1>4, <3>1, ClangCallInside
        <4>2. MembersAt(Object(c), w) = MembersAt(c, w)
          BY SameFields DEF Object
        <4>3. Object(c) \in heap' /\ w \in Extent(Object(c)) /\ MembersAt(Object(c), w) # {}
          BY <1>1, <1>4, <3>2, <4>1, <4>2
        <4> DEFINE o == Object(c)
        <4> HIDE DEF o
        <4>4. \E q \in heap' : w \in Extent(q) /\ MembersAt(q, w) # {}
          BY <4>3 DEF o
        <4>. QED
          BY <4>4 DEF Taken, Extent, MembersAt
      <3>3. CASE c.k \notin MembersAt(c, w)
        <4>1. meta'[w] = meta[w]
          BY <2>4, <3>3, ClangRuntimeWrites
        <4>. QED
          BY <1>4, <2>1, <2>2, <2>3, <3>1, <4>1
      <3>. QED
        BY <3>2, <3>3
    <2>5. CASE UpdateArraySize(t)
      <3>1. ~Erasing(t)
        BY <2>5 DEF UpdateArraySize, Erasing
      <3>2. meta'[w].ref = meta[w].ref /\ meta'[w].off = meta[w].off
        BY <2>5, ClangRuntimeWrites
      <3>3. NamedWord(w) => NamedWord(w)'
        BY <3>2 DEF NamedWord
      <3>. QED
        BY <1>4, <2>1, <2>3, <3>1, <3>2, <3>3
    <2>6. CASE EraseObj(t)
      <3>1. c.k \notin MembersAt(c, w) /\ meta'[w] = meta[w]
        BY <1>4, <2>6, ClangRuntimeWrites
      <3>2. ASSUME NEW j \in MembersAt(c, w), j > Done(t)
            PROVE  ToErase(w)'
        <4>1. /\ Erasing(t)' /\ Done(t)' = c.k
          BY <1>1, <2>6, ClangRuntimeCalls
        <4>2. Done(t) = c.k - 1 /\ j \in Nat /\ j # c.k
          BY <2>6, <3>1, <3>2 DEF EraseObj, Done, MembersAt
        <4>3. j > Done(t)'
          BY <1>2, <3>2, <4>1, <4>2
        <4>4. Calling(t)'
          BY <4>1 DEF Erasing, Calling
        <4>5. MembersAt(call'[t], w) = MembersAt(c, w)
          <5>1. /\ call'[t].addr = c.addr /\ call'[t].len = c.len
                /\ call'[t].type = c.type
            BY <1>1, <4>4, CallStepFields
          <5>. QED
            BY <5>1, SameFields
        <4>6. Erasing(t)' /\ \E i \in MembersAt(call'[t], w) : i > Done(t)'
          BY <4>1, <4>3, <4>5
        <4>. QED
          BY <4>6 DEF ToErase, MembersAt
      <3>. QED
        BY <1>4, <2>1, <2>2, <2>3, <3>1, <3>2
    <2>7. CASE EraseArraySize(t)
      <3>1. ASSUME NEW j \in MembersAt(c, w), j > Done(t)
            PROVE  FALSE
        <4>1. c.k = Len(Elements[c.type])
          BY <1>1, <2>7, ClangRuntimeCalls
        <4>2. Done(t) = c.k
          BY <2>7 DEF EraseArraySize, Done
        <4>3. j \in 1 .. Len(Elements[c.type])
          BY DEF MembersAt
        <4>. QED
          BY <1>2, <3>1, <4>1, <4>2, <4>3
      <3>2. /\ meta'[w].ref = meta[w].ref
            /\ w # c.addr => meta'[w] = meta[w]
            /\ w = c.addr => meta'[w] = [meta[w] EXCEPT !.size = 0, !.off = 0]
        BY <2>7, ClangRuntimeWrites
      <3>3. w = c.addr /\ NamedWord(w) => w \in left'
        <4>1. w = c.addr /\ NamedWord(w) => LosesName(w)
          BY <3>2 DEF LosesName
        <4>. QED
          BY <4>1, LeftOver
      <3>4. w \in left' => Taken(w)'
        BY DEF Taken
      <3>. QED
        BY <1>4, <2>1, <2>2, <2>3, <3>1, <3>2, <3>3, <3>4
    <2>. QED
      BY <2>4, <2>5, <2>6, <2>7 DEF Runtime
  <1>5. \A w \in Words : w \notin Extent(c) /\ meta'[w].ref # NULL =>
          NamedWord(w)' \/ Taken(w)' \/ ToErase(w)'
    BY <1>1, <1>3, CallKeeps
  <1>. QED
    BY <1>4, <1>5 DEF Explained, Words

LEMMA ClangRuntimeHandled ==
  ASSUME ClangShape, ClangHandled, HeapStep, NEW t \in Threads, Runtime(t)
  PROVE  ClangHandled'
  <1>1. CallStep(t) /\ (Updating(t) \/ Erasing(t)) /\ placed' = placed
    BY RuntimeCallStep, ClangRuntimeCalls DEF ClangShape, CallStep
  <1>2. WritesInside(t)
    BY ClangRuntimeWrites DEF WritesInside
  <1>3. /\ CallsTold' /\ PendingApart' /\ NameCalls'
        /\ RawPlaces' /\ PlacedApart' /\ PlaceCalls'
        /\ \A u \in Threads \ {t} : HalfDone(u)'
    BY <1>1, <1>2, CallKeeps
  <1>4. PlacedEntries'
    <2>1. \A p \in placed : Extent(call[t]) \cap Extent(p) = {}
      BY <1>1, RuntimeNotPlaced
    <2>2. \A p \in placed : \A k \in 1 .. Len(Extended[p.type]) :
            MemberPlaced(p, k)' \/ ToPlace(p, k)'
      BY <1>1, <1>2, <2>1, CallKeeps
    <2>. QED
      BY <1>1, <2>2 DEF PlacedEntries
  <1>5. HalfDone(t)' /\ Blocks' /\ Explained'
    BY RuntimeHalfDone, RuntimeBlocks, RuntimeExplained
  <1>. QED
    BY <1>3, <1>4, <1>5 DEF ClangHandled, PlacedInv

-----------------------------------------------------------------------------
(* What Clang announces: a placement new and a reinterpret_cast begin.     *)

LEMMA WithinBlock ==
  ASSUME heap \subseteq Objects, HeapShape, NEW o \in heap, NEW y \in Types,
         NEW p \in Within(o, y)
  PROVE  /\ p.addr \in Nat /\ p.len \in Nat /\ p.type = y /\ p.len = Size[p.type]
         /\ p = [addr |-> p.addr, len |-> p.len, type |-> p.type]
         /\ p \in Objects /\ Extent(p) \subseteq Extent(o)
         /\ p.addr \in Extent(p)
  <1>1. PICK a \in Extent(o) : p = [addr |-> a, len |-> Size[y], type |-> y]
    BY DEF Within
  <1>2. a \in Words /\ a \in Nat /\ Size[y] \in Nat \ {0}
    BY ClangObject, Layout DEF Words
  <1>3. Extent(p) \subseteq Extent(o)
    BY DEF Within
  <1>4. /\ p.addr = a /\ p.len = Size[y] /\ p.type = y
        /\ p = [addr |-> p.addr, len |-> p.len, type |-> p.type]
    BY <1>1
  <1>5. p \in Objects
    BY <1>1, <1>2 DEF Objects
  <1>6. p.addr \in Extent(p)
    BY <1>2, <1>4 DEF Extent
  <1>. QED
    BY <1>2, <1>3, <1>4, <1>5, <1>6

LEMMA AnnounceCalls ==
  ASSUME ClangTypes, NEW t \in Threads, NEW op \in {"place", "name"},
         NEW p, p.addr \in Nat, p.len \in Nat, p.type \in Types, p.len = Size[p.type],
         emitExtendObjTraceInst(t, op, p)
  PROVE  /\ call' \in [Threads -> {Idle} \cup ClangCalls]
         /\ \A u \in Threads \ {t} : call'[u] = call[u]
         /\ Extended[p.type] = <<>> => call'[t] = Idle
         /\ Extended[p.type] # <<>> =>
              /\ call'[t].op = op /\ call'[t].addr = p.addr /\ call'[t].len = p.len
              /\ call'[t].type = p.type /\ call'[t].k = 1
         /\ ~Updating(t)' /\ ~Erasing(t)'
  <1> DEFINE rec == [op |-> op, addr |-> p.addr, len |-> p.len, type |-> p.type,
                     count |-> 1, k |-> 1]
  <1>1. /\ rec.op = op /\ rec.addr = p.addr /\ rec.len = p.len
        /\ rec.type = p.type /\ rec.k = 1
        /\ rec \in [op : {"update", "size", "erase", "clear", "place", "name"},
                    addr : Nat, len : Nat, type : Types, count : Nat, k : Nat]
    OBVIOUS
  <1>2. call' = [call EXCEPT ![t] = IF Extended[p.type] = <<>> THEN Idle ELSE rec]
    BY DEF emitExtendObjTraceInst
  <1> HIDE DEF rec
  <1>3. Extended[p.type] # <<>> => rec \in ClangCalls
    <2>1. Extended[p.type] # <<>> => 1 \in 1 .. Len(Extended[p.type])
      BY ExtendedLayout
    <2>. QED
      BY <1>1, <2>1 DEF ClangCalls
  <1>4. call \in [Threads -> {Idle} \cup ClangCalls]
    BY DEF ClangTypes
  <1>5. /\ call' \in [Threads -> {Idle} \cup ClangCalls]
        /\ \A u \in Threads \ {t} : call'[u] = call[u]
        /\ call'[t] = IF Extended[p.type] = <<>> THEN Idle ELSE rec
    BY <1>2, <1>3, <1>4
  <1>6. ~Updating(t)' /\ ~Erasing(t)'
    BY <1>1, <1>5 DEF Updating, Erasing, Idle
  <1>. QED
    BY <1>1, <1>5, <1>6

(* What both have in common: they announce p in the block o.               *)
Announces(t, op, o, p) ==
  /\ call[t] = Idle /\ Owned(o)
  /\ heap' = heap /\ meta' = meta /\ left \subseteq left'
  /\ emitExtendObjTraceInst(t, op, p)

LEMMA AnnounceKeeps ==
  ASSUME ClangShape, NEW t \in Threads, NEW op \in {"place", "name"}, NEW o \in heap,
         NEW y \in Types, NEW p \in Within(o, y), Announces(t, op, o, p)
  PROVE  /\ call' \in [Threads -> {Idle} \cup ClangCalls]
         /\ HeapShape' /\ Registrations' /\ Announcements'
         /\ ClangHandled =>
              /\ CallsTold' /\ PendingApart' /\ Blocks'
              /\ \A u \in Threads : HalfDone(u)'
              /\ \A w : ToErase(w) => ToErase(w)'
              /\ \A q \in placed : \A k \in 1 .. Len(Extended[q.type]) :
                   MemberPlaced(q, k)' \/ ToPlace(q, k)'
  <1>1. /\ call[t] = Idle /\ Owned(o)
        /\ heap' = heap /\ meta' = meta
        /\ emitExtendObjTraceInst(t, op, p)
        /\ ~Calling(t) /\ ~Updating(t) /\ ~Erasing(t)
    BY DEF Announces, Calling, Updating, Erasing, Idle
  <1>2. ClangTypes /\ heap \subseteq Objects /\ HeapShape
    BY DEF ClangShape, ClangTypes
  <1>3. /\ p.addr \in Nat /\ p.len \in Nat /\ p.type \in Types /\ p.len = Size[p.type]
        /\ Extent(p) \subseteq Extent(o)
    BY <1>2, WithinBlock
  <1>4. /\ call' \in [Threads -> {Idle} \cup ClangCalls]
        /\ \A u \in Threads \ {t} : call'[u] = call[u]
        /\ ~Updating(t)' /\ ~Erasing(t)'
        /\ call'[t] # Idle => Extent(call'[t]) = Extent(p)
    <2>1. /\ call' \in [Threads -> {Idle} \cup ClangCalls]
          /\ \A u \in Threads \ {t} : call'[u] = call[u]
          /\ ~Updating(t)' /\ ~Erasing(t)'
      BY <1>1, <1>2, <1>3, AnnounceCalls
    <2>2. call'[t] # Idle => call'[t].addr = p.addr /\ call'[t].len = p.len
      BY <1>1, <1>2, <1>3, AnnounceCalls
    <2>3. call'[t] # Idle => Extent(call'[t]) = Extent(p)
      BY <2>2 DEF Extent
    <2>. QED
      BY <2>1, <2>3
  <1>5. \A u \in Threads \ {t} : /\ Updating(u)' <=> Updating(u)
                                 /\ Erasing(u)' <=> Erasing(u)
                                 /\ Announcing(u)' <=> Announcing(u)
                                 /\ Pending(u)' = Pending(u)
                                 /\ Done(u)' = Done(u)
    BY <1>4 DEF Updating, Erasing, Announcing, Pending, Done, Extent
  <1>6. HeapShape'
    BY <1>1, <1>2 DEF HeapShape, Inside, Apart, Ended
  <1>7. Registrations'
    <2>1. ASSUME NEW u \in Threads, Updating(u)'
          PROVE  Outside(call'[u]) \/ Object(call'[u]) \in heap
      BY <1>4, <1>5, <2>1 DEF ClangShape, Registrations
    <2>. QED
      BY <1>1, <2>1 DEF Registrations, Outside, Ended, Object
  <1>8. Announcements'
    <2>1. ASSUME NEW u \in Threads, Announcing(u)'
          PROVE  \E b \in heap : Extent(call'[u]) \subseteq Extent(b)
      <3>1. CASE u = t
        BY <1>3, <1>4, <2>1, <3>1 DEF Announcing, Idle
      <3>2. CASE u # t
        BY <1>4, <1>5, <2>1, <3>2 DEF ClangShape, Announcements, InBlock
      <3>. QED
        BY <3>1, <3>2
    <2>. QED
      BY <1>1, <2>1 DEF Announcements, InBlock, Extent
  <1>9. ASSUME ClangHandled
        PROVE  /\ CallsTold' /\ PendingApart' /\ Blocks'
               /\ \A u \in Threads : HalfDone(u)'
               /\ \A w : ToErase(w) => ToErase(w)'
               /\ \A q \in placed : \A k \in 1 .. Len(Extended[q.type]) :
                    MemberPlaced(q, k)' \/ ToPlace(q, k)'
    <2>1. CallsTold'
      <3>1. ASSUME NEW u \in Threads
            PROVE  /\ Updating(u)' => Counted(call'[u])
                   /\ Erasing(u)' => /\ Extent(call'[u]) \subseteq Words
                                     /\ Size[call'[u].type] <= call'[u].len
                                     /\ \A b \in heap' : Extent(call'[u]) \cap Extent(b) = {}
        <4>1. CASE u = t
          BY <1>4, <4>1
        <4>2. CASE u # t
          BY <1>1, <1>4, <1>5, <1>9, <4>2 DEF ClangHandled, CallsTold
        <4>. QED
          BY <4>1, <4>2
      <3>. QED
        BY <3>1 DEF CallsTold, Counted, Outside, Ended, Count, Extent
    <2>2. PendingApart'
      <3>1. Pending(t)' \subseteq Extent(o)
        <4>1. CASE call'[t] = Idle
          BY <4>1 DEF Pending, Idle
        <4>2. CASE call'[t] # Idle
          <5>1. Pending(t)' = {} \/ Pending(t)' = Extent(call'[t])
            BY DEF Pending, Extent
          <5>. QED
            BY <1>3, <1>4, <4>2, <5>1
        <4>. QED
          BY <4>1, <4>2
      <3>2. \A u \in Threads : Pending(u) \cap Extent(o) = {}
        BY <1>1 DEF Owned, Quiet
      <3>. QED
        BY <1>5, <1>9, <3>1, <3>2 DEF ClangHandled, PendingApart, Words
    <2>3. Blocks'
      <3>1. ASSUME NEW b \in heap, Untouched(b)'
            PROVE  Registered(b)'
        <4>1. Untouched(b)
          BY <1>1, <1>4, <1>5, <3>1 DEF Untouched, Extent
        <4>2. Registered(b)
          BY <1>9, <4>1 DEF ClangHandled, Blocks
        <4>. QED
          BY <1>1, <4>2 DEF Registered, MembersAt, Describes, Count, Extent
      <3>. QED
        BY <1>1, <3>1 DEF Blocks
    <2>4. ASSUME NEW u \in Threads
          PROVE  HalfDone(u)'
      <3>1. CASE u = t
        BY <1>4, <3>1 DEF HalfDone
      <3>2. CASE u # t
        <4>1. HalfDone(u)
          BY <1>9 DEF ClangHandled
        <4>. QED
          BY SMTT(30), <1>1, <1>4, <1>5, <3>2, <4>1 DEF HalfDone, MembersAt, Describes, Count
      <3>. QED
        BY <3>1, <3>2
    <2>5. ASSUME NEW w, ToErase(w)
          PROVE  ToErase(w)'
      <3>1. PICK u \in Threads : Erasing(u) /\ \E j \in MembersAt(call[u], w) : j > Done(u)
        BY <2>5 DEF ToErase
      <3>2. u # t
        BY <1>1, <3>1
      <3>3. Erasing(u)' /\ \E j \in MembersAt(call'[u], w) : j > Done(u)'
        BY <1>4, <1>5, <3>1, <3>2
      <3>. QED
        BY <3>3 DEF ToErase, MembersAt
    <2>6. ASSUME NEW q \in placed, NEW k \in 1 .. Len(Extended[q.type])
          PROVE  MemberPlaced(q, k)' \/ ToPlace(q, k)'
      <3>1. MemberPlaced(q, k) \/ ToPlace(q, k)
        BY <1>9 DEF ClangHandled, PlacedInv, PlacedEntries
      <3>2. MemberPlaced(q, k) => MemberPlaced(q, k)'
        BY <1>1 DEF MemberPlaced
      <3>3. ASSUME ToPlace(q, k)
            PROVE  ToPlace(q, k)'
        <4>1. PICK u \in Threads :
                call[u].op = "place" /\ Object(call[u]) = q /\ call[u].k <= k
          BY <3>3 DEF ToPlace
        <4>2. call'[u] = call[u]
          BY <1>1, <1>4, <4>1 DEF Idle
        <4>3. call'[u].op = "place" /\ Object(call'[u]) = q /\ call'[u].k <= k
          BY <4>1, <4>2
        <4>. QED
          BY <4>3 DEF ToPlace, Object
      <3>. QED
        BY <3>1, <3>2, <3>3
    <2>. QED
      BY <2>1, <2>2, <2>3, <2>4, <2>5, <2>6
  <1>. QED
    BY <1>4, <1>6, <1>7, <1>8, <1>9

(* Nobody else announces anything in the block.                            *)
LEMMA AnnouncesAlone ==
  ASSUME ClangShape, NEW o \in heap, Owned(o), NEW q, NEW u \in Threads, Announcing(u),
         Extent(q) \cap Extent(call[u]) # {}
  PROVE  ~(Extent(q) \subseteq Extent(o))
  <1>1. Calling(u)
    BY DEF Announcing, Calling
  <1>2. Pending(u) = Extent(call[u]) /\ Pending(u) \cap Extent(o) = {}
    BY <1>1 DEF Owned, Quiet, Pending, Calling
  <1>. QED
    BY <1>2

LEMMA PlacementNewKeeps ==
  ASSUME ClangShape, NEW t \in Threads, PlacementNew(t)
  PROVE  /\ ClangShape'
         /\ ~unhandled' => ~unhandled
         /\ ClangHandled /\ ~unhandled' => ClangHandled'
  <1>1. /\ ClangTypes /\ heap \subseteq Objects /\ HeapShape /\ unhandled \in BOOLEAN
        /\ placed \subseteq Objects
    BY DEF ClangShape, ClangTypes
  <1>2. PICK o \in heap, y \in Types :
          /\ Owned(o)
          /\ \E p \in Within(o, y) :
               LET ended == {q \in placed : Overlap(p, q)}
               IN  /\ emitExtendObjTraceInst(t, "place", p)
                   /\ placed' = (placed \ ended) \cup {p}
                   /\ left' = left \cup UNION {ExtendedWords(q) : q \in ended}
                   /\ unhandled' = (unhandled \/ Elements[o.type] # <<>>)
    BY DEF PlacementNew
  <1>3. PICK p \in Within(o, y) :
          /\ emitExtendObjTraceInst(t, "place", p)
          /\ placed' = (placed \ {q \in placed : Overlap(p, q)}) \cup {p}
          /\ left' = left \cup UNION {ExtendedWords(q) : q \in {r \in placed : Overlap(p, r)}}
          /\ unhandled' = (unhandled \/ Elements[o.type] # <<>>)
    BY <1>2
  <1> DEFINE ended == {q \in placed : Overlap(p, q)}
  <1>4. /\ placed' = (placed \ ended) \cup {p}
        /\ left' = left \cup UNION {ExtendedWords(q) : q \in ended}
    BY <1>3
  <1>5. \A q \in placed : q \in ended <=> Overlap(p, q)
    OBVIOUS
  <1> HIDE DEF ended
  <1>6. /\ left \subseteq left'
        /\ \A q \in ended : ExtendedWords(q) \subseteq left'
    BY <1>4
  <1>7. heap' = heap /\ meta' = meta /\ call[t] = Idle
    BY DEF PlacementNew
  <1>8. Announces(t, "place", o, p)
    BY <1>2, <1>3, <1>6, <1>7 DEF Announces
  <1>9. /\ p.addr \in Nat /\ p.len \in Nat /\ p.type \in Types /\ p.len = Size[p.type]
        /\ p = [addr |-> p.addr, len |-> p.len, type |-> p.type]
        /\ p \in Objects /\ Extent(p) \subseteq Extent(o)
        /\ p.addr \in Extent(p)
    BY <1>1, WithinBlock
  <1>10. /\ call' \in [Threads -> {Idle} \cup ClangCalls]
         /\ HeapShape' /\ Registrations' /\ Announcements'
         /\ ClangHandled =>
              /\ CallsTold' /\ PendingApart' /\ Blocks'
              /\ \A u \in Threads : HalfDone(u)'
              /\ \A w : ToErase(w) => ToErase(w)'
              /\ \A q \in placed : \A k \in 1 .. Len(Extended[q.type]) :
                   MemberPlaced(q, k)' \/ ToPlace(q, k)'
    BY <1>8, AnnounceKeeps
  <1>11. /\ \A u \in Threads \ {t} : call'[u] = call[u]
         /\ Extended[p.type] = <<>> => call'[t] = Idle
         /\ Extended[p.type] # <<>> =>
              /\ call'[t].op = "place" /\ call'[t].addr = p.addr /\ call'[t].len = p.len
              /\ call'[t].type = p.type /\ call'[t].k = 1
    BY <1>1, <1>3, <1>9, AnnounceCalls
  <1>12. ClangShape'
    <2>1. ClangTypes'
      BY <1>1, <1>3, <1>4, <1>7, <1>9, <1>10 DEF ClangTypes
    <2>2. PlacedShape'
      <3>1. \A q \in placed' : /\ q.len = Size[q.type]
                               /\ \E b \in heap : Extent(q) \subseteq Extent(b)
        BY <1>4, <1>9 DEF ClangShape, PlacedShape, InBlock
      <3>. QED
        BY <1>7, <3>1 DEF PlacedShape, InBlock
    <2>. QED
      BY <1>10, <2>1, <2>2 DEF ClangShape
  <1>13. ASSUME ClangHandled, ~unhandled'
         PROVE  ClangHandled'
    <2>1. Elements[o.type] = <<>>
      BY <1>3, <1>13
    <2>2. RawPlaces'
      <3>1. \A q \in placed' :
              \E b \in heap : Extent(q) \subseteq Extent(b) /\ Elements[b.type] = <<>>
        BY <1>4, <1>9, <1>13, <2>1 DEF ClangHandled, PlacedInv, RawPlaces
      <3>. QED
        BY <1>7, <3>1 DEF RawPlaces
    <2>3. PlacedApart'
      <3>1. \A q \in placed \ ended : Extent(p) \cap Extent(q) = {}
        BY <1>5 DEF Overlap
      <3>. QED
        BY <1>4, <1>13, <3>1 DEF ClangHandled, PlacedInv, PlacedApart
    <2>4. PlaceCalls'
      <3>1. ASSUME NEW u \in Threads, call'[u].op = "place"
            PROVE  Object(call'[u]) \in placed'
        <4>1. CASE u = t
          <5>1. Extended[p.type] # <<>>
            BY <1>11, <3>1, <4>1 DEF Idle
          <5>2. Object(call'[u]) = p
            BY <1>9, <1>11, <4>1, <5>1 DEF Object
          <5>. QED
            BY <1>4, <5>2
        <4>2. CASE u # t
          <5>1. call'[u] = call[u] /\ call[u].op = "place" /\ Announcing(u)
            BY <1>11, <3>1, <4>2 DEF Announcing
          <5>2. Object(call[u]) \in placed
            BY <1>13, <5>1 DEF ClangHandled, PlacedInv, PlaceCalls
          <5>3. Extent(Object(call[u])) = Extent(call[u])
            BY DEF Object, Extent
          <5>4. Extent(p) \cap Extent(call[u]) = {}
            BY <1>2, <1>9, <5>1, AnnouncesAlone
          <5>5. ~Overlap(p, Object(call[u]))
            BY <5>3, <5>4 DEF Overlap
          <5>. QED
            BY <1>4, <1>5, <5>1, <5>2, <5>5
        <4>. QED
          BY <4>1, <4>2
      <3>. QED
        BY <3>1 DEF PlaceCalls, Object
    <2>5. PlacedEntries'
      <3>1. ASSUME NEW k \in 1 .. Len(Extended[p.type])
            PROVE  ToPlace(p, k)'
        <4>1. Extended[p.type] # <<>> /\ 1 <= k
          BY <1>9, <3>1, ExtendedLayout
        <4>2. call'[t].op = "place" /\ Object(call'[t]) = p /\ call'[t].k <= k
          BY <1>9, <1>11, <4>1 DEF Object
        <4>. QED
          BY <4>2 DEF ToPlace, Object
      <3>2. \A q \in placed' : \A k \in 1 .. Len(Extended[q.type]) :
              MemberPlaced(q, k)' \/ ToPlace(q, k)'
        BY <1>4, <1>10, <1>13, <3>1
      <3>. QED
        BY <3>2 DEF PlacedEntries
    <2>6. Explained'
      <3>1. ASSUME NEW w \in Words, meta'[w].ref # NULL
            PROVE  \/ NamedWord(w)
                   \/ w \in left'
                   \/ \E b \in heap : w \in Extent(b) /\ MembersAt(b, w) # {}
                   \/ \E q \in placed' : w \in ExtendedWords(q)
                   \/ ToErase(w)'
        <4>1. NamedWord(w) \/ Taken(w) \/ ToErase(w)
          BY <1>7, <1>13, <3>1 DEF ClangHandled, Explained
        <4>2. ToErase(w) => ToErase(w)'
          BY <1>10, <1>13
        <4>3. \A q \in placed : q \in ended \/ q \in placed'
          BY <1>4
        <4>. QED
          BY <1>6, <4>1, <4>2, <4>3 DEF Taken
      <3>2. \A w : NamedWord(w)' <=> NamedWord(w)
        BY <1>7 DEF NamedWord
      <3>. QED
        BY <1>7, <3>1, <3>2 DEF Explained, Taken, Extent, MembersAt, ExtendedWords
    <2>7. NameCalls'
      <3>1. \A u \in Threads : call'[u].op = "name" => call'[u] = call[u]
        BY <1>11 DEF Idle
      <3>2. ASSUME NEW u \in Threads, call'[u].op = "name", NEW b \in heap,
                   Extent(call'[u]) \subseteq Extent(b), Elements[b.type] # <<>>
            PROVE  MembersAt(b, b.addr) # {} \/ b.addr \notin ExtendedWords(call'[u])
        BY <1>13, <3>1, <3>2 DEF ClangHandled, NameCalls
      <3>. QED
        BY <1>7, <3>2 DEF NameCalls, Extent, MembersAt, ExtendedWords
    <2>. QED
      BY <1>10, <1>13, <2>2, <2>3, <2>4, <2>5, <2>6, <2>7 DEF ClangHandled, PlacedInv
  <1>. QED
    BY <1>3, <1>12, <1>13

LEMMA ReinterpretCastKeeps ==
  ASSUME ClangShape, NEW t \in Threads, ReinterpretCast(t)
  PROVE  /\ ClangShape'
         /\ ~unhandled' => ~unhandled
         /\ ClangHandled /\ ~unhandled' => ClangHandled'
  <1>1. /\ ClangTypes /\ heap \subseteq Objects /\ HeapShape /\ unhandled \in BOOLEAN
    BY DEF ClangShape, ClangTypes
  <1>2. PICK o \in heap, y \in Types :
          /\ Owned(o)
          /\ \E p \in Within(o, y) :
               /\ emitExtendObjTraceInst(t, "name", p)
               /\ unhandled' = \/ unhandled
                               \/ /\ Elements[o.type] # <<>> /\ Elements[o.type][1][1] # 0
                                  /\ o.addr \in ExtendedWords(p)
    BY DEF ReinterpretCast
  <1>3. PICK p \in Within(o, y) :
          /\ emitExtendObjTraceInst(t, "name", p)
          /\ unhandled' = \/ unhandled
                          \/ /\ Elements[o.type] # <<>> /\ Elements[o.type][1][1] # 0
                             /\ o.addr \in ExtendedWords(p)
    BY <1>2
  <1>4. /\ heap' = heap /\ meta' = meta /\ call[t] = Idle
        /\ placed' = placed /\ left' = left
    BY DEF ReinterpretCast
  <1>5. Announces(t, "name", o, p)
    BY <1>2, <1>3, <1>4 DEF Announces
  <1>6. /\ p.addr \in Nat /\ p.len \in Nat /\ p.type \in Types /\ p.len = Size[p.type]
        /\ Extent(p) \subseteq Extent(o)
        /\ p.addr \in Extent(p)
    BY <1>1, WithinBlock
  <1>7. /\ call' \in [Threads -> {Idle} \cup ClangCalls]
        /\ HeapShape' /\ Registrations' /\ Announcements'
        /\ ClangHandled =>
             /\ CallsTold' /\ PendingApart' /\ Blocks'
             /\ \A u \in Threads : HalfDone(u)'
             /\ \A w : ToErase(w) => ToErase(w)'
             /\ \A q \in placed : \A k \in 1 .. Len(Extended[q.type]) :
                  MemberPlaced(q, k)' \/ ToPlace(q, k)'
    BY <1>5, AnnounceKeeps
  <1>8. /\ \A u \in Threads \ {t} : call'[u] = call[u]
        /\ Extended[p.type] = <<>> => call'[t] = Idle
        /\ Extended[p.type] # <<>> =>
             /\ call'[t].op = "name" /\ call'[t].addr = p.addr /\ call'[t].len = p.len
             /\ call'[t].type = p.type /\ call'[t].k = 1
    BY <1>1, <1>3, <1>6, AnnounceCalls
  <1>9. ClangShape'
    <2>1. ClangTypes'
      BY <1>1, <1>3, <1>4, <1>7 DEF ClangTypes
    <2>2. PlacedShape'
      BY <1>4 DEF ClangShape, PlacedShape, InBlock
    <2>. QED
      BY <1>7, <2>1, <2>2 DEF ClangShape
  <1>10. ASSUME ClangHandled, ~unhandled'
         PROVE  ClangHandled'
    <2>1. RawPlaces' /\ PlacedApart'
      BY <1>4, <1>10 DEF ClangHandled, PlacedInv, RawPlaces, PlacedApart
    <2>2. PlaceCalls'
      <3>1. \A u \in Threads : call'[u].op = "place" => call'[u] = call[u]
        BY <1>8 DEF Idle
      <3>. QED
        BY <1>4, <1>10, <3>1 DEF ClangHandled, PlacedInv, PlaceCalls, Object
    <2>3. PlacedEntries'
      BY <1>4, <1>7, <1>10 DEF PlacedEntries
    <2>4. Explained'
      <3>1. \A w : (NamedWord(w)' <=> NamedWord(w)) /\ (Taken(w)' <=> Taken(w))
        BY <1>4 DEF NamedWord, Taken, Extent, MembersAt, ExtendedWords
      <3>. QED
        BY <1>4, <1>7, <1>10, <3>1 DEF ClangHandled, Explained, Words
    <2>5. NameCalls'
      <3>1. ASSUME NEW u \in Threads, call'[u].op = "name", NEW b \in heap,
                   Extent(call'[u]) \subseteq Extent(b), Elements[b.type] # <<>>
            PROVE  MembersAt(b, b.addr) # {} \/ b.addr \notin ExtendedWords(call'[u])
        <4>1. CASE u # t
          BY <1>8, <1>10, <3>1, <4>1 DEF ClangHandled, NameCalls
        <4>2. CASE u = t
          <5>1. /\ call'[t].addr = p.addr /\ call'[t].len = p.len
                /\ call'[t].type = p.type
            BY <1>8, <3>1, <4>2 DEF Idle
          <5>2. /\ Extent(call'[t]) = Extent(p)
                /\ ExtendedWords(call'[t]) = ExtendedWords(p)
            BY <5>1 DEF Extent, ExtendedWords
          <5>3. b = o
            BY <1>1, <1>6, <3>1, <4>2, <5>2, ClangObject
          <5>4. Elements[o.type][1][1] = 0 \/ o.addr \notin ExtendedWords(p)
            BY <1>3, <1>10, <3>1, <5>3
          <5>5. ASSUME Elements[o.type][1][1] = 0
                PROVE  1 \in MembersAt(o, o.addr)
            <6>1. /\ o.addr \in Nat /\ o.len \in Nat /\ o.type \in Types
                  /\ Size[o.type] <= o.len /\ Size[o.type] \in Nat \ {0}
              BY <1>1, ClangObject, Layout
            <6>2. 1 \in 1 .. Len(Elements[o.type])
              BY <3>1, <5>3, <6>1, Layout
            <6>3. o.len \div Size[o.type] \in Nat /\ o.len \div Size[o.type] > 0
              BY <6>1, CountBounds
            <6>4. o.addr = o.addr + Elements[o.type][1][1] + Size[o.type] * 0
              BY <5>5, <6>1
            <6> DEFINE n == o.len \div Size[o.type]
            <6> HIDE DEF n
            <6>5. 0 \in 0 .. n - 1
              BY <6>3 DEF n
            <6>6. MembersAt(o, o.addr) =
                    {k \in 1 .. Len(Elements[o.type]) :
                       \E i \in 0 .. n - 1 :
                         o.addr = o.addr + Elements[o.type][k][1] + Size[o.type] * i}
              BY DEF MembersAt, n
            <6>. QED
              BY <6>2, <6>4, <6>5, <6>6
          <5>. QED
            BY <4>2, <5>2, <5>3, <5>4, <5>5
        <4>. QED
          BY <4>1, <4>2
      <3>. QED
        BY <1>4, <3>1 DEF NameCalls, Extent, MembersAt, ExtendedWords
    <2>. QED
      BY <1>7, <1>10, <2>1, <2>2, <2>3, <2>4, <2>5 DEF ClangHandled, PlacedInv
  <1>. QED
    BY <1>3, <1>9, <1>10

-----------------------------------------------------------------------------
(* The calls for the members of what is announced.                         *)

LEMMA NextExtendedCalls ==
  ASSUME ClangTypes, NEW t \in Threads, Announcing(t), NextExtended(t)
  PROVE  /\ call' \in [Threads -> {Idle} \cup ClangCalls]
         /\ \A u \in Threads \ {t} : call'[u] = call[u]
         /\ call[t].k = Len(Extended[call[t].type]) => call'[t] = Idle
         /\ call[t].k # Len(Extended[call[t].type]) =>
              /\ call'[t].op = call[t].op /\ call'[t].k = call[t].k + 1
              /\ call'[t].addr = call[t].addr /\ call'[t].len = call[t].len
              /\ call'[t].type = call[t].type /\ call'[t].count = call[t].count
         /\ ~Updating(t)' /\ ~Erasing(t)'
         /\ \A u \in Threads : /\ Updating(u)' <=> Updating(u)
                               /\ Erasing(u)' <=> Erasing(u)
  <1> DEFINE c == call[t]
             n == Len(Extended[call[t].type])
             d == [call[t] EXCEPT !.k = call[t].k + 1]
  <1>1. /\ c \in ClangCalls /\ c.type \in Types
        /\ c.k \in 1 .. n /\ n \in Nat
        /\ c.op \in {"place", "name"} /\ c.len = Size[c.type]
        /\ call \in [Threads -> {Idle} \cup ClangCalls]
        /\ ~Updating(t) /\ ~Erasing(t)
    <2>1. Calling(t)
      BY DEF Announcing, Calling
    <2>2. c.type \in Types
      BY <2>1, ClangFields
    <2>. QED
      BY <2>1, <2>2, ClangFields, ExtendedLayout DEF ClangTypes, Announcing
  <1>2. call' = [call EXCEPT ![t] = IF c.k = n THEN Idle ELSE d]
    BY DEF NextExtended
  <1>3. /\ d.op = c.op /\ d.k = c.k + 1 /\ d.addr = c.addr /\ d.len = c.len
        /\ d.type = c.type /\ d.count = c.count
        /\ d \in [op : {"update", "size", "erase", "clear", "place", "name"},
                  addr : Nat, len : Nat, type : Types, count : Nat, k : Nat]
    BY <1>1 DEF ClangCalls
  <1> HIDE DEF d
  <1>4. c.k # n => d \in ClangCalls
    BY <1>1, <1>3 DEF ClangCalls
  <1>5. /\ call' \in [Threads -> {Idle} \cup ClangCalls]
        /\ \A u \in Threads \ {t} : call'[u] = call[u]
        /\ call'[t] = IF c.k = n THEN Idle ELSE d
    BY <1>1, <1>2, <1>4
  <1>6. ~Updating(t)' /\ ~Erasing(t)'
    BY <1>1, <1>3, <1>5 DEF Updating, Erasing, Idle
  <1>7. \A u \in Threads : /\ Updating(u)' <=> Updating(u)
                           /\ Erasing(u)' <=> Erasing(u)
    BY <1>1, <1>5, <1>6 DEF Updating, Erasing
  <1>. QED
    BY <1>3, <1>5, <1>6, <1>7

(* What both have in common: one word of what is announced is written.     *)
LEMMA MemberStep ==
  ASSUME ClangShape, NEW t \in Threads, Announcing(t), NextExtended(t),
         NEW e \in ClangEntry, meta' = [meta EXCEPT ![ExtendedWord(t)] = e],
         left' \in {left, left \ Removed},
         heap' = heap, unhandled' = unhandled, placed' = placed
  PROVE  /\ CallStep(t) /\ WritesInside(t) /\ ClangShape'
         /\ ExtendedWord(t) \in Words
         /\ meta'[ExtendedWord(t)] = e
         /\ \A w \in Words : w # ExtendedWord(t) => meta'[w] = meta[w]
  <1>1. ClangTypes /\ Calling(t) /\ meta \in [Words -> ClangEntry]
    BY DEF ClangShape, ClangTypes, Announcing, Calling
  <1>2. ExtendedWord(t) \in Extent(call[t]) /\ ExtendedWord(t) \in Words
    BY <1>1, ClangCallInside
  <1>3. /\ meta' \in [Words -> ClangEntry]
        /\ meta'[ExtendedWord(t)] = e
        /\ \A w \in Words : w # ExtendedWord(t) => meta'[w] = meta[w]
    BY <1>1, <1>2
  <1>4. \A w \in left : meta'[w].ref # NULL => w \in left'
    BY DEF Removed
  <1>5. /\ call' \in [Threads -> {Idle} \cup ClangCalls]
        /\ \A u \in Threads \ {t} : call'[u] = call[u]
        /\ \/ call'[t] = Idle
           \/ /\ call'[t].addr = call[t].addr /\ call'[t].len = call[t].len
              /\ call'[t].type = call[t].type /\ call'[t].count = call[t].count
              /\ call'[t].op = call[t].op
        /\ Updating(t)' <=> Updating(t)
        /\ Erasing(t)' <=> Erasing(t)
    BY <1>1, NextExtendedCalls
  <1>6. CallStep(t)
    BY <1>1, <1>4, <1>5 DEF CallStep
  <1>. QED
    BY <1>2, <1>3, <1>5, <1>6, CallStepShape DEF WritesInside

LEMMA PlaceMemberKeeps ==
  ASSUME ClangShape, NEW t \in Threads, PlaceMember(t)
  PROVE  /\ ClangShape'
         /\ unhandled' = unhandled
         /\ ClangHandled => ClangHandled'
  <1>0. PICK size \in {0, 1} :
          meta' = [meta EXCEPT ![ExtendedWord(t)] =
                     [ref |-> ExtendedMember(t)[2], size |-> size, off |-> ExtendedMember(t)[1]]]
    BY DEF PlaceMember
  <1> DEFINE c == call[t]
             p == Object(call[t])
             e == [ref |-> ExtendedMember(t)[2], size |-> size, off |-> ExtendedMember(t)[1]]
             a == ExtendedWord(t)
  <1>1. /\ ClangTypes /\ Announcing(t) /\ Calling(t) /\ NextExtended(t)
        /\ c.op = "place" /\ meta' = [meta EXCEPT ![ExtendedWord(t)] = e]
        /\ left' \in {left, left \ Removed}
        /\ heap' = heap /\ unhandled' = unhandled /\ placed' = placed
    BY <1>0 DEF PlaceMember, Announcing, Calling, ClangShape
  <1>2. /\ c.addr \in Nat /\ c.len \in Nat /\ c.type \in Types
        /\ c.k \in 1 .. Len(Extended[c.type]) /\ Len(Extended[c.type]) \in Nat
        /\ ExtendedMember(t)[1] \in Nat /\ ExtendedMember(t)[2] \in Vectors
        /\ a \in ExtendedWords(c) /\ Extent(c) \subseteq Words
    BY <1>1, ClangFields, ClangCallInside, ExtendedLayout
  <1>3. e \in ClangEntry /\ e.ref = ExtendedMember(t)[2] /\ e.off = ExtendedMember(t)[1]
    BY <1>2 DEF ClangEntry
  <1> HIDE DEF e
  <1>4. /\ CallStep(t) /\ WritesInside(t) /\ ClangShape'
        /\ a \in Words /\ meta'[a] = e
        /\ \A w \in Words : w # a => meta'[w] = meta[w]
    BY <1>1, <1>3, MemberStep
  <1>5. /\ \A u \in Threads \ {t} : call'[u] = call[u]
        /\ c.k = Len(Extended[c.type]) => call'[t] = Idle
        /\ c.k # Len(Extended[c.type]) =>
             /\ call'[t].op = c.op /\ call'[t].k = c.k + 1
             /\ call'[t].addr = c.addr /\ call'[t].len = c.len
             /\ call'[t].type = c.type
        /\ ~Updating(t)' /\ ~Erasing(t)'
    BY <1>1, NextExtendedCalls
  <1>6. p.addr = c.addr /\ p.len = c.len /\ p.type = c.type /\ Extent(p) = Extent(c)
    BY DEF Object, Extent
  <1> HIDE DEF a, p
  <1>7. ASSUME ClangHandled
        PROVE  ClangHandled'
    <2>1. p \in placed
      BY <1>1, <1>7 DEF ClangHandled, PlacedInv, PlaceCalls, p
    <2>2. /\ CallsTold' /\ PendingApart' /\ NameCalls'
          /\ RawPlaces' /\ PlacedApart' /\ PlaceCalls'
          /\ \A u \in Threads \ {t} : HalfDone(u)'
      BY <1>4, <1>7, CallKeeps
    <2>3. HalfDone(t)'
      BY <1>5 DEF HalfDone
    <2>4. Blocks'
      <3>1. ASSUME NEW o \in heap, Untouched(o)'
            PROVE  Registered(o)'
        <4>1. CASE Extent(c) \cap Extent(o) = {}
          BY <1>4, <1>7, <3>1, <4>1, CallKeeps
        <4>2. CASE Extent(c) \cap Extent(o) # {}
          <5>1. PICK b \in heap : Extent(p) \subseteq Extent(b) /\ Elements[b.type] = <<>>
            BY <1>7, <2>1 DEF ClangHandled, PlacedInv, RawPlaces
          <5>2. o = b
            BY <1>6, <4>2, <5>1, ClangObject DEF ClangShape, ClangTypes
          <5>3. o.type \in Types
            BY ClangObject DEF ClangShape, ClangTypes
          <5>4. \A w : MembersAt(o, w) = {}
            BY <5>1, <5>2, <5>3, Layout DEF MembersAt
          <5>. QED
            BY <5>1, <5>2, <5>4 DEF Registered, MembersAt
        <4>. QED
          BY <4>1, <4>2
      <3>. QED
        BY <1>1, <3>1 DEF Blocks
    <2>5. PlacedEntries'
      <3>1. ASSUME NEW q \in placed, q # p, NEW k \in 1 .. Len(Extended[q.type])
            PROVE  MemberPlaced(q, k)' \/ ToPlace(q, k)'
        <4>1. Extent(c) \cap Extent(q) = {}
          BY <1>6, <1>7, <2>1, <3>1 DEF ClangHandled, PlacedInv, PlacedApart
        <4>. QED
          BY <1>4, <1>7, <3>1, <4>1, CallKeeps
      <3>2. ASSUME NEW q \in placed, q = p, NEW k \in 1 .. Len(Extended[q.type])
            PROVE  MemberPlaced(q, k)' \/ ToPlace(q, k)'
        <4> DEFINE x == q.addr + Extended[q.type][k][1]
        <4>1. x \in Words /\ k \in Nat
          BY PlacedObject
        <4>2. a = q.addr + Extended[q.type][c.k][1]
          BY <1>6, <3>2 DEF a, ExtendedWord, ExtendedMember
        <4>3. CASE k = c.k
          <5>1. /\ meta'[x].ref = Extended[q.type][k][2]
                /\ meta'[x].off = Extended[q.type][k][1]
            BY <1>3, <1>4, <1>6, <3>2, <4>2, <4>3 DEF ExtendedMember
          <5>. QED
            BY SMTT(30), <5>1 DEF MemberPlaced
        <4>4. CASE k > c.k
          <5>1. c.k # Len(Extended[c.type]) /\ c.k + 1 <= k
            BY <1>2, <1>6, <3>2, <4>1, <4>4
          <5>2. call'[t].op = "place" /\ Object(call'[t]) = q /\ call'[t].k <= k
            BY <1>1, <1>5, <3>2, <5>1 DEF Object, p
          <5>. QED
            BY <5>2 DEF ToPlace, Object
        <4>5. CASE k < c.k
          <5>1. ~ToPlace(q, k)
            <6>1. ASSUME NEW u \in Threads, call[u].op = "place", Object(call[u]) = q,
                         call[u].k <= k
                  PROVE  FALSE
              <7>1. Calling(u) /\ Extent(call[u]) = Extent(c)
                BY <1>6, <3>2, <6>1 DEF Calling, Object, Extent
              <7>2. a \in Extent(c)
                BY <1>1, ClangCallInside DEF a
              <7>3. u = t
                BY <1>1, <1>4, <1>7, <7>1, <7>2, OthersApart
              <7>. QED
                BY <1>2, <4>1, <4>5, <6>1, <7>3
            <6>. QED
              BY <6>1 DEF ToPlace
          <5>2. MemberPlaced(q, k)
            BY <1>7, <5>1 DEF ClangHandled, PlacedInv, PlacedEntries
          <5>3. x # a
            <6>1. Extended[q.type][k][1] # Extended[q.type][c.k][1]
              BY SMTT(30), <1>2, <1>6, <3>2, <4>1, <4>5, ExtendedLayout
            <6>2. Extended[q.type][k][1] \in Nat /\ Extended[q.type][c.k][1] \in Nat
              BY <1>2, <1>6, <3>2, ExtendedLayout
            <6>3. q.addr \in Nat
              BY PlacedObject
            <6>4. \A m, n, l \in Nat : m # n => l + m # l + n
              OBVIOUS
            <6>. QED
              BY <4>2, <6>1, <6>2, <6>3, <6>4
          <5>4. meta'[x] = meta[x]
            BY <1>4, <4>1, <5>3
          <5>. QED
            BY <5>2, <5>4 DEF MemberPlaced
        <4>. QED
          BY <1>2, <4>1, <4>3, <4>4, <4>5
      <3>. QED
        BY <1>1, <3>1, <3>2 DEF PlacedEntries
    <2>6. Explained'
      <3>1. ASSUME NEW w \in Words, meta'[w].ref # NULL, w \in Extent(c)
            PROVE  NamedWord(w)' \/ Taken(w)' \/ ToErase(w)'
        <4>1. Taken(w) => Taken(w)'
          BY <1>4, <1>7, <3>1, CallKeeps
        <4>2. CASE w = a
          <5>1. ExtendedWords(p) = ExtendedWords(c)
            BY <1>6 DEF ExtendedWords
          <5>2. Taken(w)
            BY <1>2, <2>1, <4>2, <5>1 DEF Taken
          <5>. QED
            BY <4>1, <5>2
        <4>3. CASE w # a
          <5>1. meta'[w] = meta[w]
            BY <1>4, <4>3
          <5>2. ~Erasing(t)
            BY <1>1 DEF Erasing
          <5>3. NamedWord(w) \/ Taken(w)
            BY <1>1, <1>7, <3>1, <5>1, <5>2, OwnEntries
          <5>4. NamedWord(w) => NamedWord(w)'
            BY <5>1 DEF NamedWord
          <5>. QED
            BY <4>1, <5>3, <5>4
        <4>. QED
          BY <4>2, <4>3
      <3>2. \A w \in Words : w \notin Extent(c) /\ meta'[w].ref # NULL =>
              NamedWord(w)' \/ Taken(w)' \/ ToErase(w)'
        BY <1>4, <1>7, CallKeeps
      <3>. QED
        BY <3>1, <3>2 DEF Explained, Words
    <2>. QED
      BY <2>2, <2>3, <2>4, <2>5, <2>6 DEF ClangHandled, PlacedInv
  <1>. QED
    BY <1>1, <1>4, <1>7

LEMMA NameMemberKeeps ==
  ASSUME ClangShape, NEW t \in Threads, NameMember(t)
  PROVE  /\ ClangShape'
         /\ unhandled' = unhandled
         /\ ClangHandled => ClangHandled'
  <1> DEFINE c == call[t]
             a == ExtendedWord(t)
             r == ExtendedMember(t)[2]
             e == handle_reinterpret_cast(ExtendedWord(t), ExtendedMember(t)[2])
  <1>1. /\ ClangTypes /\ Announcing(t) /\ Calling(t) /\ NextExtended(t)
        /\ c.op = "name" /\ meta' = [meta EXCEPT ![ExtendedWord(t)] = e]
        /\ left' \in {left, left \ Removed}
        /\ heap' = heap /\ unhandled' = unhandled /\ placed' = placed
    BY DEF NameMember, Announcing, Calling, ClangShape
  <1>2. /\ c.addr \in Nat /\ c.len \in Nat /\ c.type \in Types
        /\ r \in Vectors /\ r # NULL
        /\ a \in ExtendedWords(c) /\ a \in Extent(c) /\ a \in Words
        /\ meta[a] \in ClangEntry
    <2>1. c.addr \in Nat /\ c.len \in Nat /\ c.type \in Types
      BY <1>1, ClangFields
    <2>2. /\ r \in Vectors /\ r # NULL
          /\ a \in ExtendedWords(c) /\ a \in Extent(c) /\ a \in Words
      BY <1>1, ClangCallInside
    <2>. QED
      BY <1>1, <2>1, <2>2 DEF ClangTypes
  <1>3. /\ e \in ClangEntry
        /\ meta[a].ref # NULL /\ meta[a].off # -1 => e = meta[a]
        /\ ~(meta[a].ref # NULL /\ meta[a].off # -1) => e.ref = r /\ e.off = -1
    <2>1. [ref |-> r, size |-> 0, off |-> -1] \in ClangEntry
      BY <1>2 DEF ClangEntry
    <2>2. e = IF meta[a].ref # NULL /\ meta[a].off # -1 THEN meta[a]
              ELSE [ref |-> r, size |-> 0, off |-> -1]
      BY DEF handle_reinterpret_cast
    <2>. QED
      BY <1>2, <2>1, <2>2
  <1> HIDE DEF e
  <1>4. /\ CallStep(t) /\ WritesInside(t) /\ ClangShape'
        /\ meta'[a] = e
        /\ \A w \in Words : w # a => meta'[w] = meta[w]
    BY <1>1, <1>3, MemberStep
  <1>5. /\ \A u \in Threads \ {t} : call'[u] = call[u]
        /\ ~Updating(t)' /\ ~Erasing(t)'
        /\ \A u \in Threads : /\ Updating(u)' <=> Updating(u)
                              /\ Erasing(u)' <=> Erasing(u)
    BY <1>1, NextExtendedCalls
  <1> HIDE DEF a, r
  <1>6. \A w \in Words :
          meta[w].ref \in Vectors /\ meta[w].off \in Nat => meta'[w] = meta[w]
    BY <1>3, <1>4, ExtendedAssumption
  <1>7. ASSUME ClangHandled
        PROVE  ClangHandled'
    <2>1. /\ CallsTold' /\ PendingApart' /\ NameCalls'
          /\ RawPlaces' /\ PlacedApart' /\ PlaceCalls'
          /\ \A u \in Threads \ {t} : HalfDone(u)'
      BY <1>4, <1>7, CallKeeps
    <2>2. HalfDone(t)'
      BY <1>5 DEF HalfDone
    <2>3. Blocks'
      <3>1. ASSUME NEW o \in heap, Untouched(o)'
            PROVE  Registered(o)'
        <4>1. CASE Extent(c) \cap Extent(o) = {}
          BY <1>4, <1>7, <3>1, <4>1, CallKeeps
        <4>2. CASE Extent(c) \cap Extent(o) # {}
          <5>1. /\ o.addr \in Nat /\ o.len \in Nat /\ o.type \in Types
                /\ o.addr \in Extent(o) /\ Extent(o) \subseteq Words
                /\ \A b \in heap : o = b \/ Extent(o) \cap Extent(b) = {}
            BY ClangObject DEF ClangShape, ClangTypes
          <5>2. Extent(c) \subseteq Extent(o)
            <6>1. PICK b \in heap : Extent(c) \subseteq Extent(b)
              BY <1>1, ClangCallInside DEF InBlock
            <6>. QED
              BY <4>2, <5>1, <6>1
          <5>3. Registered(o)
            <6>1. ASSUME NEW u \in Threads, Updating(u) \/ Erasing(u)
                  PROVE  Extent(call[u]) \cap Extent(o) = {}
              <7>1. u # t
                BY <1>1, <6>1 DEF Updating, Erasing
              <7>2. (Updating(u)' \/ Erasing(u)') /\ call'[u] = call[u]
                BY <1>5, <6>1, <7>1
              <7>. QED
                BY <3>1, <7>2 DEF Untouched, Extent
            <6>. QED
              BY <1>7, <6>1 DEF ClangHandled, Blocks, Untouched
          <5>4. ASSUME NEW w \in Extent(o), NEW j \in MembersAt(o, w)
                PROVE  /\ meta'[w] = meta[w]
                       /\ meta[w].ref = Elements[o.type][j][2]
                       /\ meta[w].off = Elements[o.type][j][1]
            <6>1. /\ meta[w].ref = Elements[o.type][j][2]
                  /\ meta[w].off = Elements[o.type][j][1]
              BY <5>3, <5>4 DEF Registered, Describes
            <6>2. j \in 1 .. Len(Elements[o.type])
              BY <5>4 DEF MembersAt
            <6>3. Elements[o.type][j][2] \in Vectors /\ Elements[o.type][j][1] \in Nat
              BY <5>1, <6>2, Layout
            <6>. QED
              BY <1>6, <5>1, <6>1, <6>3
          <5>5. ASSUME Elements[o.type] # <<>>
                PROVE  meta'[o.addr].size = Count(o)
            <6>1. meta[o.addr].size = Count(o)
              BY <5>3, <5>5 DEF Registered
            <6>2. CASE o.addr = a
              <7>1. MembersAt(o, o.addr) # {}
                BY <1>1, <1>2, <1>7, <5>2, <5>5, <6>2 DEF ClangHandled, NameCalls
              <7>2. PICK j \in MembersAt(o, o.addr) : TRUE
                BY <7>1
              <7>. QED
                BY <5>1, <5>4, <6>1, <7>2
            <6>3. CASE o.addr # a
              BY <1>4, <5>1, <6>1, <6>3
            <6>. QED
              BY <6>2, <6>3
          <5>6. \A w \in Extent(o) : \A j \in MembersAt(o, w) :
                  /\ meta'[w].ref = Elements[o.type][j][2]
                  /\ meta'[w].off = Elements[o.type][j][1]
            BY <5>4
          <5>. QED
            BY <5>5, <5>6 DEF Registered, Describes, MembersAt, Count, Extent
        <4>. QED
          BY <4>1, <4>2
      <3>. QED
        BY <1>1, <3>1 DEF Blocks
    <2>4. PlacedEntries'
      <3>1. ASSUME NEW q \in placed, NEW k \in 1 .. Len(Extended[q.type])
            PROVE  MemberPlaced(q, k)' \/ ToPlace(q, k)'
        <4>1. MemberPlaced(q, k) \/ ToPlace(q, k)
          BY <1>7 DEF ClangHandled, PlacedInv, PlacedEntries
        <4>2. MemberPlaced(q, k) => MemberPlaced(q, k)'
          <5>1. /\ q.addr + Extended[q.type][k][1] \in Words
                /\ Extended[q.type][k][2] \in Vectors /\ Extended[q.type][k][1] \in Nat
            <6>1. q.type \in Types /\ q.addr + Extended[q.type][k][1] \in Words
              BY PlacedObject
            <6>. QED
              BY <6>1, ExtendedLayout
          <5>. QED
            BY <1>6, <5>1 DEF MemberPlaced
        <4>3. ASSUME ToPlace(q, k)
              PROVE  ToPlace(q, k)'
          <5>1. PICK u \in Threads :
                  call[u].op = "place" /\ Object(call[u]) = q /\ call[u].k <= k
            BY <4>3 DEF ToPlace
          <5>2. call'[u] = call[u]
            BY <1>1, <1>5, <5>1
          <5>3. call'[u].op = "place" /\ Object(call'[u]) = q /\ call'[u].k <= k
            BY <5>1, <5>2
          <5>. QED
            BY <5>3 DEF ToPlace, Object
        <4>. QED
          BY <4>1, <4>2, <4>3
      <3>. QED
        BY <1>1, <3>1 DEF PlacedEntries
    <2>5. Explained'
      <3>1. ASSUME NEW w \in Words, meta'[w].ref # NULL, w \in Extent(c)
            PROVE  NamedWord(w)' \/ Taken(w)' \/ ToErase(w)'
        <4>1. Taken(w) => Taken(w)'
          BY <1>4, <1>7, <3>1, CallKeeps
        <4>2. ASSUME meta'[w] = meta[w]
              PROVE  NamedWord(w)' \/ Taken(w)' \/ ToErase(w)'
          <5>1. ~Erasing(t)
            BY <1>1 DEF Erasing
          <5>2. NamedWord(w) \/ Taken(w)
            BY <1>1, <1>7, <3>1, <4>2, <5>1, OwnEntries
          <5>3. NamedWord(w) => NamedWord(w)'
            BY <4>2 DEF NamedWord
          <5>. QED
            BY <4>1, <5>2, <5>3
        <4>3. CASE w = a /\ meta'[w] # meta[w]
          BY <1>3, <1>4, <3>1, <4>3 DEF NamedWord
        <4>. QED
          BY <1>4, <4>2, <4>3
      <3>2. \A w \in Words : w \notin Extent(c) /\ meta'[w].ref # NULL =>
              NamedWord(w)' \/ Taken(w)' \/ ToErase(w)'
        BY <1>4, <1>7, CallKeeps
      <3>. QED
        BY <3>1, <3>2 DEF Explained, Words
    <2>. QED
      BY <2>1, <2>2, <2>3, <2>4, <2>5 DEF ClangHandled, PlacedInv
  <1>. QED
    BY <1>1, <1>4, <1>7


-----------------------------------------------------------------------------
(* The invariant is inductive.                                             *)

LEMMA ClangInitInv == ClangInit => ClangInv
  <1> SUFFICES ASSUME ClangInit
               PROVE  ClangInv
    OBVIOUS
  <1>1. /\ heap = {} /\ placed = {} /\ left = {} /\ unhandled = FALSE
        /\ meta = [w \in Words |-> NoMeta]
        /\ call = [t \in Threads |-> Idle]
    BY DEF ClangInit, Init
  <1>2. NoMeta \in ClangEntry /\ NoMeta.ref = NULL
    BY DEF NoMeta, ClangEntry
  <1>3. \A t \in Threads :
          /\ call[t] = Idle /\ Pending(t) = {} /\ call[t].op = "idle"
          /\ ~Updating(t) /\ ~Erasing(t) /\ ~Announcing(t)
    BY <1>1 DEF Idle, Pending, Updating, Erasing, Announcing
  <1>4. ClangTypes
    BY <1>1, <1>2 DEF ClangTypes
  <1>5. ClangShape
    BY <1>1, <1>3, <1>4
       DEF ClangShape, HeapShape, Registrations, Announcements, PlacedShape
  <1>6. CallsTold /\ PendingApart /\ NameCalls
    BY <1>3 DEF CallsTold, PendingApart, NameCalls
  <1>7. Blocks /\ PlacedInv
    BY <1>1, <1>3
       DEF Blocks, PlacedInv, RawPlaces, PlacedApart, PlaceCalls, PlacedEntries
  <1>8. Explained /\ \A t \in Threads : HalfDone(t)
    BY <1>1, <1>2, <1>3 DEF Explained, HalfDone
  <1>. QED
    BY <1>5, <1>6, <1>7, <1>8 DEF ClangInv, ClangHandled

LEMMA ClangStepInv == ClangInv /\ [ClangNext]_clangVars => ClangInv'
  <1> SUFFICES ASSUME ClangInv, [ClangNext]_clangVars
               PROVE  ClangInv'
    OBVIOUS
  <1>1. /\ ClangShape
        /\ ~unhandled => ClangHandled
        /\ heap \subseteq Objects /\ unhandled \in BOOLEAN
    BY DEF ClangInv, ClangShape, ClangTypes
  <1>2. ASSUME HeapStep
        PROVE  ClangInv'
    <2>1. PICK t \in Threads : Program(t) \/ Runtime(t)
      BY <1>2 DEF HeapStep, Next
    <2>2. CASE Program(t)
      <3>1. CASE \E others \in SUBSET heap, addr \in Words, len \in Nat, y \in Types,
                    count \in Nat : Allocated(t, others, addr, len, y, count)
        BY <1>1, <1>2, <3>1, ClangAllocated DEF ClangInv
      <3>2. CASE \E y \in Types, count \in Nat : RequestFailed(t, y, count)
        BY <1>1, <1>2, <3>2, ClangRequestFailed DEF ClangInv
      <3>3. CASE \E o \in heap, y \in Types \cup {NULL} : Deallocate(t, o, y)
        BY <1>1, <1>2, <3>3, ClangDeallocate DEF ClangInv
      <3>. QED
        BY <1>1, <2>2, <3>1, <3>2, <3>3, HeapCases
    <2>3. CASE Runtime(t)
      <3>1. ClangShape /\ HeapStep /\ Runtime(t)
        BY <1>1, <1>2, <2>3
      <3>2. CallStep(t) /\ ClangShape'
        BY <3>1, RuntimeCallStep
      <3>3. unhandled' = unhandled
        BY <3>2 DEF CallStep
      <3>4. ClangHandled => ClangHandled'
        BY <3>1, ClangRuntimeHandled
      <3>. QED
        BY <1>1, <3>2, <3>3, <3>4 DEF ClangInv
    <2>. QED
      BY <2>1, <2>2, <2>3
  <1>3. ASSUME NEW t \in Threads, ClangStep(t)
        PROVE  ClangInv'
    <2>1. CASE PlacementNew(t)
      BY <1>1, <2>1, PlacementNewKeeps DEF ClangInv
    <2>2. CASE ReinterpretCast(t)
      BY <1>1, <2>2, ReinterpretCastKeeps DEF ClangInv
    <2>3. CASE PlaceMember(t)
      BY <1>1, <2>3, PlaceMemberKeeps DEF ClangInv
    <2>4. CASE NameMember(t)
      BY <1>1, <2>4, NameMemberKeeps DEF ClangInv
    <2>. QED
      BY <1>3, <2>1, <2>2, <2>3, <2>4 DEF ClangStep
  <1>4. ASSUME UNCHANGED clangVars
        PROVE  ClangInv'
    <2>1. /\ heap' = heap /\ meta' = meta /\ call' = call
          /\ unhandled' = unhandled /\ placed' = placed /\ left' = left
      BY <1>4 DEF clangVars, vars
    <2>2. ClangShape'
      <3>1. ClangTypes' /\ HeapShape'
        BY <1>1, <2>1 DEF ClangShape, ClangTypes, HeapShape
      <3>2. Registrations'
        BY <1>1, <2>1 DEF ClangShape, Registrations, Updating, Object
      <3>3. Announcements' /\ PlacedShape'
        BY <1>1, <2>1 DEF ClangShape, Announcements, PlacedShape, Announcing, InBlock
      <3>. QED
        BY <3>1, <3>2, <3>3 DEF ClangShape
    <2>3. ASSUME ClangHandled
          PROVE  ClangHandled'
      <3>1. CallsTold' /\ PendingApart' /\ NameCalls'
        BY <2>1, <2>3
           DEF ClangHandled, CallsTold, PendingApart, NameCalls, Updating, Erasing, Pending
      <3>2. \A t \in Threads : HalfDone(t)'
        BY <2>1, <2>3 DEF ClangHandled, HalfDone, Updating, Erasing, Done, Describes
      <3>3. Blocks'
        BY <2>1, <2>3
           DEF ClangHandled, Blocks, Untouched, Registered, Updating, Erasing, Describes
      <3>4. Explained'
        BY <2>1, <2>3
           DEF ClangHandled, Explained, NamedWord, Taken, ToErase, Erasing, Done
      <3>5. PlacedInv'
        BY <2>1, <2>3
           DEF ClangHandled, PlacedInv, RawPlaces, PlacedApart, PlaceCalls,
               PlacedEntries, MemberPlaced, ToPlace, Object
      <3>. QED
        BY <3>1, <3>2, <3>3, <3>4, <3>5 DEF ClangHandled
    <2>. QED
      BY <1>1, <2>1, <2>2, <2>3 DEF ClangInv
  <1>. QED
    BY <1>2, <1>3, <1>4 DEF ClangNext

(* In every run of a traced program with placement news and                *)
(* reinterpret_casts (emitExtendObjTraceInst, the handles' calls) between  *)
(* its allocations and releases, by any number of threads, the inductive   *)
(* invariant holds.                                                        *)
THEOREM ClangInvariant == ClangSpec => []ClangInv
  BY ClangInitInv, ClangStepInv, PTL DEF ClangSpec

(* The members of a live object of placement new are its class's once its  *)
(* calls are over, whatever reinterpret_casts name it and whatever is      *)
(* allocated, erased or placed around it (emitExtendObjTraceInst).         *)
THEOREM PlacedDescribedHolds == ClangSpec => []PlacedDescribed
  <1>1. ClangInv => PlacedDescribed
    <2> SUFFICES ASSUME ClangInv, ~unhandled,
                        NEW p \in placed, Quiet(Extent(p)),
                        NEW k \in DOMAIN Extended[p.type]
                 PROVE  MemberPlaced(p, k)
      BY DEF PlacedDescribed, MemberPlaced
    <2>1. ClangShape /\ PlacedEntries
      BY DEF ClangInv, ClangHandled, PlacedInv
    <2>2. p.type \in Types /\ p.addr \in Extent(p)
      BY <2>1, PlacedObject
    <2>3. k \in 1 .. Len(Extended[p.type])
      BY <2>2, ExtendedLayout
    <2>4. ASSUME NEW t \in Threads, call[t].op = "place", Object(call[t]) = p
          PROVE  FALSE
      <3>1. Pending(t) = Extent(p)
        BY <2>4 DEF Pending, Object, Extent
      <3>. QED
        BY <2>2, <3>1 DEF Quiet
    <2>. QED
      BY <2>1, <2>3, <2>4 DEF PlacedEntries, ToPlace
  <1>. QED
    BY <1>1, ClangInvariant, PTL

(* Typed blocks keep their description and their number of elements        *)
(* between placement news and reinterpret_casts, and every entry has an    *)
(* owner, was left over by one, or is a name the next reinterpret_cast may *)
(* change (handleHeapAlloc, handleFree, emitExtendObjTraceInst).           *)
THEOREM EntriesExplainedHolds == ClangSpec => []EntriesExplained
  <1>1. ClangInv => EntriesExplained
    <2> SUFFICES ASSUME ClangInv, ~unhandled
                 PROVE  EntriesExplained
      BY DEF EntriesExplained
    <2>1. ClangShape /\ Blocks /\ Explained
      BY DEF ClangInv, ClangHandled
    <2>2. ASSUME NEW o \in heap, Quiet(Extent(o))
          PROVE  /\ \A w \in Extent(o) : \A k \in MembersAt(o, w) :
                      /\ meta[w].ref = Elements[o.type][k][2]
                      /\ meta[w].off = Elements[o.type][k][1]
                 /\ Elements[o.type] # <<>> =>
                      meta[o.addr].size = o.len \div Size[o.type]
      <3>1. Untouched(o)
        <4> SUFFICES ASSUME NEW t \in Threads, Updating(t) \/ Erasing(t)
                     PROVE  Extent(call[t]) \cap Extent(o) = {}
          BY DEF Untouched
        <4>1. Pending(t) = Extent(call[t])
          BY DEF Updating, Erasing, Pending
        <4>. QED
          BY <2>2, <4>1 DEF Quiet
      <3>2. Registered(o)
        BY <2>1, <3>1 DEF Blocks
      <3>. QED
        BY <3>2 DEF Registered, Describes, Count
    <2>3. ASSUME NEW w \in Words, meta[w].ref # NULL, Quiet({w})
          PROVE  NamedWord(w) \/ Taken(w)
      <3>1. ASSUME NEW t \in Threads, Erasing(t),
                   NEW j \in MembersAt(call[t], w)
            PROVE  FALSE
        <4>1. w \in Pending(t)
          <5>1. Calling(t) /\ ClangTypes
            BY <2>1, <3>1 DEF Erasing, Calling, ClangShape
          <5>2. call[t].addr \in Nat /\ call[t].len \in Nat /\ call[t].type \in Types
            BY <5>1, ClangFields
          <5>3. w \in Extent(call[t])
            BY <5>2, MembersAtMostOne
          <5>. QED
            BY <2>1, <5>1, <5>3, ClangCallInside
        <4>. QED
          BY <2>3, <4>1 DEF Quiet
      <3>2. ~ToErase(w)
        BY <3>1 DEF ToErase
      <3>. QED
        BY <2>1, <2>3, <3>2 DEF Explained
    <2>. QED
      BY <2>2, <2>3 DEF EntriesExplained
  <1>. QED
    BY <1>1, ClangInvariant, PTL

(* Other threads than the one whose turn it is keep their calls.           *)
LEMMA OneThreadMoves ==
  ASSUME ClangInv, ClangNext, NEW t \in Threads, call[t].op = "name",
         call'[t] # call[t]
  PROVE  NameMember(t)
  <1>1. /\ ClangTypes /\ ClangShape /\ call \in [Threads -> {Idle} \cup ClangCalls]
        /\ heap \subseteq Objects /\ unhandled \in BOOLEAN
    BY DEF ClangInv, ClangShape, ClangTypes
  <1>2. call[t] # Idle /\ Announcing(t)
    BY DEF Idle, Announcing
  <1>3. ASSUME NEW u \in Threads, Program(u)
        PROVE  FALSE
    <2>1. call[u] = Idle /\ \E h : call' = [call EXCEPT ![u] = h]
      <3>1. CASE \E others \in SUBSET heap, addr \in Words, len \in Nat, y \in Types,
                    count \in Nat : Allocated(u, others, addr, len, y, count)
        BY ZenonT(60), <3>1 DEF Allocated, Allocate, Starts
      <3>2. CASE \E y \in Types, count \in Nat : RequestFailed(u, y, count)
        BY <3>2 DEF RequestFailed
      <3>3. CASE \E o \in heap, y \in Types \cup {NULL} : Deallocate(u, o, y)
        BY <3>3 DEF Deallocate, Starts
      <3>. QED
        BY <1>1, <1>3, <3>1, <3>2, <3>3, HeapCases
    <2>. QED
      BY <1>1, <1>2, <2>1
  <1>4. ASSUME NEW u \in Threads, Runtime(u)
        PROVE  FALSE
    <2>1. /\ Updating(u) \/ Erasing(u)
          /\ \A v \in Threads \ {u} : call'[v] = call[v]
      BY <1>1, <1>4, ClangRuntimeCalls
    <2>. QED
      BY <1>1, <1>2, <2>1, ClangFields
  <1>5. ASSUME NEW u \in Threads, PlacementNew(u) \/ ReinterpretCast(u)
        PROVE  FALSE
    <2>1. call[u] = Idle /\ \E h : call' = [call EXCEPT ![u] = h]
      BY <1>5 DEF PlacementNew, ReinterpretCast, emitExtendObjTraceInst
    <2>. QED
      BY <1>1, <1>2, <2>1
  <1>6. ASSUME NEW u \in Threads, PlaceMember(u) \/ NameMember(u)
        PROVE  NameMember(t)
    <2>1. \E h : call' = [call EXCEPT ![u] = h]
      BY <1>6 DEF PlaceMember, NameMember, NextExtended
    <2>2. u = t
      BY <1>1, <2>1
    <2>. QED
      BY <1>6, <2>2 DEF PlaceMember
  <1>. QED
    BY <1>3, <1>4, <1>5, <1>6 DEF ClangNext, HeapStep, Next, ClangStep

(* The call a reinterpret_cast makes for a member (NameMember,             *)
(* __bitype_handle_reinterpret_cast) names every word that has no owner:   *)
(* nothing an earlier block, object or name left there keeps it from it.   *)
THEOREM NamesYieldHolds == ClangSpec => NamesYield
  <1> DEFINE Yields ==
        \A t \in Threads :
          call[t].op = "name" /\ call'[t] # call[t] /\ ~unhandled /\ ~Taken(ExtendedWord(t))
            => meta'[ExtendedWord(t)].ref = ExtendedMember(t)[2]
  <1>1. ClangInv /\ [ClangNext]_clangVars => [Yields]_clangVars
    <2> SUFFICES ASSUME ClangInv, ClangNext, NEW t \in Threads,
                        call[t].op = "name", call'[t] # call[t], ~unhandled,
                        ~Taken(ExtendedWord(t))
                 PROVE  meta'[ExtendedWord(t)].ref = ExtendedMember(t)[2]
      OBVIOUS
    <2> DEFINE a == ExtendedWord(t)
               r == ExtendedMember(t)[2]
    <2>1. /\ ClangShape /\ ClangHandled
          /\ meta \in [Words -> ClangEntry]
          /\ Calling(t) /\ Announcing(t) /\ ~Erasing(t)
      BY DEF ClangInv, ClangShape, ClangTypes, Calling, Announcing, Erasing
    <2>2. a \in Extent(call[t]) /\ a \in Words
      BY <2>1, ClangCallInside
    <2>3. meta' = [meta EXCEPT ![a] = handle_reinterpret_cast(a, r)]
      BY OneThreadMoves DEF NameMember
    <2>4. meta[a].ref # NULL => meta[a].off = -1
      BY <2>1, <2>2, OwnEntries DEF NamedWord
    <2>5. handle_reinterpret_cast(a, r).ref = r
      BY <2>4 DEF handle_reinterpret_cast
    <2>. QED
      BY <2>1, <2>2, <2>3, <2>5
  <1>. QED
    BY <1>1, ClangInvariant, PTL DEF ClangSpec, NamesYield


-----------------------------------------------------------------------------
(* A program of one thread: what RegistrationHealsHolds says holds with    *)
(* Clang's handles between the calls as well.                              *)

ClangHealInv == Single /\ ClangShape /\ \A t \in Threads : Healing(t)

(* The runtime calls of a registration.                                    *)
LEMMA ClangHealingCalls ==
  ASSUME ClangHealInv, NEW t \in Threads, Runtime(t)
  PROVE  /\ Healing(t)'
         /\ UpdateArraySize(t) /\ call'[t] = Idle =>
              \A j \in 1 .. Len(Elements[call[t].type]), i \in 0 .. call[t].count - 1 :
                LET w == Place(call[t], j, i)
                IN  w \in Words => /\ meta'[w].ref = Elements[call[t].type][j][2]
                                   /\ meta'[w].off = Elements[call[t].type][j][1]
  <1> DEFINE c == call[t]
             Right(j, i) == /\ meta'[Place(c, j, i)].ref = Elements[c.type][j][2]
                            /\ meta'[Place(c, j, i)].off = Elements[c.type][j][1]
  <1>1. /\ ClangTypes /\ meta \in [Words -> ClangEntry] /\ Calling(t) /\ Healing(t)
        /\ Updating(t) \/ Erasing(t)
    BY ClangRuntimeCalls, ClangFields DEF ClangHealInv, ClangShape, ClangTypes
  <1>2. /\ c.addr \in Nat /\ c.len \in Nat /\ c.type \in Types /\ c.count \in Nat
        /\ c.k \in 1 .. Len(Elements[c.type]) /\ Len(Elements[c.type]) \in Nat
    BY <1>1, ClangFields, Layout
  <1>3. call'[t] = Idle \/
          /\ call'[t].addr = c.addr /\ call'[t].len = c.len
          /\ call'[t].type = c.type /\ call'[t].count = c.count
          /\ Updating(t)' <=> Updating(t)
    BY <1>1, ClangRuntimeCalls
  <1>4. ASSUME UpdateObjTrace(t), NEW j \in 1 .. Len(Elements[c.type]),
               NEW i \in 0 .. c.count - 1, Place(c, j, i) \in Words, j <= c.k
        PROVE  Right(j, i)
    <2>1. Place(c, j, i) \in MemberWords(t, c.count) <=> j = c.k
      BY <1>2, <1>4, WrittenMembers
    <2>2. meta'[Place(c, j, i)] =
            IF Place(c, j, i) \in MemberWords(t, c.count)
            THEN [ref |-> Member(t)[2], size |-> 0, off |-> Member(t)[1]]
            ELSE meta[Place(c, j, i)]
      BY <1>4 DEF UpdateObjTrace
    <2>3. CASE j = c.k
      BY <2>1, <2>2, <2>3 DEF Member
    <2>4. CASE j # c.k
      <3>1. Done(t) = c.k - 1 /\ Updating(t)
        BY <1>4 DEF UpdateObjTrace, Done, Updating
      <3>2. j <= Done(t)
        BY <1>2, <1>4, <2>4, <3>1
      <3>3. Describes(Place(c, j, i), c, j)
        BY <1>1, <1>4, <3>1, <3>2 DEF Healing
      <3>. QED
        BY <2>1, <2>2, <2>4, <3>3 DEF Describes
    <2>. QED
      BY <2>3, <2>4
  <1>5. ASSUME UpdateArraySize(t), NEW j \in 1 .. Len(Elements[c.type]),
               NEW i \in 0 .. c.count - 1, Place(c, j, i) \in Words, j <= c.k
        PROVE  Right(j, i)
    <2>1. Done(t) = c.k /\ Updating(t)
      BY <1>5 DEF UpdateArraySize, Done, Updating
    <2>2. Describes(Place(c, j, i), c, j)
      BY <1>1, <1>5, <2>1 DEF Healing
    <2>3. meta' = IF c.addr \in Words
                  THEN [meta EXCEPT ![c.addr].size = c.count]
                  ELSE meta
      BY <1>5 DEF UpdateArraySize
    <2>4. \A w \in Words : meta'[w].ref = meta[w].ref /\ meta'[w].off = meta[w].off
      BY <1>1, <2>3 DEF ClangEntry
    <2>. QED
      BY <1>5, <2>2, <2>4 DEF Describes
  <1>6. Healing(t)'
    <2> SUFFICES ASSUME Updating(t)', NEW j \in 1 .. Len(Elements[call'[t].type]),
                        NEW i \in 0 .. call'[t].count - 1,
                        Place(call'[t], j, i) \in Words, j <= Done(t)'
                 PROVE  /\ meta'[Place(call'[t], j, i)].ref = Elements[call'[t].type][j][2]
                        /\ meta'[Place(call'[t], j, i)].off = Elements[call'[t].type][j][1]
      BY DEF Healing, Describes, Place
    <2>1. call'[t] # Idle
      BY DEF Updating, Idle
    <2>2. /\ Updating(t) /\ call'[t].type = c.type /\ call'[t].count = c.count
          /\ Place(call'[t], j, i) = Place(c, j, i)
      BY <1>3, <2>1 DEF Place
    <2>3. (UpdateObjTrace(t) \/ UpdateArraySize(t)) /\ Done(t)' = c.k
      <3>1. UpdateObjTrace(t) \/ UpdateArraySize(t)
        BY <2>2 DEF Runtime, EraseObj, EraseArraySize, Updating
      <3>. QED
        BY <1>1, <2>1, <3>1, ClangRuntimeCalls
    <2>. QED
      BY <1>4, <1>5, <2>2, <2>3
  <1>7. ASSUME UpdateArraySize(t), call'[t] = Idle
        PROVE  c.k = Len(Elements[c.type])
    <2>1. ~Updating(t)'
      BY <1>7 DEF Updating, Idle
    <2>. QED
      BY <1>1, <1>7, <2>1, ClangRuntimeCalls
  <1>8. ASSUME UpdateArraySize(t), call'[t] = Idle,
               NEW j \in 1 .. Len(Elements[c.type]), NEW i \in 0 .. c.count - 1,
               Place(c, j, i) \in Words
        PROVE  Right(j, i)
    <2>1. j <= c.k
      BY <1>2, <1>7, <1>8
    <2>. QED
      BY <1>5, <1>8, <2>1
  <1>. QED
    BY <1>6, <1>8

(* A call that has just been made is done with no member.                  *)
LEMMA NothingHealedYet ==
  ASSUME ClangTypes', NEW t \in Threads, Updating(t)' => Done(t)' = 0
  PROVE  Healing(t)'
  <1>1. ASSUME Updating(t)'
        PROVE  \A j \in 1 .. Len(Elements[call'[t].type]) : ~(j <= Done(t)')
    BY <1>1
  <1>. QED
    BY <1>1 DEF Healing

LEMMA ClangHealingStep ==
  ASSUME ClangHealInv, ClangInv, ClangInv', [ClangNext]_clangVars
  PROVE  ClangHealInv'
  <1>1. /\ ClangShape /\ ClangTypes /\ ClangShape' /\ ClangTypes' /\ Single
        /\ heap \subseteq Objects /\ unhandled \in BOOLEAN
    BY DEF ClangInv, ClangHealInv, ClangShape, ClangTypes
  <1>2. ASSUME NEW t \in Threads, Program(t)
        PROVE  Healing(t)'
    <2>1. CASE \E others \in SUBSET heap, addr \in Words, len \in Nat, y \in Types,
                  count \in Nat : Allocated(t, others, addr, len, y, count)
      <3>1. PICK others \in SUBSET heap, addr \in Words, len \in Nat, y \in Types,
                 count \in Nat : Allocated(t, others, addr, len, y, count)
        BY <2>1
      <3>2. Starts(t, "update", addr, len, y, count) /\ addr \in Nat /\ call[t] = Idle
        BY <3>1, Layout DEF Allocated, Allocate, Starts, Words
      <3>3. "update" \in {"update", "erase"}
        OBVIOUS
      <3>4. call'[t] = Idle \/ Done(t)' = 0
        BY <1>1, <3>2, <3>3, ClangStarts
      <3>. QED
        BY <1>1, <3>4, NothingHealedYet DEF Updating, Idle
    <2>2. CASE \E y \in Types, count \in Nat : RequestFailed(t, y, count)
      <3>1. PICK y \in Types, count \in Nat : RequestFailed(t, y, count)
        BY <2>2
      <3>2. Starts(t, "update", 0, 0, y, count) /\ call[t] = Idle
        BY <3>1 DEF RequestFailed, Starts
      <3>3. "update" \in {"update", "erase"} /\ 0 \in Nat
        OBVIOUS
      <3>4. call'[t] = Idle \/ Done(t)' = 0
        BY <1>1, <3>2, <3>3, ClangStarts
      <3>. QED
        BY <1>1, <3>4, NothingHealedYet DEF Updating, Idle
    <2>3. CASE \E o \in heap, y \in Types \cup {NULL} : Deallocate(t, o, y)
      <3>1. call[t] = Idle /\ \E h : call' = [call EXCEPT ![t] = h]
                                     /\ (h = Idle \/ h.op = "erase")
        BY <2>3 DEF Deallocate, Starts, Hook
      <3>2. call \in [Threads -> {Idle} \cup ClangCalls]
        BY <1>1 DEF ClangTypes
      <3>3. ~Updating(t)'
        BY <3>1, <3>2 DEF Updating, Idle
      <3>. QED
        BY <1>1, <3>3, NothingHealedYet
    <2>. QED
      BY <1>1, <1>2, <2>1, <2>2, <2>3, HeapCases
  <1>3. ASSUME NEW t \in Threads, Runtime(t)
        PROVE  Healing(t)'
    BY <1>3, ClangHealingCalls
  <1>4. ASSUME NEW t \in Threads, ClangStep(t)
        PROVE  Healing(t)'
    <2>1. ~Updating(t)'
      <3>1. CASE PlacementNew(t) \/ ReinterpretCast(t)
        <4>1. \E h : call' = [call EXCEPT ![t] = h]
                     /\ (h = Idle \/ h.op \in {"place", "name"})
          BY ZenonT(60), <3>1 DEF PlacementNew, ReinterpretCast, emitExtendObjTraceInst
        <4>2. call \in [Threads -> {Idle} \cup ClangCalls]
          BY <1>1 DEF ClangTypes
        <4>. QED
          BY <4>1, <4>2 DEF Updating, Idle
      <3>2. CASE PlaceMember(t) \/ NameMember(t)
        <4>1. Announcing(t) /\ NextExtended(t)
          BY <3>2 DEF PlaceMember, NameMember, Announcing
        <4>. QED
          BY <1>1, <4>1, NextExtendedCalls
      <3>. QED
        BY <1>4, <3>1, <3>2 DEF ClangStep
    <2>. QED
      BY <1>1, <2>1, NothingHealedYet
  <1>5. ASSUME UNCHANGED clangVars
        PROVE  \A t \in Threads : Healing(t)'
    BY <1>5 DEF ClangHealInv, clangVars, vars, Healing, Updating, Done, Place, Describes
  <1>6. \A t \in Threads : Healing(t)'
    BY <1>1, <1>2, <1>3, <1>4, <1>5 DEF ClangNext, HeapStep, Next, Single
  <1>. QED
    BY <1>1, <1>6 DEF ClangHealInv

(* The block the last call of a registration is about is the only one that *)
(* starts where the call says.                                             *)
LEMMA ClangHealedBlock ==
  ASSUME ClangHealInv, NEW t \in Threads, UpdateArraySize(t), call'[t] = Idle,
         NEW o \in heap, call[t].addr = o.addr
  PROVE  /\ \A k \in 1 .. Len(Elements[o.type]), i \in 0 .. call[t].count - 1 :
              i < Count(o) => /\ meta'[Place(o, k, i)].ref = Elements[o.type][k][2]
                              /\ meta'[Place(o, k, i)].off = Elements[o.type][k][1]
         /\ meta'[o.addr].size = call[t].count
  <1>1. /\ Updating(t) /\ Runtime(t) /\ Registrations /\ HeapShape
        /\ heap \subseteq Objects /\ meta \in [Words -> ClangEntry]
    BY DEF ClangHealInv, ClangShape, ClangTypes, UpdateArraySize, Updating, Runtime
  <1>2. /\ o.addr \in Nat /\ o.len \in Nat /\ o.len > 0 /\ Inside(o)
        /\ o.addr \in Extent(o) /\ Extent(o) \subseteq Words /\ o.type \in Types
    BY <1>1, ClangObject DEF HeapShape
  <1>3. Object(call[t]) \in heap
    BY <1>1, <1>2, Layout DEF Registrations, Outside, Inside
  <1>4. Object(call[t]).addr = o.addr /\ Object(call[t]).len = call[t].len
        /\ Object(call[t]).type = call[t].type
    BY DEF Object
  <1>5. Object(call[t]) = o
    <2>1. Object(call[t]).len \in Nat /\ Object(call[t]).len > 0
      BY <1>1, <1>3, ClangObject
    <2>2. ~Apart(Object(call[t]), o)
      BY <1>2, <1>4, <2>1 DEF Apart, Ended
    <2>. QED
      BY <1>1, <1>3, <2>2 DEF HeapShape
  <1>6. call[t].type = o.type
    BY <1>4, <1>5
  <1>7. ASSUME NEW k \in 1 .. Len(Elements[o.type]), NEW i \in 0 .. call[t].count - 1,
               i < Count(o)
        PROVE  /\ meta'[Place(o, k, i)].ref = Elements[o.type][k][2]
               /\ meta'[Place(o, k, i)].off = Elements[o.type][k][1]
    <2>1. Count(o) \in Nat
      BY <1>2, CountBounds, Layout DEF Count
    <2>2. Place(o, k, i) \in Words
      BY <1>2, <1>7, <2>1, PlaceInside
    <2>3. Place(call[t], k, i) = Place(o, k, i)
      BY <1>6 DEF Place
    <2>. QED
      BY <1>1, <1>6, <2>2, <2>3, ClangHealingCalls
  <1>8. meta'[o.addr].size = call[t].count
    <2>1. o.addr \in Words
      BY <1>2
    <2>2. meta' = [meta EXCEPT ![o.addr].size = call[t].count]
      BY <2>1 DEF UpdateArraySize
    <2>. QED
      BY <1>1, <2>1, <2>2 DEF ClangEntry
  <1>. QED
    BY <1>7, <1>8

(* With placement news and reinterpret_casts between the calls too, the    *)
(* registration of a block in a program of one thread describes the        *)
(* elements it is told of and their number (handleHeapAlloc,               *)
(* __bitype_updateObjTrace, __bitype_update_arraySize).                    *)
THEOREM ClangRegistrationHealsHolds == Single /\ ClangSpec => RegistrationHeals
  <1> DEFINE Heals ==
        \A t \in Threads, o \in heap :
          call[t].op = "size" /\ call'[t] = Idle /\ call[t].addr = o.addr =>
            /\ \A k \in DOMAIN Elements[o.type], i \in 0 .. call[t].count - 1 :
                 i < o.len \div Size[o.type] =>
                   LET w == o.addr + Elements[o.type][k][1] + Size[o.type] * i
                   IN  /\ meta'[w].ref = Elements[o.type][k][2]
                       /\ meta'[w].off = Elements[o.type][k][1]
            /\ meta'[o.addr].size = call[t].count
  <1>1. Single /\ ClangInit => ClangHealInv
    <2> SUFFICES ASSUME Single, ClangInit
                 PROVE  ClangHealInv
      OBVIOUS
    <2>1. \A t \in Threads : ~Updating(t)
      BY DEF ClangInit, Init, Updating, Idle
    <2>. QED
      BY <2>1, ClangInitInv DEF ClangHealInv, Healing, ClangInv
  <1>2. ClangInv /\ ClangHealInv /\ ClangInv' /\ [ClangNext]_clangVars => ClangHealInv'
    BY ClangHealingStep
  <1>3. ClangHealInv /\ [ClangNext]_clangVars => [Heals]_vars
    <2> SUFFICES ASSUME ClangHealInv, [ClangNext]_clangVars, vars' # vars
                 PROVE  Heals
      OBVIOUS
    <2>1. PICK u \in Threads : Program(u) \/ Runtime(u) \/ ClangStep(u)
      BY DEF clangVars, ClangNext, HeapStep, Next
    <2>2. ASSUME NEW t \in Threads, call[t].op = "size", call'[t] = Idle
          PROVE  UpdateArraySize(t)
      <3>1. t = u
        BY DEF ClangHealInv, Single
      <3>2. call[t] # Idle
        BY <2>2 DEF Idle
      <3>3. ~Program(t)
        BY <3>2 DEF Program, Malloc, MallocFailed, CallocFailed, RequestFailed, Calloc,
                    Realloc, Deallocate
      <3>4. ~ClangStep(t)
        BY <2>2, <3>2 DEF ClangStep, PlacementNew, ReinterpretCast, PlaceMember, NameMember
      <3>. QED
        BY <2>1, <2>2, <3>1, <3>3, <3>4
           DEF Runtime, UpdateObjTrace, EraseObj, EraseArraySize
    <2>3. ASSUME NEW t \in Threads, NEW o \in heap, call[t].op = "size",
                 call'[t] = Idle, call[t].addr = o.addr
          PROVE  /\ \A k \in DOMAIN Elements[o.type], i \in 0 .. call[t].count - 1 :
                      i < Count(o) =>
                        /\ meta'[Place(o, k, i)].ref = Elements[o.type][k][2]
                        /\ meta'[Place(o, k, i)].off = Elements[o.type][k][1]
                 /\ meta'[o.addr].size = call[t].count
      <3>1. DOMAIN Elements[o.type] = 1 .. Len(Elements[o.type])
        BY Layout DEF ClangHealInv, ClangShape, ClangTypes, Objects
      <3>. QED
        BY <2>2, <2>3, <3>1, ClangHealedBlock
    <2>. QED
      BY <2>3 DEF Count, Place
  <1>. QED
    BY <1>1, <1>2, <1>3, ClangInvariant, PTL DEF ClangSpec, RegistrationHeals
=============================================================================

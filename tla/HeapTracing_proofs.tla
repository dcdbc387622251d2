-------------------------- MODULE HeapTracing_proofs --------------------------
(***************************************************************************)
(* Proofs about HeapTracing, for every heap, every layout of the types and *)
(* any number of threads: live memory is described by its type and nothing *)
(* else has an entry, in every interleaving of the runtime calls.          *)
(***************************************************************************)
EXTENDS HeapTracing, TLAPS

-----------------------------------------------------------------------------
(* The inductive invariant.                                                *)

Ended(o)    == o.addr + o.len
Inside(o)   == Base <= o.addr /\ Ended(o) <= Limit
Outside(o)  == o.addr < Base /\ Ended(o) <= Base
Apart(o, p) == Ended(o) <= p.addr \/ Ended(p) <= o.addr

Calling(t)  == call[t].op # "idle"
Updating(t) == call[t].op \in {"update", "size"}
Erasing(t)  == call[t].op \in {"erase", "clear"}

(* The object a sequence of runtime calls is about.                        *)
Object(c) == [addr |-> c.addr, len |-> c.len, type |-> c.type]

Count(o) == o.len \div Size[o.type]

Calls == [op : {"update", "size", "erase", "clear"}, addr : Nat, len : Nat,
          type : Types, count : Nat, k : Nat]

CallTypes ==
  /\ call \in [Threads -> {Idle} \cup Calls]
  /\ \A t \in Threads :
       Calling(t) => /\ call[t].k \in 1 .. Len(Elements[call[t].type])
                     /\ call[t].op = "clear" => Last(t)

HeapShape ==
  /\ \A o \in heap : Inside(o) /\ Size[o.type] <= o.len
  /\ \A o, p \in heap : o = p \/ Apart(o, p)

(* An unfinished registration is of a live object, or of NULL.             *)
Registrations ==
  \A t \in Threads : Updating(t) =>
    Outside(call[t]) \/ Object(call[t]) \in heap

(* Runtime calls are told the right number of elements, or stay below the  *)
(* heap.                                                                   *)
Counted(c) ==
  IF Outside(c) THEN c.addr + c.count * Size[c.type] <= Base
                ELSE c.count = Count(c)

(* They erase dead memory.                                                 *)
CallShape ==
  \A t \in Threads :
    /\ Updating(t) => Counted(call[t])
    /\ Erasing(t) => /\ Inside(call[t])
                     /\ Size[call[t].type] <= call[t].len
                     /\ \A o \in heap : Apart(call[t], o)

(* No two threads are at the same memory.                                  *)
CallsApart ==
  \A t, u \in Threads :
    \/ t = u
    \/ ~Calling(t) \/ Outside(call[t])
    \/ ~Calling(u) \/ Outside(call[u])
    \/ Apart(call[t], call[u])

(* The number of members a thread is done with.                            *)
Done(t) == IF call[t].op \in {"update", "erase"} THEN call[t].k - 1
                                                ELSE call[t].k

(* Only the first word of an object may carry a count.                     *)
FirstWordOnly(o) == \A w \in Extent(o) : w # o.addr => meta[w].size = 0

Describes(w, o, j) ==
  /\ meta[w].ref = Elements[o.type][j][2]
  /\ meta[w].off = Elements[o.type][j][1]

(* The first n members of o have their entries, no other word has one.     *)
RegisteredTo(o, n) ==
  \A w \in Extent(o) :
    /\ MembersAt(o, w) = {} => meta[w].ref = NULL
    /\ \A j \in MembersAt(o, w) : j <= n => Describes(w, o, j)

(* At most the members of o behind the n-th have entries.                  *)
ForgottenTo(o, n) ==
  \A w \in Extent(o) :
    meta[w].ref = NULL \/ \E j \in MembersAt(o, w) : j > n

LiveObject(o) ==
  /\ Described(o)
  /\ FirstWordOnly(o)
  /\ Elements[o.type] = <<>> => meta[o.addr].size = 0

Live == \A o \in heap : Quiet(Extent(o)) => LiveObject(o)

Registering(t) ==
  Updating(t) /\ Inside(call[t]) => /\ FirstWordOnly(call[t])
                                    /\ RegisteredTo(call[t], Done(t))

Forgetting(t) ==
  Erasing(t) => /\ FirstWordOnly(call[t])
                /\ meta[call[t].addr].size = Count(call[t])
                /\ ForgottenTo(call[t], Done(t))

HalfWay == \A t \in Threads : Registering(t) /\ Forgetting(t)

Rest ==
  \A w \in Words : (\A o \in heap : w \notin Extent(o)) /\ Quiet({w})
                     => meta[w].ref = NULL /\ meta[w].size = 0

ShapeInv == TypeOK /\ CallTypes /\ HeapShape /\ Registrations

HandledInv ==
  CallShape /\ CallsApart /\ Live /\ HalfWay /\ Rest

IInv == ShapeInv /\ (~unhandled => HandledInv)

-----------------------------------------------------------------------------
(* Arithmetic of objects, elements and members.                            *)

LEMMA Layout ==
  /\ \A y \in Types : Size[y] \in Nat \ {0}
  /\ \A y \in Types : /\ Elements[y] \in Seq(Nat \X Vectors)
                      /\ Len(Elements[y]) \in Nat
                      /\ Elements[y] = <<>> <=> Len(Elements[y]) = 0
  /\ \A y \in Types : \A k \in 1 .. Len(Elements[y]) :
       /\ Elements[y][k][1] \in Nat /\ Elements[y][k][2] \in Vectors
       /\ Elements[y][k][1] < Size[y]
       /\ \A j \in 1 .. Len(Elements[y]) :
            j # k => Elements[y][j][1] # Elements[y][k][1]
  /\ Base \in Nat /\ Base > 0 /\ Limit \in Nat
  /\ \A n \in Lengths : n \in Nat /\ n > 0
  <1>1. \A y \in Types : Size[y] \in Nat \ {0}
    BY LayoutAssumption
  <1>2. \A y \in Types : Elements[y] \in Seq(Nat \X Vectors)
    BY LayoutAssumption
  <1>3. \A y \in Types : /\ Len(Elements[y]) \in Nat
                         /\ Elements[y] = <<>> <=> Len(Elements[y]) = 0
    BY <1>2
  <1>4. ASSUME NEW y \in Types, NEW k \in 1 .. Len(Elements[y])
        PROVE  /\ Elements[y][k][1] \in Nat /\ Elements[y][k][2] \in Vectors
               /\ Elements[y][k][1] < Size[y]
    <2>1. Elements[y][k] \in Nat \X Vectors
      BY <1>2
    <2>. QED
      BY <2>1, LayoutAssumption
  <1>5. ASSUME NEW y \in Types, NEW k \in 1 .. Len(Elements[y]),
               NEW j \in 1 .. Len(Elements[y]), j # k
        PROVE  Elements[y][j][1] # Elements[y][k][1]
    <2>1. j \in 1 .. k - 1 \/ k \in 1 .. j - 1
      BY <1>3, <1>5
    <2>2. Elements[y][j][1] < Elements[y][k][1] \/ Elements[y][k][1] < Elements[y][j][1]
      BY <2>1, LayoutAssumption
    <2>. QED
      BY <1>4, <2>2
  <1>. QED
    BY <1>1, <1>2, <1>3, <1>4, <1>5, LayoutAssumption

(* Whole elements fit.                                                     *)
LEMMA CountBounds ==
  ASSUME NEW len \in Nat, NEW s \in Nat \ {0}
  PROVE  /\ len \div s \in Nat
         /\ s * (len \div s) <= len
         /\ s <= len => len \div s > 0
         /\ \A m \in Nat : len <= m => len \div s <= m \div s
         /\ \A i \in 0 .. (len \div s) - 1 : s * i \in Nat /\ s * i + s <= len
  <1> DEFINE q == len \div s
  <1>1. q \in Nat /\ s * q <= len /\ len < s * q + s
    BY Z3
  <1>2. s <= len => q > 0
    BY <1>1
  <1>3. ASSUME NEW m \in Nat, len <= m
        PROVE  q <= m \div s
    <2> DEFINE r == m \div s
    <2>1. r \in Nat /\ m < s * r + s
      BY Z3
    <2> HIDE DEF q, r
    <2>2. s * q < s * (r + 1)
      BY <1>1, <1>3, <2>1
    <2>3. s * (r + 1 - q) > 0
      BY <1>1, <2>1, <2>2
    <2>4. r + 1 - q > 0
      BY <1>1, <2>1, <2>3
    <2>. QED
      BY <1>1, <2>1, <2>4 DEF q, r
  <1>4. ASSUME NEW i \in 0 .. q - 1
        PROVE  s * i \in Nat /\ s * i + s <= len
    <2> HIDE DEF q
    <2>1. s * (q - 1 - i) >= 0
      BY <1>1, <1>4
    <2>2. s * (q - 1 - i) = s * q - s - s * i
      BY <1>1, <1>4
    <2>3. s * i \in Nat
      BY <1>1, <1>4
    <2>. QED
      BY <1>1, <2>1, <2>2, <2>3
  <1>. QED
    BY <1>1, <1>2, <1>3, <1>4

(* n elements of s words each are n elements again.                        *)
LEMMA ExactCount ==
  ASSUME NEW n \in Nat, NEW s \in Nat \ {0}
  PROVE  n * s \in Nat /\ (n * s) \div s = n
  BY Z3

(* The place of the k-th member in the i-th element.                       *)
Place(o, k, i) == o.addr + Elements[o.type][k][1] + Size[o.type] * i

LEMMA PlaceInside ==
  ASSUME NEW o, o.addr \in Nat, o.len \in Nat, o.type \in Types,
         NEW k \in 1 .. Len(Elements[o.type]), NEW i \in 0 .. Count(o) - 1
  PROVE  /\ Place(o, k, i) \in Nat
         /\ Place(o, k, i) \in Extent(o)
         /\ Place(o, k, i) < Ended(o)
         /\ Place(o, k, i) = o.addr => Elements[o.type][k][1] = 0
  <1> DEFINE s == Size[o.type]
             off == Elements[o.type][k][1]
             x == s * i
  <1>1. s \in Nat \ {0} /\ off \in Nat /\ off < s
    BY Layout
  <1>2. x \in Nat /\ x + s <= o.len
    BY <1>1, CountBounds DEF Count
  <1>3. Place(o, k, i) = o.addr + off + x
    BY DEF Place
  <1> HIDE DEF x, s, off
  <1>4. /\ o.addr + off + x \in Nat
        /\ o.addr + off + x < o.addr + o.len
        /\ o.addr + off + x = o.addr => off = 0
    BY <1>1, <1>2
  <1>5. /\ Place(o, k, i) \in Nat
        /\ Place(o, k, i) >= o.addr /\ Place(o, k, i) < o.addr + o.len
        /\ Place(o, k, i) = o.addr => off = 0
    BY <1>1, <1>2, <1>3, <1>4
  <1>. QED
    BY <1>5 DEF Extent, Ended, off

LEMMA PlaceUnique ==
  ASSUME NEW o, o.addr \in Nat, o.type \in Types,
         NEW j \in 1 .. Len(Elements[o.type]), NEW k \in 1 .. Len(Elements[o.type]),
         NEW h \in Nat, NEW i \in Nat,
         Place(o, j, h) = Place(o, k, i)
  PROVE  j = k
  <1> DEFINE s == Size[o.type]
             a == Elements[o.type][j][1]
             b == Elements[o.type][k][1]
  <1>1. s \in Nat \ {0} /\ a \in Nat /\ a < s /\ b \in Nat /\ b < s
    BY Layout
  <1>2. j # k => a # b
    BY Layout
  <1>3. o.addr + a + s * h = o.addr + b + s * i
    BY DEF Place
  <1> HIDE DEF s, a, b
  <1>4. s * (h - i) = b - a /\ s * (i - h) = a - b
    BY <1>1, <1>3
  <1>5. CASE h > i
    <2>1. s * (h - i - 1) >= 0 /\ s * (h - i - 1) = s * (h - i) - s
      BY <1>1, <1>5
    <2>. QED
      BY <1>1, <1>4, <2>1
  <1>6. CASE h < i
    <2>1. s * (i - h - 1) >= 0 /\ s * (i - h - 1) = s * (i - h) - s
      BY <1>1, <1>6
    <2>. QED
      BY <1>1, <1>4, <2>1
  <1>7. CASE h = i
    BY <1>1, <1>2, <1>3, <1>7
  <1>. QED
    BY <1>5, <1>6, <1>7

(* A word is at most one member of an object, and one inside it.           *)
LEMMA MembersAtMostOne ==
  ASSUME NEW o, o.addr \in Nat, o.len \in Nat, o.type \in Types, NEW w
  PROVE  /\ MembersAt(o, w) \subseteq 1 .. Len(Elements[o.type])
         /\ MembersAt(o, w) # {} => w \in Nat /\ w \in Extent(o)
         /\ \A j, k \in MembersAt(o, w) : j = k
         /\ \A k \in MembersAt(o, w) : w = o.addr => Elements[o.type][k][1] = 0
  <1>1. Count(o) \in Nat
    BY CountBounds, Layout DEF Count
  <1>2. MembersAt(o, w) = {k \in 1 .. Len(Elements[o.type]) :
                             \E i \in 0 .. Count(o) - 1 : w = Place(o, k, i)}
    BY DEF MembersAt, Count, Place
  <1>3. ASSUME NEW j \in MembersAt(o, w), NEW k \in MembersAt(o, w)
        PROVE  j = k
    <2>1. /\ j \in 1 .. Len(Elements[o.type]) /\ k \in 1 .. Len(Elements[o.type])
          /\ \E h \in 0 .. Count(o) - 1 : w = Place(o, j, h)
          /\ \E i \in 0 .. Count(o) - 1 : w = Place(o, k, i)
      BY <1>2
    <2>2. PICK h \in 0 .. Count(o) - 1 : w = Place(o, j, h)
      BY <2>1
    <2>3. PICK i \in 0 .. Count(o) - 1 : w = Place(o, k, i)
      BY <2>1
    <2>4. h \in Nat /\ i \in Nat /\ Place(o, j, h) = Place(o, k, i)
      BY <1>1, <2>2, <2>3
    <2>. QED
      BY <2>1, <2>4, PlaceUnique
  <1>4. ASSUME NEW k \in MembersAt(o, w)
        PROVE  /\ w \in Nat /\ w \in Extent(o)
               /\ w = o.addr => Elements[o.type][k][1] = 0
    <2>1. /\ k \in 1 .. Len(Elements[o.type])
          /\ \E i \in 0 .. Count(o) - 1 : w = Place(o, k, i)
      BY <1>2
    <2>. QED
      BY <2>1, PlaceInside
  <1>. QED
    BY <1>2, <1>3, <1>4

(* The words a runtime call for a member is about, when it is told the     *)
(* right count.                                                            *)
LEMMA MemberWordsAt ==
  ASSUME NEW t, call[t].addr \in Nat, call[t].len \in Nat, call[t].type \in Types,
         call[t].k \in 1 .. Len(Elements[call[t].type]), NEW w
  PROVE  w \in MemberWords(t, Count(call[t])) <=> call[t].k \in MembersAt(call[t], w)
  BY DEF MemberWords, MembersAt, Count, Member

(* The elements of a failed request that is not too large.                 *)
LEMMA BelowHeap ==
  ASSUME NEW c, c.addr \in Nat, c.type \in Types, c.count \in Nat,
         NEW k \in 1 .. Len(Elements[c.type]),
         c.addr + c.count * Size[c.type] <= Base, NEW i \in 0 .. c.count - 1
  PROVE  Place(c, k, i) < Base
  <1> DEFINE s == Size[c.type]
             off == Elements[c.type][k][1]
             n == c.count
             x == s * i
  <1>1. s \in Nat \ {0} /\ off \in Nat /\ off < s /\ Base \in Nat
    BY Layout
  <1>2. Place(c, k, i) = c.addr + off + x
    BY DEF Place
  <1>3. n \in Nat /\ i \in 0 .. n - 1 /\ c.addr + n * s <= Base
    OBVIOUS
  <1> HIDE DEF s, off, n
  <1>4. s * (n - 1 - i) >= 0
    BY <1>1, <1>3
  <1>5. s * (n - 1 - i) = n * s - s - x
    BY <1>1, <1>3
  <1>6. x \in Nat /\ n * s \in Nat
    BY <1>1, <1>3
  <1> DEFINE z == n * s
  <1>7. z - s - x >= 0 /\ c.addr + z <= Base /\ z \in Nat
    BY <1>3, <1>4, <1>5, <1>6
  <1> HIDE DEF x, z
  <1>. QED
    BY <1>1, <1>2, <1>6, <1>7

(* A registration that is told the right count writes what it should.      *)
LEMMA CountedWords ==
  ASSUME NEW t, call[t].addr \in Nat, call[t].len \in Nat, call[t].type \in Types,
         call[t].count \in Nat, call[t].k \in 1 .. Len(Elements[call[t].type]),
         Counted(call[t]), NEW w \in Words
  PROVE  w \in MemberWords(t, call[t].count) <=> call[t].k \in MembersAt(call[t], w)
  <1> DEFINE c == call[t]
  <1>1. CASE ~Outside(c)
    BY <1>1, MemberWordsAt DEF Counted
  <1>2. CASE Outside(c)
    <2>1. w >= Base /\ w \in Nat
      BY Layout DEF Words
    <2>2. c.k \notin MembersAt(c, w)
      <3>1. w \in Extent(c) => w < Base
        BY <1>2, Layout DEF Outside, Ended, Extent
      <3>. QED
        BY <2>1, <3>1, MembersAtMostOne, Layout
    <2>3. ASSUME w \in MemberWords(t, c.count)
          PROVE  FALSE
      <3>1. PICK i \in 0 .. c.count - 1 : w = Place(c, c.k, i)
        BY <2>3 DEF MemberWords, Place, Member
      <3>2. Place(c, c.k, i) < Base
        BY <1>2, BelowHeap DEF Counted
      <3>. QED
        BY <2>1, <3>1, <3>2, Layout
    <2>. QED
      BY <2>2, <2>3
  <1>. QED
    BY <1>1, <1>2

(* The words of an object that another one extends.                        *)
LEMMA MembersOfExtended ==
  ASSUME NEW o, NEW p, o.addr = p.addr, o.type = p.type, o.type \in Types,
         o.len \in Nat, p.len \in Nat, o.len <= p.len, NEW w
  PROVE  MembersAt(o, w) \subseteq MembersAt(p, w)
  <1>1. Count(o) \in Nat /\ Count(p) \in Nat /\ Count(o) <= Count(p)
    BY CountBounds, Layout DEF Count
  <1>2. 0 .. Count(o) - 1 \subseteq 0 .. Count(p) - 1
    BY <1>1
  <1>. QED
    BY <1>2 DEF MembersAt, Count

(* Extents and inequalities.                                               *)
LEMMA ApartExtents ==
  ASSUME NEW o, NEW p, o.addr \in Nat, o.len \in Nat, p.addr \in Nat, p.len \in Nat
  PROVE  /\ Apart(o, p) => Extent(o) \cap Extent(p) = {}
         /\ Extent(o) \cap Extent(p) = {} /\ o.len > 0 /\ p.len > 0 => Apart(o, p)
         /\ o.len > 0 => o.addr \in Extent(o)
         /\ Outside(o) => \A w \in Extent(o) : w < Base
         /\ Inside(o) => Extent(o) \subseteq Words
         /\ Extent(o) \subseteq Words /\ o.len > 0 => Inside(o)
  <1> USE Layout DEF Apart, Extent, Ended, Inside, Outside, Words
  <1>1. Extent(o) \cap Extent(p) = {} /\ o.len > 0 /\ p.len > 0 => Apart(o, p)
    <2> SUFFICES ASSUME o.len > 0, p.len > 0, ~Apart(o, p)
                 PROVE  Extent(o) \cap Extent(p) # {}
      OBVIOUS
    <2>1. CASE o.addr <= p.addr
      <3>1. p.addr \in Extent(o) /\ p.addr \in Extent(p)
        BY <2>1
      <3>. QED
        BY <3>1
    <2>2. CASE p.addr <= o.addr
      <3>1. o.addr \in Extent(o) /\ o.addr \in Extent(p)
        BY <2>2
      <3>. QED
        BY <3>1
    <2>. QED
      BY <2>1, <2>2
  <1>2. Apart(o, p) => Extent(o) \cap Extent(p) = {}
    BY SMTT(30)
  <1>3. Extent(o) \subseteq Words /\ o.len > 0 => Inside(o)
    <2>1. o.len > 0 => o.addr \in Extent(o) /\ o.addr + o.len - 1 \in Extent(o)
      OBVIOUS
    <2>2. o.addr \in Words /\ o.addr + o.len - 1 \in Words => Inside(o)
      OBVIOUS
    <2>. QED
      BY <2>1, <2>2
  <1>4. o.len > 0 => o.addr \in Extent(o)
    OBVIOUS
  <1>5. Outside(o) => \A w \in Extent(o) : w < Base
    OBVIOUS
  <1>6. Inside(o) => Extent(o) \subseteq Words
    OBVIOUS
  <1>. QED
    BY ONLY <1>1, <1>2, <1>3, <1>4, <1>5, <1>6

-----------------------------------------------------------------------------
(* The calls: their arguments stay, their counter goes through the members.*)

LEMMA CallFields ==
  ASSUME CallTypes, NEW t \in Threads
  PROVE  /\ Calling(t) <=> call[t] # Idle
         /\ Calling(t) <=> Updating(t) \/ Erasing(t)
         /\ ~(Updating(t) /\ Erasing(t))
         /\ Calling(t) =>
              /\ call[t] \in Calls
              /\ call[t].addr \in Nat /\ call[t].len \in Nat
              /\ call[t].type \in Types /\ call[t].count \in Nat
              /\ call[t].k \in 1 .. Len(Elements[call[t].type])
              /\ Len(Elements[call[t].type]) \in Nat
              /\ Done(t) \in Nat
  <1>1. call[t] \in {Idle} \cup Calls
    BY DEF CallTypes
  <1>2. CASE call[t] = Idle
    BY <1>2 DEF Idle, Calling, Updating, Erasing
  <1>3. CASE call[t] \in Calls
    <2>1. call[t].op \in {"update", "size", "erase", "clear"}
      BY <1>3 DEF Calls
    <2>2. Calling(t) /\ call[t] # Idle
      BY <2>1 DEF Calling, Idle
    <2>3. /\ call[t].addr \in Nat /\ call[t].len \in Nat
          /\ call[t].type \in Types /\ call[t].count \in Nat
          /\ call[t].k \in 1 .. Len(Elements[call[t].type])
      BY <1>3, <2>2 DEF Calls, CallTypes
    <2>4. Len(Elements[call[t].type]) \in Nat /\ Done(t) \in Nat
      BY <2>3, Layout DEF Done
    <2>. QED
      BY <1>3, <2>1, <2>2, <2>3, <2>4 DEF Updating, Erasing
  <1>. QED
    BY <1>1, <1>2, <1>3

LEMMA HookType ==
  ASSUME NEW op \in {"update", "erase"}, NEW addr \in Nat, NEW len \in Nat,
         NEW y \in Types, NEW count \in Nat
  PROVE  /\ Elements[y] = <<>> => Hook(op, addr, len, y, count) = Idle
         /\ Elements[y] # <<>> =>
              /\ Hook(op, addr, len, y, count) \in Calls
              /\ Hook(op, addr, len, y, count).op = op
              /\ Hook(op, addr, len, y, count).addr = addr
              /\ Hook(op, addr, len, y, count).len = len
              /\ Hook(op, addr, len, y, count).type = y
              /\ Hook(op, addr, len, y, count).count = count
              /\ Hook(op, addr, len, y, count).k = 1
              /\ 1 \in 1 .. Len(Elements[y])
  <1> DEFINE h == Hook(op, addr, len, y, count)
  <1>1. Elements[y] # <<>> => 1 \in 1 .. Len(Elements[y])
    BY Layout
  <1>2. Elements[y] = <<>> => h = Idle
    BY DEF Hook
  <1>3. Elements[y] # <<>> =>
          h = [op |-> op, addr |-> addr, len |-> len, type |-> y,
               count |-> count, k |-> 1]
    BY DEF Hook
  <1>4. Elements[y] # <<>> =>
          /\ h \in Calls
          /\ h.op = op /\ h.addr = addr /\ h.len = len
          /\ h.type = y /\ h.count = count /\ h.k = 1
    <2> HIDE DEF h
    <2>. QED
      BY <1>3 DEF Calls
  <1>. QED
    BY <1>1, <1>2, <1>4

(* A call that moves on, to its other half or to the next member.          *)
Turned(c, op)   == [c EXCEPT !.op = op]
Advanced(c, op) == [c EXCEPT !.op = op, !.k = @ + 1]

LEMMA MovedCall ==
  ASSUME NEW c \in Calls, NEW op \in {"update", "size", "erase", "clear"},
         NEW d \in {Turned(c, op), Advanced(c, op)}
  PROVE  /\ d \in Calls
         /\ d.op = op /\ d.addr = c.addr /\ d.len = c.len
         /\ d.type = c.type /\ d.count = c.count
         /\ d = Turned(c, op) => d.k = c.k
         /\ d = Advanced(c, op) => d.k = c.k + 1
  <1>1. c.k + 1 \in Nat
    BY DEF Calls
  <1>. QED
    BY <1>1 DEF Calls, Turned, Advanced

(* A thread that starts a sequence of calls, or none.                      *)
Starts(t, op, addr, len, y, count) ==
  call' = [call EXCEPT ![t] = Hook(op, addr, len, y, count)]

LEMMA StartsCall ==
  ASSUME CallTypes, NEW t \in Threads, call[t] = Idle,
         NEW op \in {"update", "erase"}, NEW addr \in Nat, NEW len \in Nat,
         NEW y \in Types, NEW count \in Nat,
         Starts(t, op, addr, len, y, count)
  PROVE  /\ CallTypes'
         /\ \A u \in Threads \ {t} : call'[u] = call[u]
         /\ Elements[y] = <<>> => call'[t] = Idle
         /\ Elements[y] # <<>> =>
              /\ call'[t].op = op /\ call'[t].addr = addr /\ call'[t].len = len
              /\ call'[t].type = y /\ call'[t].count = count
              /\ Done(t)' = 0
  <1> DEFINE h == Hook(op, addr, len, y, count)
  <1>1. /\ Elements[y] = <<>> => h = Idle
        /\ Elements[y] # <<>> =>
              /\ h \in Calls
              /\ h.op = op /\ h.addr = addr /\ h.len = len
              /\ h.type = y /\ h.count = count /\ h.k = 1
              /\ 1 \in 1 .. Len(Elements[y])
    <2>1. Elements[y] = <<>> => h = Idle
      BY HookType
    <2>2. Elements[y] # <<>> => h \in Calls /\ 1 \in 1 .. Len(Elements[y])
      BY HookType
    <2>3. Elements[y] # <<>> => h.op = op /\ h.addr = addr /\ h.len = len
      BY SMTT(30), HookType
    <2>4. Elements[y] # <<>> => h.type = y /\ h.count = count /\ h.k = 1
      BY SMTT(30), HookType
    <2>. QED
      BY <2>1, <2>2, <2>3, <2>4
  <1>2. call \in [Threads -> {Idle} \cup Calls]
    BY DEF CallTypes
  <1> HIDE DEF h
  <1>3. /\ call' \in [Threads -> {Idle} \cup Calls]
        /\ call'[t] = h
        /\ \A u \in Threads \ {t} : call'[u] = call[u]
    BY <1>1, <1>2 DEF h, Starts
  <1>4. CallTypes'
    <2>1. ASSUME NEW u \in Threads, Calling(u)'
          PROVE  /\ call'[u].k \in 1 .. Len(Elements[call'[u].type])
                 /\ call'[u].op = "clear" => Last(u)'
      <3>1. CASE u = t
        BY <1>1, <1>3, <2>1, <3>1 DEF Calling, Idle
      <3>2. CASE u # t
        BY <1>3, <2>1, <3>2 DEF CallTypes, Calling, Last
      <3>. QED
        BY <3>1, <3>2
    <2>. QED
      BY <1>3, <2>1 DEF CallTypes
  <1>5. Elements[y] # <<>> => Done(t)' = 0
    BY <1>1, <1>3 DEF Done
  <1>. QED
    BY <1>1, <1>3, <1>4, <1>5

(* A runtime call of t keeps the arguments and moves on by a member, or    *)
(* by half of one.                                                         *)
LEMMA RuntimeTurns ==
  ASSUME NEW S, call \in [Threads -> S], NEW t \in Threads, Runtime(t),
         call[t] \in Calls, call[t].k \in 1 .. Len(Elements[call[t].type]),
         call[t].op = "clear" => Last(t)
  PROVE  /\ call' = [call EXCEPT ![t] = call'[t]]
         /\ \A u \in Threads \ {t} : call'[u] = call[u]
         /\ call'[t] = Idle \/
              /\ call'[t] \in Calls
              /\ call'[t].k \in 1 .. Len(Elements[call[t].type])
              /\ call'[t].op = "clear" => call'[t].k = Len(Elements[call[t].type])
              /\ call'[t].addr = call[t].addr /\ call'[t].len = call[t].len
              /\ call'[t].type = call[t].type /\ call'[t].count = call[t].count
              /\ Updating(t)' <=> Updating(t)
              /\ Erasing(t)' <=> Erasing(t)
         /\ UpdateObjTrace(t) => Updating(t)' /\ Done(t)' = call[t].k
         /\ UpdateArraySize(t) =>
              \/ call'[t] = Idle /\ call[t].k = Len(Elements[call[t].type])
              \/ Updating(t)' /\ Done(t)' = call[t].k
         /\ EraseObj(t) => Erasing(t)' /\ Done(t)' = call[t].k
         /\ EraseArraySize(t) =>
              call'[t] = Idle /\ call[t].k = Len(Elements[call[t].type])
  <1> DEFINE c == call[t]
             n == Len(Elements[call[t].type])
  <1>1. call \in [Threads -> S]
    OBVIOUS
  <1>3. /\ c \in Calls /\ n \in Nat /\ c.k \in 1 .. n
        /\ c.op = "clear" => c.k = n
        /\ c.op \in {"update", "size", "erase", "clear"}
    BY Layout DEF Calls, Last
  <1>4. ASSUME NEW d, d \in Calls, d.type = c.type, d.k \in 1 .. n,
               d.op = "clear" => d.k = n,
               call' = [call EXCEPT ![t] = d]
        PROVE  /\ call'[t] = d
               /\ call' = [call EXCEPT ![t] = call'[t]]
               /\ \A u \in Threads \ {t} : call'[u] = call[u]
    BY <1>1, <1>4
  <1>5. ASSUME call' = [call EXCEPT ![t] = Idle]
        PROVE  /\ call'[t] = Idle
               /\ call' = [call EXCEPT ![t] = call'[t]]
               /\ \A u \in Threads \ {t} : call'[u] = call[u]
    BY <1>1, <1>5
  <1>6. ASSUME NEW op \in {"update", "size", "erase", "clear"}
        PROVE  /\ Then(t, op) => call' = [call EXCEPT ![t] = Turned(c, op)]
               /\ NextMember(t, op) =>
                    call' = [call EXCEPT ![t] = IF c.k = n THEN Idle
                                               ELSE Advanced(c, op)]
    <2>1. Then(t, op) => call' = [call EXCEPT ![t] = Turned(c, op)]
      BY <1>1 DEF Then, Turned
    <2>2. NextMember(t, op) =>
            call' = [call EXCEPT ![t] = IF c.k = n THEN Idle ELSE Advanced(c, op)]
      <3> SUFFICES ASSUME NextMember(t, op)
                   PROVE  call' = [call EXCEPT ![t] = IF c.k = n THEN Idle
                                                      ELSE Advanced(c, op)]
        OBVIOUS
      <3>1. call' = [call EXCEPT ![t] = IF Last(t) THEN Idle
                                        ELSE [c EXCEPT !.op = op, !.k = @ + 1]]
        BY DEF NextMember
      <3>2. Last(t) <=> c.k = n
        BY DEF Last
      <3>3. [c EXCEPT !.op = op, !.k = @ + 1] = Advanced(c, op)
        BY DEF Advanced
      <3>. QED
        BY <3>1, <3>2, <3>3
    <2>. QED
      BY <2>1, <2>2
  <1> HIDE DEF c, n
  <1>7. ASSUME NEW op \in {"update", "size", "erase", "clear"},
               op = "clear" => c.k = n, Then(t, op)
        PROVE  /\ call' = [call EXCEPT ![t] = call'[t]]
               /\ call'[t] \in Calls
               /\ call'[t].op = op /\ call'[t].k = c.k
               /\ call'[t].addr = c.addr /\ call'[t].len = c.len
               /\ call'[t].type = c.type /\ call'[t].count = c.count
               /\ \A u \in Threads \ {t} : call'[u] = call[u]
    <2> DEFINE d == Turned(c, op)
    <2>1. /\ d \in Calls
          /\ d.op = op /\ d.addr = c.addr /\ d.len = c.len
          /\ d.type = c.type /\ d.count = c.count /\ d.k = c.k
      BY <1>3, MovedCall
    <2>2. call' = [call EXCEPT ![t] = d]
      BY <1>6, <1>7
    <2> HIDE DEF d
    <2>. QED
      BY <1>3, <1>4, <1>7, <2>1, <2>2
  <1>8. ASSUME NEW op \in {"update", "erase"}, NextMember(t, op)
        PROVE  /\ call' = [call EXCEPT ![t] = call'[t]]
               /\ c.k # n => call'[t] \in Calls /\ c.k + 1 \in 1 .. n
               /\ \A u \in Threads \ {t} : call'[u] = call[u]
               /\ c.k = n => call'[t] = Idle
               /\ c.k # n =>
                    /\ call'[t].op = op /\ call'[t].k = c.k + 1
                    /\ call'[t].addr = c.addr /\ call'[t].len = c.len
                    /\ call'[t].type = c.type /\ call'[t].count = c.count
    <2> DEFINE d == Advanced(c, op)
    <2>1. /\ d \in Calls
          /\ d.op = op /\ d.addr = c.addr /\ d.len = c.len
          /\ d.type = c.type /\ d.count = c.count /\ d.k = c.k + 1
      BY <1>3, MovedCall
    <2>2. call' = [call EXCEPT ![t] = IF c.k = n THEN Idle ELSE d]
      BY <1>6, <1>8
    <2>3. c.k # n => d.k \in 1 .. n
      BY <1>3, <2>1
    <2> HIDE DEF d
    <2>4. CASE c.k = n
      BY <1>5, <2>2, <2>4
    <2>5. CASE c.k # n
      BY <1>4, <2>1, <2>2, <2>3, <2>5
    <2>. QED
      BY <2>4, <2>5
  <1>9. CASE UpdateObjTrace(t)
    <2>1. c.op = "update" /\ Then(t, "size")
      BY <1>9 DEF UpdateObjTrace, c
    <2>2. /\ call' = [call EXCEPT ![t] = call'[t]] /\ call'[t] \in Calls
          /\ call'[t].op = "size" /\ call'[t].k = c.k
          /\ call'[t].addr = c.addr /\ call'[t].len = c.len
          /\ call'[t].type = c.type /\ call'[t].count = c.count
          /\ \A u \in Threads \ {t} : call'[u] = call[u]
      BY <1>7, <2>1
    <2>3. /\ Updating(t) /\ Updating(t)' /\ ~Erasing(t) /\ ~Erasing(t)'
          /\ Done(t)' = c.k
      BY <2>1, <2>2 DEF Updating, Erasing, Done, c
    <2>. QED
      BY <1>3, <2>1, <2>2, <2>3 DEF UpdateArraySize, EraseObj, EraseArraySize, c
  <1>10. CASE UpdateArraySize(t)
    <2>1. c.op = "size" /\ NextMember(t, "update")
      BY <1>10 DEF UpdateArraySize, c
    <2>2. /\ call' = [call EXCEPT ![t] = call'[t]]
          /\ c.k # n => call'[t] \in Calls /\ c.k + 1 \in 1 .. n
          /\ \A u \in Threads \ {t} : call'[u] = call[u]
          /\ c.k = n => call'[t] = Idle
          /\ c.k # n =>
               /\ call'[t].op = "update" /\ call'[t].k = c.k + 1
               /\ call'[t].addr = c.addr /\ call'[t].len = c.len
               /\ call'[t].type = c.type /\ call'[t].count = c.count
      BY <1>8, <2>1
    <2>3. Updating(t) /\ ~Erasing(t)
      BY <2>1 DEF Updating, Erasing, c
    <2>4. c.k # n => Updating(t)' /\ ~Erasing(t)' /\ Done(t)' = c.k
      BY <1>3, <2>2 DEF Updating, Erasing, Done
    <2>. QED
      BY <1>3, <2>1, <2>2, <2>3, <2>4
         DEF UpdateObjTrace, EraseObj, EraseArraySize, c, n
  <1>11. CASE EraseObj(t)
    <2>1. c.op = "erase" /\ IF c.k = n THEN Then(t, "clear") ELSE NextMember(t, "erase")
      BY <1>11 DEF EraseObj, Last, c, n
    <2>2. /\ call' = [call EXCEPT ![t] = call'[t]] /\ call'[t] \in Calls
          /\ call'[t].k \in 1 .. n /\ (call'[t].op = "clear" => call'[t].k = n)
          /\ \A u \in Threads \ {t} : call'[u] = call[u]
          /\ call'[t].addr = c.addr /\ call'[t].len = c.len
          /\ call'[t].type = c.type /\ call'[t].count = c.count
          /\ \/ call'[t].op = "clear" /\ call'[t].k = c.k
             \/ call'[t].op = "erase" /\ call'[t].k = c.k + 1
      <3>1. CASE c.k = n
        BY <1>3, <1>7, <2>1, <3>1
      <3>2. CASE c.k # n
        <4>1. NextMember(t, "erase")
          BY <2>1, <3>2
        <4>. QED
          BY <1>8, <3>2, <4>1
      <3>. QED
        BY <3>1, <3>2
    <2>3. Erasing(t) /\ Erasing(t)' /\ ~Updating(t) /\ ~Updating(t)'
      BY <2>1, <2>2 DEF Updating, Erasing, c
    <2>4. Done(t)' = c.k
      BY <1>3, <2>2 DEF Done
    <2>. QED
      BY <1>3, <2>1, <2>2, <2>3, <2>4
         DEF UpdateObjTrace, UpdateArraySize, EraseArraySize, c, n
  <1>12. CASE EraseArraySize(t)
    <2>1. c.op = "clear" /\ call' = [call EXCEPT ![t] = Idle]
      BY <1>12 DEF EraseArraySize, c
    <2>. QED
      BY <1>3, <1>5, <2>1
         DEF UpdateObjTrace, UpdateArraySize, EraseObj, c, n
  <1>. QED
    BY <1>9, <1>10, <1>11, <1>12 DEF Runtime

LEMMA RuntimeMoves ==
  ASSUME CallTypes, NEW t \in Threads, Runtime(t)
  PROVE  /\ CallTypes'
         /\ Calling(t)
         /\ \A u \in Threads \ {t} : call'[u] = call[u]
         /\ call'[t] = Idle \/
              /\ call'[t].addr = call[t].addr /\ call'[t].len = call[t].len
              /\ call'[t].type = call[t].type /\ call'[t].count = call[t].count
              /\ Updating(t)' <=> Updating(t)
              /\ Erasing(t)' <=> Erasing(t)
         /\ UpdateObjTrace(t) => Updating(t)' /\ Done(t)' = call[t].k
         /\ UpdateArraySize(t) =>
              \/ call'[t] = Idle /\ call[t].k = Len(Elements[call[t].type])
              \/ Updating(t)' /\ Done(t)' = call[t].k
         /\ EraseObj(t) => Erasing(t)' /\ Done(t)' = call[t].k
         /\ EraseArraySize(t) =>
              call'[t] = Idle /\ call[t].k = Len(Elements[call[t].type])
  <1>1. Calling(t) /\ call \in [Threads -> {Idle} \cup Calls]
    BY DEF Runtime, UpdateObjTrace, UpdateArraySize, EraseObj, EraseArraySize, Calling,
           CallTypes
  <1>2. /\ call[t] \in Calls /\ call[t].k \in 1 .. Len(Elements[call[t].type])
        /\ call[t].op = "clear" => Last(t)
    BY <1>1, CallFields DEF CallTypes
  <1>3. /\ call' = [call EXCEPT ![t] = call'[t]]
        /\ \A u \in Threads \ {t} : call'[u] = call[u]
        /\ call'[t] = Idle \/
              /\ call'[t] \in Calls /\ call'[t].type = call[t].type
              /\ call'[t].k \in 1 .. Len(Elements[call[t].type])
              /\ call'[t].op = "clear" => call'[t].k = Len(Elements[call[t].type])
    BY <1>1, <1>2, RuntimeTurns
  <1>4. CallTypes'
    <2>1. call' \in [Threads -> {Idle} \cup Calls]
      BY <1>1, <1>3
    <2>2. ASSUME NEW u \in Threads, Calling(u)'
          PROVE  /\ call'[u].k \in 1 .. Len(Elements[call'[u].type])
                 /\ call'[u].op = "clear" => Last(u)'
      <3>1. CASE u = t
        BY <1>3, <2>2, <3>1 DEF Last, Calling, Idle
      <3>2. CASE u # t
        BY <1>3, <2>2, <3>2 DEF CallTypes, Calling, Last
      <3>. QED
        BY <3>1, <3>2
    <2>. QED
      BY <2>1, <2>2 DEF CallTypes
  <1>. QED
    BY <1>1, <1>2, <1>4, RuntimeTurns

-----------------------------------------------------------------------------
(* Types and the shape of the heap hold whatever the program does.         *)

LEMMA RuntimeTypes ==
  ASSUME TypeOK, CallTypes, NEW t \in Threads, Runtime(t)
  PROVE  meta' \in [Words -> Entry] /\ heap' = heap /\ unhandled' = unhandled
  <1>1. meta \in [Words -> Entry]
    BY DEF TypeOK
  <1>2. /\ call[t].addr \in Nat /\ call[t].count \in Nat
        /\ Member(t)[1] \in Nat /\ Member(t)[2] \in Vectors
    BY RuntimeMoves, CallFields, Layout DEF Member
  <1>3. CASE UpdateObjTrace(t)
    <2>1. [ref |-> Member(t)[2], size |-> 0, off |-> Member(t)[1]] \in Entry
      BY <1>2 DEF Entry
    <2>. QED
      BY <1>1, <1>3, <2>1 DEF UpdateObjTrace
  <1>4. CASE UpdateArraySize(t)
    BY <1>1, <1>2, <1>4 DEF UpdateArraySize, Entry
  <1>5. CASE EraseObj(t)
    <2>1. \A w \in Words : [meta[w] EXCEPT !.ref = NULL] \in Entry
      BY <1>1 DEF Entry
    <2>2. PICK count : meta' = [w \in Words |-> IF w \in MemberWords(t, count)
                                                THEN [meta[w] EXCEPT !.ref = NULL]
                                                ELSE meta[w]]
      BY <1>5 DEF EraseObj
    <2>. QED
      BY <1>1, <1>5, <2>1, <2>2 DEF EraseObj
  <1>6. CASE EraseArraySize(t)
    BY <1>1, <1>6 DEF EraseArraySize, Entry
  <1>. QED
    BY <1>3, <1>4, <1>5, <1>6
       DEF Runtime, UpdateObjTrace, UpdateArraySize, EraseObj, EraseArraySize

(* A block the program owns is not the object of an unfinished call.       *)
LEMMA OwnedApart ==
  ASSUME heap \subseteq Objects, HeapShape, NEW o \in heap, Owned(o),
         NEW u \in Threads, Calling(u)
  PROVE  /\ Object(call[u]) # o
         /\ Extent(call[u]) \cap Extent(o) = {}
  <1>1. /\ o.addr \in Nat /\ o.len \in Nat /\ o.len > 0
        /\ o.addr \in Extent(o)
    <2>1. o.addr \in Nat /\ o.len \in Nat /\ o.len > 0
      BY Layout DEF HeapShape, Objects, Words
    <2>. QED
      BY <2>1, ApartExtents
  <1>2. Extent(call[u]) \cap Extent(o) = {}
    BY DEF Owned, Quiet, Pending, Calling
  <1>3. Object(call[u]) = o => Extent(call[u]) = Extent(o)
    BY DEF Object, Extent
  <1>. QED
    BY <1>1, <1>2, <1>3

LEMMA OwnedQuiet ==
  ASSUME ShapeInv, NEW o \in heap, Owned(o), NEW u \in Threads, Calling(u)
  PROVE  /\ Object(call[u]) # o
         /\ Extent(call[u]) \cap Extent(o) = {}
  BY OwnedApart DEF ShapeInv, TypeOK

(* What malloc, operator new, calloc and realloc have in common.           *)
Allocated(t, others, addr, len, y, count) ==
  /\ call[t] = Idle
  /\ Size[y] <= len
  /\ addr .. addr + len - 1 \subseteq Words
  /\ \A o \in others : Extent(o) \cap (addr .. addr + len - 1) = {}
  /\ \A o \in heap \ others : Owned(o)
  /\ Allocate(t, others, addr, len, y, count)
  /\ meta' = meta
  /\ unhandled' \in BOOLEAN
  /\ ~unhandled' =>
       /\ ~unhandled
       /\ count = len \div Size[y]
       /\ ~Reused(t, addr, len)
       /\ \A o \in heap \ others : o.type = y /\ o.addr = addr /\ o.len <= len

LEMMA HeapCases ==
  ASSUME heap \subseteq Objects, unhandled \in BOOLEAN, NEW t \in Threads, Program(t)
  PROVE  \/ \E others \in SUBSET heap, addr \in Words, len \in Nat, y \in Types,
               count \in Nat : Allocated(t, others, addr, len, y, count)
         \/ \E y \in Types, count \in Nat : RequestFailed(t, y, count)
         \/ \E o \in heap, y \in Types \cup {NULL} : Deallocate(t, o, y)
  <1>1. ASSUME NEW y \in Types, NEW len \in Lengths, Malloc(t, y, len)
        PROVE  \E addr \in Words, count \in Nat :
                 Allocated(t, heap, addr, len, y, count)
    <2>1. len \in Nat /\ Size[y] \in Nat \ {0}
      BY <1>1, Layout
    <2>2. len \div Size[y] \in Nat
      BY <2>1, CountBounds
    <2>3. PICK addr \in Words :
            /\ Free(addr, len)
            /\ Allocate(t, heap, addr, len, y, len \div Size[y])
            /\ unhandled' = (unhandled \/ Reused(t, addr, len))
      BY <1>1 DEF Malloc
    <2>4. Allocated(t, heap, addr, len, y, len \div Size[y])
      BY <1>1, <2>1, <2>3 DEF Malloc, Allocated, Free
    <2>. QED
      BY <2>2, <2>4
  <1>2. ASSUME NEW y \in Types, NEW n \in Lengths, Calloc(t, y, n)
        PROVE  \E addr \in Words, len \in Nat, count \in Nat :
                 Allocated(t, heap, addr, len, y, count)
    <2> DEFINE len == n * Size[y]
               count == 8 * Size[y]
    <2>1. n \in Nat /\ n > 0 /\ Size[y] \in Nat \ {0}
      BY <1>2, Layout
    <2>2. len \in Nat /\ count \in Nat /\ len \div Size[y] = n
      BY <2>1, ExactCount
    <2>3. Size[y] <= len
      <3> HIDE DEF len
      <3>1. len = Size[y] + (n - 1) * Size[y] /\ (n - 1) * Size[y] >= 0
        BY <2>1 DEF len
      <3>. QED
        BY <2>1, <2>2, <3>1
    <2>4. PICK addr \in Words :
            /\ Free(addr, len)
            /\ Allocate(t, heap, addr, len, y, count)
            /\ unhandled' = (unhandled \/ count # n \/ Reused(t, addr, len))
      BY <1>2 DEF Calloc
    <2>5. call[t] = Idle /\ meta' = meta
      BY <1>2 DEF Calloc
    <2> HIDE DEF len, count
    <2>6. Allocated(t, heap, addr, len, y, count)
      BY <2>2, <2>3, <2>4, <2>5 DEF Allocated, Free
    <2>. QED
      BY <2>2, <2>6
  <1>3. ASSUME NEW y \in Types, NEW len \in Lengths, NEW o \in heap,
               Realloc(t, o, y, len)
        PROVE  \E others \in SUBSET heap, addr \in Words, count \in Nat :
                 Allocated(t, others, addr, len, y, count)
    <2>1. len \in Nat /\ Size[y] \in Nat \ {0}
      BY <1>3, Layout
    <2>2. len \div Size[y] \in Nat
      BY <2>1, CountBounds
    <2>3. PICK addr \in Words :
            /\ addr .. addr + len - 1 \subseteq Words
            /\ \A p \in heap \ {o} :
                 Extent(p) \cap (addr .. addr + len - 1) = {}
            /\ Allocate(t, heap \ {o}, addr, len, y, len \div Size[y])
            /\ unhandled' = \/ unhandled
                            \/ y # o.type
                            \/ ~(Extent(o) \subseteq addr .. addr + len - 1)
                            \/ addr # o.addr
                            \/ Reused(t, addr, len)
      BY <1>3 DEF Realloc
    <2>4. Extent(o) \subseteq addr .. addr + len - 1 /\ addr = o.addr
            => o.len <= len
      <3>1. addr \in Nat /\ o.addr \in Nat /\ o.len \in Nat
        BY Layout DEF Objects, Words
      <3>2. o.len > 0 => o.addr + o.len - 1 \in Extent(o)
        BY <3>1 DEF Extent
      <3>. QED
        BY <2>1, <3>1, <3>2
    <2>5. Allocated(t, heap \ {o}, addr, len, y, len \div Size[y])
      <3>1. \A p \in heap \ (heap \ {o}) : p = o
        OBVIOUS
      <3>2. call[t] = Idle /\ meta' = meta /\ Owned(o) /\ Size[y] <= len
        BY <1>3 DEF Realloc
      <3>. QED
        BY <2>3, <2>4, <3>1, <3>2 DEF Allocated
    <2>. QED
      BY <2>2, <2>5
  <1>4. Lengths \subseteq Nat
    BY Layout
  <1>5. ASSUME NEW y \in Types, NEW len \in Lengths, MallocFailed(t, y, len)
        PROVE  \E count \in Nat : RequestFailed(t, y, count)
    <2>1. len \in Nat /\ Size[y] \in Nat \ {0}
      BY Layout
    <2>2. len \div Size[y] \in Nat
      BY <2>1, CountBounds
    <2>. QED
      BY <1>5, <2>2 DEF MallocFailed
  <1>6. ASSUME NEW y \in Types, CallocFailed(t, y)
        PROVE  \E count \in Nat : RequestFailed(t, y, count)
    <2>1. 8 * Size[y] \in Nat
      BY Layout
    <2>. QED
      BY <1>6, <2>1 DEF CallocFailed
  <1>. QED
    BY <1>1, <1>2, <1>3, <1>4, <1>5, <1>6 DEF Program

LEMMA ProgramCases ==
  ASSUME ShapeInv, NEW t \in Threads, Program(t)
  PROVE  \/ \E others \in SUBSET heap, addr \in Words, len \in Nat, y \in Types,
               count \in Nat : Allocated(t, others, addr, len, y, count)
         \/ \E y \in Types, count \in Nat : RequestFailed(t, y, count)
         \/ \E o \in heap, y \in Types \cup {NULL} : Deallocate(t, o, y)
  BY HeapCases DEF ShapeInv, TypeOK

(* Blocks stay in the heap and apart.                                      *)
LEMMA AllocatedHeap ==
  ASSUME heap \subseteq Objects, HeapShape, NEW t \in Threads, NEW others \in SUBSET heap,
         NEW addr \in Words, NEW len \in Nat, NEW y \in Types, NEW count \in Nat,
         Allocated(t, others, addr, len, y, count),
         NEW new, new = [addr |-> addr, len |-> len, type |-> y]
  PROVE  /\ heap' = others \cup {new}
         /\ heap' \subseteq Objects /\ HeapShape'
         /\ new.addr = addr /\ new.len = len /\ new.type = y
         /\ addr \in Nat /\ len > 0
  <1>0. /\ Size[y] <= len
        /\ addr .. addr + len - 1 \subseteq Words
        /\ \A o \in others : Extent(o) \cap (addr .. addr + len - 1) = {}
        /\ Allocate(t, others, addr, len, y, count)
    BY DEF Allocated
  <1>1. /\ new.addr = addr /\ new.len = len /\ new.type = y /\ new \in Objects
        /\ addr \in Nat /\ len > 0 /\ Size[y] \in Nat \ {0}
    BY <1>0, Layout DEF Objects, Words
  <1>2. heap' = others \cup {new}
    BY <1>0 DEF Allocate
  <1>5. heap' \subseteq Objects
    BY <1>1, <1>2
  <1>6. \A o \in others : /\ o.addr \in Nat /\ o.len \in Nat /\ o.len > 0
                          /\ Inside(o) /\ Size[o.type] <= o.len
    BY Layout DEF HeapShape, Objects, Words
  <1>7. Inside(new) /\ Size[new.type] <= new.len
    BY <1>0, <1>1, ApartExtents DEF Extent
  <1>8. ASSUME NEW o \in others
        PROVE  Apart(o, new) /\ Apart(new, o)
    <2>1. Extent(o) \cap Extent(new) = {}
      BY <1>0, <1>1 DEF Extent
    <2>. QED
      BY <1>1, <1>6, <2>1, ApartExtents
  <1>9. HeapShape'
    <2>1. \A o \in heap' : Inside(o) /\ Size[o.type] <= o.len
      BY <1>2, <1>6, <1>7
    <2>2. \A o, p \in heap' : o = p \/ Apart(o, p)
      BY <1>2, <1>8 DEF HeapShape
    <2>. QED
      BY <2>1, <2>2 DEF HeapShape, Inside, Apart, Ended
  <1>. QED
    BY <1>1, <1>2, <1>5, <1>9

LEMMA AllocatedShape ==
  ASSUME ShapeInv, NEW t \in Threads, NEW others \in SUBSET heap,
         NEW addr \in Words, NEW len \in Nat, NEW y \in Types, NEW count \in Nat,
         Allocated(t, others, addr, len, y, count)
  PROVE  ShapeInv'
  <1>0. /\ call[t] = Idle
        /\ Size[y] <= len
        /\ addr .. addr + len - 1 \subseteq Words
        /\ \A o \in others : Extent(o) \cap (addr .. addr + len - 1) = {}
        /\ \A o \in heap \ others : Owned(o)
        /\ Allocate(t, others, addr, len, y, count)
        /\ meta' = meta /\ unhandled' \in BOOLEAN
    BY DEF Allocated
  <1> DEFINE new == [addr |-> addr, len |-> len, type |-> y]
  <1>1. new = [addr |-> addr, len |-> len, type |-> y]
    OBVIOUS
  <1> HIDE DEF new
  <1>2. /\ heap' = others \cup {new}
        /\ heap' \subseteq Objects /\ HeapShape'
        /\ new.addr = addr /\ new.len = len /\ new.type = y
        /\ addr \in Nat
    <2>1. heap \subseteq Objects /\ HeapShape
      BY DEF ShapeInv, TypeOK
    <2>. QED
      BY <1>1, <2>1, AllocatedHeap
  <1>3. Starts(t, "update", addr, len, y, count)
    BY <1>0 DEF Allocate, Starts
  <1>4. /\ CallTypes'
        /\ \A u \in Threads \ {t} : call'[u] = call[u]
        /\ Elements[y] = <<>> => call'[t] = Idle
        /\ Elements[y] # <<>> =>
              call'[t].addr = addr /\ call'[t].len = len /\ call'[t].type = y
    <2>1. CallTypes /\ addr \in Nat
      BY <1>2 DEF ShapeInv
    <2>. QED
      BY <1>0, <1>3, <2>1, StartsCall
  <1>10. Registrations'
    <2> SUFFICES ASSUME NEW u \in Threads, Updating(u)'
                 PROVE  (Outside(call[u]) \/ Object(call[u]) \in heap)'
      BY DEF Registrations
    <2>1. CASE u = t
      <3>1. Elements[y] # <<>>
        BY <1>4, <2>1 DEF Updating, Idle
      <3>. QED
        BY <1>2, <1>4, <2>1, <3>1 DEF Object, new
    <2>2. CASE u # t
      <3>1. call'[u] = call[u] /\ Updating(u) /\ Calling(u)
        BY <1>4, <2>2 DEF Updating, Calling
      <3>2. \A o \in heap \ others : Object(call[u]) # o
        BY <1>0, <3>1, OwnedQuiet
      <3>3. Outside(call[u]) \/ Object(call[u]) \in others
        BY <3>1, <3>2 DEF ShapeInv, Registrations
      <3>. QED
        BY <1>2, <3>1, <3>3 DEF Outside, Ended, Object
    <2>. QED
      BY <2>1, <2>2
  <1>11. /\ meta' \in [Words -> Entry]
         /\ \A u \in Threads :
              call'[u].op \in {"idle", "update", "size", "erase", "clear"}
    <2>1. meta' \in [Words -> Entry]
      BY <1>0 DEF ShapeInv, TypeOK
    <2>2. \A u \in Threads : call'[u] \in {Idle} \cup Calls
      BY <1>4 DEF CallTypes
    <2>. QED
      BY <2>1, <2>2 DEF Calls, Idle
  <1>. QED
    BY <1>0, <1>2, <1>4, <1>10, <1>11 DEF ShapeInv, TypeOK

(* The calls of a typed step have known operations.                        *)
LEMMA CallTypesOps ==
  CallTypes' => \A u \in Threads :
                  call'[u].op \in {"idle", "update", "size", "erase", "clear"}
  BY DEF CallTypes, Calls, Idle

(* A failed request registers words around NULL, and the heap has none of  *)
(* its objects.                                                            *)
LEMMA RequestFailedShape ==
  ASSUME ShapeInv, NEW t \in Threads, NEW y \in Types, NEW count \in Nat,
         RequestFailed(t, y, count)
  PROVE  /\ ShapeInv'
         /\ \A u \in Threads \ {t} : call'[u] = call[u]
         /\ call'[t] = Idle \/ /\ Updating(t)' /\ ~Erasing(t)'
                               /\ call'[t].addr = 0
                               /\ Outside(call'[t])
                               /\ ~unhandled' => Counted(call'[t])
  <1>1. Size[y] \in Nat \ {0} /\ Base \in Nat /\ Base > 0
    BY Layout
  <1>2. ~unhandled' => count * Size[y] <= Base
    <2>1. count * Size[y] \in Nat
      BY <1>1
    <2>2. ~unhandled' => ~(count * Size[y] > Base)
      BY Zenon DEF RequestFailed
    <2>. QED
      BY <1>1, <2>1, <2>2
  <1>3. /\ call[t] = Idle /\ CallTypes
        /\ Starts(t, "update", 0, 0, y, count)
        /\ UNCHANGED <<heap, meta>> /\ unhandled' \in BOOLEAN
    BY DEF RequestFailed, Starts, ShapeInv
  <1>4. /\ CallTypes'
        /\ \A u \in Threads \ {t} : call'[u] = call[u]
        /\ Elements[y] = <<>> => call'[t] = Idle
        /\ Elements[y] # <<>> =>
             /\ call'[t].op = "update" /\ call'[t].addr = 0 /\ call'[t].len = 0
             /\ call'[t].type = y /\ call'[t].count = count
    BY <1>3, StartsCall
  <1>5. call'[t] = Idle \/ /\ Updating(t)' /\ ~Erasing(t)'
                           /\ call'[t].addr = 0
                           /\ Outside(call'[t])
                           /\ ~unhandled' => Counted(call'[t])
    <2>1. CASE Elements[y] = <<>>
      BY <1>4, <2>1
    <2>2. CASE Elements[y] # <<>>
      <3>2. Outside(call'[t])
        BY <1>1, <1>4, <2>2 DEF Outside, Ended
      <3>3. ~unhandled' => Counted(call'[t])
        <4>1. count * Size[y] \in Nat
          BY <1>1
        <4>2. ~unhandled' => 0 + count * Size[y] <= Base
          BY <1>1, <1>2, <4>1
        <4>. QED
          BY <1>4, <2>2, <3>2, <4>2 DEF Counted
      <3>. QED
        BY <1>4, <2>2, <3>2, <3>3 DEF Updating, Erasing
    <2>. QED
      BY <2>1, <2>2
  <1>6. Registrations'
    <2> SUFFICES ASSUME NEW u \in Threads, Updating(u)'
                 PROVE  (Outside(call[u]) \/ Object(call[u]) \in heap)'
      BY DEF Registrations
    <2>1. CASE u = t
      BY <1>5, <2>1 DEF Outside, Ended, Updating, Idle
    <2>2. CASE u # t
      BY <1>3, <1>4, <2>2 DEF ShapeInv, Registrations, Updating, Outside, Ended, Object
    <2>. QED
      BY <2>1, <2>2
  <1>7. TypeOK' /\ HeapShape'
    BY <1>3, <1>4, CallTypesOps DEF ShapeInv, TypeOK, HeapShape, Inside, Apart, Ended
  <1>. QED
    BY <1>4, <1>5, <1>6, <1>7 DEF ShapeInv

LEMMA DeallocateShape ==
  ASSUME ShapeInv, NEW t \in Threads, NEW o \in heap, NEW y \in Types \cup {NULL},
         Deallocate(t, o, y)
  PROVE  /\ ShapeInv'
         /\ \A u \in Threads \ {t} : call'[u] = call[u]
         /\ y = NULL \/ (y \in Types /\ Elements[y] = <<>>) => call'[t] = Idle
         /\ ~(y = NULL \/ (y \in Types /\ Elements[y] = <<>>)) =>
              /\ Erasing(t)' /\ ~Updating(t)' /\ Done(t)' = 0
              /\ call'[t].addr = o.addr /\ call'[t].len = o.len
              /\ call'[t].type = y
  <1>1. /\ call[t] = Idle /\ Owned(o)
        /\ heap' = heap \ {o} /\ meta' = meta
        /\ call' = [call EXCEPT ![t] =
                      IF y = NULL THEN Idle ELSE Hook("erase", o.addr, o.len, y, 0)]
    BY DEF Deallocate
  <1>2. o.addr \in Nat /\ o.len \in Nat
    BY Layout DEF ShapeInv, TypeOK, Objects, Words
  <1>3. call \in [Threads -> {Idle} \cup Calls] /\ CallTypes
    BY DEF ShapeInv, CallTypes
  <1>4. /\ CallTypes'
        /\ \A u \in Threads \ {t} : call'[u] = call[u]
        /\ y = NULL \/ (y \in Types /\ Elements[y] = <<>>) => call'[t] = Idle
        /\ ~(y = NULL \/ (y \in Types /\ Elements[y] = <<>>)) =>
             /\ call'[t].op = "erase" /\ Done(t)' = 0
             /\ call'[t].addr = o.addr /\ call'[t].len = o.len
             /\ call'[t].type = y
    <2>1. CASE y = NULL
      <3>1. call' = call
        BY <1>1, <1>3, <2>1
      <3>. QED
        BY <1>1, <1>3, <2>1, <3>1 DEF CallTypes, Calling, Last
    <2>2. CASE y # NULL
      <3>1. y \in Types /\ Starts(t, "erase", o.addr, o.len, y, 0)
        BY <1>1, <2>2 DEF Starts
      <3>. QED
        BY <1>1, <1>2, <1>3, <2>2, <3>1, StartsCall
    <2>. QED
      BY <2>1, <2>2
  <1>5. ~Updating(t)'
    BY <1>4 DEF Updating, Idle
  <1>6. ~(y = NULL \/ (y \in Types /\ Elements[y] = <<>>)) => Erasing(t)'
    BY <1>4 DEF Erasing
  <1>7. Registrations'
    <2> SUFFICES ASSUME NEW u \in Threads, Updating(u)'
                 PROVE  (Outside(call[u]) \/ Object(call[u]) \in heap)'
      BY DEF Registrations
    <2>1. u # t
      BY <1>5
    <2>2. call'[u] = call[u] /\ Updating(u) /\ Calling(u)
      BY <1>4, <2>1 DEF Updating, Calling
    <2>3. Object(call[u]) # o
      BY <1>1, <2>2, OwnedQuiet
    <2>. QED
      BY <1>1, <2>2, <2>3 DEF ShapeInv, Registrations, Outside, Ended, Object
  <1>8. TypeOK' /\ HeapShape'
    <2>1. unhandled' \in BOOLEAN
      BY DEF Deallocate
    <2>. QED
      BY <1>1, <1>4, <2>1, CallTypesOps DEF ShapeInv, TypeOK, HeapShape, Inside, Apart, Ended
  <1>. QED
    BY <1>4, <1>5, <1>6, <1>7, <1>8 DEF ShapeInv

LEMMA RuntimeShape ==
  ASSUME ShapeInv, NEW t \in Threads, Runtime(t)
  PROVE  ShapeInv'
  <1>1. meta' \in [Words -> Entry] /\ heap' = heap /\ unhandled' = unhandled
    BY RuntimeTypes DEF ShapeInv
  <1>2. /\ CallTypes'
        /\ \A u \in Threads \ {t} : call'[u] = call[u]
        /\ call'[t] = Idle \/
             /\ call'[t].addr = call[t].addr /\ call'[t].len = call[t].len
             /\ call'[t].type = call[t].type
             /\ Updating(t)' <=> Updating(t)
    BY RuntimeMoves DEF ShapeInv
  <1>3. Registrations'
    <2> SUFFICES ASSUME NEW u \in Threads, Updating(u)'
                 PROVE  (Outside(call[u]) \/ Object(call[u]) \in heap)'
      BY DEF Registrations
    <2>1. CASE u = t
      <3>1. call'[t] # Idle
        BY <2>1 DEF Updating, Idle
      <3>. QED
        BY <1>1, <1>2, <2>1, <3>1 DEF ShapeInv, Registrations, Outside, Ended, Object
    <2>2. CASE u # t
      BY <1>1, <1>2, <2>2 DEF ShapeInv, Registrations, Updating, Outside, Ended, Object
    <2>. QED
      BY <2>1, <2>2
  <1>4. TypeOK' /\ HeapShape'
    BY <1>1, <1>2, CallTypesOps DEF ShapeInv, TypeOK, HeapShape, Inside, Apart, Ended
  <1>. QED
    BY <1>2, <1>3, <1>4 DEF ShapeInv

LEMMA ShapeStep == ShapeInv /\ [Next]_vars => ShapeInv'
  <1> SUFFICES ASSUME ShapeInv, [Next]_vars
               PROVE  ShapeInv'
    OBVIOUS
  <1>1. ASSUME NEW t \in Threads, Program(t)
        PROVE  ShapeInv'
    BY <1>1, ProgramCases, AllocatedShape, RequestFailedShape, DeallocateShape
  <1>2. ASSUME NEW t \in Threads, Runtime(t)
        PROVE  ShapeInv'
    BY <1>2, RuntimeShape
  <1>3. CASE UNCHANGED vars
    BY <1>3 DEF vars, ShapeInv, TypeOK, CallTypes, Calling, Last, HeapShape, Inside,
                Apart, Ended, Registrations, Updating, Object
  <1>. QED
    BY <1>1, <1>2, <1>3 DEF Next

LEMMA InitShape == Init => IInv
  <1> SUFFICES ASSUME Init
               PROVE  IInv
    OBVIOUS
  <1>1. /\ heap = {} /\ call = [t \in Threads |-> Idle] /\ unhandled = FALSE
        /\ meta = [w \in Words |-> NoMeta]
    BY DEF Init
  <1>2. NoMeta \in Entry
    BY DEF NoMeta, Entry
  <1>3. ShapeInv
    BY <1>1, <1>2 DEF ShapeInv, TypeOK, CallTypes, Calling, HeapShape, Registrations,
                      Updating, Idle
  <1>4. \A t \in Threads : ~Calling(t) /\ ~Updating(t) /\ ~Erasing(t)
    BY <1>1 DEF Calling, Updating, Erasing, Idle
  <1>5. Rest
    BY <1>1 DEF Rest, NoMeta
  <1>6. HandledInv
    BY <1>1, <1>4, <1>5
       DEF HandledInv, CallShape, CallsApart, Live, HalfWay, Registering, Forgetting
  <1>. QED
    BY <1>3, <1>6 DEF IInv

-----------------------------------------------------------------------------
(* What a step leaves alone stays as it is.                                *)

LEMMA SameObject ==
  ASSUME NEW o, o.addr \in Extent(o), LiveObject(o),
         \A w \in Extent(o) : meta'[w] = meta[w]
  PROVE  LiveObject(o)'
  BY DEF LiveObject, Described, FirstWordOnly

LEMMA SameThread ==
  ASSUME NEW t, call'[t] = call[t], call[t].addr \in Extent(call[t]),
         \A w \in Extent(call[t]) : meta'[w] = meta[w],
         Registering(t), Forgetting(t)
  PROVE  Registering(t)' /\ Forgetting(t)'
  <1>1. /\ Updating(t)' <=> Updating(t)
        /\ Erasing(t)' <=> Erasing(t)
        /\ Done(t)' = Done(t)
    BY DEF Updating, Erasing, Done
  <1>2. /\ FirstWordOnly(call[t]) => FirstWordOnly(call[t])'
        /\ RegisteredTo(call[t], Done(t)) => RegisteredTo(call[t], Done(t))'
        /\ ForgottenTo(call[t], Done(t)) => ForgottenTo(call[t], Done(t))'
    BY <1>1 DEF FirstWordOnly, RegisteredTo, ForgottenTo, Describes
  <1>3. meta'[call'[t].addr].size = meta[call[t].addr].size
    OBVIOUS
  <1>. QED
    BY <1>1, <1>2, <1>3 DEF Registering, Forgetting

(* A call that is not about NULL is about memory of the heap.              *)
LEMMA CallInside ==
  ASSUME ShapeInv, CallShape, NEW t \in Threads, Calling(t)
  PROVE  /\ call[t].addr \in Nat /\ call[t].len \in Nat
         /\ Outside(call[t]) <=> ~Inside(call[t])
         /\ Outside(call[t]) => Updating(t)
         /\ Inside(call[t]) =>
              /\ call[t].len > 0 /\ call[t].addr \in Extent(call[t])
              /\ Size[call[t].type] <= call[t].len
              /\ Extent(call[t]) \subseteq Words
         /\ Inside(call[t]) /\ Updating(t) => Object(call[t]) \in heap
  <1>1. /\ call[t].addr \in Nat /\ call[t].len \in Nat /\ call[t].type \in Types
        /\ Updating(t) \/ Erasing(t)
    BY CallFields DEF ShapeInv
  <1>2. ~(Outside(call[t]) /\ Inside(call[t]))
    BY <1>1, Layout DEF Outside, Inside
  <1>3. Erasing(t) => Inside(call[t]) /\ Size[call[t].type] <= call[t].len
    BY DEF CallShape
  <1>4. Updating(t) => Outside(call[t]) \/ Object(call[t]) \in heap
    BY DEF ShapeInv, Registrations
  <1>5. Object(call[t]) \in heap =>
          Inside(call[t]) /\ Size[call[t].type] <= call[t].len
    BY DEF ShapeInv, HeapShape, Object, Inside, Ended
  <1>6. Inside(call[t]) => Size[call[t].type] <= call[t].len
    BY <1>1, <1>2, <1>3, <1>4, <1>5
  <1>7. Inside(call[t]) => call[t].len > 0
    BY <1>1, <1>6, Layout
  <1>8. Inside(call[t]) => /\ call[t].addr \in Extent(call[t])
                           /\ Extent(call[t]) \subseteq Words
    BY <1>1, <1>7, ApartExtents
  <1>. QED
    BY <1>1, <1>2, <1>3, <1>4, <1>5, <1>6, <1>7, <1>8

LEMMA HeapObject ==
  ASSUME ShapeInv, NEW o \in heap
  PROVE  /\ o.addr \in Nat /\ o.len \in Nat /\ o.type \in Types /\ o.len > 0
         /\ Inside(o) /\ Size[o.type] <= o.len
         /\ o.addr \in Extent(o) /\ Extent(o) \subseteq Words
         /\ o = [addr |-> o.addr, len |-> o.len, type |-> o.type]
  <1>1. /\ o.addr \in Nat /\ o.len \in Nat /\ o.type \in Types /\ o.len > 0
        /\ Inside(o) /\ Size[o.type] <= o.len
    BY Layout DEF ShapeInv, TypeOK, HeapShape, Objects, Words
  <1>2. o.addr \in Extent(o) /\ Extent(o) \subseteq Words
    BY <1>1, ApartExtents
  <1>3. o = [addr |-> o.addr, len |-> o.len, type |-> o.type]
    BY DEF ShapeInv, TypeOK, Objects
  <1>. QED
    BY <1>1, <1>2, <1>3


-----------------------------------------------------------------------------
(* What the program does to handled memory.                                *)

LEMMA SameFields ==
  ASSUME NEW o, NEW p, o.addr = p.addr, o.len = p.len, o.type = p.type
  PROVE  /\ Extent(o) = Extent(p) /\ Count(o) = Count(p)
         /\ \A w : MembersAt(o, w) = MembersAt(p, w)
         /\ Inside(o) <=> Inside(p)
         /\ Outside(o) <=> Outside(p)
         /\ \A q : (Apart(o, q) <=> Apart(p, q)) /\ (Apart(q, o) <=> Apart(q, p))
  BY DEF Extent, Count, MembersAt, Inside, Outside, Apart, Ended

(* A thread that starts a sequence of calls disturbs nobody's peace.       *)
LEMMA QuietBefore ==
  ASSUME NEW t \in Threads, call[t] = Idle,
         \A u \in Threads \ {t} : call'[u] = call[u],
         NEW words, Quiet(words)'
  PROVE  Quiet(words)
  <1>1. Pending(t) = {}
    BY DEF Pending, Idle
  <1>2. \A u \in Threads \ {t} : Pending(u)' = Pending(u)
    BY DEF Pending
  <1>. QED
    BY <1>1, <1>2 DEF Quiet

LEMMA SameMeta ==
  ASSUME NEW o, meta' = meta, LiveObject(o)
  PROVE  LiveObject(o)'
  BY DEF LiveObject, Described, FirstWordOnly

(* The memory of a new object is empty, or its predecessor's whose type it *)
(* has.                                                                    *)
LEMMA AllocatedClean ==
  ASSUME ShapeInv, HandledInv, ~unhandled', NEW t \in Threads,
         NEW others \in SUBSET heap, NEW addr \in Words, NEW len \in Nat,
         NEW y \in Types, NEW count \in Nat,
         Allocated(t, others, addr, len, y, count),
         NEW new, new = [addr |-> addr, len |-> len, type |-> y]
  PROVE  \A w \in Extent(new) :
           /\ MembersAt(new, w) = {} => meta[w].ref = NULL
           /\ w # addr \/ Elements[y] = <<>> => meta[w].size = 0
  <1>0. /\ call[t] = Idle
        /\ Extent(new) \subseteq Words
        /\ \A o \in others : Extent(o) \cap Extent(new) = {}
        /\ \A o \in heap \ others : Owned(o)
        /\ ~Reused(t, addr, len)
        /\ \A o \in heap \ others : o.type = y /\ o.addr = addr /\ o.len <= len
    BY DEF Allocated, Extent
  <1>1. /\ new.addr = addr /\ new.len = len /\ new.type = y /\ addr \in Nat
    BY Layout DEF Words
  <1> SUFFICES ASSUME NEW w \in Extent(new)
               PROVE  /\ MembersAt(new, w) = {} => meta[w].ref = NULL
                      /\ w # addr \/ Elements[y] = <<>> => meta[w].size = 0
    OBVIOUS
  <1>2. ASSUME NEW o \in heap, w \in Extent(o)
        PROVE  /\ MembersAt(new, w) = {} => meta[w].ref = NULL
               /\ w # addr \/ Elements[y] = <<>> => meta[w].size = 0
    <2>1. o \in heap \ others
      BY <1>0, <1>2
    <2>2. /\ o.type = y /\ o.addr = addr /\ o.len <= len /\ o.len \in Nat
          /\ Quiet(Extent(o))
      BY <1>0, <2>1, HeapObject DEF Owned
    <2>3. Described(o) /\ FirstWordOnly(o)
          /\ (Elements[o.type] = <<>> => meta[o.addr].size = 0)
      BY <2>2 DEF HandledInv, Live, LiveObject
    <2>4. MembersAt(o, w) \subseteq MembersAt(new, w)
      BY <1>1, <2>2, MembersOfExtended
    <2>5. MembersAt(new, w) = {} => meta[w].ref = NULL
      BY <1>2, <2>3, <2>4 DEF Described
    <2>6. w # addr => meta[w].size = 0
      BY <1>2, <2>2, <2>3 DEF FirstWordOnly
    <2>. QED
      BY <2>2, <2>3, <2>5, <2>6
  <1>3. ASSUME \A o \in heap : w \notin Extent(o)
        PROVE  meta[w].ref = NULL /\ meta[w].size = 0
    <2>1. Quiet({w})
      <3>1. Pending(t) = {}
        BY <1>0 DEF Pending, Idle
      <3>2. \A u \in Threads \ {t} : w \notin Pending(u)
        BY <1>0, <1>1 DEF Reused, Extent
      <3>. QED
        BY <3>1, <3>2 DEF Quiet
    <2>. QED
      BY <1>0, <1>3, <2>1 DEF HandledInv, Rest
  <1>. QED
    BY <1>2, <1>3

(* A thread whose call and memory nobody changed is as far as it was.      *)
LEMMA SameProgress ==
  ASSUME ShapeInv, HandledInv, NEW u \in Threads, call'[u] = call[u],
         Calling(u) /\ Inside(call[u])
           => \A w \in Extent(call[u]) : meta'[w] = meta[w]
  PROVE  Registering(u)' /\ Forgetting(u)'
  <1>1. Registering(u) /\ Forgetting(u)
    BY DEF HandledInv, HalfWay
  <1>2. CASE Calling(u) /\ Inside(call[u])
    <2>1. call[u].addr \in Extent(call[u])
      BY <1>2, CallInside DEF HandledInv
    <2>. QED
      BY <1>1, <1>2, <2>1, SameThread
  <1>3. CASE Calling(u) /\ ~Inside(call[u])
    <2>1. ~Erasing(u)
      BY <1>3 DEF HandledInv, CallShape
    <2>2. ~Erasing(u)' /\ ~Inside(call[u])'
      BY <1>3, <2>1 DEF Erasing, Inside, Ended
    <2>. QED
      BY <2>2 DEF Registering, Forgetting
  <1>4. CASE ~Calling(u)
    BY <1>4 DEF Calling, Registering, Forgetting, Updating, Erasing
  <1>. QED
    BY <1>2, <1>3, <1>4


LEMMA AllocatedHandled ==
  ASSUME ShapeInv, HandledInv, ~unhandled', NEW t \in Threads,
         NEW others \in SUBSET heap, NEW addr \in Words, NEW len \in Nat,
         NEW y \in Types, NEW count \in Nat,
         Allocated(t, others, addr, len, y, count)
  PROVE  HandledInv'
  <1>0. /\ call[t] = Idle
        /\ Size[y] <= len
        /\ addr .. addr + len - 1 \subseteq Words
        /\ \A o \in others : Extent(o) \cap (addr .. addr + len - 1) = {}
        /\ Allocate(t, others, addr, len, y, count)
        /\ meta' = meta
        /\ count = len \div Size[y]
        /\ ~Reused(t, addr, len)
        /\ \A o \in heap \ others : o.type = y /\ o.addr = addr /\ o.len <= len
    BY DEF Allocated
  <1> DEFINE new == [addr |-> addr, len |-> len, type |-> y]
  <1>1. /\ new.addr = addr /\ new.len = len /\ new.type = y
        /\ addr \in Nat /\ len > 0 /\ Size[y] \in Nat \ {0}
    BY <1>0, Layout DEF Words
  <1>2. heap' = others \cup {new}
    BY <1>0 DEF Allocate
  <1>3. Starts(t, "update", addr, len, y, count) /\ CallTypes
    BY <1>0 DEF Allocate, Starts, ShapeInv
  <1>4. \A w \in Extent(new) :
          /\ MembersAt(new, w) = {} => meta[w].ref = NULL
          /\ w # addr \/ Elements[y] = <<>> => meta[w].size = 0
    BY ZenonT(60), AllocatedClean
  <1> HIDE DEF new
  <1>5. /\ \A u \in Threads \ {t} : call'[u] = call[u]
        /\ Elements[y] = <<>> => call'[t] = Idle
        /\ Elements[y] # <<>> =>
             /\ call'[t].op = "update" /\ call'[t].addr = new.addr
             /\ call'[t].len = new.len /\ call'[t].type = new.type
             /\ call'[t].count = count /\ Done(t)' = 0
    BY <1>0, <1>1, <1>3, StartsCall
  <1>6. /\ Extent(new) = addr .. addr + len - 1
        /\ addr \in Extent(new) /\ Extent(new) \subseteq Words
        /\ count = Count(new)
    BY <1>0, <1>1, ApartExtents DEF Extent, Count
  <1>7. ~Erasing(t)' /\ ~Erasing(t) /\ ~Calling(t)
    BY <1>0, <1>5 DEF Erasing, Calling, Idle
  <1>8. \A u \in Threads \ {t} : /\ Updating(u)' <=> Updating(u)
                                 /\ Erasing(u)' <=> Erasing(u)
                                 /\ Calling(u)' <=> Calling(u)
    BY <1>5 DEF Updating, Erasing, Calling
  <1>9. ASSUME NEW u \in Threads \ {t}, Calling(u), ~Outside(call[u])
        PROVE  Apart(call[u], new) /\ Apart(new, call[u])
    <2>1. Extent(call[u]) \cap Extent(new) = {}
      BY <1>0, <1>6, <1>9 DEF Reused, Pending, Calling
    <2>2. call[u].addr \in Nat /\ call[u].len \in Nat /\ call[u].len > 0
      BY <1>9, CallInside DEF HandledInv
    <2>3. Apart(call[u], new)
      BY <1>1, <2>1, <2>2, ApartExtents
    <2>. QED
      BY <2>3 DEF Apart
  <1>10. CallShape'
    <2> SUFFICES ASSUME NEW u \in Threads
                 PROVE  (/\ Updating(u) => Counted(call[u])
                         /\ Erasing(u) => /\ Inside(call[u])
                                          /\ Size[call[u].type] <= call[u].len
                                          /\ \A o \in heap : Apart(call[u], o))'
      BY DEF CallShape
    <2>1. CASE u = t
      <3>1. Updating(t)' => Elements[y] # <<>>
        BY <1>5 DEF Updating, Idle
      <3>2. Updating(t)' => Counted(call'[t])
        <4>1. ASSUME Elements[y] # <<>>
              PROVE  Counted(call'[t])
          <5>1. call'[t].addr >= Base
            BY <1>1, <1>5, <4>1, Layout DEF Words
          <5>2. ~Outside(call'[t])
            BY <1>1, <1>5, <4>1, <5>1, Layout DEF Outside
          <5>3. call'[t].count = Count(call'[t])
            BY <1>5, <1>6, <4>1 DEF Count
          <5>. QED
            BY <5>2, <5>3 DEF Counted
        <4>. QED
          BY <3>1, <4>1
      <3>. QED
        BY <1>7, <2>1, <3>2 DEF Counted, Count, Outside, Ended
    <2>2. CASE u # t
      <3>1. call'[u] = call[u] /\ u \in Threads \ {t}
        BY <1>5, <2>2
      <3>2. Updating(u)' => Counted(call'[u])
        BY <1>8, <3>1 DEF HandledInv, CallShape
      <3>3. Erasing(u) => /\ Inside(call[u])
                          /\ Size[call[u].type] <= call[u].len
                          /\ \A o \in heap : Apart(call[u], o)
        BY DEF HandledInv, CallShape
      <3>4. Erasing(u) => Apart(call[u], new)
        <4>1. Erasing(u) => Calling(u)
          BY DEF Erasing, Calling
        <4>2. Erasing(u) => ~Outside(call[u])
          BY <3>3, <4>1, CallInside DEF HandledInv
        <4>. QED
          BY <1>9, <3>1, <4>1, <4>2
      <3>5. Erasing(u) => \A o \in heap' : Apart(call[u], o)
        BY <1>2, <3>3, <3>4
      <3>. QED
        BY <1>8, <3>1, <3>2, <3>3, <3>5 DEF Counted, Count, Inside, Outside, Apart, Ended
    <2>. QED
      BY <2>1, <2>2
  <1>11. CallsApart'
    <2>1. ASSUME NEW u \in Threads \ {t}
          PROVE  \/ ~Calling(t)' \/ ~Calling(u)' \/ Outside(call'[u])
                 \/ Apart(call'[t], call'[u]) /\ Apart(call'[u], call'[t])
      <3>1. Calling(t)' => /\ call'[t].addr = new.addr /\ call'[t].len = new.len
                           /\ call'[t].type = new.type
        BY <1>5 DEF Calling, Idle
      <3>2. Calling(t)' => /\ Apart(call[u], new) <=> Apart(call[u], call'[t])
                           /\ Apart(new, call[u]) <=> Apart(call'[t], call[u])
        BY <3>1, SameFields
      <3>. QED
        BY <1>5, <1>8, <1>9, <3>2
    <2>2. ASSUME NEW u \in Threads \ {t}, NEW v \in Threads \ {t}
          PROVE  \/ u = v
                 \/ ~Calling(u)' \/ Outside(call'[u])
                 \/ ~Calling(v)' \/ Outside(call'[v])
                 \/ Apart(call'[u], call'[v])
      BY <1>5, <1>8 DEF HandledInv, CallsApart
    <2>. QED
      BY <2>1, <2>2 DEF CallsApart, Outside, Apart, Ended
  <1>12. Live'
    <2> SUFFICES ASSUME NEW o \in heap', Quiet(Extent(o))'
                 PROVE  LiveObject(o)'
      BY DEF Live
    <2>1. CASE o \in others
      <3>1. Quiet(Extent(o))
        BY <1>0, <1>5, QuietBefore DEF Extent
      <3>. QED
        BY <1>0, <2>1, <3>1, SameMeta DEF HandledInv, Live
    <2>2. CASE o = new
      <3>1. Calling(t)' => Pending(t)' = Extent(new)
        BY <1>5 DEF Calling, Pending, Extent, Idle
      <3>2. ~Calling(t)'
        BY <1>6, <2>2, <3>1 DEF Quiet, Extent
      <3>3. Elements[y] = <<>>
        BY <1>5, <3>2 DEF Calling
      <3>4. \A w : MembersAt(new, w) = {}
        BY <1>1, <3>3 DEF MembersAt
      <3>5. Described(new)
        BY <1>1, <1>4, <3>3, <3>4 DEF Described
      <3>6. FirstWordOnly(new) /\ meta[new.addr].size = 0
        BY <1>1, <1>4, <1>6, <3>3 DEF FirstWordOnly
      <3>7. LiveObject(new)
        BY <3>5, <3>6 DEF LiveObject
      <3>. QED
        BY <1>0, <2>2, <3>7, SameMeta
    <2>. QED
      BY <1>2, <2>1, <2>2
  <1>13. HalfWay'
    <2>1. ASSUME NEW u \in Threads \ {t}
          PROVE  Registering(u)' /\ Forgetting(u)'
      BY <1>0, <1>5, SameProgress
    <2>2. Forgetting(t)'
      BY <1>7 DEF Forgetting
    <2>3. Registering(t)'
      <3> SUFFICES ASSUME Updating(t)'
                   PROVE  (FirstWordOnly(call[t]) /\ RegisteredTo(call[t], Done(t)))'
        BY DEF Registering
      <3>1. Elements[y] # <<>>
        BY <1>5 DEF Updating, Idle
      <3>2. /\ call'[t].addr = addr /\ call'[t].type = y
            /\ Done(t)' = 0 /\ Extent(call'[t]) = Extent(new)
            /\ \A w : MembersAt(call'[t], w) = MembersAt(new, w)
        BY <1>1, <1>5, <3>1, SameFields
      <3>3. FirstWordOnly(call[t])'
        BY <1>0, <1>4, <3>2 DEF FirstWordOnly, Extent
      <3>4. RegisteredTo(call[t], Done(t))'
        <4>1. \A w : MembersAt(new, w) \subseteq 1 .. Len(Elements[y])
          BY <1>1 DEF MembersAt
        <4>2. \A w : \A j \in MembersAt(new, w) : ~(j <= 0)
          BY <4>1, Layout
        <4>3. \A w \in Extent(call'[t]) :
                /\ MembersAt(call'[t], w) = {} => meta'[w].ref = NULL
                /\ \A j \in MembersAt(call'[t], w) : ~(j <= Done(t)')
          BY <1>0, <1>4, <3>2, <4>2
        <4>. QED
          BY <4>3 DEF RegisteredTo, Extent, MembersAt
      <3>. QED
        BY <3>3, <3>4
    <2>. QED
      BY <2>1, <2>2, <2>3 DEF HalfWay
  <1>14. Rest'
    <2> SUFFICES ASSUME NEW w \in Words, \A o \in heap' : w \notin Extent(o),
                        Quiet({w})'
                 PROVE  meta[w].ref = NULL /\ meta[w].size = 0
      BY <1>0 DEF Rest, Extent
    <2>1. Quiet({w})
      BY <1>0, <1>5, QuietBefore
    <2>2. ASSUME NEW o \in heap
          PROVE  w \notin Extent(o)
      <3>1. CASE o \in others
        BY <1>2, <3>1
      <3>2. CASE o \notin others
        <4>1. o.addr = addr /\ o.len <= len /\ o.len \in Nat
          BY <1>0, <3>2, HeapObject
        <4>2. Extent(o) \subseteq Extent(new)
          BY <1>1, <1>6, <4>1 DEF Extent
        <4>. QED
          BY <1>2, <4>2
      <3>. QED
        BY <3>1, <3>2
    <2>. QED
      BY <2>1, <2>2 DEF HandledInv, Rest
  <1>. QED
    BY <1>10, <1>11, <1>12, <1>13, <1>14 DEF HandledInv


LEMMA RequestFailedHandled ==
  ASSUME ShapeInv, HandledInv, ~unhandled', NEW t \in Threads, NEW y \in Types,
         NEW count \in Nat, RequestFailed(t, y, count)
  PROVE  HandledInv'
  <1>1. call[t] = Idle /\ heap' = heap /\ meta' = meta
    BY DEF RequestFailed
  <1>2. /\ \A u \in Threads \ {t} : call'[u] = call[u]
        /\ call'[t] = Idle \/ /\ Updating(t)' /\ ~Erasing(t)'
                              /\ Outside(call'[t])
                              /\ Counted(call'[t])
                              /\ call'[t].addr = 0
    BY RequestFailedShape
  <1>3. ~Erasing(t)' /\ (Calling(t)' => Outside(call'[t]))
        /\ (Updating(t)' => Counted(call'[t]))
    BY <1>2 DEF Erasing, Updating, Calling, Idle
  <1>4. ~(Updating(t)' /\ Inside(call'[t]))
    <2>1. call'[t] # Idle => ~Inside(call'[t])
      BY <1>2, Layout DEF Inside
    <2>. QED
      BY <2>1 DEF Updating, Idle
  <1>5. CallShape'
    <2>1. \A u \in Threads : Updating(u)' => Counted(call'[u])
      <3> SUFFICES ASSUME NEW u \in Threads, Updating(u)'
                   PROVE  Counted(call'[u])
        OBVIOUS
      <3>1. u # t => call'[u] = call[u] /\ Updating(u)
        BY <1>2 DEF Updating
      <3>. QED
        BY <1>3, <3>1 DEF HandledInv, CallShape
    <2>2. \A u \in Threads : Erasing(u)' => u # t /\ call'[u] = call[u] /\ Erasing(u)
      BY <1>2, <1>3 DEF Erasing
    <2>3. \A u \in Threads : Erasing(u)' =>
            /\ Inside(call'[u])
            /\ Size[call'[u].type] <= call'[u].len
            /\ \A o \in heap' : Apart(call'[u], o)
      BY <1>1, <2>2 DEF HandledInv, CallShape
    <2>. QED
      BY <2>1, <2>3 DEF CallShape, Counted, Count, Inside, Outside, Apart, Ended
  <1>6. CallsApart'
    <2>1. \A u \in Threads : Calling(u)' => \/ Outside(call'[u])
                                            \/ call'[u] = call[u] /\ Calling(u)
      BY <1>2, <1>3 DEF Calling
    <2>2. ASSUME NEW u \in Threads, NEW v \in Threads
          PROVE  \/ u = v
                 \/ ~Calling(u)' \/ Outside(call'[u])
                 \/ ~Calling(v)' \/ Outside(call'[v])
                 \/ Apart(call'[u], call'[v])
      BY <2>1 DEF HandledInv, CallsApart
    <2>. QED
      BY <2>2 DEF CallsApart, Outside, Apart, Ended
  <1>7. Live'
    <2>1. ASSUME NEW o \in heap, Quiet(Extent(o))'
          PROVE  LiveObject(o)'
      <3>1. Quiet(Extent(o))
        BY <1>1, <1>2, <2>1, QuietBefore DEF Extent
      <3>. QED
        BY <1>1, <3>1, SameMeta DEF HandledInv, Live
    <2>. QED
      BY <1>1, <2>1 DEF Live
  <1>8. HalfWay'
    <2>1. \A u \in Threads \ {t} : Registering(u)' /\ Forgetting(u)'
      BY <1>1, <1>2, SameProgress
    <2>2. Registering(t)' /\ Forgetting(t)'
      BY <1>3, <1>4 DEF Registering, Forgetting, Inside, Ended
    <2>. QED
      BY <2>1, <2>2 DEF HalfWay
  <1>9. Rest'
    <2>1. \A w \in Words : Quiet({w})' => Quiet({w})
      BY <1>1, <1>2, QuietBefore
    <2>. QED
      BY <1>1, <2>1 DEF HandledInv, Rest, Extent
  <1>. QED
    BY <1>5, <1>6, <1>7, <1>8, <1>9 DEF HandledInv

LEMMA DeallocateHandled ==
  ASSUME ShapeInv, HandledInv, ~unhandled', NEW t \in Threads, NEW o \in heap,
         NEW y \in Types \cup {NULL}, Deallocate(t, o, y)
  PROVE  HandledInv'
  <1>1. /\ call[t] = Idle /\ Owned(o)
        /\ heap' = heap \ {o} /\ meta' = meta
        /\ y = o.type \/ (y = NULL /\ Elements[o.type] = <<>>)
    BY DEF Deallocate
  <1>2. /\ o.addr \in Nat /\ o.len \in Nat /\ o.type \in Types /\ o.len > 0
        /\ Inside(o) /\ Size[o.type] <= o.len
        /\ o.addr \in Extent(o)
    BY HeapObject
  <1>3. /\ \A u \in Threads \ {t} : call'[u] = call[u]
        /\ Elements[o.type] = <<>> => call'[t] = Idle
        /\ Elements[o.type] # <<>> =>
             /\ Erasing(t)' /\ ~Updating(t)' /\ Done(t)' = 0
             /\ call'[t].addr = o.addr /\ call'[t].len = o.len
             /\ call'[t].type = o.type
    <2>1. NULL \notin Types
      BY LayoutAssumption
    <2>. QED
      BY <1>1, <1>2, <2>1, DeallocateShape
  <1>4. ~Updating(t)' /\ (Erasing(t)' <=> Calling(t)')
        /\ (Calling(t)' => Elements[o.type] # <<>>)
    BY <1>3 DEF Updating, Erasing, Calling, Idle
  <1>5. LiveObject(o)
    BY <1>1 DEF HandledInv, Live, Owned
  <1>6. \A u \in Threads \ {t} : /\ Updating(u)' <=> Updating(u)
                                 /\ Erasing(u)' <=> Erasing(u)
                                 /\ Calling(u)' <=> Calling(u)
    BY <1>3 DEF Updating, Erasing, Calling
  <1>7. ASSUME NEW u \in Threads \ {t}, Calling(u), ~Outside(call[u])
        PROVE  Apart(call[u], o) /\ Apart(o, call[u])
    <2>1. Extent(call[u]) \cap Extent(o) = {}
      BY <1>1, <1>7, OwnedQuiet
    <2>2. call[u].addr \in Nat /\ call[u].len \in Nat /\ call[u].len > 0
      BY <1>7, CallInside DEF HandledInv
    <2>3. Apart(call[u], o)
      BY <1>2, <2>1, <2>2, ApartExtents
    <2>. QED
      BY <2>3 DEF Apart
  <1>8. Calling(t)' =>
          /\ Extent(call'[t]) = Extent(o) /\ Count(call'[t]) = Count(o)
          /\ \A w : MembersAt(call'[t], w) = MembersAt(o, w)
          /\ Inside(call'[t])
          /\ \A q : /\ Apart(call'[t], q) <=> Apart(o, q)
                    /\ Apart(q, call'[t]) <=> Apart(q, o)
    BY <1>2, <1>3, <1>4, SameFields
  <1>9. CallShape'
    <2>1. \A u \in Threads : Updating(u)' => Counted(call'[u])
      <3> SUFFICES ASSUME NEW u \in Threads, Updating(u)'
                   PROVE  Counted(call'[u])
        OBVIOUS
      <3>1. u # t
        BY <1>4
      <3>. QED
        BY <1>3, <1>6, <3>1 DEF HandledInv, CallShape
    <2>2. ASSUME NEW u \in Threads, Erasing(u)'
          PROVE  /\ Inside(call'[u])
                 /\ Size[call'[u].type] <= call'[u].len
                 /\ \A p \in heap' : Apart(call'[u], p)
      <3>1. CASE u = t
        <4>1. \A p \in heap \ {o} : Apart(o, p)
          BY DEF ShapeInv, HeapShape
        <4>. QED
          BY <1>1, <1>2, <1>3, <1>4, <1>8, <2>2, <3>1, <4>1
      <3>2. CASE u # t
        BY <1>1, <1>3, <1>6, <2>2, <3>2 DEF HandledInv, CallShape
      <3>. QED
        BY <3>1, <3>2
    <2>. QED
      BY <2>1, <2>2 DEF CallShape, Counted, Count, Inside, Outside, Apart, Ended
  <1>10. CallsApart'
    <2>1. ASSUME NEW u \in Threads \ {t}
          PROVE  \/ ~Calling(t)' \/ ~Calling(u)' \/ Outside(call'[u])
                 \/ Apart(call'[t], call'[u]) /\ Apart(call'[u], call'[t])
      BY <1>3, <1>6, <1>7, <1>8
    <2>2. ASSUME NEW u \in Threads \ {t}, NEW v \in Threads \ {t}
          PROVE  \/ u = v
                 \/ ~Calling(u)' \/ Outside(call'[u])
                 \/ ~Calling(v)' \/ Outside(call'[v])
                 \/ Apart(call'[u], call'[v])
      BY <1>3, <1>6 DEF HandledInv, CallsApart
    <2>. QED
      BY <2>1, <2>2 DEF CallsApart, Outside, Apart, Ended
  <1>11. Live'
    <2>1. ASSUME NEW p \in heap, Quiet(Extent(p))'
          PROVE  LiveObject(p)'
      <3>1. Quiet(Extent(p))
        BY <1>1, <1>3, <2>1, QuietBefore DEF Extent
      <3>. QED
        BY <1>1, <3>1, SameMeta DEF HandledInv, Live
    <2>. QED
      BY <1>1, <2>1 DEF Live
  <1>12. HalfWay'
    <2>1. \A u \in Threads \ {t} : Registering(u)' /\ Forgetting(u)'
      BY <1>1, <1>3, SameProgress
    <2>2. Registering(t)'
      BY <1>4 DEF Registering
    <2>3. Forgetting(t)'
      <3> SUFFICES ASSUME Erasing(t)'
                   PROVE  (/\ FirstWordOnly(call[t])
                           /\ meta[call[t].addr].size = Count(call[t])
                           /\ ForgottenTo(call[t], Done(t)))'
        BY DEF Forgetting
      <3>1. /\ Calling(t)' /\ Elements[o.type] # <<>> /\ Done(t)' = 0
            /\ call'[t].addr = o.addr
        BY <1>3, <1>4
      <3>2. FirstWordOnly(call[t])'
        BY <1>1, <1>5, <1>8, <3>1 DEF LiveObject, FirstWordOnly, Extent
      <3>3. meta'[call'[t].addr].size = Count(call'[t])
        BY <1>1, <1>5, <1>8, <3>1 DEF LiveObject, Described, Count
      <3>4. ForgottenTo(call[t], Done(t))'
        <4>1. \A w : MembersAt(o, w) \subseteq 1 .. Len(Elements[o.type])
          BY DEF MembersAt
        <4>2. \A w : \A j \in MembersAt(o, w) : j > 0
          BY <1>2, <4>1, Layout
        <4>3. \A w \in Extent(o) : meta[w].ref = NULL \/ \E j \in MembersAt(o, w) : TRUE
          BY <1>5 DEF LiveObject, Described
        <4>4. \A w \in Extent(call'[t]) :
                meta'[w].ref = NULL \/ \E j \in MembersAt(call'[t], w) : j > Done(t)'
          BY <1>1, <1>8, <3>1, <4>2, <4>3
        <4>. QED
          BY <4>4 DEF ForgottenTo, Extent, MembersAt
      <3>. QED
        BY <3>2, <3>3, <3>4 DEF Count
    <2>. QED
      BY <2>1, <2>2, <2>3 DEF HalfWay
  <1>13. Rest'
    <2> SUFFICES ASSUME NEW w \in Words, \A p \in heap' : w \notin Extent(p),
                        Quiet({w})'
                 PROVE  meta[w].ref = NULL /\ meta[w].size = 0
      BY <1>1 DEF Rest, Extent
    <2>1. Quiet({w})
      BY <1>1, <1>3, QuietBefore
    <2>2. CASE w \in Extent(o)
      <3>1. Calling(t)' => Pending(t)' = Extent(o)
        BY <1>8 DEF Calling, Pending, Extent
      <3>2. ~Calling(t)'
        BY <2>2, <3>1 DEF Quiet
      <3>3. Elements[o.type] = <<>>
        BY <1>3, <1>4, <3>2
      <3>4. MembersAt(o, w) = {}
        BY <1>2, <3>3, Layout DEF MembersAt
      <3>. QED
        BY <1>5, <2>2, <3>3, <3>4 DEF LiveObject, Described, FirstWordOnly
    <2>3. CASE w \notin Extent(o)
      BY <1>1, <2>1, <2>3 DEF HandledInv, Rest
    <2>. QED
      BY <2>2, <2>3
  <1>. QED
    BY <1>9, <1>10, <1>11, <1>12, <1>13 DEF HandledInv


-----------------------------------------------------------------------------
(* What the runtime does to handled memory.                                *)

(* Only words of the memory the call is about are written, and of those    *)
(* the ones of the member, or the first.                                   *)
LEMMA RuntimeWrites ==
  ASSUME ShapeInv, HandledInv, NEW t \in Threads, Runtime(t), NEW w \in Words
  PROVE  /\ UpdateObjTrace(t) =>
              meta'[w] = IF call[t].k \in MembersAt(call[t], w)
                         THEN [ref |-> Member(t)[2], size |-> 0, off |-> Member(t)[1]]
                         ELSE meta[w]
         /\ UpdateArraySize(t) =>
              /\ meta'[w].ref = meta[w].ref /\ meta'[w].off = meta[w].off
              /\ w # call[t].addr => meta'[w] = meta[w]
              /\ w = call[t].addr => meta'[w].size = Count(call[t])
         /\ EraseObj(t) =>
              meta'[w] = IF call[t].k \in MembersAt(call[t], w)
                         THEN [meta[w] EXCEPT !.ref = NULL]
                         ELSE meta[w]
         /\ EraseArraySize(t) =>
              /\ meta'[w].ref = meta[w].ref
              /\ w # call[t].addr => meta'[w] = meta[w]
              /\ w = call[t].addr => meta'[w].size = 0
         /\ w \notin Extent(call[t]) => meta'[w] = meta[w]
  <1>1. Calling(t) /\ meta \in [Words -> Entry]
    BY RuntimeMoves DEF ShapeInv, TypeOK
  <1>2. /\ call[t].addr \in Nat /\ call[t].len \in Nat /\ call[t].type \in Types
        /\ call[t].k \in 1 .. Len(Elements[call[t].type])
    BY <1>1, CallFields DEF ShapeInv
  <1>3. /\ w \in MemberWords(t, Count(call[t])) <=> call[t].k \in MembersAt(call[t], w)
        /\ call[t].k \in MembersAt(call[t], w) => w \in Extent(call[t])
    BY <1>2, MemberWordsAt, MembersAtMostOne
  <1>4. w = call[t].addr => w \in Extent(call[t])
    <2>1. Inside(call[t]) => call[t].addr \in Extent(call[t])
      BY <1>1, CallInside DEF HandledInv
    <2>2. Outside(call[t]) => w # call[t].addr
      BY <1>2, Layout DEF Outside, Words
    <2>. QED
      BY <1>1, <2>1, <2>2, CallInside DEF HandledInv
  <1>5. meta[w] \in Entry
    BY <1>1
  <1>6. ASSUME UpdateObjTrace(t)
        PROVE  meta'[w] = IF call[t].k \in MembersAt(call[t], w)
                          THEN [ref |-> Member(t)[2], size |-> 0, off |-> Member(t)[1]]
                          ELSE meta[w]
    <2>1. Counted(call[t]) /\ call[t].count \in Nat
      BY <1>1, <1>6, CallFields DEF UpdateObjTrace, ShapeInv, HandledInv, CallShape, Updating
    <2>2. w \in MemberWords(t, call[t].count) <=> call[t].k \in MembersAt(call[t], w)
      BY <1>2, <2>1, CountedWords
    <2>. QED
      BY <1>6, <2>2 DEF UpdateObjTrace
  <1>7. ASSUME UpdateArraySize(t)
        PROVE  /\ meta'[w].ref = meta[w].ref /\ meta'[w].off = meta[w].off
               /\ w # call[t].addr => meta'[w] = meta[w]
               /\ w = call[t].addr => meta'[w].size = Count(call[t])
    <2>1. w = call[t].addr => call[t].count = Count(call[t])
      <3>1. Counted(call[t])
        BY <1>7 DEF UpdateArraySize, HandledInv, CallShape, Updating
      <3>2. w = call[t].addr => ~Outside(call[t])
        BY <1>2, Layout DEF Outside, Words
      <3>. QED
        BY <3>1, <3>2 DEF Counted
    <2>2. meta' = IF call[t].addr \in Words
                  THEN [meta EXCEPT ![call[t].addr].size = call[t].count]
                  ELSE meta
      BY <1>7 DEF UpdateArraySize
    <2>. QED
      BY <1>1, <1>5, <2>1, <2>2 DEF Entry
  <1>8. ASSUME EraseObj(t)
        PROVE  meta'[w] = IF call[t].k \in MembersAt(call[t], w)
                          THEN [meta[w] EXCEPT !.ref = NULL]
                          ELSE meta[w]
    <2>1. Erasing(t)
      BY <1>8 DEF EraseObj, Erasing
    <2>2. Inside(call[t]) /\ Size[call[t].type] <= call[t].len
      BY <2>1 DEF HandledInv, CallShape
    <2>3. call[t].addr \in Words
      BY <1>1, <2>2, CallInside DEF HandledInv
    <2>4. meta[call[t].addr].size = Count(call[t])
      BY <2>1 DEF HandledInv, HalfWay, Forgetting
    <2>5. Count(call[t]) > 0
      BY <1>2, <2>2, CountBounds, Layout DEF Count
    <2>6. meta' = [v \in Words |-> IF v \in MemberWords(t, Count(call[t]))
                                   THEN [meta[v] EXCEPT !.ref = NULL]
                                   ELSE meta[v]]
      BY <1>8, <2>3, <2>4, <2>5 DEF EraseObj
    <2>. QED
      BY <1>3, <2>6
  <1>9. ASSUME EraseArraySize(t)
        PROVE  /\ meta'[w].ref = meta[w].ref
               /\ w # call[t].addr => meta'[w] = meta[w]
               /\ w = call[t].addr => meta'[w].size = 0
    <2>1. meta' = IF call[t].addr \in Words
                  THEN [meta EXCEPT ![call[t].addr].size = 0,
                                    ![call[t].addr].off = 0]
                  ELSE meta
      BY <1>9 DEF EraseArraySize
    <2>. QED
      BY <1>1, <1>5, <2>1 DEF Entry
  <1>10. w \notin Extent(call[t]) => meta'[w] = meta[w]
    BY <1>3, <1>4, <1>6, <1>7, <1>8, <1>9 DEF Runtime
  <1>. QED
    BY <1>6, <1>7, <1>8, <1>9, <1>10

(* A thread that stays at the same memory, or leaves it, does not make     *)
(* other words quiet.                                                      *)
LEMMA RuntimeQuiet ==
  ASSUME CallTypes, NEW t \in Threads, Runtime(t), NEW words, Quiet(words)'
  PROVE  \/ Quiet(words)
         \/ call'[t] = Idle /\ Extent(call[t]) \cap words # {}
  <1>1. /\ \A u \in Threads \ {t} : call'[u] = call[u]
        /\ call'[t] = Idle \/ /\ call'[t].addr = call[t].addr
                              /\ call'[t].len = call[t].len
        /\ Calling(t) /\ CallTypes'
    <2>1. CallTypes' /\ Calling(t) /\ \A u \in Threads \ {t} : call'[u] = call[u]
      BY RuntimeMoves
    <2>2. call'[t] = Idle \/
            /\ call'[t].addr = call[t].addr /\ call'[t].len = call[t].len
            /\ call'[t].type = call[t].type /\ call'[t].count = call[t].count
            /\ Updating(t)' <=> Updating(t)
            /\ Erasing(t)' <=> Erasing(t)
      BY RuntimeMoves
    <2>. QED
      BY <2>1, <2>2
  <1>2. call'[t] # Idle => call'[t].op # "idle"
    BY <1>1 DEF CallTypes, Calls, Idle
  <1>3. call'[t] # Idle => Extent(call[t]) \cap words = {}
    BY <1>1, <1>2 DEF Quiet, Pending, Extent
  <1>4. \A u \in Threads \ {t} : Pending(u) \cap words = {}
    BY <1>1 DEF Quiet, Pending, Extent
  <1>. QED
    BY <1>1, <1>3, <1>4 DEF Quiet, Pending, Calling

(* Whatever a runtime call does, it concerns nobody else.                  *)
LEMMA RuntimeElsewhere ==
  ASSUME ShapeInv, HandledInv, NEW t \in Threads, Runtime(t)
  PROVE  /\ CallShape' /\ CallsApart'
         /\ \A u \in Threads \ {t} : Registering(u)' /\ Forgetting(u)'
         /\ \A o \in heap : Quiet(Extent(o))' =>
              \/ LiveObject(o)'
              \/ call'[t] = Idle /\ Updating(t) /\ o = Object(call[t])
         /\ \A w \in Words :
              (\A o \in heap : w \notin Extent(o)) /\ Quiet({w})' =>
                \/ meta'[w].ref = NULL /\ meta'[w].size = 0
                \/ call'[t] = Idle /\ Erasing(t) /\ w \in Extent(call[t])
  <1>1. /\ CallTypes /\ heap' = heap
        /\ \A w \in Words : w \notin Extent(call[t]) => meta'[w] = meta[w]
    BY RuntimeTypes, RuntimeWrites DEF ShapeInv
  <1>2. /\ Calling(t)
        /\ \A u \in Threads \ {t} : call'[u] = call[u]
        /\ call'[t] = Idle \/
             /\ call'[t].addr = call[t].addr /\ call'[t].len = call[t].len
             /\ call'[t].type = call[t].type /\ call'[t].count = call[t].count
             /\ Updating(t)' <=> Updating(t)
             /\ Erasing(t)' <=> Erasing(t)
    BY <1>1, RuntimeMoves
  <1>3. \A u \in Threads : call'[u] = Idle \/
          /\ Updating(u)' <=> Updating(u)
          /\ Erasing(u)' <=> Erasing(u)
          /\ Calling(u)' => Calling(u)
          /\ call'[u].count = call[u].count
          /\ call'[u].len = call[u].len /\ call'[u].type = call[u].type
          /\ Counted(call'[u]) <=> Counted(call[u])
          /\ Inside(call'[u]) <=> Inside(call[u])
          /\ Outside(call'[u]) <=> Outside(call[u])
          /\ \A q : (Apart(call'[u], q) <=> Apart(call[u], q))
                 /\ (Apart(q, call'[u]) <=> Apart(q, call[u]))
    <2>1. ASSUME NEW u \in Threads, u # t
          PROVE  /\ call'[u] = call[u]
                 /\ Updating(u)' <=> Updating(u)
                 /\ Erasing(u)' <=> Erasing(u)
                 /\ Calling(u)' => Calling(u)
      BY <1>2, <2>1 DEF Updating, Erasing, Calling
    <2>2. call'[t] # Idle =>
            /\ Count(call'[t]) = Count(call[t])
            /\ Inside(call'[t]) <=> Inside(call[t])
            /\ Outside(call'[t]) <=> Outside(call[t])
            /\ \A q : (Apart(call'[t], q) <=> Apart(call[t], q))
                   /\ (Apart(q, call'[t]) <=> Apart(q, call[t]))
      BY <1>2, SameFields
    <2>3. call'[t] # Idle => (Counted(call'[t]) <=> Counted(call[t]))
      BY <1>2, <2>2 DEF Counted
    <2>. QED
      BY <1>2, <2>1, <2>2, <2>3
  <1>4. \A u \in Threads : call'[u] = Idle =>
          ~Calling(u)' /\ ~Updating(u)' /\ ~Erasing(u)'
    BY DEF Calling, Updating, Erasing, Idle
  <1>5. CallShape'
    <2>1. ASSUME NEW u \in Threads
          PROVE  /\ Updating(u)' => Counted(call'[u])
                 /\ Erasing(u)' => /\ Inside(call'[u])
                                   /\ Size[call'[u].type] <= call'[u].len
                                   /\ \A o \in heap' : Apart(call'[u], o)
      <3>1. CASE call'[u] = Idle
        BY <1>4, <3>1
      <3>2. CASE call'[u] # Idle
        BY <1>1, <1>3, <3>2 DEF HandledInv, CallShape
      <3>. QED
        BY <3>1, <3>2
    <2>. QED
      BY <2>1 DEF CallShape, Counted, Count, Inside, Outside, Apart, Ended
  <1>6. CallsApart'
    <2>1. ASSUME NEW u \in Threads, NEW v \in Threads, u # v,
                 Calling(u)', Calling(v)', ~Outside(call'[u]), ~Outside(call'[v])
          PROVE  Apart(call'[u], call'[v])
      <3>1. call'[u] # Idle /\ call'[v] # Idle
        BY <1>4, <2>1
      <3>2. /\ Calling(u) /\ Calling(v)
            /\ ~Outside(call[u]) /\ ~Outside(call[v])
        BY <1>3, <2>1, <3>1
      <3>3. Apart(call[u], call[v])
        BY <2>1, <3>2 DEF HandledInv, CallsApart
      <3>. QED
        BY <1>3, <3>1, <3>3
    <2>. QED
      BY <2>1 DEF CallsApart, Outside, Apart, Ended
  <1>7. ASSUME NEW u \in Threads \ {t}
        PROVE  Registering(u)' /\ Forgetting(u)'
    <2>1. ASSUME Calling(u), Inside(call[u])
          PROVE  \A w \in Extent(call[u]) : meta'[w] = meta[w]
      <3>1. /\ call[u].addr \in Nat /\ call[u].len \in Nat
            /\ call[t].addr \in Nat /\ call[t].len \in Nat
            /\ Extent(call[u]) \subseteq Words
            /\ ~Outside(call[u])
        BY <1>2, <2>1, CallInside DEF HandledInv
      <3>2. Extent(call[u]) \cap Extent(call[t]) = {}
        <4>1. CASE Outside(call[t])
          <5>1. \A w \in Words : w >= Base
            BY Layout DEF Words
          <5>. QED
            BY <3>1, <4>1, <5>1, Layout DEF Outside, Extent, Ended
        <4>2. CASE ~Outside(call[t])
          <5>1. Apart(call[u], call[t])
            BY <1>2, <2>1, <3>1, <4>2 DEF HandledInv, CallsApart
          <5>. QED
            BY <3>1, <5>1, ApartExtents
        <4>. QED
          BY <4>1, <4>2
      <3>. QED
        BY <1>1, <3>1, <3>2
    <2>. QED
      BY <1>2, <2>1, SameProgress
  <1>8. ASSUME NEW o \in heap, Quiet(Extent(o))'
        PROVE  \/ LiveObject(o)'
               \/ call'[t] = Idle /\ Updating(t) /\ o = Object(call[t])
    <2>1. /\ o.addr \in Nat /\ o.len \in Nat
          /\ o.addr \in Extent(o) /\ Extent(o) \subseteq Words
          /\ call[t].addr \in Nat /\ call[t].len \in Nat
      BY <1>2, HeapObject, CallInside DEF HandledInv
    <2>2. Quiet(Extent(o)) \/ (call'[t] = Idle /\ Extent(call[t]) \cap Extent(o) # {})
      <3>1. \A words : Quiet(words)' =>
              \/ Quiet(words)
              \/ call'[t] = Idle /\ Extent(call[t]) \cap words # {}
        BY <1>1, RuntimeQuiet
      <3>. QED
        BY <1>8, <3>1 DEF Extent
    <2>3. CASE Extent(call[t]) \cap Extent(o) = {}
      <3>1. LiveObject(o)
        BY <2>2, <2>3 DEF HandledInv, Live
      <3>2. \A w \in Extent(o) : meta'[w] = meta[w]
        BY <1>1, <2>1, <2>3
      <3>. QED
        BY <2>1, <3>1, <3>2, SameObject
    <2>4. CASE Extent(call[t]) \cap Extent(o) # {}
      <3>1. ~Outside(call[t])
        <4>1. \A w \in Extent(o) : w >= Base
          BY <2>1, Layout DEF Words
        <4>. QED
          BY <2>1, <2>4, <4>1, Layout DEF Outside, Extent, Ended
      <3>2. ~Apart(call[t], o)
        BY <2>1, <2>4, ApartExtents
      <3>3. ~Erasing(t)
        BY <3>2 DEF HandledInv, CallShape
      <3>4. Updating(t) /\ Object(call[t]) \in heap
        BY <1>1, <1>2, <3>1, <3>3, CallFields DEF ShapeInv, Registrations
      <3>5. o = Object(call[t])
        <4>1. Apart(Object(call[t]), o) => Apart(call[t], o)
          BY DEF Apart, Ended, Object
        <4>. QED
          BY <3>2, <3>4, <4>1 DEF ShapeInv, HeapShape
      <3>6. call'[t] = Idle
        <4>1. Extent(call[t]) = Extent(o)
          BY <3>5 DEF Object, Extent
        <4>2. ~Quiet(Extent(o))
          BY <1>2, <2>4 DEF Quiet, Pending, Calling
        <4>. QED
          BY <2>2, <4>2
      <3>. QED
        BY <3>4, <3>5, <3>6
    <2>. QED
      BY <2>3, <2>4
  <1>9. ASSUME NEW w \in Words, \A o \in heap : w \notin Extent(o), Quiet({w})'
        PROVE  \/ meta'[w].ref = NULL /\ meta'[w].size = 0
               \/ call'[t] = Idle /\ Erasing(t) /\ w \in Extent(call[t])
    <2>1. Quiet({w}) \/ (call'[t] = Idle /\ w \in Extent(call[t]))
      <3>1. Quiet({w}) \/ (call'[t] = Idle /\ Extent(call[t]) \cap {w} # {})
        BY <1>1, <1>9, RuntimeQuiet
      <3>. QED
        BY <3>1
    <2>2. CASE w \notin Extent(call[t])
      BY <1>1, <1>9, <2>1, <2>2 DEF HandledInv, Rest
    <2>3. CASE w \in Extent(call[t])
      <3>1. call'[t] = Idle
        BY <1>2, <2>1, <2>3 DEF Quiet, Pending, Calling
      <3>2. ~Outside(call[t])
        BY <1>2, <2>3, CallInside, Layout DEF HandledInv, Outside, Extent, Ended, Words
      <3>3. ~Updating(t)
        <4>1. Updating(t) => Object(call[t]) \in heap
          BY <3>2 DEF ShapeInv, Registrations
        <4>2. Extent(Object(call[t])) = Extent(call[t])
          BY DEF Object, Extent
        <4>. QED
          BY <1>9, <2>3, <4>1, <4>2
      <3>. QED
        BY <1>1, <1>2, <2>3, <3>1, <3>3, CallFields
    <2>. QED
      BY <2>2, <2>3
  <1>. QED
    BY <1>5, <1>6, <1>7, <1>8, <1>9


(* __bitype_updateObjTrace: one more member has its entries.               *)
LEMMA UpdateObjTraceHandled ==
  ASSUME ShapeInv, HandledInv, NEW t \in Threads, UpdateObjTrace(t)
  PROVE  Registering(t)' /\ Forgetting(t)'
  <1> DEFINE c == call[t]
  <1>1. /\ Runtime(t) /\ c.op = "update" /\ Updating(t)
    BY DEF Runtime, UpdateObjTrace, Updating
  <1>2. /\ Calling(t) /\ Updating(t)' /\ CallTypes'
        /\ Done(t)' = c.k /\ Done(t) = c.k - 1
    BY <1>1, RuntimeMoves DEF ShapeInv, Done
  <1>3. /\ call'[t].addr = c.addr /\ call'[t].len = c.len /\ call'[t].type = c.type
    <2>1. call'[t] # Idle
      BY <1>2 DEF Updating, Idle
    <2>. QED
      BY <1>1, <2>1, RuntimeMoves DEF ShapeInv
  <1>4. ~Erasing(t)'
    BY <1>2 DEF Updating, Erasing
  <1>5. SUFFICES ASSUME Inside(call'[t])
                 PROVE  (FirstWordOnly(call[t]) /\ RegisteredTo(call[t], Done(t)))'
    BY <1>4 DEF Registering, Forgetting, Inside, Ended
  <1>6. /\ Extent(call'[t]) = Extent(c)
        /\ \A w : MembersAt(call'[t], w) = MembersAt(c, w)
        /\ Inside(c)
    BY <1>3, <1>5, SameFields
  <1>7. /\ c.addr \in Nat /\ c.len \in Nat /\ c.type \in Types
        /\ c.k \in 1 .. Len(Elements[c.type])
        /\ Extent(c) \subseteq Words
    BY <1>2, <1>6, CallFields, CallInside DEF ShapeInv, HandledInv
  <1>8. FirstWordOnly(c) /\ RegisteredTo(c, c.k - 1)
    BY <1>1, <1>2, <1>6 DEF HandledInv, HalfWay, Registering
  <1>9. \A w \in Extent(c) :
          meta'[w] = IF c.k \in MembersAt(c, w)
                     THEN [ref |-> Member(t)[2], size |-> 0, off |-> Member(t)[1]]
                     ELSE meta[w]
    BY <1>1, <1>7, RuntimeWrites
  <1>10. \A w : \A j \in MembersAt(c, w) : j \in Nat
    BY DEF MembersAt
  <1>11. ASSUME NEW w \in Extent(c), w # c.addr
         PROVE  meta'[w].size = 0
    BY <1>8, <1>9, <1>11 DEF FirstWordOnly
  <1>12. ASSUME NEW w \in Extent(c)
         PROVE  /\ MembersAt(c, w) = {} => meta'[w].ref = NULL
                /\ \A j \in MembersAt(c, w) : j <= c.k =>
                     /\ meta'[w].ref = Elements[c.type][j][2]
                     /\ meta'[w].off = Elements[c.type][j][1]
    <2>1. CASE c.k \in MembersAt(c, w)
      <3>1. \A j \in MembersAt(c, w) : j = c.k
        BY <1>7, <2>1, MembersAtMostOne
      <3>2. meta'[w].ref = Member(t)[2] /\ meta'[w].off = Member(t)[1]
        BY <1>9, <2>1
      <3>. QED
        BY <2>1, <3>1, <3>2 DEF Member
    <2>2. CASE c.k \notin MembersAt(c, w)
      <3>1. meta'[w] = meta[w]
        BY <1>9, <2>2
      <3>2. \A j \in MembersAt(c, w) : j <= c.k => j <= c.k - 1
        BY <1>7, <1>10, <2>2
      <3>. QED
        BY <1>8, <3>1, <3>2 DEF RegisteredTo, Describes
    <2>. QED
      BY <2>1, <2>2
  <1> HIDE DEF c
  <1>13. FirstWordOnly(call[t])'
    BY <1>3, <1>6, <1>11 DEF FirstWordOnly, Extent
  <1>14. RegisteredTo(call[t], Done(t))'
    <2>1. \A w \in Extent(call'[t]) :
            /\ MembersAt(call'[t], w) = {} => meta'[w].ref = NULL
            /\ \A j \in MembersAt(call'[t], w) : j <= Done(t)' =>
                 /\ meta'[w].ref = Elements[call'[t].type][j][2]
                 /\ meta'[w].off = Elements[call'[t].type][j][1]
      BY <1>2, <1>3, <1>6, <1>12
    <2>. QED
      BY <2>1 DEF RegisteredTo, Describes, Extent, MembersAt
  <1>. QED
    BY <1>13, <1>14

(* __bitype_update_arraySize: the object is described after the last one.  *)
LEMMA UpdateArraySizeHandled ==
  ASSUME ShapeInv, HandledInv, NEW t \in Threads, UpdateArraySize(t)
  PROVE  /\ Registering(t)' /\ Forgetting(t)'
         /\ \A o \in heap : call'[t] = Idle /\ o = Object(call[t])
                            => LiveObject(o)'
  <1> DEFINE c == call[t]
             n == Len(Elements[c.type])
  <1>1. /\ Runtime(t) /\ c.op = "size" /\ Updating(t) /\ Calling(t) /\ Done(t) = c.k
    BY DEF Runtime, UpdateArraySize, Updating, Calling, Done
  <1>2. /\ c.addr \in Nat /\ c.len \in Nat /\ c.type \in Types
        /\ n \in Nat /\ c.k \in 1 .. n
    BY <1>1, CallFields DEF ShapeInv
  <1>3. /\ \/ call'[t] = Idle /\ c.k = n
           \/ Updating(t)' /\ Done(t)' = c.k
    BY <1>1, RuntimeMoves DEF ShapeInv
  <1>4. ASSUME Inside(c)
        PROVE  \A w \in Extent(c) :
                 /\ meta'[w].ref = meta[w].ref /\ meta'[w].off = meta[w].off
                 /\ w # c.addr => meta'[w].size = 0
                 /\ w = c.addr => meta'[w].size = Count(c)
    <2>1. FirstWordOnly(c)
      BY <1>1, <1>4 DEF HandledInv, HalfWay, Registering
    <2>2. Extent(c) \subseteq Words
      BY <1>1, <1>4, CallInside DEF HandledInv
    <2>3. \A w \in Words :
            /\ meta'[w].ref = meta[w].ref /\ meta'[w].off = meta[w].off
            /\ w # c.addr => meta'[w] = meta[w]
            /\ w = c.addr => meta'[w].size = Count(c)
      BY <1>1, RuntimeWrites
    <2>. QED
      BY <2>1, <2>2, <2>3 DEF FirstWordOnly
  <1>5. Inside(c) => RegisteredTo(c, c.k)
    BY <1>1 DEF HandledInv, HalfWay, Registering
  <1>6. CASE Updating(t)' /\ Done(t)' = c.k
    <2>1. call'[t] # Idle
      BY <1>6 DEF Updating, Idle
    <2>2. /\ call'[t].addr = c.addr /\ call'[t].len = c.len /\ call'[t].type = c.type
      BY <1>1, <2>1, RuntimeMoves DEF ShapeInv
    <2>3. /\ Extent(call'[t]) = Extent(c)
          /\ \A w : MembersAt(call'[t], w) = MembersAt(c, w)
          /\ Inside(call'[t]) <=> Inside(c)
      BY <2>2, SameFields
    <2>4. ~Erasing(t)'
      BY <1>6 DEF Updating, Erasing
    <2> SUFFICES ASSUME Inside(call'[t])
                 PROVE  (FirstWordOnly(call[t]) /\ RegisteredTo(call[t], Done(t)))'
      BY <2>1, <2>4 DEF Registering, Forgetting, Inside, Ended
    <2> HIDE DEF c
    <2>5. FirstWordOnly(call[t])'
      BY <1>4, <2>2, <2>3 DEF FirstWordOnly, Extent
    <2>6. \A w \in Extent(call'[t]) :
            /\ MembersAt(call'[t], w) = {} => meta'[w].ref = NULL
            /\ \A j \in MembersAt(call'[t], w) : j <= Done(t)' =>
                 /\ meta'[w].ref = Elements[call'[t].type][j][2]
                 /\ meta'[w].off = Elements[call'[t].type][j][1]
      BY <1>4, <1>5, <1>6, <2>2, <2>3 DEF RegisteredTo, Describes
    <2>7. RegisteredTo(call[t], Done(t))'
      BY <2>6 DEF RegisteredTo, Describes, Extent, MembersAt
    <2>. QED
      BY <2>5, <2>7
  <1>7. CASE call'[t] = Idle /\ c.k = n
    <2>1. Registering(t)' /\ Forgetting(t)'
      BY <1>7 DEF Registering, Forgetting, Updating, Erasing, Idle
    <2>2. ASSUME NEW o \in heap, o = Object(c)
          PROVE  LiveObject(o)'
      <3>1. o.addr = c.addr /\ o.len = c.len /\ o.type = c.type
        BY <2>2 DEF Object
      <3>2. Inside(o) /\ o.addr \in Extent(o)
        BY HeapObject
      <3>3. /\ Extent(o) = Extent(c) /\ Count(o) = Count(c)
            /\ \A w : MembersAt(o, w) = MembersAt(c, w)
            /\ Inside(c)
        BY <3>1, <3>2, SameFields
      <3>4. \A w : \A j \in MembersAt(c, w) : j <= n
        <4>1. \A w : MembersAt(c, w) \subseteq 1 .. n
          BY DEF MembersAt
        <4>. QED
          BY <1>2, <4>1
      <3> HIDE DEF c, n
      <3>5. \A w \in Extent(o) :
              IF MembersAt(o, w) = {} THEN meta'[w].ref = NULL
              ELSE \A j \in MembersAt(o, w) :
                     /\ meta'[w].ref = Elements[o.type][j][2]
                     /\ meta'[w].off = Elements[o.type][j][1]
        BY <1>4, <1>5, <1>7, <3>1, <3>3, <3>4 DEF RegisteredTo, Describes
      <3>6. /\ \A w \in Extent(o) : w # o.addr => meta'[w].size = 0
            /\ meta'[o.addr].size = Count(o)
        BY <1>4, <3>1, <3>2, <3>3
      <3>7. Elements[o.type] # <<>>
        BY <1>2, <3>1, Layout DEF n
      <3>8. Described(o)'
        BY <3>5, <3>6 DEF Described, Count
      <3>9. FirstWordOnly(o)'
        BY <3>6 DEF FirstWordOnly
      <3>. QED
        BY <3>7, <3>8, <3>9 DEF LiveObject
    <2>. QED
      BY <2>1, <2>2
  <1>. QED
    BY <1>3, <1>6, <1>7

(* __bitype_eraseObj: one member less has entries.                         *)
LEMMA EraseObjHandled ==
  ASSUME ShapeInv, HandledInv, NEW t \in Threads, EraseObj(t)
  PROVE  Registering(t)' /\ Forgetting(t)' /\ call'[t] # Idle
  <1> DEFINE c == call[t]
  <1>1. /\ Runtime(t) /\ c.op = "erase" /\ Erasing(t) /\ Calling(t)
        /\ Done(t) = c.k - 1
    BY DEF Runtime, EraseObj, Erasing, Calling, Done
  <1>2. Erasing(t)' /\ Done(t)' = c.k
    BY <1>1, RuntimeMoves DEF ShapeInv
  <1>3. call'[t] # Idle /\ ~Updating(t)'
    BY <1>2 DEF Erasing, Updating, Idle
  <1>4. /\ call'[t].addr = c.addr /\ call'[t].len = c.len /\ call'[t].type = c.type
    BY <1>1, <1>3, RuntimeMoves DEF ShapeInv
  <1>5. /\ Extent(call'[t]) = Extent(c) /\ Count(call'[t]) = Count(c)
        /\ \A w : MembersAt(call'[t], w) = MembersAt(c, w)
    BY <1>4, SameFields
  <1>6. /\ FirstWordOnly(c) /\ meta[c.addr].size = Count(c)
        /\ ForgottenTo(c, c.k - 1)
    BY <1>1 DEF HandledInv, HalfWay, Forgetting
  <1>7. /\ Inside(c) /\ c.k \in Nat
        /\ c.addr \in Extent(c) /\ Extent(c) \subseteq Words
    BY <1>1, CallFields, CallInside DEF ShapeInv, HandledInv, CallShape
  <1>8. \A w \in Extent(c) :
          meta'[w] = IF c.k \in MembersAt(c, w) THEN [meta[w] EXCEPT !.ref = NULL]
                     ELSE meta[w]
    BY <1>1, <1>7, RuntimeWrites
  <1>9. \A w : \A j \in MembersAt(c, w) : j \in Nat
    BY DEF MembersAt
  <1>10. ASSUME NEW w \in Extent(c)
         PROVE  /\ meta'[w].size = meta[w].size
                /\ meta'[w].ref = NULL \/ \E j \in MembersAt(c, w) : j > c.k
    <2>0. meta[w] \in Entry
      BY <1>7 DEF ShapeInv, TypeOK
    <2>1. CASE c.k \in MembersAt(c, w)
      <3>1. meta'[w] = [meta[w] EXCEPT !.ref = NULL]
        BY <1>8, <2>1
      <3>. QED
        BY <2>0, <3>1 DEF Entry
    <2>2. CASE c.k \notin MembersAt(c, w)
      <3>1. meta'[w] = meta[w]
        BY <1>8, <2>2
      <3>2. \A j \in MembersAt(c, w) : j > c.k - 1 => j > c.k
        BY <1>7, <1>9, <2>2
      <3>. QED
        BY <1>6, <3>1, <3>2 DEF ForgottenTo
    <2>. QED
      BY <2>1, <2>2
  <1> HIDE DEF c
  <1>11. FirstWordOnly(call[t])'
    BY <1>4, <1>5, <1>6, <1>10 DEF FirstWordOnly, Extent
  <1>12. meta'[call'[t].addr].size = Count(call'[t])
    BY <1>4, <1>5, <1>6, <1>7, <1>10
  <1>13. ForgottenTo(call[t], Done(t))'
    <2>1. \A w \in Extent(call'[t]) :
            meta'[w].ref = NULL \/ \E j \in MembersAt(call'[t], w) : j > Done(t)'
      BY <1>2, <1>5, <1>10
    <2>. QED
      BY <2>1 DEF ForgottenTo, Extent, MembersAt
  <1>. QED
    BY <1>3, <1>11, <1>12, <1>13 DEF Registering, Forgetting, Count

(* __bitype_direct_eraseArraySize: nothing is left of the object.          *)
LEMMA EraseArraySizeHandled ==
  ASSUME ShapeInv, HandledInv, NEW t \in Threads, EraseArraySize(t)
  PROVE  /\ Registering(t)' /\ Forgetting(t)'
         /\ \A w \in Extent(call[t]) : meta'[w].ref = NULL /\ meta'[w].size = 0
  <1> DEFINE c == call[t]
  <1>1. /\ Runtime(t) /\ c.op = "clear" /\ Erasing(t) /\ Calling(t) /\ Done(t) = c.k
    BY DEF Runtime, EraseArraySize, Erasing, Calling, Done
  <1>2. call'[t] = Idle /\ c.k = Len(Elements[c.type])
    BY <1>1, RuntimeMoves DEF ShapeInv
  <1>3. Registering(t)' /\ Forgetting(t)'
    BY <1>2 DEF Registering, Forgetting, Updating, Erasing, Idle
  <1>4. FirstWordOnly(c) /\ ForgottenTo(c, c.k)
    BY <1>1 DEF HandledInv, HalfWay, Forgetting
  <1>5. Inside(c) /\ c.k \in Nat /\ Extent(c) \subseteq Words
    BY <1>1, CallFields, CallInside DEF ShapeInv, HandledInv, CallShape
  <1>6. \A w \in Words : /\ meta'[w].ref = meta[w].ref
                         /\ w # c.addr => meta'[w] = meta[w]
                         /\ w = c.addr => meta'[w].size = 0
    BY <1>1, RuntimeWrites
  <1>7. \A w : MembersAt(c, w) \subseteq 1 .. c.k
    BY <1>2 DEF MembersAt
  <1>8. \A w : \A j \in MembersAt(c, w) : ~(j > c.k)
    BY <1>5, <1>7
  <1>. QED
    BY <1>3, <1>4, <1>5, <1>6, <1>8 DEF FirstWordOnly, ForgottenTo

LEMMA RuntimeHandled ==
  ASSUME ShapeInv, HandledInv, NEW t \in Threads, Runtime(t)
  PROVE  HandledInv'
  <1>1. heap' = heap
    BY RuntimeTypes DEF ShapeInv
  <1>2. CallShape' /\ CallsApart'
    BY RuntimeElsewhere
  <1>3. Registering(t)' /\ Forgetting(t)'
    BY UpdateObjTraceHandled, UpdateArraySizeHandled, EraseObjHandled,
       EraseArraySizeHandled DEF Runtime
  <1>4. HalfWay'
    BY <1>3, RuntimeElsewhere DEF HalfWay
  <1>5. Live'
    <2>1. ASSUME NEW o \in heap, Quiet(Extent(o))'
          PROVE  LiveObject(o)'
      <3>1. \/ LiveObject(o)'
            \/ call'[t] = Idle /\ Updating(t) /\ o = Object(call[t])
        BY <2>1, RuntimeElsewhere
      <3>2. ASSUME call'[t] = Idle, Updating(t), o = Object(call[t])
            PROVE  LiveObject(o)'
        <4>1. UpdateArraySize(t)
          <5>1. ~UpdateObjTrace(t)
            BY <3>2, RuntimeMoves DEF ShapeInv, Updating, Idle
          <5>. QED
            BY <3>2, <5>1 DEF Runtime, Updating, EraseObj, EraseArraySize
        <4>. QED
          BY <3>2, <4>1, UpdateArraySizeHandled
      <3>. QED
        BY <3>1, <3>2
    <2>. QED
      BY <1>1, <2>1 DEF Live
  <1>6. Rest'
    <2>1. ASSUME NEW w \in Words, \A o \in heap : w \notin Extent(o), Quiet({w})'
          PROVE  meta'[w].ref = NULL /\ meta'[w].size = 0
      <3>1. \/ meta'[w].ref = NULL /\ meta'[w].size = 0
            \/ call'[t] = Idle /\ Erasing(t) /\ w \in Extent(call[t])
        BY <2>1, RuntimeElsewhere
      <3>2. ASSUME call'[t] = Idle, Erasing(t), w \in Extent(call[t])
            PROVE  meta'[w].ref = NULL /\ meta'[w].size = 0
        <4>1. ~EraseObj(t)
          BY <3>2, EraseObjHandled
        <4>2. EraseArraySize(t)
          BY <3>2, <4>1 DEF Runtime, Erasing, UpdateObjTrace, UpdateArraySize
        <4>. QED
          BY <3>2, <4>2, EraseArraySizeHandled
      <3>. QED
        BY <3>1, <3>2
    <2>. QED
      BY <1>1, <2>1 DEF Rest, Extent
  <1>. QED
    BY <1>2, <1>4, <1>5, <1>6 DEF HandledInv

-----------------------------------------------------------------------------
(* The theorems.                                                           *)

LEMMA InvariantStep == IInv /\ [Next]_vars => IInv'
  <1> SUFFICES ASSUME IInv, [Next]_vars
               PROVE  IInv'
    OBVIOUS
  <1>1. ShapeInv
    BY DEF IInv
  <1>2. ShapeInv'
    BY <1>1, ShapeStep
  <1> SUFFICES ASSUME ~unhandled'
               PROVE  HandledInv'
    BY <1>2 DEF IInv
  <1>3. ASSUME NEW t \in Threads, Program(t)
        PROVE  HandledInv'
    <2>1. CASE \E others \in SUBSET heap, addr \in Words, len \in Nat, y \in Types,
                  count \in Nat : Allocated(t, others, addr, len, y, count)
      <3>1. ~unhandled
        BY <2>1 DEF Allocated
      <3>. QED
        BY <1>1, <2>1, <3>1, AllocatedHandled DEF IInv
    <2>2. CASE \E y \in Types, count \in Nat : RequestFailed(t, y, count)
      <3>1. ~unhandled
        BY <2>2 DEF RequestFailed
      <3>. QED
        BY <1>1, <2>2, <3>1, RequestFailedHandled DEF IInv
    <2>3. CASE \E o \in heap, y \in Types \cup {NULL} : Deallocate(t, o, y)
      <3>1. ~unhandled
        BY <2>3 DEF Deallocate
      <3>. QED
        BY <1>1, <2>3, <3>1, DeallocateHandled DEF IInv
    <2>. QED
      BY <1>1, <1>3, <2>1, <2>2, <2>3, ProgramCases
  <1>4. ASSUME NEW t \in Threads, Runtime(t)
        PROVE  HandledInv'
    <2>1. ~unhandled
      BY <1>1, <1>4, RuntimeTypes DEF ShapeInv
    <2>. QED
      BY <1>1, <1>4, <2>1, RuntimeHandled DEF IInv
  <1>5. CASE UNCHANGED vars
    <2>1. HandledInv
      BY <1>5 DEF IInv, vars
    <2>2. heap' = heap /\ meta' = meta /\ call' = call
      BY <1>5 DEF vars
    <2>. QED
      BY <2>1, <2>2
         DEF HandledInv, CallShape, CallsApart, Live, HalfWay, Rest, Updating, Erasing,
             Calling, Quiet, Pending, Extent, Counted, Count, Inside, Outside, Apart, Ended,
             LiveObject, Described, FirstWordOnly, Registering, Forgetting, Done,
             RegisteredTo, ForgottenTo, Describes
  <1>. QED
    BY <1>3, <1>4, <1>5 DEF Next

(* The inductive invariant holds in every run of a traced program, with    *)
(* any number of threads between its allocations and releases              *)
(* (handleHeapAlloc, handleFree and the runtime calls they place).         *)
THEOREM HeapInvariant == Spec => []IInv
  BY InitShape, InvariantStep, PTL DEF Spec

(* Every state of the heap, its entries and the calls is typed, whatever   *)
(* the program does with them.                                             *)
THEOREM HeapTyped == Spec => []TypeOK
  <1>1. IInv => TypeOK
    BY DEF IInv, ShapeInv
  <1>. QED
    BY <1>1, HeapInvariant, PTL

(* For any number of threads, in every interleaving of the runtime calls:  *)
(* the entries of a live object are those of its type and the rest of the  *)
(* heap has none, while the program does only what the pass handles.       *)
THEOREM HeapExactHolds == Spec => []HeapExact
  <1>1. IInv => HeapExact
    BY DEF IInv, HandledInv, Live, LiveObject, Rest, HeapExact
  <1>. QED
    BY <1>1, HeapInvariant, PTL


-----------------------------------------------------------------------------
(* A program of one thread: the registration of a block tells the truth    *)
(* about its members even after what the pass does not handle.             *)

Single == \A t, u \in Threads : t = u

(* The members the thread is done with have their entries in every element *)
(* the call counts, as far as it lies in the heap.                         *)
Healing(t) ==
  Updating(t) =>
    \A j \in 1 .. Len(Elements[call[t].type]), i \in 0 .. call[t].count - 1 :
      Place(call[t], j, i) \in Words /\ j <= Done(t) =>
        Describes(Place(call[t], j, i), call[t], j)

HealInv == Single /\ ShapeInv /\ \A t \in Threads : Healing(t)

(* The call for one member writes to no other member of an element.        *)
LEMMA WrittenMembers ==
  ASSUME NEW t, call[t].addr \in Nat, call[t].type \in Types,
         call[t].k \in 1 .. Len(Elements[call[t].type]), call[t].count \in Nat,
         NEW j \in 1 .. Len(Elements[call[t].type]), NEW i \in 0 .. call[t].count - 1
  PROVE  Place(call[t], j, i) \in MemberWords(t, call[t].count) <=> j = call[t].k
  <1> DEFINE c == call[t]
  <1>1. MemberWords(t, c.count) = {Place(c, c.k, h) : h \in 0 .. c.count - 1}
    BY DEF MemberWords, Place, Member
  <1>2. ASSUME Place(c, j, i) \in MemberWords(t, c.count)
        PROVE  j = c.k
    <2>1. PICK h \in 0 .. c.count - 1 : Place(c, j, i) = Place(c, c.k, h)
      BY <1>1, <1>2
    <2>2. h \in Nat /\ i \in Nat
      OBVIOUS
    <2>. QED
      BY <2>1, <2>2, PlaceUnique
  <1>. QED
    BY <1>1, <1>2

(* The runtime calls of a registration.                                    *)
LEMMA HealingCalls ==
  ASSUME HealInv, NEW t \in Threads, Runtime(t)
  PROVE  /\ Healing(t)'
         /\ UpdateArraySize(t) /\ call'[t] = Idle =>
              \A j \in 1 .. Len(Elements[call[t].type]), i \in 0 .. call[t].count - 1 :
                LET w == Place(call[t], j, i)
                IN  w \in Words => /\ meta'[w].ref = Elements[call[t].type][j][2]
                                   /\ meta'[w].off = Elements[call[t].type][j][1]
  <1> DEFINE c == call[t]
             Right(j, i) == /\ meta'[Place(c, j, i)].ref = Elements[c.type][j][2]
                            /\ meta'[Place(c, j, i)].off = Elements[c.type][j][1]
  <1>1. /\ CallTypes /\ meta \in [Words -> Entry] /\ Calling(t) /\ Healing(t)
    BY RuntimeMoves DEF HealInv, ShapeInv, TypeOK
  <1>2. /\ c.addr \in Nat /\ c.len \in Nat /\ c.type \in Types /\ c.count \in Nat
        /\ c.k \in 1 .. Len(Elements[c.type]) /\ Len(Elements[c.type]) \in Nat
    BY <1>1, CallFields
  <1>3. call'[t] = Idle \/
          /\ call'[t].addr = c.addr /\ call'[t].len = c.len
          /\ call'[t].type = c.type /\ call'[t].count = c.count
          /\ Updating(t)' <=> Updating(t)
    BY <1>1, RuntimeMoves
  <1>4. ASSUME UpdateObjTrace(t), NEW j \in 1 .. Len(Elements[c.type]),
               NEW i \in 0 .. c.count - 1, Place(c, j, i) \in Words, j <= c.k
        PROVE  Right(j, i)
    <2>1. Place(c, j, i) \in MemberWords(t, c.count) <=> j = c.k
      BY <1>2, <1>4, WrittenMembers
    <2>2. meta'[Place(c, j, i)] =
            IF Place(c, j, i) \in MemberWords(t, c.count)
            THEN [ref |-> Member(t)[2], size |-> 0, off |-> Member(t)[1]]
            ELSE meta[Place(c, j, i)]
      BY <1>4 DEF UpdateObjTrace
    <2>3. CASE j = c.k
      BY <2>1, <2>2, <2>3 DEF Member
    <2>4. CASE j # c.k
      <3>1. Done(t) = c.k - 1 /\ Updating(t)
        BY <1>4 DEF UpdateObjTrace, Done, Updating
      <3>2. j <= Done(t)
        BY <1>2, <1>4, <2>4, <3>1
      <3>3. Describes(Place(c, j, i), c, j)
        BY <1>1, <1>4, <3>1, <3>2 DEF Healing
      <3>. QED
        BY <2>1, <2>2, <2>4, <3>3 DEF Describes
    <2>. QED
      BY <2>3, <2>4
  <1>5. ASSUME UpdateArraySize(t), NEW j \in 1 .. Len(Elements[c.type]),
               NEW i \in 0 .. c.count - 1, Place(c, j, i) \in Words, j <= c.k
        PROVE  Right(j, i)
    <2>1. Done(t) = c.k /\ Updating(t)
      BY <1>5 DEF UpdateArraySize, Done, Updating
    <2>2. Describes(Place(c, j, i), c, j)
      BY <1>1, <1>5, <2>1 DEF Healing
    <2>3. meta' = IF c.addr \in Words
                  THEN [meta EXCEPT ![c.addr].size = c.count]
                  ELSE meta
      BY <1>5 DEF UpdateArraySize
    <2>4. \A w \in Words : meta'[w].ref = meta[w].ref /\ meta'[w].off = meta[w].off
      BY <1>1, <2>3 DEF Entry
    <2>. QED
      BY <1>5, <2>2, <2>4 DEF Describes
  <1>6. Healing(t)'
    <2> SUFFICES ASSUME Updating(t)', NEW j \in 1 .. Len(Elements[call'[t].type]),
                        NEW i \in 0 .. call'[t].count - 1,
                        Place(call'[t], j, i) \in Words, j <= Done(t)'
                 PROVE  /\ meta'[Place(call'[t], j, i)].ref = Elements[call'[t].type][j][2]
                        /\ meta'[Place(call'[t], j, i)].off = Elements[call'[t].type][j][1]
      BY DEF Healing, Describes, Place
    <2>1. call'[t] # Idle
      BY DEF Updating, Idle
    <2>2. /\ Updating(t) /\ call'[t].type = c.type /\ call'[t].count = c.count
          /\ Place(call'[t], j, i) = Place(c, j, i)
      BY <1>3, <2>1 DEF Place
    <2>3. (UpdateObjTrace(t) \/ UpdateArraySize(t)) /\ Done(t)' = c.k
      <3>1. UpdateObjTrace(t) \/ UpdateArraySize(t)
        BY <2>2 DEF Runtime, EraseObj, EraseArraySize, Updating
      <3>. QED
        BY <1>1, <2>1, <3>1, RuntimeMoves
    <2>. QED
      BY <1>4, <1>5, <2>2, <2>3
  <1>7. ASSUME UpdateArraySize(t), call'[t] = Idle
        PROVE  c.k = Len(Elements[c.type])
    <2>1. ~Updating(t)'
      BY <1>7 DEF Updating, Idle
    <2>. QED
      BY <1>1, <1>7, <2>1, RuntimeMoves
  <1>8. ASSUME UpdateArraySize(t), call'[t] = Idle,
               NEW j \in 1 .. Len(Elements[c.type]), NEW i \in 0 .. c.count - 1,
               Place(c, j, i) \in Words
        PROVE  Right(j, i)
    <2>1. j <= c.k
      BY <1>2, <1>7, <1>8
    <2>. QED
      BY <1>5, <1>8, <2>1
  <1>. QED
    BY <1>6, <1>8


(* Everything the one thread does.                                         *)
LEMMA HealingStep == HealInv /\ [Next]_vars => HealInv'
  <1> SUFFICES ASSUME HealInv, [Next]_vars
               PROVE  HealInv'
    OBVIOUS
  <1>1. ShapeInv /\ ShapeInv' /\ Single
    BY ShapeStep DEF HealInv
  <1>2. ASSUME NEW t \in Threads, Program(t)
        PROVE  Healing(t)'
    <2>1. ASSUME Updating(t)'
          PROVE  Done(t)' = 0
      <3>1. call[t] = Idle /\ CallTypes
        BY <1>1, <1>2 DEF Program, Malloc, MallocFailed, CallocFailed, RequestFailed,
                          Calloc, Realloc, Deallocate, ShapeInv
      <3>2. CASE \E others \in SUBSET heap, addr \in Words, len \in Nat, y \in Types,
                    count \in Nat : Allocated(t, others, addr, len, y, count)
        <4>1. PICK others \in SUBSET heap, addr \in Words, len \in Nat, y \in Types,
                   count \in Nat : Allocated(t, others, addr, len, y, count)
          BY <3>2
        <4>2. Starts(t, "update", addr, len, y, count) /\ addr \in Nat
          BY <4>1, Layout DEF Allocated, Allocate, Starts, Words
        <4>. QED
          <5>1. "update" \in {"update", "erase"}
            OBVIOUS
          <5>2. call'[t] = Idle \/ Done(t)' = 0
            BY <3>1, <4>2, <5>1, StartsCall
          <5>. QED
            BY <2>1, <5>2 DEF Updating, Idle
      <3>3. CASE \E y \in Types, count \in Nat : RequestFailed(t, y, count)
        <4>1. PICK y \in Types, count \in Nat : RequestFailed(t, y, count)
          BY <3>3
        <4>2. Starts(t, "update", 0, 0, y, count)
          BY <4>1 DEF RequestFailed, Starts
        <4>3. call'[t] = Idle \/ Done(t)' = 0
          BY <3>1, <4>2, StartsCall
        <4>. QED
          BY <2>1, <4>3 DEF Updating, Idle
      <3>4. CASE \E o \in heap, y \in Types \cup {NULL} : Deallocate(t, o, y)
        BY <1>1, <2>1, <3>4, DeallocateShape DEF Updating, Idle
      <3>. QED
        BY <1>1, <1>2, <3>2, <3>3, <3>4, ProgramCases
    <2>2. ASSUME Updating(t)'
          PROVE  \A j \in 1 .. Len(Elements[call'[t].type]) : ~(j <= Done(t)')
      BY <2>1, <2>2
    <2>. QED
      BY <2>2 DEF Healing
  <1>3. ASSUME NEW t \in Threads, Runtime(t)
        PROVE  Healing(t)'
    BY <1>3, HealingCalls
  <1>4. ASSUME UNCHANGED vars
        PROVE  \A t \in Threads : Healing(t)'
    BY <1>4 DEF HealInv, vars, Healing, Updating, Done, Place, Describes
  <1>5. \A t \in Threads : Healing(t)'
    BY <1>1, <1>2, <1>3, <1>4 DEF Next, Single
  <1>. QED
    BY <1>1, <1>5 DEF HealInv

(* The block the last call of a registration is about is the only one that *)
(* starts where the call says.                                             *)
LEMMA HealedBlock ==
  ASSUME HealInv, NEW t \in Threads, UpdateArraySize(t), call'[t] = Idle,
         NEW o \in heap, call[t].addr = o.addr
  PROVE  /\ \A k \in 1 .. Len(Elements[o.type]), i \in 0 .. call[t].count - 1 :
              i < Count(o) => /\ meta'[Place(o, k, i)].ref = Elements[o.type][k][2]
                              /\ meta'[Place(o, k, i)].off = Elements[o.type][k][1]
         /\ meta'[o.addr].size = call[t].count
  <1>1. Updating(t) /\ Runtime(t) /\ ShapeInv
    BY DEF HealInv, UpdateArraySize, Updating, Runtime
  <1>2. /\ o.addr \in Nat /\ o.len \in Nat /\ o.len > 0 /\ Inside(o)
        /\ o.addr \in Extent(o) /\ Extent(o) \subseteq Words /\ o.type \in Types
    BY <1>1, HeapObject
  <1>3. Object(call[t]) \in heap
    BY <1>1, <1>2, Layout DEF ShapeInv, Registrations, Outside, Inside
  <1>4. Object(call[t]).addr = o.addr /\ Object(call[t]).len = call[t].len
        /\ Object(call[t]).type = call[t].type
    BY DEF Object
  <1>5. Object(call[t]) = o
    <2>1. Object(call[t]).len \in Nat /\ Object(call[t]).len > 0
      BY <1>1, <1>3, HeapObject
    <2>2. ~Apart(Object(call[t]), o)
      BY <1>2, <1>4, <2>1 DEF Apart, Ended
    <2>. QED
      BY <1>1, <1>3, <2>2 DEF ShapeInv, HeapShape
  <1>6. call[t].type = o.type
    BY <1>4, <1>5
  <1>7. ASSUME NEW k \in 1 .. Len(Elements[o.type]), NEW i \in 0 .. call[t].count - 1,
               i < Count(o)
        PROVE  /\ meta'[Place(o, k, i)].ref = Elements[o.type][k][2]
               /\ meta'[Place(o, k, i)].off = Elements[o.type][k][1]
    <2>1. Count(o) \in Nat
      BY <1>2, CountBounds, Layout DEF Count
    <2>2. Place(o, k, i) \in Words
      BY <1>2, <1>7, <2>1, PlaceInside
    <2>3. Place(call[t], k, i) = Place(o, k, i)
      BY <1>6 DEF Place
    <2>. QED
      BY <1>1, <1>6, <2>2, <2>3, HealingCalls
  <1>8. meta'[o.addr].size = call[t].count
    <2>1. o.addr \in Words /\ meta \in [Words -> Entry]
      BY <1>1, <1>2 DEF ShapeInv, TypeOK
    <2>2. meta' = [meta EXCEPT ![o.addr].size = call[t].count]
      BY <2>1 DEF UpdateArraySize
    <2>. QED
      BY <2>1, <2>2 DEF Entry
  <1>. QED
    BY <1>7, <1>8

(* In a program of one thread, the registration of a block describes the   *)
(* elements it is told of and their number, even after a mistyped free, a  *)
(* moved realloc, a miscounting calloc or a failed request.                *)
THEOREM RegistrationHealsHolds == Single /\ Spec => RegistrationHeals
  <1> DEFINE Heals ==
        \A t \in Threads, o \in heap :
          call[t].op = "size" /\ call'[t] = Idle /\ call[t].addr = o.addr =>
            /\ \A k \in DOMAIN Elements[o.type], i \in 0 .. call[t].count - 1 :
                 i < o.len \div Size[o.type] =>
                   LET w == o.addr + Elements[o.type][k][1] + Size[o.type] * i
                   IN  /\ meta'[w].ref = Elements[o.type][k][2]
                       /\ meta'[w].off = Elements[o.type][k][1]
            /\ meta'[o.addr].size = call[t].count
  <1>1. Single /\ Init => HealInv
    <2> SUFFICES ASSUME Single, Init
                 PROVE  HealInv
      OBVIOUS
    <2>1. \A t \in Threads : ~Updating(t)
      BY DEF Init, Updating, Idle
    <2>. QED
      BY <2>1, InitShape DEF HealInv, Healing, IInv
  <1>2. HealInv /\ [Next]_vars => [Heals]_vars
    <2> SUFFICES ASSUME HealInv, Next
                 PROVE  Heals
      OBVIOUS
    <2>1. PICK u \in Threads : Program(u) \/ Runtime(u)
      BY DEF Next
    <2>2. ASSUME NEW t \in Threads, call[t].op = "size", call'[t] = Idle
          PROVE  UpdateArraySize(t)
      <3>1. t = u
        BY DEF HealInv, Single
      <3>2. call[t] # Idle
        BY <2>2 DEF Idle
      <3>3. ~Program(t)
        BY <3>2 DEF Program, Malloc, MallocFailed, CallocFailed, RequestFailed, Calloc,
                    Realloc, Deallocate
      <3>. QED
        BY <2>1, <2>2, <3>1, <3>3
           DEF Runtime, UpdateObjTrace, EraseObj, EraseArraySize
    <2>3. ASSUME NEW t \in Threads, NEW o \in heap, call[t].op = "size",
                 call'[t] = Idle, call[t].addr = o.addr
          PROVE  /\ \A k \in DOMAIN Elements[o.type], i \in 0 .. call[t].count - 1 :
                      i < Count(o) =>
                        /\ meta'[Place(o, k, i)].ref = Elements[o.type][k][2]
                        /\ meta'[Place(o, k, i)].off = Elements[o.type][k][1]
                 /\ meta'[o.addr].size = call[t].count
      <3>1. DOMAIN Elements[o.type] = 1 .. Len(Elements[o.type])
        BY Layout DEF HealInv, ShapeInv, TypeOK, Objects
      <3>. QED
        BY <2>2, <2>3, <3>1, HealedBlock
    <2>. QED
      BY <2>3 DEF Count, Place
  <1>. QED
    BY <1>1, <1>2, HealingStep, PTL DEF Spec, RegistrationHeals
=============================================================================

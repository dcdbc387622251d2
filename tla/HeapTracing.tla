----------------------------- MODULE HeapTracing -----------------------------
(***************************************************************************)
(* What the compiler pass makes of heap memory: after every allocation of  *)
(* an interesting type it calls the runtime for each tracked member, after *)
(* every deallocation it calls the runtime again (BitypeInitializePass.cpp *)
(* 56-228, BitypeUtil.cpp 1175-1196 and 1571-1684).  The memory is free    *)
(* again before the second kind of call, and the runtime takes the number  *)
(* of elements to forget from the size word the first kind wrote.          *)
(*                                                                         *)
(* Addresses count 8-byte words, the granularity of the metadata.  The     *)
(* entries are those of TypeMap.  Below the heap, around NULL, the entries *)
(* are not modelled; a failed request is registered from NULL on, and what *)
(* of it reaches the heap is.  Counts and their products with a size stay  *)
(* below 2^32, the width the runtime computes them in, and NULL is not     *)
(* passed to free.                                                         *)
(***************************************************************************)
EXTENDS Integers, Sequences, FiniteSets

CONSTANTS
  Threads,
  Types,    (* Static types of allocation and deallocation sites.          *)
  Vectors,  (* The code vectors of classes.                                *)
  NULL,     (* No code vector; no type, at a site with an untyped pointer. *)
  Size,     (* Words of an object of a type.                               *)
  Elements, (* getArrayAlignment: its tracked members, <<offset, vector>>  *)
            (* by increasing offset.                                       *)
  Base, Limit,  (* The heap: words Base .. Limit - 1.                      *)
  Lengths       (* Words a program asks for.                               *)

ASSUME LayoutAssumption ==
  /\ NULL \notin Types
  /\ Size \in [Types -> Nat \ {0}]
  /\ Elements \in [Types -> Seq(Nat \X Vectors)]
  /\ \A y \in Types : \A k \in 1 .. Len(Elements[y]) :
       /\ Elements[y][k][1] < Size[y]
       /\ \A j \in 1 .. k - 1 : Elements[y][j][1] < Elements[y][k][1]
  /\ Base \in Nat \ {0} /\ Limit \in Nat
  /\ Lengths \subseteq Nat \ {0}

VARIABLES
  heap,      (* Live objects.                                              *)
  meta,      (* Entries of the words of the heap.                          *)
  call,      (* The runtime calls each thread still has to make.           *)
  unhandled  (* Ghost: something happened that the pass does not handle.   *)

vars == <<heap, meta, call, unhandled>>

Words  == Base .. Limit - 1
NoMeta == [ref |-> NULL, size |-> 0, off |-> 0]

Idle == [op |-> "idle"]

Init ==
  /\ heap = {}
  /\ meta = [w \in Words |-> NoMeta]
  /\ call = [t \in Threads |-> Idle]
  /\ unhandled = FALSE

-----------------------------------------------------------------------------
Extent(o) == o.addr .. o.addr + o.len - 1

Free(addr, len) ==
  /\ addr .. addr + len - 1 \subseteq Words
  /\ \A o \in heap : Extent(o) \cap (addr .. addr + len - 1) = {}

(* The words an unfinished sequence of runtime calls is about; none of the *)
(* program's when a request failed.                                        *)
Pending(t) == IF call[t].op = "idle" THEN {} ELSE Extent(call[t])

Quiet(words) == \A t \in Threads : Pending(t) \cap words = {}

(* A program lets go of a block it was given after the calls that follow   *)
(* the allocation, and only once.                                          *)
Owned(o) == Quiet(Extent(o))

(* handleHeapAlloc: no call when the type has no tracked member.           *)
Hook(op, addr, len, y, count) ==
  IF Elements[y] = <<>> THEN Idle
  ELSE [op |-> op, addr |-> addr, len |-> len, type |-> y, count |-> count,
        k |-> 1]

(* Memory handed out again before its last owner's entries are erased.     *)
Reused(t, addr, len) ==
  \E u \in Threads \ {t} : Pending(u) \cap (addr .. addr + len - 1) # {}

(* The allocator answers; count elements will be registered, of the        *)
(* elements that fit in the object.                                        *)
Allocate(t, others, addr, len, y, count) ==
  /\ heap' = others \cup {[addr |-> addr, len |-> len, type |-> y]}
  /\ call' = [call EXCEPT ![t] = Hook("update", addr, len, y, count)]

(* malloc and operator new: bytes / TypeSize elements.                     *)
Malloc(t, y, len) ==
  /\ call[t] = Idle
  /\ len >= Size[y]
  /\ \E addr \in Words :
       /\ Free(addr, len)
       /\ Allocate(t, heap, addr, len, y, len \div Size[y])
       /\ unhandled' = (unhandled \/ Reused(t, addr, len))
  /\ UNCHANGED meta

(* The result is not tested: when the allocator has nothing to give, count *)
(* elements are registered from NULL on, and those of a large request lie  *)
(* in the heap.                                                            *)
RequestFailed(t, y, count) ==
  /\ call[t] = Idle
  /\ call' = [call EXCEPT ![t] = Hook("update", 0, 0, y, count)]
  /\ unhandled' = (unhandled \/ count * Size[y] > Base)
  /\ UNCHANGED <<heap, meta>>

(* malloc, and realloc, which then leaves the old block alone.             *)
MallocFailed(t, y, len) == RequestFailed(t, y, len \div Size[y])

(* calloc(n, size): the pass takes the second argument, the bytes of one   *)
(* element, for the number of elements.                                    *)
Calloc(t, y, n) ==
  LET count == 8 * Size[y]
      len   == n * Size[y]
  IN  /\ call[t] = Idle
      /\ \E addr \in Words :
           /\ Free(addr, len)
           /\ Allocate(t, heap, addr, len, y, count)
           /\ unhandled' = (unhandled \/ count # n \/ Reused(t, addr, len))
      /\ UNCHANGED meta

CallocFailed(t, y) == RequestFailed(t, y, 8 * Size[y])

(* realloc: the new block is registered, the old one never erased.         *)
Realloc(t, o, y, len) ==
  /\ call[t] = Idle /\ Owned(o)
  /\ len >= Size[y]
  /\ \E addr \in Words :
       /\ addr .. addr + len - 1 \subseteq Words
       /\ \A p \in heap \ {o} : Extent(p) \cap (addr .. addr + len - 1) = {}
       /\ Allocate(t, heap \ {o}, addr, len, y, len \div Size[y])
       /\ unhandled' = \/ unhandled
                       \/ y # o.type
                       \/ ~(Extent(o) \subseteq addr .. addr + len - 1)
                       \/ addr # o.addr
                       \/ Reused(t, addr, len)
  /\ UNCHANGED meta

(* free and operator delete; y is the type the argument was cast from just *)
(* before, NULL when it was not.                                           *)
Deallocate(t, o, y) ==
  /\ call[t] = Idle /\ Owned(o)
  /\ heap' = heap \ {o}
  /\ call' = [call EXCEPT ![t] =
                IF y = NULL THEN Idle ELSE Hook("erase", o.addr, o.len, y, 0)]
  /\ unhandled' =
       (unhandled \/ ~(y = o.type \/ (y = NULL /\ Elements[o.type] = <<>>)))
  /\ UNCHANGED meta

-----------------------------------------------------------------------------
(* The runtime calls.  k counts the tracked members.                       *)

Member(t) == Elements[call[t].type][call[t].k]

(* Faulty: elements are taken to be one word apart.                        *)
MemberWordsPacked(t, count) ==
  {call[t].addr + Member(t)[1] + i : i \in 0 .. count - 1}

(* Word of the member in each of the first count elements.                 *)
MemberWords(t, count) ==
  {call[t].addr + Member(t)[1] + Size[call[t].type] * i : i \in 0 .. count - 1}

Last(t) == call[t].k = Len(Elements[call[t].type])

Then(t, op) == call' = [call EXCEPT ![t].op = op]

NextMember(t, op) ==
  call' = [call EXCEPT ![t] = IF Last(t) THEN Idle
                              ELSE [@ EXCEPT !.op = op, !.k = call[t].k + 1]]

(* __bitype_updateObjTrace for one member of all elements.                 *)
UpdateObjTrace(t) ==
  /\ call[t].op = "update"
  /\ meta' = [w \in Words |->
                IF w \in MemberWords(t, call[t].count)
                THEN [ref |-> Member(t)[2], size |-> 0, off |-> Member(t)[1]]
                ELSE meta[w]]
  /\ Then(t, "size")
  /\ UNCHANGED <<heap, unhandled>>

(* __bitype_update_arraySize, after every member.                          *)
UpdateArraySize(t) ==
  /\ call[t].op = "size"
  /\ meta' = IF call[t].addr \in Words
             THEN [meta EXCEPT ![call[t].addr].size = call[t].count]
             ELSE meta
  /\ NextMember(t, "update")
  /\ UNCHANGED <<heap, unhandled>>

(* Faulty: both words of a slot are erased, and the count with them, as    *)
(* __bitype_direct_eraseObj does for single objects.                       *)
EraseObjWhole(t) ==
  LET sized == IF call[t].addr \in Words THEN meta[call[t].addr].size ELSE 0
      count == IF sized # 0 THEN sized ELSE 1
  IN  /\ call[t].op = "erase"
      /\ meta' = [w \in Words |-> IF w \in MemberWords(t, count)
                                  THEN NoMeta ELSE meta[w]]
      /\ IF Last(t) THEN Then(t, "clear") ELSE NextMember(t, "erase")
      /\ UNCHANGED <<heap, unhandled>>

(* Faulty: the count is decremented with every member.                     *)
EraseObjCountingDown(t) ==
  LET sized == IF call[t].addr \in Words THEN meta[call[t].addr].size ELSE 0
      count == IF sized # 0 THEN sized ELSE 1
  IN  /\ call[t].op = "erase"
      /\ meta' = [w \in Words |->
                    IF w \in MemberWords(t, count)
                    THEN [meta[w] EXCEPT !.ref = NULL, !.size = @ - 1]
                    ELSE meta[w]]
      /\ IF Last(t) THEN Then(t, "clear") ELSE NextMember(t, "erase")
      /\ UNCHANGED <<heap, unhandled>>

(* __bitype_eraseObj for one member: as many elements as the size word of  *)
(* the start of the block says, one when it says none.                     *)
EraseObj(t) ==
  LET sized == IF call[t].addr \in Words THEN meta[call[t].addr].size ELSE 0
      count == IF sized # 0 THEN sized ELSE 1
  IN  /\ call[t].op = "erase"
      /\ meta' = [w \in Words |-> IF w \in MemberWords(t, count)
                                  THEN [meta[w] EXCEPT !.ref = NULL]
                                  ELSE meta[w]]
      /\ IF Last(t) THEN Then(t, "clear") ELSE NextMember(t, "erase")
      /\ UNCHANGED <<heap, unhandled>>

(* __bitype_direct_eraseArraySize, after the last member.                  *)
EraseArraySize(t) ==
  /\ call[t].op = "clear"
  /\ meta' = IF call[t].addr \in Words
             THEN [meta EXCEPT ![call[t].addr].size = 0,
                               ![call[t].addr].off = 0]
             ELSE meta
  /\ call' = [call EXCEPT ![t] = Idle]
  /\ UNCHANGED <<heap, unhandled>>

-----------------------------------------------------------------------------
Program(t) ==
  \/ \E y \in Types : CallocFailed(t, y)
  \/ \E y \in Types, len \in Lengths :
       \/ Malloc(t, y, len)
       \/ MallocFailed(t, y, len)
       \/ Calloc(t, y, len)
       \/ \E o \in heap : Realloc(t, o, y, len)
  \/ \E o \in heap, y \in Types \cup {NULL} : Deallocate(t, o, y)

Runtime(t) ==
  UpdateObjTrace(t) \/ UpdateArraySize(t) \/ EraseObj(t) \/ EraseArraySize(t)

Next == \E t \in Threads : Program(t) \/ Runtime(t)

Spec == Init /\ [][Next]_vars

-----------------------------------------------------------------------------
Objects == [addr : Words, len : Nat, type : Types]

Entry   == [ref : Vectors \cup {NULL}, size : Nat, off : Nat]

TypeOK ==
  /\ heap \subseteq Objects
  /\ meta \in [Words -> Entry]
  /\ \A t \in Threads :
       call[t].op \in {"idle", "update", "size", "erase", "clear"}
  /\ unhandled \in BOOLEAN

(* The member of a live object that starts at word w, if any.              *)
MembersAt(o, w) ==
  {k \in 1 .. Len(Elements[o.type]) :
     \E i \in 0 .. (o.len \div Size[o.type]) - 1 :
       w = o.addr + Elements[o.type][k][1] + Size[o.type] * i}

(* The entries of an object are those of its type, and its first word      *)
(* carries the number of its elements.                                     *)
Described(o) ==
  /\ \A w \in Extent(o) :
       IF MembersAt(o, w) = {} THEN meta[w].ref = NULL
       ELSE \A k \in MembersAt(o, w) :
              /\ meta[w].ref = Elements[o.type][k][2]
              /\ meta[w].off = Elements[o.type][k][1]
  /\ Elements[o.type] # <<>> => meta[o.addr].size = o.len \div Size[o.type]

(* Live memory is described by its type and the rest of the heap by        *)
(* nothing, in every interleaving of the threads, as long as every block   *)
(* is freed through the type it was allocated with, no block is moved by   *)
(* realloc, no calloc miscounts, no large request fails, and the allocator *)
(* does not hand a block out again before the thread that freed it has     *)
(* erased its entries.                                                     *)
HeapExact ==
  ~unhandled =>
    /\ \A o \in heap : Quiet(Extent(o)) => Described(o)
    /\ \A w \in Words :
         (\A o \in heap : w \notin Extent(o)) /\ Quiet({w})
           => meta[w].ref = NULL /\ meta[w].size = 0

(* Whatever was left in a block by anything the pass does not handle, a    *)
(* failed request among it, once the calls of its next owner are done the  *)
(* elements they were told of have their entries and the first word their  *)
(* number, in a program of one thread.  The other words of the block may   *)
(* still have stale entries, and so may the elements behind the count of a *)
(* calloc that is too small.                                               *)
RegistrationHeals ==
  [][\A t \in Threads, o \in heap :
       call[t].op = "size" /\ call'[t] = Idle /\ call[t].addr = o.addr =>
         /\ \A k \in DOMAIN Elements[o.type], i \in 0 .. call[t].count - 1 :
              i < o.len \div Size[o.type] =>
                LET w == o.addr + Elements[o.type][k][1] + Size[o.type] * i
                IN  /\ meta'[w].ref = Elements[o.type][k][2]
                    /\ meta'[w].off = Elements[o.type][k][1]
         /\ meta'[o.addr].size = call[t].count]_vars
=============================================================================

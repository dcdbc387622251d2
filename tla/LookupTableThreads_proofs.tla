----------------------- MODULE LookupTableThreads_proofs -----------------------
(***************************************************************************)
(* Proofs about LookupTableThreads, for every number of threads, every     *)
(* geometry and every set of addresses: while no two threads allocate at   *)
(* once the tables stay apart, in place and inside mapped memory, and no   *)
(* registration, removal or lookup of one thread is disturbed by another.  *)
(***************************************************************************)
EXTENDS LookupTableThreads, TableMemory_proofs

-----------------------------------------------------------------------------
(* What holds whatever the threads do, overlapping allocations included.   *)

Registering == {"start", "check", "map", "end", "take", "publish"}
Filling     == {"ref", "off", "read", "readoff"}
PCs == {"idle", "table", "reload", "bump", "done"} \cup Registering \cup Filling

(* X: what has been read from memory; a mapped word that is no slot, which *)
(* only overlapping allocations lead to, holds anything.                   *)
Locals(X) == [pc : PCs, job : Jobs \cup {NULL}, level2 : Nat, start : Nat,
              seen : [ref : X, off : X]]

Contents(f) ==
  {f[t].seen.ref : t \in Threads} \cup {f[t].seen.off : t \in Threads}

ThreadsShape == thread \in [Threads -> Locals(Contents(thread))]

(* Which calls reach a point, and whether the thread then holds a start.   *)
Place(t) ==
  LET pc == thread[t].pc
      op == Job(t).op
  IN  /\ pc = "idle" => Job(t) = NULL
      /\ pc # "idle" => Job(t) \in Jobs
      /\ pc \in {"idle", "table", "start", "read", "readoff", "done"}
           => thread[t].start = 0
      /\ pc \in (Registering \ {"start"}) \cup {"reload", "bump"}
           => thread[t].start # 0
      /\ pc \in Registering \cup {"bump"} => op \in {"update", "inline"}
      /\ pc = "reload" => op = "update"
      /\ pc \in {"ref", "off"} => op # "lookup"
      /\ pc \in {"ref", "off"} /\ thread[t].start # 0 => op = "inline"
      /\ pc \in {"read", "readoff"} => op = "lookup"
      /\ pc \in {"idle", "table"} => thread[t].seen = NoEntry

(* Two threads work on one slot only to look it up.                        *)
Exclusion ==
  \A t, u \in Threads :
    t # u /\ thread[t].pc # "idle" /\ thread[u].pc # "idle"
          /\ SlotOf(Job(t).this) = SlotOf(Job(u).this)
      => Job(t).op = "lookup" /\ Job(u).op = "lookup"

GlobalsOK ==
  /\ BitypeLookupStart \in [0 .. L1_BITS - 1 -> Nat]
  /\ BitypeSecondLevelStart \in Nat \ {0} /\ BitypeSecondLevelEnd \in Nat
  /\ chunks \subseteq ChunkBases
  /\ cell \in [CellAddrs -> Entry]
  /\ exited \in BOOLEAN /\ overlapped \in BOOLEAN
  /\ expected \in [Slots -> Entry]

TypeInv ==
  /\ GlobalsOK
  /\ ThreadsShape
  /\ \A t \in Threads : Place(t)
  /\ Exclusion
  /\ ~overlapped => ~Contended

-----------------------------------------------------------------------------
(* What holds of the tables while allocations do not overlap.              *)

ChunkEnds == {b + mmap_words : b \in ChunkBases}

(* The thread has stored the pointer to its table and not yet moved the    *)
(* cursor past it.                                                         *)
Unbumped(t) ==
  thread[t].start # 0 /\ thread[t].pc \in {"ref", "off", "reload", "bump"}

(* The thread has moved the cursor to a new chunk, not yet the bound.      *)
Remapped(t) == thread[t].pc = "end"

(* The rest of the cursor's chunk is free, except for the table at the     *)
(* cursor while its thread has not moved the cursor.                       *)
CursorInv ==
  (\A t \in Threads : ~Remapped(t)) =>
    /\ \E b \in chunks : /\ b <= BitypeSecondLevelStart
                         /\ BitypeSecondLevelStart <= BitypeSecondLevelEnd
                         /\ BitypeSecondLevelEnd = b + mmap_words
    /\ \A x \in Tables :
         BitypeSecondLevelStart <= x /\ x < BitypeSecondLevelEnd
           => \E t \in Threads : Unbumped(t) /\ x = thread[t].level2

FirstLevelInv ==
  /\ BitypeLookupStart \in [0 .. L1_BITS - 1 -> TableAddrs \cup {0}]
  /\ BitypeSecondLevelStart \in TableAddrs \cup ChunkEnds
  /\ \A i, k \in 0 .. L1_BITS - 1 :
       i # k /\ BitypeLookupStart[i] # 0
         => BitypeLookupStart[i] # BitypeLookupStart[k]
  /\ \A x \in Tables : \E b \in chunks : Within(x, b)

(* What each thread knows of the tables at each point of its call.         *)
Knows(t) ==
  LET pc    == thread[t].pc
      table == BitypeLookupStart[Idx1(Job(t).this)]
  IN  /\ thread[t].start # 0 => thread[t].start = BitypeSecondLevelStart
      /\ pc \in Registering => table = 0
      /\ pc = "end" => /\ BitypeSecondLevelStart \in chunks
                       /\ \A x \in Tables : ~Within(x, BitypeSecondLevelStart)
      /\ pc \in {"take", "publish"} \/ Unbumped(t)
           => BitypeSecondLevelStart < BitypeSecondLevelEnd
      /\ pc = "publish" \/ Unbumped(t)
           => thread[t].level2 = BitypeSecondLevelStart
      /\ pc \in Filling \cup {"reload", "bump"}
           => thread[t].level2 = table /\ table # 0

Serial == CursorInv /\ FirstLevelInv /\ \A t \in Threads : Knows(t)

SerialInv == ~overlapped => Serial

-----------------------------------------------------------------------------
(* What holds of the slots while allocations do not overlap.               *)

FreshCells ==
  \A x \in TableAddrs \ Tables : \A j \in 0 .. L2_BITS - 1 :
    cell[x + 2 * j] = NoEntry

Writing(s) ==
  \E t \in Threads : /\ thread[t].pc # "idle" /\ Job(t).op # "lookup"
                     /\ SlotOf(Job(t).this) = s

(* How far the slot of a thread's call is.                                 *)
Progress(t) ==
  LET pc == thread[t].pc
      e  == EntryOf(SlotOf(Job(t).this))
      x  == expected[SlotOf(Job(t).this)]
  IN  /\ pc # "idle" /\ Job(t).op # "lookup"
           => x = [ref |-> Job(t).ref, off |-> Job(t).off]
      /\ Job(t).op # "lookup" /\ pc = "off" => e.ref = x.ref
      /\ Job(t).op # "lookup" /\ pc = "done" => e = x
      /\ Job(t).op = "inline" /\ pc = "bump" => e = x
      /\ Job(t).op = "lookup" /\ pc = "readoff" =>
           thread[t].seen.ref = x.ref /\ x.ref # NULL
      /\ Job(t).op = "lookup" /\ pc = "done" =>
           /\ thread[t].seen.ref = x.ref
           /\ x.ref # NULL => thread[t].seen.off = x.off

Entries ==
  /\ FreshCells
  /\ \A s \in Slots : ~Writing(s) => EntryOf(s) = expected[s]
  /\ \A t \in Threads : thread[t].pc # "idle" => Progress(t)

EntriesInv == ~overlapped => Entries

-----------------------------------------------------------------------------
(* What a step does to the threads.                                        *)

(* Thread t goes to pc with these locals; the others stay where they are.  *)
Moves(t, pc, job, level2, start) ==
  /\ ThreadsShape'
  /\ \A u \in Threads \ {t} : thread'[u] = thread[u]
  /\ thread'[t].pc = pc /\ thread'[t].job = job
  /\ thread'[t].level2 = level2 /\ thread'[t].start = start

SeenStays(t) == thread'[t].seen = thread[t].seen

(* The values read are whatever they are.                                  *)
LEMMA ShapeOf ==
  ASSUME NEW X, NEW f \in [Threads -> Locals(X)]
  PROVE  f \in [Threads -> Locals(Contents(f))]
  <1> SUFFICES ASSUME NEW t \in Threads
               PROVE  f[t] \in Locals(Contents(f))
    OBVIOUS
  <1>1. f[t] \in Locals(X)
    OBVIOUS
  <1>2. f[t].seen.ref \in Contents(f) /\ f[t].seen.off \in Contents(f)
    BY DEF Contents
  <1>. QED
    BY <1>1, <1>2 DEF Locals

(* Whatever is read next, the locals keep their shape.                     *)
LEMMA ShapeWith ==
  ASSUME TypeInv, NEW V
  PROVE  LET X == Contents(thread) \cup V
         IN  /\ thread \in [Threads -> Locals(X)]
             /\ thread' \in [Threads -> Locals(X)] => ThreadsShape'
  <1> DEFINE X == Contents(thread) \cup V
  <1>1. ASSUME NEW u \in Threads
        PROVE  thread[u] \in Locals(X)
    <2>1. thread[u] \in Locals(Contents(thread))
      BY DEF TypeInv, ThreadsShape
    <2>. QED
      BY <2>1 DEF Locals
  <1>2. thread \in [Threads -> Locals(X)]
    BY <1>1 DEF TypeInv, ThreadsShape
  <1>3. thread' \in [Threads -> Locals(X)] => ThreadsShape'
    BY ShapeOf DEF ThreadsShape
  <1>. QED
    BY <1>2, <1>3

(* The cursor, its bound and the addresses of chunks are numbers.          *)
LEMMA CursorNat ==
  ASSUME TypeInv
  PROVE  /\ BitypeSecondLevelStart \in Nat \ {0} /\ BitypeSecondLevelEnd \in Nat
         /\ ChunkBases \subseteq Nat \ {0}
         /\ \A t \in Threads : /\ thread[t].start \in Nat /\ thread[t].level2 \in Nat
                               /\ StartValues(t) \subseteq Nat
                               /\ thread[t].pc \in PCs
  BY Geometry DEF TypeInv, GlobalsOK, ThreadsShape, Locals, StartValues

(* A thread begins a call that none of the others conflicts with.          *)
LEMMA BeginMoves ==
  ASSUME TypeInv, NEW t \in Threads, Begin(t)
  PROVE  \E j \in Jobs :
           /\ Moves(t, "table", j, thread[t].level2, 0) /\ SeenStays(t)
           /\ \A u \in Threads : thread[u].pc # "idle" => ~Conflict(j, Job(u))
           /\ expected' = IF j.op = "lookup" THEN expected
                          ELSE [expected EXCEPT ![SlotOf(j.this)] =
                                  [ref |-> j.ref, off |-> j.off]]
  <1> DEFINE X == Contents(thread) \cup {}
  <1>1. PICK j \in Jobs :
          /\ \A u \in Threads : thread[u].pc # "idle" => ~Conflict(j, Job(u))
          /\ thread' = [thread EXCEPT ![t].pc = "table", ![t].job = j]
          /\ expected' = IF j.op = "lookup" THEN expected
                         ELSE [expected EXCEPT ![SlotOf(j.this)] =
                                 [ref |-> j.ref, off |-> j.off]]
    BY DEF Begin
  <1>2. thread[t].start = 0
    BY DEF Begin, At, TypeInv, Place
  <1>3. /\ thread \in [Threads -> Locals(X)]
        /\ thread' \in [Threads -> Locals(X)] => ThreadsShape'
    BY ShapeWith
  <1> HIDE DEF X
  <1>4. thread' \in [Threads -> Locals(X)]
    BY <1>1, <1>3 DEF Locals, PCs
  <1>5. Moves(t, "table", j, thread[t].level2, 0) /\ SeenStays(t)
    BY <1>1, <1>2, <1>3, <1>4 DEF Locals, Moves, SeenStays
  <1>. QED
    BY <1>1, <1>5

(* Where a registration, a removal and a lookup go from the table they     *)
(* found, or did not find.                                                 *)
LEMMA LoadTableMoves ==
  ASSUME TypeInv, NEW t \in Threads, LoadTable(t)
  PROVE  LET table == BitypeLookupStart[Idx1(Job(t).this)]
         IN  /\ SeenStays(t)
             /\ \/ /\ table # 0 /\ Job(t).op = "lookup"
                   /\ Moves(t, "read", Job(t), table, 0)
                \/ /\ table # 0 /\ Job(t).op \in {"update", "inline", "erase"}
                   /\ Moves(t, "ref", Job(t), table, 0)
                \/ /\ table = 0 /\ Job(t).op \in {"update", "inline"}
                   /\ Moves(t, "start", Job(t), table, 0)
                \/ /\ table = 0 /\ Job(t).op \in {"erase", "lookup"}
                   /\ Moves(t, "done", Job(t), table, 0)
  <1> DEFINE X     == Contents(thread) \cup {}
             table == BitypeLookupStart[Idx1(Job(t).this)]
             next  == CASE table # 0 /\ Job(t).op = "lookup" -> "read"
                        [] table # 0 /\ Job(t).op # "lookup" -> "ref"
                        [] table = 0 /\ Job(t).op \in {"update", "inline"} -> "start"
                        [] table = 0 /\ Job(t).op \in {"erase", "lookup"} -> "done"
  <1>1. thread' = [thread EXCEPT ![t].pc = next, ![t].level2 = table]
    BY DEF LoadTable
  <1>2. Job(t) \in Jobs /\ thread[t].start = 0
    BY DEF LoadTable, At, TypeInv, Place
  <1>3. /\ Job(t).op \in {"update", "inline", "erase", "lookup"}
        /\ Job(t).this \in Nat
    BY <1>2, ThreadsAssumption DEF Jobs
  <1>4. table \in Nat
    BY <1>3, IndexRange DEF TypeInv, GlobalsOK
  <1>5. \/ table # 0 /\ Job(t).op = "lookup" /\ next = "read"
        \/ table # 0 /\ Job(t).op \in {"update", "inline", "erase"} /\ next = "ref"
        \/ table = 0 /\ Job(t).op \in {"update", "inline"} /\ next = "start"
        \/ table = 0 /\ Job(t).op \in {"erase", "lookup"} /\ next = "done"
    BY <1>3
  <1> HIDE DEF next, table
  <1>6. /\ thread \in [Threads -> Locals(X)]
        /\ thread' \in [Threads -> Locals(X)] => ThreadsShape'
    BY ShapeWith
  <1> HIDE DEF X
  <1>7. next \in PCs
    BY <1>5 DEF PCs, Registering, Filling
  <1>8. thread' \in [Threads -> Locals(X)]
    BY <1>1, <1>4, <1>6, <1>7 DEF Locals
  <1>9. Moves(t, next, Job(t), table, 0) /\ SeenStays(t)
    BY <1>1, <1>2, <1>4, <1>6, <1>7, <1>8 DEF Locals, Moves, SeenStays, Job
  <1>. QED
    BY <1>5, <1>9 DEF table

(* An allocation loads the cursor.                                         *)
LEMMA LoadStartMoves ==
  ASSUME TypeInv, NEW t \in Threads, LoadStart(t)
  PROVE  /\ Moves(t, "check", Job(t), thread[t].level2, BitypeSecondLevelStart)
         /\ SeenStays(t)
  <1> DEFINE X == Contents(thread) \cup {}
  <1>1. /\ thread \in [Threads -> Locals(X)]
        /\ thread' \in [Threads -> Locals(X)] => ThreadsShape'
    BY ShapeWith
  <1> HIDE DEF X
  <1>2. BitypeSecondLevelStart \in Nat /\ "check" \in PCs
    BY CursorNat DEF PCs, Registering, Filling
  <1>3. thread' \in [Threads -> Locals(X)]
    BY <1>1, <1>2 DEF LoadStart, Goto, Locals
  <1>. QED
    BY <1>1, <1>2, <1>3
       DEF LoadStart, Goto, Locals, Moves, SeenStays, Job

(* The cursor at its bound calls for a new chunk.                          *)
LEMMA CheckEndMoves ==
  ASSUME TypeInv, NEW t \in Threads, CheckEnd(t)
  PROVE  /\ Moves(t, IF thread[t].start >= BitypeSecondLevelEnd THEN "map" ELSE "take",
               Job(t), thread[t].level2, thread[t].start)
         /\ SeenStays(t)
  <1> DEFINE X == Contents(thread) \cup {}
  <1>1. /\ thread \in [Threads -> Locals(X)]
        /\ thread' \in [Threads -> Locals(X)] => ThreadsShape'
    BY ShapeWith
  <1> HIDE DEF X
  <1>2. (IF thread[t].start >= BitypeSecondLevelEnd THEN "map" ELSE "take") \in PCs
    BY CursorNat DEF PCs, Registering, Filling
  <1>3. thread' \in [Threads -> Locals(X)]
    BY <1>1, <1>2 DEF CheckEnd, Goto, Locals
  <1>. QED
    BY <1>1, <1>2, <1>3
       DEF CheckEnd, Goto, Locals, Moves, SeenStays, Job

(* A new chunk moves the cursor to its base.                               *)
LEMMA MapChunkMoves ==
  ASSUME TypeInv, NEW t \in Threads, MapChunk(t)
  PROVE  \E b \in ChunkBases \ chunks :
           /\ chunks' = chunks \cup {b} /\ BitypeSecondLevelStart' = b
           /\ Moves(t, "end", Job(t), thread[t].level2, b) /\ SeenStays(t)
  <1> DEFINE X == Contents(thread) \cup {}
  <1>1. /\ thread \in [Threads -> Locals(X)]
        /\ thread' \in [Threads -> Locals(X)] => ThreadsShape'
    BY ShapeWith
  <1> HIDE DEF X
  <1>2. PICK b \in ChunkBases \ chunks :
          /\ chunks' = chunks \cup {b} /\ BitypeSecondLevelStart' = b
          /\ thread' = [thread EXCEPT ![t].pc = "end", ![t].start = b]
    BY DEF MapChunk
  <1>3. thread' \in [Threads -> Locals(X)]
    BY ZenonT(60), <1>1, <1>2, CursorNat DEF Locals, PCs, Registering
  <1>4. Moves(t, "end", Job(t), thread[t].level2, b) /\ SeenStays(t)
    BY <1>1, <1>2, <1>3, CursorNat DEF Locals, Moves, SeenStays, Job
  <1>. QED
    BY <1>2, <1>4

(* The bound of the new chunk.                                             *)
LEMMA SetEndMoves ==
  ASSUME TypeInv, NEW t \in Threads, SetEnd(t)
  PROVE  /\ Moves(t, "take", Job(t), thread[t].level2, thread[t].start)
         /\ SeenStays(t)
  <1> DEFINE X == Contents(thread) \cup {}
  <1>1. /\ thread \in [Threads -> Locals(X)]
        /\ thread' \in [Threads -> Locals(X)] => ThreadsShape'
    BY ShapeWith
  <1> HIDE DEF X
  <1>2. "take" \in PCs
    BY CursorNat DEF PCs, Registering, Filling
  <1>3. thread' \in [Threads -> Locals(X)]
    BY <1>1, <1>2 DEF SetEnd, Goto, Locals
  <1>. QED
    BY <1>1, <1>2, <1>3
       DEF SetEnd, Goto, Locals, Moves, SeenStays, Job

(* The table taken is at the cursor, loaded again or not.                  *)
LEMMA TakeTableMoves ==
  ASSUME TypeInv, NEW t \in Threads, TakeTable(t)
  PROVE  /\ \E v \in StartValues(t) : Moves(t, "publish", Job(t), v, v)
         /\ SeenStays(t)
  <1> DEFINE X == Contents(thread) \cup {}
  <1>1. /\ thread \in [Threads -> Locals(X)]
        /\ thread' \in [Threads -> Locals(X)] => ThreadsShape'
    BY ShapeWith
  <1> HIDE DEF X
  <1>2. PICK v \in StartValues(t) :
          thread' = [thread EXCEPT ![t].pc = "publish", ![t].start = v,
                                   ![t].level2 = v]
    BY DEF TakeTable
  <1>3. v \in Nat
    BY CursorNat
  <1>4. thread' \in [Threads -> Locals(X)]
    BY ZenonT(60), <1>1, <1>2, <1>3 DEF Locals, PCs, Registering
  <1>5. Moves(t, "publish", Job(t), v, v) /\ SeenStays(t)
    BY <1>1, <1>2, <1>3, <1>4 DEF Locals, Moves, SeenStays, Job
  <1>. QED
    BY <1>5

(* The inlined code fills the slot before it moves the cursor.             *)
LEMMA PublishMoves ==
  ASSUME TypeInv, NEW t \in Threads, Publish(t)
  PROVE  /\ Moves(t, IF Job(t).op = "inline" THEN "ref" ELSE "reload",
               Job(t), thread[t].level2, thread[t].start)
         /\ SeenStays(t)
  <1> DEFINE X == Contents(thread) \cup {}
  <1>1. /\ thread \in [Threads -> Locals(X)]
        /\ thread' \in [Threads -> Locals(X)] => ThreadsShape'
    BY ShapeWith
  <1> HIDE DEF X
  <1>2. (IF Job(t).op = "inline" THEN "ref" ELSE "reload") \in PCs
    BY CursorNat DEF PCs, Registering, Filling
  <1>3. thread' \in [Threads -> Locals(X)]
    BY <1>1, <1>2 DEF Publish, Goto, Locals
  <1>. QED
    BY <1>1, <1>2, <1>3
       DEF Publish, Goto, Locals, Moves, SeenStays, Job

(* The called code loads the cursor again to move it.                      *)
LEMMA ReloadStartMoves ==
  ASSUME TypeInv, NEW t \in Threads, ReloadStart(t)
  PROVE  /\ Moves(t, "bump", Job(t), thread[t].level2, BitypeSecondLevelStart)
         /\ SeenStays(t)
  <1> DEFINE X == Contents(thread) \cup {}
  <1>1. /\ thread \in [Threads -> Locals(X)]
        /\ thread' \in [Threads -> Locals(X)] => ThreadsShape'
    BY ShapeWith
  <1> HIDE DEF X
  <1>2. BitypeSecondLevelStart \in Nat /\ "bump" \in PCs
    BY CursorNat DEF PCs, Registering, Filling
  <1>3. thread' \in [Threads -> Locals(X)]
    BY <1>1, <1>2 DEF ReloadStart, Goto, Locals
  <1>. QED
    BY <1>1, <1>2, <1>3
       DEF ReloadStart, Goto, Locals, Moves, SeenStays, Job

(* The store that moves the cursor ends an allocation.                     *)
LEMMA BumpMoves ==
  ASSUME TypeInv, NEW t \in Threads, Bump(t)
  PROVE  /\ Moves(t, IF Job(t).op = "inline" THEN "done" ELSE "ref",
               Job(t), thread[t].level2, 0)
         /\ SeenStays(t)
  <1> DEFINE X == Contents(thread) \cup {}
  <1>1. /\ thread \in [Threads -> Locals(X)]
        /\ thread' \in [Threads -> Locals(X)] => ThreadsShape'
    BY ShapeWith
  <1> HIDE DEF X
  <1>2. 0 \in Nat /\ (IF Job(t).op = "inline" THEN "done" ELSE "ref") \in PCs
    BY CursorNat DEF PCs, Registering, Filling
  <1>3. thread' \in [Threads -> Locals(X)]
    BY ZenonT(60), <1>1, <1>2 DEF Bump, Goto, Locals
  <1>. QED
    BY <1>1, <1>2, <1>3
       DEF Bump, Goto, Locals, Moves, SeenStays, Job

(* The code vector is written before the offset.                           *)
LEMMA WriteRefMoves ==
  ASSUME TypeInv, NEW t \in Threads, WriteRef(t)
  PROVE  /\ Moves(t, "off", Job(t), thread[t].level2, thread[t].start)
         /\ SeenStays(t)
  <1> DEFINE X == Contents(thread) \cup {}
  <1>1. /\ thread \in [Threads -> Locals(X)]
        /\ thread' \in [Threads -> Locals(X)] => ThreadsShape'
    BY ShapeWith
  <1> HIDE DEF X
  <1>2. "off" \in PCs
    BY CursorNat DEF PCs, Registering, Filling
  <1>3. thread' \in [Threads -> Locals(X)]
    BY <1>1, <1>2 DEF WriteRef, Goto, Locals
  <1>. QED
    BY <1>1, <1>2, <1>3
       DEF WriteRef, Goto, Locals, Moves, SeenStays, Job

(* Only the inlined code has a cursor left to move.                        *)
LEMMA WriteOffsetMoves ==
  ASSUME TypeInv, NEW t \in Threads, WriteOffset(t)
  PROVE  /\ Moves(t, IF thread[t].start # 0 THEN "bump" ELSE "done",
               Job(t), thread[t].level2, thread[t].start)
         /\ SeenStays(t)
  <1> DEFINE X == Contents(thread) \cup {}
  <1>1. /\ thread \in [Threads -> Locals(X)]
        /\ thread' \in [Threads -> Locals(X)] => ThreadsShape'
    BY ShapeWith
  <1> HIDE DEF X
  <1>2. (IF thread[t].start # 0 THEN "bump" ELSE "done") \in PCs
    BY CursorNat DEF PCs, Registering, Filling
  <1>3. thread' \in [Threads -> Locals(X)]
    BY <1>1, <1>2 DEF WriteOffset, Goto, Locals
  <1>. QED
    BY <1>1, <1>2, <1>3
       DEF WriteOffset, Goto, Locals, Moves, SeenStays, Job

(* A lookup that reads NULL is done.                                       *)
LEMMA ReadRefMoves ==
  ASSUME TypeInv, NEW t \in Threads, ReadRef(t)
  PROVE  /\ Moves(t, IF cell[Word(t)].ref = NULL THEN "done" ELSE "readoff",
               Job(t), thread[t].level2, thread[t].start)
         /\ thread'[t].seen.ref = cell[Word(t)].ref
  <1> DEFINE ref  == cell[Word(t)].ref
             next == IF ref = NULL THEN "done" ELSE "readoff"
             X    == Contents(thread) \cup {ref}
  <1>1. /\ thread \in [Threads -> Locals(X)]
        /\ thread' \in [Threads -> Locals(X)] => ThreadsShape'
    BY ShapeWith
  <1>2. ref \in X /\ next \in PCs
    BY DEF PCs, Filling
  <1>3. thread' = [thread EXCEPT ![t].pc = next, ![t].seen.ref = ref]
    BY DEF ReadRef
  <1> HIDE DEF ref, next, X
  <1>4. thread' \in [Threads -> Locals(X)]
    BY ZenonT(60), <1>1, <1>2, <1>3 DEF Locals
  <1>5. /\ Moves(t, next, Job(t), thread[t].level2, thread[t].start)
        /\ thread'[t].seen.ref = ref
    BY <1>1, <1>2, <1>3, <1>4 DEF Locals, Moves, Job
  <1>. QED
    BY <1>5 DEF ref, next

(* The offset is read last.                                                *)
LEMMA ReadOffsetMoves ==
  ASSUME TypeInv, NEW t \in Threads, ReadOffset(t)
  PROVE  /\ Moves(t, "done", Job(t), thread[t].level2, thread[t].start)
         /\ thread'[t].seen.ref = thread[t].seen.ref
         /\ thread'[t].seen.off = cell[Word(t)].off
  <1> DEFINE X == Contents(thread) \cup {cell[Word(t)].off}
  <1>1. /\ thread \in [Threads -> Locals(X)]
        /\ thread' \in [Threads -> Locals(X)] => ThreadsShape'
    BY ShapeWith
  <1>2. cell[Word(t)].off \in X
    OBVIOUS
  <1> HIDE DEF X
  <1>3. "done" \in PCs
    BY CursorNat DEF PCs, Registering, Filling
  <1>4. thread' \in [Threads -> Locals(X)]
    BY ZenonT(60), <1>1, <1>2, <1>3 DEF ReadOffset, Goto, Locals
  <1>. QED
    BY <1>1, <1>2, <1>3, <1>4
       DEF ReadOffset, Goto, Locals, Moves, SeenStays, Job

(* A call returns with nothing kept.                                       *)
LEMMA ReturnMoves ==
  ASSUME TypeInv, NEW t \in Threads, Return(t)
  PROVE  Moves(t, "idle", NULL, 0, 0) /\ thread'[t].seen = NoEntry
  <1> DEFINE X == Contents(thread) \cup {NULL, 0}
  <1>1. /\ thread \in [Threads -> Locals(X)]
        /\ thread' \in [Threads -> Locals(X)] => ThreadsShape'
    BY ShapeWith
  <1>2. NULL \in X /\ 0 \in X
    OBVIOUS
  <1> HIDE DEF X
  <1>3. IdleThread \in Locals(X)
    BY <1>2 DEF IdleThread, NoEntry, Locals, PCs
  <1>4. thread' = [thread EXCEPT ![t] = IdleThread]
    BY DEF Return
  <1>5. ThreadsShape'
    BY <1>1, <1>3, <1>4
  <1>. QED
    BY <1>1, <1>4, <1>5 DEF IdleThread, Moves

-----------------------------------------------------------------------------
(* The typing invariant is inductive.                                      *)

(* A job of the program: its operation, its slot and what it stores.       *)
LEMMA JobType ==
  ASSUME NEW j \in Jobs
  PROVE  /\ j.op \in {"update", "inline", "erase", "lookup"}
         /\ j.this \in Nat
         /\ Idx1(j.this) \in 0 .. L1_BITS - 1 /\ Idx2(j.this) \in 0 .. L2_BITS - 1
         /\ SlotOf(j.this) \in Slots
         /\ SlotOf(j.this)[1] = Idx1(j.this)
         /\ WordOf(j.this) = 2 * SlotOf(j.this)[2]
         /\ [ref |-> j.ref, off |-> j.off] \in Entry
         /\ j.ref \in Refs \cup {NULL} /\ j.off \in Offsets \cup {0}
         /\ j.op \in {"erase", "lookup"} => j.ref = NULL /\ j.off = 0
  <1>1. j.this \in Nat
    BY ThreadsAssumption DEF Jobs
  <1>. QED
    BY <1>1, IndexRange DEF Jobs, Entry

(* A store to a slot, or to no slot, keeps the slots typed.                *)
LEMMA CellsTyped ==
  ASSUME NEW c \in [CellAddrs -> Entry], NEW w,
         NEW ref \in Refs \cup {NULL}, NEW off \in Offsets \cup {0}
  PROVE  /\ [c EXCEPT ![w].ref = ref] \in [CellAddrs -> Entry]
         /\ [c EXCEPT ![w].off = off] \in [CellAddrs -> Entry]
  <1>1. CASE w \in CellAddrs
    BY <1>1 DEF Entry
  <1>2. CASE w \notin CellAddrs
    BY <1>2 DEF Entry
  <1>. QED
    BY <1>1, <1>2

(* The other threads stay in place.                                        *)
LEMMA PlacesKept ==
  ASSUME TypeInv, NEW t \in Threads,
         \A u \in Threads \ {t} : thread'[u] = thread[u],
         Place(t)'
  PROVE  \A u \in Threads : Place(u)'
  <1> SUFFICES ASSUME NEW u \in Threads, u # t
               PROVE  Place(u)'
    OBVIOUS
  <1>1. Place(u) /\ thread'[u] = thread[u]
    BY DEF TypeInv
  <1>. QED
    BY <1>1 DEF Place, Job

(* A step within a call, or out of it, conflicts with no other call.       *)
LEMMA ExclusionKept ==
  ASSUME TypeInv, NEW t \in Threads,
         \A u \in Threads \ {t} : thread'[u] = thread[u],
         \/ thread'[t].pc = "idle"
         \/ thread[t].pc # "idle" /\ thread'[t].job = thread[t].job
  PROVE  Exclusion'
  BY DEF TypeInv, Exclusion, Job

(* A call begins in a slot no other thread works on, or to look it up with *)
(* the others.                                                             *)
LEMMA BeginType ==
  ASSUME TypeInv, NEW t \in Threads, Begin(t), Watch
  PROVE  TypeInv'
  <1>1. PICK j \in Jobs :
          /\ Moves(t, "table", j, thread[t].level2, 0) /\ SeenStays(t)
          /\ \A u \in Threads : thread[u].pc # "idle" => ~Conflict(j, Job(u))
          /\ expected' = IF j.op = "lookup" THEN expected
                         ELSE [expected EXCEPT ![SlotOf(j.this)] =
                                 [ref |-> j.ref, off |-> j.off]]
    BY BeginMoves
  <1>2. Place(t)'
    BY <1>1 DEF Begin, At, TypeInv, Place, Moves, SeenStays, Job, Registering
  <1>3. \A u \in Threads : Place(u)'
    BY <1>1, <1>2, PlacesKept DEF Moves
  <1>4. Exclusion'
    BY <1>1 DEF TypeInv, Exclusion, Moves, Conflict, Job
  <1>5. expected' \in [Slots -> Entry]
    BY <1>1, JobType DEF TypeInv, GlobalsOK
  <1>6. GlobalsOK'
    BY <1>5 DEF TypeInv, GlobalsOK, Begin, tableVars, cursorVars, Watch
  <1>. QED
    BY <1>1, <1>3, <1>4, <1>6 DEF TypeInv, Moves, Watch

(* Every step of a call.                                                   *)
LEMMA StepType ==
  ASSUME TypeInv, NEW t \in Threads, Step(t), Watch
  PROVE  TypeInv'
  <1>1. /\ GlobalsOK' /\ ThreadsShape'
        /\ \A u \in Threads \ {t} : thread'[u] = thread[u]
        /\ Place(t)'
        /\ \/ thread'[t].pc = "idle"
           \/ thread[t].pc # "idle" /\ thread'[t].job = thread[t].job
        => TypeInv'
    BY PlacesKept, ExclusionKept DEF TypeInv, Watch
  <1> USE DEF At
  <1>2. Place(t) /\ overlapped' \in BOOLEAN
    BY DEF TypeInv, GlobalsOK, Watch
  <1>3. CASE LoadTable(t)
    <2>1. GlobalsOK'
      BY SMTT(30), <1>2, <1>3 DEF LoadTable, TypeInv, GlobalsOK, tableVars, cursorVars
    <2>2. Place(t)'
      BY ZenonT(60), <1>2, <1>3, LoadTableMoves
         DEF LoadTable, Place, Moves, SeenStays, Job, Registering
    <2>. QED
      BY <1>1, <1>3, <2>1, <2>2, LoadTableMoves DEF LoadTable, Moves, Job
  <1>4. CASE LoadStart(t)
    <2>1. GlobalsOK'
      BY <1>2, <1>4 DEF LoadStart, TypeInv, GlobalsOK, tableVars, cursorVars
    <2>2. Place(t)'
      BY <1>2, <1>4, LoadStartMoves, CursorNat
         DEF LoadStart, Place, Moves, SeenStays, Job, Registering
    <2>. QED
      BY <1>1, <1>4, <2>1, <2>2, LoadStartMoves DEF LoadStart, Moves, Job
  <1>5. CASE CheckEnd(t)
    <2>1. GlobalsOK'
      BY <1>2, <1>5 DEF CheckEnd, TypeInv, GlobalsOK, tableVars, cursorVars
    <2>2. Place(t)'
      BY <1>2, <1>5, CheckEndMoves
         DEF CheckEnd, Place, Moves, SeenStays, Job, Registering
    <2>. QED
      BY <1>1, <1>5, <2>1, <2>2, CheckEndMoves DEF CheckEnd, Moves, Job
  <1>6. CASE MapChunk(t)
    <2>1. PICK b \in ChunkBases \ chunks :
            /\ chunks' = chunks \cup {b} /\ BitypeSecondLevelStart' = b
            /\ Moves(t, "end", Job(t), thread[t].level2, b) /\ SeenStays(t)
      BY <1>6, MapChunkMoves
    <2>2. b \in Nat \ {0}
      BY Geometry
    <2>3. GlobalsOK'
      BY <1>2, <1>6, <2>1, <2>2 DEF MapChunk, TypeInv, GlobalsOK
    <2>4. Place(t)'
      BY <1>2, <1>6, <2>1, <2>2
         DEF MapChunk, Place, Moves, SeenStays, Job, Registering
    <2>. QED
      BY <1>1, <1>6, <2>1, <2>3, <2>4 DEF MapChunk, Moves, Job
  <1>7. CASE MapFailed(t)
    <2>1. GlobalsOK' /\ thread' = thread
      BY <1>2, <1>7 DEF MapFailed, TypeInv, GlobalsOK, tableVars, cursorVars
    <2>. QED
      BY <1>1, <1>7, <2>1 DEF MapFailed, TypeInv, Place, ThreadsShape, Job
  <1>8. CASE SetEnd(t)
    <2>1. GlobalsOK'
      <3>1. BitypeSecondLevelEnd' \in Nat
        BY <1>8, CursorNat, Geometry DEF SetEnd
      <3>. QED
        BY <1>2, <1>8, <3>1 DEF SetEnd, TypeInv, GlobalsOK
    <2>2. Place(t)'
      BY <1>2, <1>8, SetEndMoves
         DEF SetEnd, Place, Moves, SeenStays, Job, Registering
    <2>. QED
      BY <1>1, <1>8, <2>1, <2>2, SetEndMoves DEF SetEnd, Moves, Job
  <1>9. CASE TakeTable(t)
    <2>1. PICK v \in StartValues(t) : Moves(t, "publish", Job(t), v, v)
      BY <1>9, TakeTableMoves
    <2>2. v # 0
      BY <1>2, <1>9, CursorNat DEF TakeTable, Place, StartValues, Registering
    <2>3. GlobalsOK'
      BY <1>2, <1>9 DEF TakeTable, TypeInv, GlobalsOK, tableVars, cursorVars
    <2>4. Place(t)'
      BY <1>2, <1>9, <2>1, <2>2
         DEF TakeTable, Place, Moves, Job, Registering
    <2>. QED
      BY <1>1, <1>9, <2>1, <2>3, <2>4 DEF TakeTable, Moves, Job
  <1>10. CASE Publish(t)
    <2>1. GlobalsOK'
      <3>1. BitypeLookupStart' \in [0 .. L1_BITS - 1 -> Nat]
        BY <1>10, CursorNat DEF Publish, TypeInv, GlobalsOK
      <3>. QED
        BY <1>2, <1>10, <3>1 DEF Publish, TypeInv, GlobalsOK, cursorVars
    <2>2. Place(t)'
      BY <1>2, <1>10, PublishMoves
         DEF Publish, Place, Moves, SeenStays, Job, Registering
    <2>. QED
      BY <1>1, <1>10, <2>1, <2>2, PublishMoves DEF Publish, Moves, Job
  <1>11. CASE ReloadStart(t)
    <2>1. GlobalsOK'
      BY <1>2, <1>11 DEF ReloadStart, TypeInv, GlobalsOK, tableVars, cursorVars
    <2>2. Place(t)'
      BY <1>2, <1>11, ReloadStartMoves, CursorNat
         DEF ReloadStart, Place, Moves, SeenStays, Job, Registering
    <2>. QED
      BY <1>1, <1>11, <2>1, <2>2, ReloadStartMoves DEF ReloadStart, Moves, Job
  <1>12. CASE Bump(t)
    <2>1. GlobalsOK'
      <3>1. BitypeSecondLevelStart' \in Nat \ {0}
        BY <1>12, CursorNat, Geometry DEF Bump
      <3>. QED
        BY <1>2, <1>12, <3>1 DEF Bump, TypeInv, GlobalsOK
    <2>2. Place(t)'
      <3>1. /\ Job(t) \in Jobs /\ Job(t).op \in {"update", "inline"}
            /\ thread'[t].job = Job(t) /\ thread'[t].start = 0
            /\ \/ Job(t).op = "inline" /\ thread'[t].pc = "done"
               \/ Job(t).op = "update" /\ thread'[t].pc = "ref"
        BY <1>2, <1>12, BumpMoves DEF Bump, Place, Moves
      <3>. QED
        BY <3>1 DEF Place, Job, Registering
    <2>. QED
      BY <1>1, <1>12, <2>1, <2>2, BumpMoves DEF Bump, Moves, Job
  <1>13. CASE Fault(t)
    <2>1. GlobalsOK' /\ thread' = thread /\ thread[t].pc # "idle"
      BY <1>2, <1>13 DEF Fault, TypeInv, GlobalsOK, tableVars, cursorVars
    <2>. QED
      BY <1>1, <2>1 DEF TypeInv, Place, ThreadsShape, Job
  <1>14. CASE WriteRef(t)
    <2>1. GlobalsOK'
      <3>1. Job(t) \in Jobs
        BY <1>2, <1>14 DEF WriteRef, Place
      <3>2. cell' \in [CellAddrs -> Entry]
        BY <1>14, <3>1, JobType, CellsTyped DEF WriteRef, TypeInv, GlobalsOK
      <3>. QED
        BY <1>2, <1>14, <3>2 DEF WriteRef, TypeInv, GlobalsOK, tableVars, cursorVars
    <2>2. Place(t)'
      BY <1>2, <1>14, WriteRefMoves
         DEF WriteRef, Place, Moves, SeenStays, Job, Registering
    <2>. QED
      BY <1>1, <1>14, <2>1, <2>2, WriteRefMoves DEF WriteRef, Moves, Job
  <1>15. CASE WriteOffset(t)
    <2>1. GlobalsOK'
      <3>1. Job(t) \in Jobs
        BY <1>2, <1>15 DEF WriteOffset, Place
      <3>2. cell' \in [CellAddrs -> Entry]
        BY <1>15, <3>1, JobType, CellsTyped DEF WriteOffset, TypeInv, GlobalsOK
      <3>. QED
        BY <1>2, <1>15, <3>2 DEF WriteOffset, TypeInv, GlobalsOK, tableVars, cursorVars
    <2>2. Place(t)'
      BY <1>2, <1>15, WriteOffsetMoves
         DEF WriteOffset, Place, Moves, SeenStays, Job, Registering
    <2>. QED
      BY <1>1, <1>15, <2>1, <2>2, WriteOffsetMoves DEF WriteOffset, Moves, Job
  <1>16. CASE ReadRef(t)
    <2>1. GlobalsOK'
      BY <1>2, <1>16 DEF ReadRef, TypeInv, GlobalsOK, tableVars, cursorVars
    <2>2. Place(t)'
      <3>1. /\ Job(t) \in Jobs /\ Job(t).op = "lookup" /\ thread[t].start = 0
            /\ thread'[t].job = Job(t) /\ thread'[t].start = 0
            /\ thread'[t].pc \in {"done", "readoff"}
        BY <1>2, <1>16, ReadRefMoves DEF ReadRef, Place, Moves
      <3>. QED
        BY <3>1 DEF Place, Job, Registering
    <2>. QED
      BY <1>1, <1>16, <2>1, <2>2, ReadRefMoves DEF ReadRef, Moves, Job
  <1>17. CASE ReadOffset(t)
    <2>1. GlobalsOK'
      BY <1>2, <1>17 DEF ReadOffset, TypeInv, GlobalsOK, tableVars, cursorVars
    <2>2. Place(t)'
      BY <1>2, <1>17, ReadOffsetMoves
         DEF ReadOffset, Place, Moves, Job, Registering
    <2>. QED
      BY <1>1, <1>17, <2>1, <2>2, ReadOffsetMoves DEF ReadOffset, Moves, Job
  <1>18. CASE Return(t)
    <2>1. GlobalsOK'
      BY <1>2, <1>18 DEF Return, TypeInv, GlobalsOK, tableVars, cursorVars
    <2>2. Place(t)'
      BY <1>18, ReturnMoves DEF Place, Moves, Job, Registering
    <2>. QED
      BY <1>1, <1>18, <2>1, <2>2, ReturnMoves DEF Moves
  <1>. QED
    BY <1>3, <1>4, <1>5, <1>6, <1>7, <1>8, <1>9, <1>10, <1>11, <1>12, <1>13,
       <1>14, <1>15, <1>16, <1>17, <1>18 DEF Step

(* Initially no table exists and no thread is inside a call.               *)
LEMMA InitType == Init => TypeInv
  <1> SUFFICES ASSUME Init
               PROVE  TypeInv
    OBVIOUS
  <1>1. FirstChunk \in ChunkBases /\ FirstChunk \in Nat \ {0}
    BY MmapAssumption
  <1>2. GlobalsOK
    <2>1. FirstChunk + mmap_words \in Nat
      BY <1>1, Geometry
    <2>2. NoEntry \in Entry
      BY DEF Entry, NoEntry
    <2>3. BitypeLookupStart \in [0 .. L1_BITS - 1 -> Nat]
      BY DEF Init
    <2>. QED
      BY <1>1, <2>1, <2>2, <2>3 DEF Init, GlobalsOK
  <1>3. \A t \in Threads : thread[t] = IdleThread
    BY DEF Init
  <1>4. ThreadsShape
    <2>1. thread \in [Threads -> Locals({NULL, 0})]
      BY DEF Init, IdleThread, NoEntry, Locals, PCs
    <2>. QED
      BY <2>1, ShapeOf DEF ThreadsShape
  <1>5. \A t \in Threads : Place(t)
    BY <1>3 DEF Place, IdleThread, Job, Registering
  <1>6. Exclusion /\ ~Contended
    BY <1>3 DEF Exclusion, Contended, Allocating, IdleThread
  <1>. QED
    BY <1>2, <1>4, <1>5, <1>6 DEF TypeInv

LEMMA NextType == TypeInv /\ [Next]_vars => TypeInv'
  <1>1. ASSUME TypeInv, Next
        PROVE  TypeInv'
    BY <1>1, BeginType, StepType DEF Next
  <1>2. ASSUME TypeInv, UNCHANGED vars
        PROVE  TypeInv'
    BY <1>2 DEF vars, tableVars, cursorVars, TypeInv, GlobalsOK, ThreadsShape,
                Place, Job, Exclusion, Contended, Allocating
  <1>. QED
    BY <1>1, <1>2

(* The globals, the slots and the calls of the threads keep their types,   *)
(* whatever the threads do.                                                *)
THEOREM ThreadsTyped == Spec => []TypeOK
  <1>1. TypeInv => TypeOK
    BY DEF TypeInv, GlobalsOK, Place, TypeOK
  <1>. QED
    BY <1>1, InitType, NextType, PTL DEF Spec

-----------------------------------------------------------------------------
(* The tables while one thread at a time allocates.                        *)

(* A thread inside the allocation of a table is alone there.               *)
LEMMA Alone ==
  ASSUME TypeInv, ~overlapped, NEW t \in Threads, NEW u \in Threads, u # t,
         Allocating(t)
  PROVE  /\ ~Allocating(u) /\ ~Unbumped(u) /\ ~Remapped(u)
         /\ thread[u].start = 0 /\ thread[u].pc \notin Registering
  BY DEF TypeInv, Contended, Allocating, Unbumped, Remapped, Place, Registering

(* A thread that allocates nothing keeps its table: tables never go away.  *)
LEMMA BystanderKnows ==
  ASSUME TypeInv, NEW u \in Threads, Knows(u),
         thread[u].start = 0, thread[u].pc \notin Registering,
         thread'[u] = thread[u],
         \A i \in 0 .. L1_BITS - 1 :
           BitypeLookupStart[i] # 0 => BitypeLookupStart'[i] = BitypeLookupStart[i]
  PROVE  Knows(u)'
  <1>1. thread[u].pc \in Filling \cup {"reload", "bump"} => Job(u) \in Jobs
    BY DEF TypeInv, Place, Filling
  <1>2. Place(u)
    BY DEF TypeInv
  <1>. QED
    BY <1>1, <1>2, JobType DEF Knows, Unbumped, Job, Registering, Filling

(* A step that leaves the table's globals alone, on the way to or from no  *)
(* store of theirs.                                                        *)
LEMMA QuietStep ==
  ASSUME Serial, NEW t \in Threads, UNCHANGED tableVars,
         \A u \in Threads \ {t} : thread'[u] = thread[u],
         ~Remapped(t), ~Remapped(t)',
         Unbumped(t)' <=> Unbumped(t),
         Unbumped(t) => thread'[t].level2 = thread[t].level2,
         Knows(t)'
  PROVE  Serial'
  <1>1. \A u \in Threads \ {t} : Knows(u)'
    <2> SUFFICES ASSUME NEW u \in Threads \ {t}
                 PROVE  Knows(u)'
      OBVIOUS
    <2>1. Knows(u) /\ thread'[u] = thread[u] /\ Tables' = Tables
      BY DEF Serial, Tables, tableVars
    <2>. QED
      BY <2>1 DEF Knows, Unbumped, Job, tableVars, cursorVars
  <1>2. FirstLevelInv'
    BY DEF Serial, FirstLevelInv, Tables, tableVars, cursorVars
  <1>3. \A u \in Threads : /\ Remapped(u)' <=> Remapped(u)
                           /\ Unbumped(u)' <=> Unbumped(u)
                           /\ Unbumped(u) => thread'[u].level2 = thread[u].level2
    BY DEF Remapped, Unbumped
  <1>4. CursorInv'
    BY <1>3 DEF Serial, CursorInv, Tables, tableVars, cursorVars
  <1>. QED
    BY <1>1, <1>2, <1>4 DEF Serial

(* The chunk the cursor is in, and that the cursor is at a table when it   *)
(* is below its bound.                                                     *)
LEMMA CursorTable ==
  ASSUME TypeInv, FirstLevelInv, NEW b \in chunks,
         b <= BitypeSecondLevelStart, BitypeSecondLevelStart < b + mmap_words
  PROVE  /\ BitypeSecondLevelStart \in TableAddrs
         /\ Within(BitypeSecondLevelStart, b)
  <1>1. b \in ChunkBases /\ BitypeSecondLevelStart \in Nat
    BY DEF TypeInv, GlobalsOK
  <1>2. ASSUME NEW c \in ChunkBases, BitypeSecondLevelStart = c + mmap_words
        PROVE  BitypeSecondLevelStart = b
    <2>1. c < b
      BY <1>1, <1>2, Geometry
    <2>2. c + mmap_words <= b
      BY <1>1, <2>1, MmapAssumption
    <2>. QED
      BY <1>1, <1>2, <2>2, Geometry
  <1>3. BitypeSecondLevelStart \in TableAddrs
    BY <1>1, <1>2, FirstTable DEF FirstLevelInv, ChunkEnds
  <1>. QED
    BY <1>3 DEF Within

(* A step of a call that has no table to store yet, or its table's pointer *)
(* and slot to read and write: none of them moves a table.                 *)
LEMMA QuietSerial ==
  ASSUME TypeInv, ~overlapped, Serial, NEW t \in Threads,
         \/ Begin(t) \/ LoadTable(t) \/ LoadStart(t) \/ CheckEnd(t)
         \/ TakeTable(t) \/ ReloadStart(t) \/ WriteRef(t) \/ WriteOffset(t)
         \/ ReadRef(t) \/ ReadOffset(t) \/ Return(t)
  PROVE  Serial'
  <1>1. Place(t) /\ Knows(t) /\ UNCHANGED tableVars
    BY DEF TypeInv, Serial, Begin, LoadTable, LoadStart, CheckEnd, TakeTable,
           ReloadStart, WriteRef, WriteOffset, ReadRef, ReadOffset, Return
  <1>2. /\ \A u \in Threads \ {t} : thread'[u] = thread[u]
        /\ thread[t].pc # "end" /\ thread'[t].pc # "end"
        /\ Unbumped(t)' <=> Unbumped(t)
        /\ Unbumped(t) => thread'[t].level2 = thread[t].level2
        /\ Knows(t)'
        => Serial'
    BY <1>1, QuietStep DEF Remapped
  <1>3. /\ BitypeLookupStart' = BitypeLookupStart
        /\ BitypeSecondLevelStart' = BitypeSecondLevelStart
        /\ BitypeSecondLevelEnd' = BitypeSecondLevelEnd
    BY <1>1 DEF tableVars, cursorVars
  <1> USE DEF At
  <1>4. CASE Begin(t)
    <2>1. PICK j \in Jobs : Moves(t, "table", j, thread[t].level2, 0)
      BY <1>4, BeginMoves
    <2>. QED
      BY <1>1, <1>2, <1>3, <1>4, <2>1
         DEF Begin, Moves, Knows, Unbumped, Place, Registering, Filling
  <1>5. CASE LoadTable(t)
    BY ZenonT(60), <1>1, <1>2, <1>3, <1>5, LoadTableMoves
       DEF LoadTable, Moves, Knows, Unbumped, Place, Registering, Filling, Job
  <1>6. CASE LoadStart(t)
    BY <1>1, <1>2, <1>3, <1>6, LoadStartMoves
       DEF LoadStart, Moves, Knows, Unbumped, Place, Registering, Filling, Job
  <1>7. CASE CheckEnd(t)
    BY <1>1, <1>2, <1>3, <1>7, CheckEndMoves, CursorNat
       DEF CheckEnd, Moves, Knows, Unbumped, Place, Registering, Filling, Job
  <1>8. CASE TakeTable(t)
    <2>1. StartValues(t) = {BitypeSecondLevelStart}
      BY <1>1, <1>8 DEF TakeTable, StartValues, Knows, Place, Registering
    <2>2. Moves(t, "publish", Job(t), BitypeSecondLevelStart,
                BitypeSecondLevelStart)
      BY <1>8, <2>1, TakeTableMoves
    <2>. QED
      BY <1>1, <1>2, <1>3, <1>8, <2>2
         DEF TakeTable, Moves, Knows, Unbumped, Place, Registering, Filling, Job
  <1>9. CASE ReloadStart(t)
    BY <1>1, <1>2, <1>3, <1>9, ReloadStartMoves, CursorNat
       DEF ReloadStart, Moves, Knows, Unbumped, Place, Registering, Filling, Job
  <1>10. CASE WriteRef(t)
    BY <1>1, <1>2, <1>3, <1>10, WriteRefMoves
       DEF WriteRef, Moves, Knows, Unbumped, Place, Registering, Filling, Job
  <1>11. CASE WriteOffset(t)
    BY <1>1, <1>2, <1>3, <1>11, WriteOffsetMoves
       DEF WriteOffset, Moves, Knows, Unbumped, Place, Registering, Filling, Job
  <1>12. CASE ReadRef(t)
    <2>1. /\ thread[t].start = 0 /\ thread'[t].start = 0
          /\ thread'[t].pc \in {"done", "readoff"}
          /\ thread'[t].level2 = thread[t].level2 /\ thread'[t].job = Job(t)
      BY <1>1, <1>12, ReadRefMoves DEF ReadRef, Moves, Place
    <2>2. Knows(t)'
      BY <1>1, <1>3, <1>12, <2>1
         DEF ReadRef, Knows, Unbumped, Registering, Filling, Job
    <2>. QED
      BY <1>2, <1>12, <2>1, <2>2, ReadRefMoves DEF ReadRef, Moves, Unbumped
  <1>13. CASE ReadOffset(t)
    BY <1>1, <1>2, <1>3, <1>13, ReadOffsetMoves
       DEF ReadOffset, Moves, Knows, Unbumped, Place, Registering, Filling, Job
  <1>14. CASE Return(t)
    <2>1. thread'[t].pc = "idle" /\ thread'[t].start = 0 /\ thread[t].start = 0
      BY <1>1, <1>14, ReturnMoves DEF Return, Moves, Place
    <2>2. Knows(t)'
      BY <2>1 DEF Knows, Unbumped, Registering, Filling
    <2>. QED
      BY <1>2, <1>14, <2>1, <2>2, ReturnMoves DEF Return, Moves, Unbumped
  <1>. QED
    BY <1>4, <1>5, <1>6, <1>7, <1>8, <1>9, <1>10, <1>11, <1>12, <1>13, <1>14

(* A new chunk: no table is in it, and the thread is between the store of  *)
(* the cursor and the store of its bound.                                  *)
LEMMA MapChunkSerial ==
  ASSUME TypeInv, ~overlapped, Serial, NEW t \in Threads, MapChunk(t)
  PROVE  Serial'
  <1>1. PICK b \in ChunkBases \ chunks :
          /\ chunks' = chunks \cup {b} /\ BitypeSecondLevelStart' = b
          /\ Moves(t, "end", Job(t), thread[t].level2, b)
    BY MapChunkMoves
  <1>2. /\ thread[t].pc = "map"
        /\ BitypeLookupStart' = BitypeLookupStart /\ Tables' = Tables
    BY DEF MapChunk, At, Tables
  <1>3. Place(t) /\ Knows(t) /\ Allocating(t)
    BY <1>2 DEF TypeInv, Serial, Place, Allocating, Registering
  <1>4. b \in TableAddrs /\ b # 0 /\ chunks \subseteq ChunkBases
    BY FirstTable, Geometry DEF TypeInv, GlobalsOK
  <1>5. \A u \in Threads \ {t} : Knows(u)'
    BY <1>1, <1>2, <1>3, Alone, BystanderKnows DEF Serial, Moves
  <1>6. \A x \in Tables : ~Within(x, b)
    <2> SUFFICES ASSUME NEW x \in Tables, Within(x, b)
                 PROVE  FALSE
      OBVIOUS
    <2>1. x \in TableAddrs
      BY DEF Serial, FirstLevelInv, Tables
    <2>2. PICK c \in chunks : Within(x, c)
      BY DEF Serial, FirstLevelInv
    <2>3. c = b
      BY <1>4, <2>1, <2>2, WithinWhole
    <2>. QED
      BY <2>3
  <1>7. Knows(t)'
    BY <1>1, <1>2, <1>3, <1>4, <1>6
       DEF Knows, Moves, Unbumped, Job, Registering, Filling
  <1>8. FirstLevelInv'
    BY <1>1, <1>2, <1>4 DEF Serial, FirstLevelInv
  <1>9. CursorInv'
    BY <1>1 DEF CursorInv, Remapped, Moves
  <1>. QED
    BY <1>5, <1>7, <1>8, <1>9 DEF Serial

(* The bound of the new chunk: the whole chunk is free.                    *)
LEMMA SetEndSerial ==
  ASSUME TypeInv, ~overlapped, Serial, NEW t \in Threads, SetEnd(t)
  PROVE  Serial'
  <1>1. /\ thread[t].pc = "end"
        /\ BitypeLookupStart' = BitypeLookupStart /\ Tables' = Tables
        /\ BitypeSecondLevelStart' = BitypeSecondLevelStart
        /\ chunks' = chunks
    BY DEF SetEnd, At, Tables
  <1>2. Place(t) /\ Knows(t) /\ Allocating(t)
    BY <1>1 DEF TypeInv, Serial, Place, Allocating, Registering
  <1>3. Moves(t, "take", Job(t), thread[t].level2, thread[t].start)
    BY SetEndMoves
  <1>4. BitypeSecondLevelEnd' = BitypeSecondLevelStart + mmap_words
    <2>1. StartValues(t) = {BitypeSecondLevelStart}
      BY <1>1, <1>2 DEF StartValues, Knows, Place, Registering
    <2>. QED
      BY <2>1, Geometry DEF SetEnd
  <1>5. /\ BitypeSecondLevelStart \in chunks
        /\ \A x \in Tables : ~Within(x, BitypeSecondLevelStart)
        /\ BitypeSecondLevelStart \in Nat
    BY <1>1, <1>2, CursorNat DEF Knows
  <1>6. BitypeSecondLevelStart < BitypeSecondLevelEnd'
    <2>1. Within(BitypeSecondLevelStart, BitypeSecondLevelStart)
      BY <1>5, FirstTable DEF TypeInv, GlobalsOK
    <2>. QED
      BY <1>4, <2>1 DEF Within
  <1>7. \A u \in Threads \ {t} : Knows(u)'
    BY <1>1, <1>2, <1>3, Alone, BystanderKnows DEF Serial, Moves
  <1>8. Knows(t)'
    BY <1>1, <1>2, <1>3, <1>6
       DEF Knows, Moves, Unbumped, Job, Registering, Filling
  <1>9. FirstLevelInv'
    BY <1>1 DEF Serial, FirstLevelInv
  <1>10. CursorInv'
    <2>1. \A x \in Tables' :
            ~(BitypeSecondLevelStart' <= x /\ x < BitypeSecondLevelEnd')
      BY <1>1, <1>4, <1>5 DEF Within
    <2>. QED
      BY <1>1, <1>4, <1>5, <1>6, <2>1, CursorNat, Geometry DEF CursorInv
  <1>. QED
    BY <1>7, <1>8, <1>9, <1>10 DEF Serial

(* The table a thread publishes is one that no region has.                 *)
LEMMA PublishedFree ==
  ASSUME TypeInv, ~overlapped, Serial, NEW t \in Threads,
         thread[t].pc \in {"take", "publish"}
  PROVE  /\ BitypeSecondLevelStart \in TableAddrs
         /\ BitypeSecondLevelStart \notin Tables
         /\ \E b \in chunks : /\ Within(BitypeSecondLevelStart, b)
                              /\ BitypeSecondLevelStart < BitypeSecondLevelEnd
                              /\ BitypeSecondLevelEnd = b + mmap_words
  <1>1. Place(t) /\ Knows(t) /\ Allocating(t) /\ ~Unbumped(t) /\ ~Remapped(t)
    BY DEF TypeInv, Serial, Place, Allocating, Registering, Unbumped, Remapped
  <1>2. \A u \in Threads : ~Unbumped(u) /\ ~Remapped(u)
    BY <1>1, Alone
  <1>3. BitypeSecondLevelStart < BitypeSecondLevelEnd
    BY <1>1 DEF Knows
  <1>4. PICK b \in chunks : /\ b <= BitypeSecondLevelStart
                            /\ BitypeSecondLevelEnd = b + mmap_words
    BY <1>2 DEF Serial, CursorInv
  <1>5. BitypeSecondLevelStart \in TableAddrs /\ Within(BitypeSecondLevelStart, b)
    BY <1>3, <1>4, CursorTable DEF Serial
  <1>6. BitypeSecondLevelStart \notin Tables
    BY <1>2, <1>3, CursorNat DEF Serial, CursorInv
  <1>. QED
    BY <1>3, <1>4, <1>5, <1>6

(* The pointer is stored before the cursor moves past the table.           *)
LEMMA PublishSerial ==
  ASSUME TypeInv, ~overlapped, Serial, NEW t \in Threads, Publish(t)
  PROVE  Serial'
  <1> DEFINE i == Idx1(Job(t).this)
  <1>1. /\ thread[t].pc = "publish"
        /\ BitypeSecondLevelStart' = BitypeSecondLevelStart
        /\ BitypeSecondLevelEnd' = BitypeSecondLevelEnd /\ chunks' = chunks
    BY DEF Publish, At, cursorVars
  <1>2. Place(t) /\ Knows(t) /\ Allocating(t)
    BY <1>1 DEF TypeInv, Serial, Place, Allocating, Registering
  <1>3. /\ i \in 0 .. L1_BITS - 1 /\ BitypeLookupStart[i] = 0
        /\ thread[t].level2 = BitypeSecondLevelStart /\ thread[t].start # 0
    BY <1>1, <1>2, JobType DEF Knows, Place, Registering
  <1>4. /\ BitypeLookupStart' = [BitypeLookupStart EXCEPT ![i] = BitypeSecondLevelStart]
        /\ BitypeLookupStart \in [0 .. L1_BITS - 1 -> TableAddrs \cup {0}]
    BY <1>3 DEF Publish, Serial, FirstLevelInv
  <1> HIDE DEF i
  <1>5. \A k \in 0 .. L1_BITS - 1 :
          BitypeLookupStart'[k] = IF k = i THEN BitypeSecondLevelStart
                                           ELSE BitypeLookupStart[k]
    BY <1>3, <1>4
  <1>6. /\ BitypeSecondLevelStart \in TableAddrs \ Tables
        /\ BitypeSecondLevelStart # 0
        /\ \E b \in chunks : /\ Within(BitypeSecondLevelStart, b)
                             /\ BitypeSecondLevelStart < BitypeSecondLevelEnd
                             /\ BitypeSecondLevelEnd = b + mmap_words
    BY <1>1, PublishedFree, TableBounds
  <1>7. Tables' = Tables \cup {BitypeSecondLevelStart}
    BY <1>3, <1>5, <1>6 DEF Tables
  <1>8. /\ thread'[t].pc \in {"ref", "reload"} /\ thread'[t].job = Job(t)
        /\ thread'[t].level2 = BitypeSecondLevelStart
        /\ thread'[t].start = thread[t].start
        /\ \A u \in Threads \ {t} : thread'[u] = thread[u]
    BY <1>3, PublishMoves DEF Moves
  <1>9. \A u \in Threads \ {t} : Knows(u)'
    BY <1>2, <1>3, <1>5, <1>8, Alone, BystanderKnows DEF Serial
  <1>10. Knows(t)'
    <2>1. Idx1(Job(t)'.this) = i
      BY <1>8 DEF Job, i
    <2>. QED
      BY <1>1, <1>2, <1>3, <1>5, <1>6, <1>8, <2>1
         DEF Knows, Unbumped, Registering, Filling
  <1>11. FirstLevelInv'
    <2>1. BitypeLookupStart' \in [0 .. L1_BITS - 1 -> TableAddrs \cup {0}]
      BY <1>4, <1>6
    <2>2. \A k \in 0 .. L1_BITS - 1 :
            BitypeLookupStart[k] # 0 => BitypeLookupStart[k] # BitypeSecondLevelStart
      BY <1>6 DEF Tables
    <2>3. \A m, k \in 0 .. L1_BITS - 1 :
            m # k /\ BitypeLookupStart'[m] # 0
              => BitypeLookupStart'[m] # BitypeLookupStart'[k]
      BY <1>5, <1>6, <2>2 DEF Serial, FirstLevelInv
    <2>4. \A x \in Tables' : \E b \in chunks' : Within(x, b)
      BY <1>1, <1>6, <1>7 DEF Serial, FirstLevelInv
    <2>. QED
      BY <1>1, <2>1, <2>3, <2>4 DEF Serial, FirstLevelInv
  <1>12. CursorInv'
    <2>1. Unbumped(t)'
      BY <1>3, <1>8 DEF Unbumped
    <2>2. \A u \in Threads : ~Unbumped(u) /\ ~Remapped(u)
      BY <1>1, <1>2, Alone DEF Unbumped, Remapped
    <2>3. \A x \in Tables :
            ~(BitypeSecondLevelStart <= x /\ x < BitypeSecondLevelEnd)
      BY <2>2 DEF Serial, CursorInv
    <2>. QED
      BY <1>1, <1>6, <1>7, <1>8, <2>1, <2>3, CursorNat
         DEF CursorInv, Within
  <1>. QED
    BY <1>9, <1>10, <1>11, <1>12 DEF Serial

(* Moving the cursor past the published table ends the allocation.         *)
LEMMA BumpSerial ==
  ASSUME TypeInv, ~overlapped, Serial, NEW t \in Threads, Bump(t)
  PROVE  Serial'
  <1>1. /\ thread[t].pc = "bump"
        /\ BitypeLookupStart' = BitypeLookupStart /\ Tables' = Tables
        /\ BitypeSecondLevelStart' = thread[t].start + Stride
        /\ BitypeSecondLevelEnd' = BitypeSecondLevelEnd /\ chunks' = chunks
    BY DEF Bump, At, Tables
  <1>2. Place(t) /\ Knows(t) /\ Allocating(t) /\ Unbumped(t)
    BY <1>1 DEF TypeInv, Serial, Place, Allocating, Unbumped, Registering
  <1>3. /\ Job(t) \in Jobs /\ thread[t].start = BitypeSecondLevelStart
        /\ thread[t].level2 = BitypeSecondLevelStart
        /\ BitypeSecondLevelStart = BitypeLookupStart[Idx1(Job(t).this)]
        /\ BitypeSecondLevelStart # 0
        /\ BitypeSecondLevelStart < BitypeSecondLevelEnd
    BY <1>1, <1>2 DEF Knows, Place, Filling
  <1>4. /\ \A u \in Threads : ~Remapped(u)
        /\ \A u \in Threads \ {t} : ~Unbumped(u)
    BY <1>1, <1>2, Alone DEF Remapped
  <1>5. PICK b \in chunks : /\ b <= BitypeSecondLevelStart
                            /\ BitypeSecondLevelEnd = b + mmap_words
    BY <1>4 DEF Serial, CursorInv
  <1>6. /\ BitypeSecondLevelStart \in TableAddrs
        /\ Within(BitypeSecondLevelStart, b)
    BY <1>3, <1>5, CursorTable DEF Serial
  <1>7. b \in ChunkBases
    BY DEF TypeInv, GlobalsOK
  <1>8. /\ BitypeSecondLevelStart + Stride <= BitypeSecondLevelEnd
        /\ BitypeSecondLevelStart + Stride \in TableAddrs \cup ChunkEnds
    BY <1>5, <1>6, <1>7, WithinWhole DEF ChunkEnds
  <1>9. /\ thread'[t].pc \in {"done", "ref"} /\ thread'[t].job = Job(t)
        /\ thread'[t].level2 = thread[t].level2 /\ thread'[t].start = 0
        /\ \A u \in Threads \ {t} : thread'[u] = thread[u]
    BY BumpMoves DEF Moves
  <1>10. \A u \in Threads \ {t} : Knows(u)'
    BY <1>1, <1>2, <1>9, Alone, BystanderKnows DEF Serial
  <1>11. Knows(t)'
    BY <1>1, <1>3, <1>9 DEF Knows, Unbumped, Registering, Filling, Job
  <1>12. FirstLevelInv'
    BY <1>1, <1>3, <1>8 DEF Serial, FirstLevelInv
  <1>13. CursorInv'
    <2>1. \A x \in Tables : BitypeSecondLevelStart <= x /\ x < BitypeSecondLevelEnd
                              => x = BitypeSecondLevelStart
      BY <1>3, <1>4 DEF Serial, CursorInv
    <2>2. /\ BitypeSecondLevelStart \in Nat /\ b \in Nat
          /\ Stride \in Nat /\ Stride > 0
          /\ BitypeSecondLevelEnd \in Nat /\ Tables \subseteq Nat
      BY <1>7, CursorNat, Geometry DEF TypeInv, GlobalsOK, Tables
    <2>3. \A x \in Tables : ~(/\ BitypeSecondLevelStart + Stride <= x
                              /\ x < BitypeSecondLevelEnd)
      BY <2>1, <2>2
    <2>. QED
      BY <1>1, <1>3, <1>5, <1>8, <2>2, <2>3 DEF CursorInv
  <1>. QED
    BY <1>10, <1>11, <1>12, <1>13 DEF Serial

(* A thread that fails ends the program where it stands.                   *)
LEMMA FailedSerial ==
  ASSUME Serial, UNCHANGED <<tableVars, thread>>
  PROVE  Serial'
  BY DEF Serial, CursorInv, FirstLevelInv, Knows, Remapped, Unbumped, Job,
         Tables, tableVars, cursorVars

LEMMA InitSerial == Init => SerialInv
  <1> SUFFICES ASSUME Init
               PROVE  Serial
    BY DEF SerialInv
  <1>1. Tables = {}
    BY DEF Init, Tables
  <1>2. FirstChunk \in TableAddrs /\ FirstChunk \in Nat
    BY MmapAssumption, FirstTable
  <1>3. FirstLevelInv
    BY <1>1, <1>2 DEF Init, FirstLevelInv
  <1>4. CursorInv
    <2>1. FirstChunk <= FirstChunk + mmap_words
      BY <1>2, Geometry
    <2>. QED
      BY <1>1, <1>2, <2>1 DEF Init, CursorInv
  <1>5. \A t \in Threads : Knows(t)
    BY DEF Init, IdleThread, Knows, Unbumped, Registering, Filling
  <1>. QED
    BY <1>3, <1>4, <1>5 DEF Serial

LEMMA NextSerial == TypeInv /\ SerialInv /\ [Next]_vars => SerialInv'
  <1>1. ASSUME TypeInv, SerialInv, Next
        PROVE  SerialInv'
    <2> SUFFICES ASSUME ~overlapped'
                 PROVE  Serial'
      BY DEF SerialInv
    <2>1. ~overlapped /\ Serial
      BY <1>1 DEF Next, Watch, SerialInv
    <2>2. PICK t \in Threads : Begin(t) \/ Step(t)
      BY <1>1 DEF Next
    <2>3. CASE MapFailed(t) \/ Fault(t)
      BY <2>1, <2>3, FailedSerial DEF MapFailed, Fault
    <2>. QED
      BY <1>1, <2>1, <2>2, <2>3, QuietSerial, MapChunkSerial, SetEndSerial,
         PublishSerial, BumpSerial DEF Step
  <1>2. ASSUME SerialInv, UNCHANGED vars
        PROVE  SerialInv'
    BY <1>2, FailedSerial DEF SerialInv, vars
  <1>. QED
    BY <1>1, <1>2

LEMMA TypeInvariant == Spec => []TypeInv
  BY InitType, NextType, PTL DEF Spec

LEMMA SerialInvariant == Spec => []SerialInv
  BY TypeInvariant, InitSerial, NextSerial, PTL DEF Spec

(* A mapped word of a table: the first, the last, or a slot's.             *)
LEMMA TableMapped ==
  ASSUME TypeInv, FirstLevelInv, NEW x \in Tables, NEW k \in 0 .. Stride - 1
  PROVE  x \in TableAddrs /\ Mapped(x + k)
  <1>1. x \in TableAddrs
    BY DEF FirstLevelInv, Tables
  <1>2. PICK b \in chunks : Within(x, b)
    BY DEF FirstLevelInv
  <1>3. b \in ChunkBases
    BY DEF TypeInv, GlobalsOK
  <1>4. x + Stride <= b + mmap_words /\ b <= x
    BY <1>1, <1>2, <1>3, WithinWhole DEF Within
  <1>5. x \in Nat /\ b \in Nat
    BY <1>1, <1>3, TableBounds, Geometry
  <1>6. b <= x + k /\ x + k < b + mmap_words
    BY <1>4, <1>5, Geometry
  <1>. QED
    BY <1>1, <1>6 DEF Mapped

(* One allocation at a time keeps the tables apart and in mapped memory,   *)
(* whatever the other threads look up, remove or fill meanwhile.           *)
THEOREM SerialTablesHolds == Spec => []SerialTables
  <1>1. TypeInv /\ SerialInv => SerialTables
    <2> SUFFICES ASSUME TypeInv, FirstLevelInv
                 PROVE  SerialTables
      BY DEF SerialInv, Serial, SerialTables
    <2>1. 0 \in 0 .. Stride - 1 /\ Stride - 1 \in 0 .. Stride - 1
      BY Geometry
    <2>2. \A x \in Tables : x \in TableAddrs /\ x \in Nat
      BY <2>1, TableMapped, TableBounds
    <2>3. \A x \in Tables : Mapped(x + 0) /\ Mapped(x + (Stride - 1))
      BY <2>1, TableMapped
    <2>4. \A x \in Tables : x + 0 = x /\ x + (Stride - 1) = x + Stride - 1
      BY <2>2, Geometry
    <2>5. \A x \in Tables : Mapped(x) /\ Mapped(x + Stride - 1)
      BY <2>3, <2>4
    <2>. QED
      BY <2>2, <2>5 DEF SerialTables, FirstLevelInv
  <1>. QED
    BY <1>1, TypeInvariant, SerialInvariant, PTL

(* The word a thread works on is a slot of a table of its region.          *)
LEMMA WordInTable ==
  ASSUME TypeInv, Serial, NEW t \in Threads, thread[t].pc \in Filling
  PROVE  /\ Job(t) \in Jobs
         /\ thread[t].level2 \in Tables
         /\ thread[t].level2 = BitypeLookupStart[Idx1(Job(t).this)]
         /\ Word(t) = thread[t].level2 + 2 * Idx2(Job(t).this)
         /\ 2 * Idx2(Job(t).this) \in 0 .. Stride - 1
  <1>1. Place(t) /\ Knows(t)
    BY DEF TypeInv, Serial
  <1>2. Job(t) \in Jobs
    BY <1>1 DEF Place, Filling
  <1>3. /\ Idx1(Job(t).this) \in 0 .. L1_BITS - 1
        /\ Idx2(Job(t).this) \in 0 .. L2_BITS - 1
        /\ WordOf(Job(t).this) = 2 * Idx2(Job(t).this)
    BY <1>2, JobType, IndexRange
  <1>4. /\ thread[t].level2 = BitypeLookupStart[Idx1(Job(t).this)]
        /\ thread[t].level2 \in Tables
    BY <1>1, <1>3 DEF Knows, Tables
  <1>5. 2 * Idx2(Job(t).this) \in 0 .. Stride - 1
    BY <1>3, Geometry
  <1>. QED
    BY <1>2, <1>3, <1>4, <1>5 DEF Word

(* What a thread loaded of the first-level table, or took, leads to mapped *)
(* memory until it is done with it: no access of the runtime faults.       *)
THEOREM AccessesMappedHolds == Spec => []AccessesMapped
  <1>1. TypeInv /\ SerialInv => AccessesMapped
    <2> SUFFICES ASSUME TypeInv, Serial, NEW t \in Threads,
                        thread[t].pc \in Filling
                 PROVE  Mapped(Word(t))
      BY DEF SerialInv, AccessesMapped, Filling
    <2>. QED
      BY WordInTable, TableMapped DEF Serial
  <1>. QED
    BY <1>1, TypeInvariant, SerialInvariant, PTL

(* A region's table is stored once: what a thread loaded of the first-     *)
(* level table stays true until it has written its slot.                   *)
THEOREM TablesStayHolds == Spec => TablesStay
  <1> DEFINE Stays == ~overlapped' =>
                        \A i \in 0 .. L1_BITS - 1 :
                          BitypeLookupStart[i] # 0 =>
                            BitypeLookupStart'[i] = BitypeLookupStart[i]
  <1>1. ASSUME TypeInv, SerialInv, Next, ~overlapped',
               NEW i \in 0 .. L1_BITS - 1, BitypeLookupStart[i] # 0
        PROVE  BitypeLookupStart'[i] = BitypeLookupStart[i]
    <2>1. Serial
      BY <1>1 DEF Next, Watch, SerialInv
    <2>2. PICK t \in Threads : Begin(t) \/ Step(t)
      BY <1>1 DEF Next
    <2>3. CASE Publish(t)
      <3>1. /\ thread[t].pc = "publish"
            /\ BitypeLookupStart' =
                 [BitypeLookupStart EXCEPT ![Idx1(Job(t).this)] = thread[t].level2]
        BY <2>3 DEF Publish, At
      <3>2. BitypeLookupStart[Idx1(Job(t).this)] = 0
        BY <2>1, <3>1 DEF Serial, Knows, Registering
      <3>. QED
        BY <1>1, <3>1, <3>2 DEF TypeInv, GlobalsOK
    <2>4. CASE ~Publish(t)
      BY <2>2, <2>4
         DEF Step, Begin, LoadTable, LoadStart, CheckEnd, MapChunk, MapFailed,
             SetEnd, TakeTable, ReloadStart, Bump, Fault, WriteRef, WriteOffset,
             ReadRef, ReadOffset, Return, tableVars
    <2>. QED
      BY <2>3, <2>4
  <1>2. TypeInv /\ SerialInv /\ [Next]_vars => [Stays]_vars
    BY <1>1
  <1>. QED
    BY <1>2, TypeInvariant, SerialInvariant, PTL DEF Spec, TablesStay

-----------------------------------------------------------------------------
(* The slots while one thread at a time allocates.                         *)

(* A slot is a place in a table of the first level.                        *)
LEMMA SlotParts ==
  ASSUME NEW s \in Slots
  PROVE  s[1] \in 0 .. L1_BITS - 1 /\ s[2] \in 0 .. L2_BITS - 1
  BY DEF Slots

(* The word a thread works on holds the entry of its slot.                 *)
LEMMA WordEntry ==
  ASSUME TypeInv, Serial, NEW t \in Threads, thread[t].pc \in Filling
  PROVE  LET s == SlotOf(Job(t).this)
         IN  /\ s \in Slots
             /\ EntryOf(s) = cell[Word(t)]
             /\ Word(t) \in CellAddrs /\ cell[Word(t)] \in Entry
             /\ \A x \in TableAddrs : \A j \in 0 .. L2_BITS - 1 :
                  Word(t) = x + 2 * j => x \in Tables /\ j = s[2]
             /\ \A r \in Slots : BitypeLookupStart[r[1]] # 0 /\ r # s
                  => Word(t) # BitypeLookupStart[r[1]] + 2 * r[2]
  <1> DEFINE s == SlotOf(Job(t).this)
  <1>1. /\ Job(t) \in Jobs
        /\ thread[t].level2 \in Tables
        /\ thread[t].level2 = BitypeLookupStart[Idx1(Job(t).this)]
        /\ Word(t) = thread[t].level2 + 2 * Idx2(Job(t).this)
    BY WordInTable
  <1>2. s \in Slots /\ s[1] = Idx1(Job(t).this) /\ s[2] = Idx2(Job(t).this)
    BY <1>1, JobType, IndexRange
  <1> HIDE DEF s
  <1>3. /\ Tables \subseteq TableAddrs
        /\ BitypeLookupStart \in [0 .. L1_BITS - 1 -> TableAddrs \cup {0}]
    BY DEF Serial, FirstLevelInv, Tables
  <1>4. thread[t].level2 \in TableAddrs /\ thread[t].level2 # 0
    BY <1>1, <1>3, TableBounds
  <1>5. EntryOf(s) = cell[Word(t)]
    BY <1>1, <1>2, <1>4 DEF EntryOf
  <1>6. Word(t) \in CellAddrs /\ cell[Word(t)] \in Entry
    BY <1>1, <1>2, <1>4, SlotParts, CellsDistinct DEF TypeInv, GlobalsOK
  <1>7. \A x \in TableAddrs : \A j \in 0 .. L2_BITS - 1 :
          Word(t) = x + 2 * j => x = thread[t].level2 /\ j = s[2]
    BY <1>1, <1>2, <1>4, SlotParts, CellsDistinct
  <1>8. ASSUME NEW r \in Slots, BitypeLookupStart[r[1]] # 0,
               Word(t) = BitypeLookupStart[r[1]] + 2 * r[2]
        PROVE  r = s
    <2>1. BitypeLookupStart[r[1]] \in TableAddrs
      BY <1>3, <1>8, SlotParts
    <2>2. BitypeLookupStart[r[1]] = BitypeLookupStart[s[1]] /\ r[2] = s[2]
      BY <1>1, <1>2, <1>7, <1>8, <2>1, SlotParts
    <2>3. r[1] = s[1]
      BY <1>2, <1>8, <2>2, SlotParts DEF Serial, FirstLevelInv
    <2>. QED
      BY <1>2, <2>2, <2>3 DEF Slots
  <1>. QED
    BY <1>1, <1>2, <1>5, <1>6, <1>7, <1>8 DEF s

(* A thread that looks a slot up keeps the writers away from it.           *)
LEMMA LookupUndisturbed ==
  ASSUME TypeInv, Entries, NEW t \in Threads,
         thread[t].pc # "idle", Job(t).op = "lookup"
  PROVE  EntryOf(SlotOf(Job(t).this)) = expected[SlotOf(Job(t).this)]
  <1> DEFINE s == SlotOf(Job(t).this)
  <1>1. s \in Slots
    BY JobType DEF TypeInv, Place
  <1>2. ~Writing(s)
    BY DEF TypeInv, Exclusion, Writing
  <1>. QED
    BY <1>1, <1>2 DEF Entries

(* A step that changes no entry, of a thread that stays in its call, or    *)
(* leaves it with its slot as the program wants it.                        *)
LEMMA EntriesKept ==
  ASSUME TypeInv, Entries, NEW t \in Threads,
         \A u \in Threads \ {t} : thread'[u] = thread[u],
         FreshCells',
         \A s \in Slots : EntryOf(s)' = EntryOf(s),
         expected' = expected,
         \/ /\ thread'[t].pc = "idle"
            /\ thread[t].pc = "done"
         \/ /\ thread[t].pc # "idle" /\ thread'[t].pc # "idle"
            /\ thread'[t].job = thread[t].job
            /\ Progress(t)'
  PROVE  Entries'
  <1>1. ASSUME NEW s \in Slots, ~Writing(s)'
        PROVE  EntryOf(s)' = expected'[s]
    <2>1. CASE ~Writing(s)
      BY <2>1 DEF Entries
    <2>2. CASE Writing(s)
      <3>1. PICK u \in Threads : /\ thread[u].pc # "idle" /\ Job(u).op # "lookup"
                                 /\ SlotOf(Job(u).this) = s
        BY <2>2 DEF Writing
      <3>2. u = t /\ thread'[t].pc = "idle" /\ thread[t].pc = "done"
        BY <1>1, <3>1 DEF Writing, Job
      <3>3. EntryOf(s) = expected[s]
        BY <3>1, <3>2 DEF Entries, Progress
      <3>. QED
        BY <3>3
    <2>. QED
      BY <2>1, <2>2
  <1>2. ASSUME NEW u \in Threads, thread'[u].pc # "idle", u # t
        PROVE  Progress(u)'
    <2>1. thread'[u] = thread[u] /\ Progress(u) /\ Job(u) \in Jobs
      BY <1>2 DEF Entries, TypeInv, Place
    <2>2. EntryOf(SlotOf(Job(u).this))' = EntryOf(SlotOf(Job(u).this))
      <3>1. Job(u)' = Job(u) /\ SlotOf(Job(u).this) \in Slots
        BY <2>1, JobType DEF Job
      <3>. QED
        BY <3>1
    <2>. QED
      BY <2>1, <2>2 DEF Progress, Job
  <1>. QED
    BY <1>1, <1>2 DEF Entries

(* A step that stores neither a table's pointer nor a slot.                *)
LEMMA UnchangedEntries ==
  ASSUME Entries, UNCHANGED <<BitypeLookupStart, cell, expected>>
  PROVE  /\ FreshCells' /\ Tables' = Tables
         /\ \A s \in Slots : EntryOf(s)' = EntryOf(s)
  BY DEF Entries, FreshCells, Tables, EntryOf

(* What a removal or a lookup that finds no table knows: the slot is empty.*)
LEMMA LoadTableEntries ==
  ASSUME TypeInv, Serial, Entries, NEW t \in Threads, LoadTable(t)
  PROVE  Entries'
  <1> DEFINE s == SlotOf(Job(t).this)
             table == BitypeLookupStart[Idx1(Job(t).this)]
  <1>1. /\ thread[t].pc = "table" /\ Place(t) /\ Progress(t)
        /\ UNCHANGED <<BitypeLookupStart, cell, expected>>
    BY DEF LoadTable, At, TypeInv, Entries, tableVars
  <1>2. /\ Job(t) \in Jobs /\ s \in Slots /\ s[1] = Idx1(Job(t).this)
        /\ thread[t].seen = NoEntry
    BY <1>1, JobType DEF Place
  <1>3. /\ thread'[t].pc \in {"read", "ref", "start", "done"}
        /\ thread'[t].job = Job(t) /\ SeenStays(t)
        /\ thread'[t].pc = "done" => table = 0 /\ Job(t).op \in {"erase", "lookup"}
        /\ \A u \in Threads \ {t} : thread'[u] = thread[u]
    BY LoadTableMoves DEF Moves
  <1>4. table = 0 => EntryOf(s) = NoEntry
    BY <1>2 DEF EntryOf
  <1>5. expected[s] \in Entry
    BY <1>2 DEF TypeInv, GlobalsOK
  <1>6. Job(t).op = "lookup" /\ table = 0 => expected[s] = NoEntry
    BY <1>1, <1>4, LookupUndisturbed
  <1>7. Job(t).op = "erase" => expected[s] = NoEntry
    BY <1>1, <1>2, JobType DEF Progress, NoEntry
  <1>8. FreshCells' /\ \A r \in Slots : EntryOf(r)' = EntryOf(r)
    BY <1>1, UnchangedEntries
  <1>9. Job(t)' = Job(t) /\ EntryOf(SlotOf(Job(t).this))' = EntryOf(s)
    BY <1>1, <1>3 DEF Job, EntryOf
  <1>10. /\ thread'[t].pc = "done" /\ Job(t).op # "lookup" =>
              EntryOf(s) = expected[s]
         /\ thread'[t].pc = "done" /\ Job(t).op = "lookup" =>
              expected[s].ref = NULL /\ thread'[t].seen.ref = NULL
    BY <1>2, <1>3, <1>4, <1>6, <1>7 DEF SeenStays, NoEntry
  <1>11. Job(t).op # "lookup" =>
           expected[s] = [ref |-> Job(t).ref, off |-> Job(t).off]
    BY <1>1 DEF Progress
  <1> HIDE DEF s, table
  <1>12. SlotOf(Job(t).this) = s
    BY DEF s
  <1>13. Progress(t)'
    BY <1>1, <1>3, <1>9, <1>10, <1>11, <1>12 DEF Progress
  <1>. QED
    BY <1>1, <1>3, <1>8, <1>13, EntriesKept DEF Job

(* The steps of an allocation change no entry, the store of the pointer    *)
(* apart, which brings in a table of empty slots.                          *)
LEMMA AllocationEntries ==
  ASSUME TypeInv, Serial, Entries, NEW t \in Threads,
         \/ LoadStart(t) \/ CheckEnd(t) \/ MapChunk(t) \/ SetEnd(t)
         \/ TakeTable(t) \/ ReloadStart(t) \/ Bump(t)
  PROVE  Entries'
  <1>1. /\ UNCHANGED <<BitypeLookupStart, cell, expected>>
        /\ thread[t].pc \in (Registering \ {"publish"}) \cup {"reload", "bump"}
    BY DEF LoadStart, CheckEnd, MapChunk, SetEnd, TakeTable, ReloadStart, Bump,
           At, tableVars, Registering
  <1>2. /\ thread'[t].pc \in Registering \cup {"bump", "done", "ref"}
        /\ thread'[t].pc \in {"bump"} => Job(t).op = "update"
        /\ thread'[t].pc = "done" => thread[t].pc = "bump" /\ Job(t).op = "inline"
        /\ thread'[t].job = Job(t)
        /\ \A u \in Threads \ {t} : thread'[u] = thread[u]
    <2>1. Place(t)
      BY DEF TypeInv
    <2>. QED
      BY <2>1, LoadStartMoves, CheckEndMoves, MapChunkMoves, SetEndMoves,
         TakeTableMoves, ReloadStartMoves, BumpMoves
         DEF Moves, Registering, Bump, ReloadStart, At, Place
  <1>3. /\ FreshCells' /\ \A s \in Slots : EntryOf(s)' = EntryOf(s)
    BY <1>1, UnchangedEntries
  <1>4. Job(t)' = Job(t) /\ EntryOf(SlotOf(Job(t).this))' = EntryOf(SlotOf(Job(t).this))
    BY <1>1, <1>2 DEF Job, EntryOf
  <1>5. Job(t).op \in {"update", "inline"} /\ Progress(t)
    BY <1>1 DEF TypeInv, Place, Entries, Registering
  <1>6. Progress(t)'
    BY <1>1, <1>2, <1>4, <1>5 DEF Progress, Registering
  <1>. QED
    BY <1>1, <1>2, <1>3, <1>6, EntriesKept DEF Job, Registering

LEMMA PublishEntries ==
  ASSUME TypeInv, ~overlapped, Serial, Entries, NEW t \in Threads, Publish(t)
  PROVE  Entries'
  <1> DEFINE i == Idx1(Job(t).this)
  <1>1. thread[t].pc = "publish" /\ cell' = cell /\ expected' = expected
    BY DEF Publish, At
  <1>2. Place(t) /\ Knows(t) /\ Progress(t)
    BY <1>1 DEF TypeInv, Serial, Entries
  <1>3. /\ i \in 0 .. L1_BITS - 1 /\ BitypeLookupStart[i] = 0
        /\ thread[t].level2 = BitypeSecondLevelStart
        /\ Job(t).op \in {"update", "inline"}
    BY <1>1, <1>2, JobType DEF Knows, Place, Registering
  <1>4. \A k \in 0 .. L1_BITS - 1 :
          BitypeLookupStart'[k] = IF k = i THEN BitypeSecondLevelStart
                                           ELSE BitypeLookupStart[k]
    BY <1>3 DEF Publish, TypeInv, GlobalsOK
  <1> HIDE DEF i
  <1>5. BitypeSecondLevelStart \in TableAddrs \ Tables /\ BitypeSecondLevelStart # 0
    BY <1>1, PublishedFree, TableBounds
  <1>6. Tables' = Tables \cup {BitypeSecondLevelStart}
    BY <1>3, <1>4, <1>5 DEF Tables
  <1>7. FreshCells'
    BY <1>1, <1>6 DEF Entries, FreshCells
  <1>8. ASSUME NEW s \in Slots
        PROVE  EntryOf(s)' = EntryOf(s)
    <2>1. s[1] \in 0 .. L1_BITS - 1 /\ s[2] \in 0 .. L2_BITS - 1
      BY SlotParts
    <2>2. CASE s[1] = i
      <3>1. EntryOf(s) = NoEntry
        BY <1>3, <2>2 DEF EntryOf
      <3>2. EntryOf(s)' = cell[BitypeSecondLevelStart + 2 * s[2]]
        BY <1>1, <1>4, <1>5, <2>1, <2>2 DEF EntryOf
      <3>3. cell[BitypeSecondLevelStart + 2 * s[2]] = NoEntry
        BY <1>5, <2>1 DEF Entries, FreshCells
      <3>. QED
        BY <3>1, <3>2, <3>3
    <2>3. CASE s[1] # i
      BY <1>1, <1>4, <2>1, <2>3 DEF EntryOf
    <2>. QED
      BY <2>2, <2>3
  <1>9. /\ thread'[t].pc \in {"ref", "reload"} /\ thread'[t].job = Job(t)
        /\ \A u \in Threads \ {t} : thread'[u] = thread[u]
    BY PublishMoves DEF Moves
  <1>10. Progress(t)'
    BY <1>1, <1>2, <1>3, <1>9 DEF Progress, Job
  <1>. QED
    BY <1>1, <1>7, <1>8, <1>9, <1>10, EntriesKept DEF Job

(* A lookup reads both words of the entry the program wants there.         *)
LEMMA ReadEntries ==
  ASSUME TypeInv, Serial, Entries, NEW t \in Threads,
         ReadRef(t) \/ ReadOffset(t)
  PROVE  Entries'
  <1> DEFINE s == SlotOf(Job(t).this)
  <1>1. /\ thread[t].pc \in {"read", "readoff"}
        /\ UNCHANGED <<BitypeLookupStart, cell, expected>>
    BY DEF ReadRef, ReadOffset, At, tableVars
  <1>2. Job(t).op = "lookup" /\ Progress(t)
    BY <1>1 DEF TypeInv, Place, Entries
  <1>3. cell[Word(t)] = expected[s]
    BY <1>1, <1>2, WordEntry, LookupUndisturbed DEF Filling
  <1>4. /\ \A u \in Threads \ {t} : thread'[u] = thread[u]
        /\ thread'[t].job = Job(t)
        /\ \/ /\ thread'[t].pc = "readoff" /\ cell[Word(t)].ref # NULL
              /\ thread'[t].seen.ref = cell[Word(t)].ref
           \/ /\ thread'[t].pc = "done" /\ cell[Word(t)].ref = NULL
              /\ thread'[t].seen.ref = cell[Word(t)].ref
           \/ /\ thread'[t].pc = "done" /\ thread[t].pc = "readoff"
              /\ thread'[t].seen.ref = thread[t].seen.ref
              /\ thread'[t].seen.off = cell[Word(t)].off
    <2>1. CASE ReadRef(t)
      BY <2>1, ReadRefMoves DEF Moves
    <2>2. CASE ReadOffset(t)
      BY <2>2, ReadOffsetMoves DEF Moves, ReadOffset, At
    <2>. QED
      BY <2>1, <2>2
  <1>5. thread[t].pc = "readoff" => thread[t].seen.ref = expected[s].ref
    BY <1>2 DEF Progress
  <1>6. Job(t)' = Job(t) /\ expected' = expected
    BY <1>1, <1>4 DEF Job
  <1> HIDE DEF s
  <1>7. s = SlotOf(Job(t).this)
    BY DEF s
  <1>8. Progress(t)'
    BY <1>2, <1>3, <1>4, <1>5, <1>6, <1>7 DEF Progress
  <1>. QED
    BY <1>1, <1>4, <1>8, EntriesKept, UnchangedEntries DEF Job

LEMMA ReturnEntries ==
  ASSUME TypeInv, Entries, NEW t \in Threads, Return(t)
  PROVE  Entries'
  <1>1. thread[t].pc = "done" /\ UNCHANGED <<BitypeLookupStart, cell, expected>>
    BY DEF Return, At, tableVars
  <1>. QED
    BY <1>1, ReturnMoves, EntriesKept, UnchangedEntries DEF Moves

(* What the program says of a slot changes only for the slot of the call   *)
(* that begins, which no other thread works on.                            *)
LEMMA BeginEntries ==
  ASSUME TypeInv, Entries, NEW t \in Threads, Begin(t)
  PROVE  Entries'
  <1>1. PICK j \in Jobs :
          /\ Moves(t, "table", j, thread[t].level2, 0)
          /\ \A u \in Threads : thread[u].pc # "idle" => ~Conflict(j, Job(u))
          /\ expected' = IF j.op = "lookup" THEN expected
                         ELSE [expected EXCEPT ![SlotOf(j.this)] =
                                 [ref |-> j.ref, off |-> j.off]]
    BY BeginMoves
  <1>2. /\ thread[t].pc = "idle" /\ UNCHANGED <<BitypeLookupStart, cell>>
        /\ FreshCells' /\ \A s \in Slots : EntryOf(s)' = EntryOf(s)
    BY DEF Begin, At, tableVars, Entries, FreshCells, Tables, EntryOf
  <1>3. /\ thread'[t].pc = "table" /\ thread'[t].job = j
        /\ \A u \in Threads \ {t} : thread'[u] = thread[u]
    BY <1>1 DEF Moves
  <1>4. SlotOf(j.this) \in Slots
    BY JobType
  <1>5. \A s \in Slots : s # SlotOf(j.this) \/ j.op = "lookup"
                           => expected'[s] = expected[s]
    BY <1>1, <1>4 DEF TypeInv, GlobalsOK
  <1>6. j.op # "lookup" => expected'[SlotOf(j.this)] = [ref |-> j.ref, off |-> j.off]
    BY <1>1, <1>4 DEF TypeInv, GlobalsOK
  <1>7. ASSUME NEW s \in Slots, ~Writing(s)'
        PROVE  EntryOf(s)' = expected'[s]
    <2>1. s # SlotOf(j.this) \/ j.op = "lookup"
      BY <1>3, <1>7 DEF Writing, Job
    <2>2. ~Writing(s)
      BY <1>2, <1>3, <1>7 DEF Writing, Job
    <2>. QED
      BY <1>2, <1>5, <2>1, <2>2 DEF Entries
  <1>8. ASSUME NEW u \in Threads, thread'[u].pc # "idle", u # t
        PROVE  Progress(u)'
    <2> DEFINE s == SlotOf(Job(u).this)
    <2>1. /\ thread'[u] = thread[u] /\ Progress(u)
          /\ Job(u) \in Jobs /\ Job(u)' = Job(u) /\ s \in Slots
      BY <1>3, <1>8, JobType DEF Entries, TypeInv, Place, Job
    <2>2. ~Conflict(j, Job(u))
      BY <1>1, <1>3, <1>8
    <2>3. expected'[s] = expected[s]
      BY <1>5, <2>1, <2>2 DEF Conflict
    <2>4. EntryOf(SlotOf(Job(u).this))' = EntryOf(s)
      BY <1>2, <2>1
    <2> HIDE DEF s
    <2>5. SlotOf(Job(u).this) = s
      BY DEF s
    <2>. QED
      BY <2>1, <2>3, <2>4, <2>5 DEF Progress
  <1>9. Progress(t)'
    <2>1. Job(t)' = j
      BY <1>3 DEF Job
    <2>. QED
      BY <1>3, <1>6, <2>1 DEF Progress
  <1>. QED
    BY <1>2, <1>7, <1>8, <1>9 DEF Entries

(* A store to the slot of the thread's call changes no other slot, nor any *)
(* table that has no region.                                               *)
LEMMA WritesOwnSlot ==
  ASSUME TypeInv, Serial, Entries, NEW t \in Threads,
         WriteRef(t) \/ WriteOffset(t)
  PROVE  LET s == SlotOf(Job(t).this)
         IN  /\ s \in Slots
             /\ EntryOf(s) = cell[Word(t)] /\ cell[Word(t)] \in Entry
             /\ EntryOf(SlotOf(Job(t).this))' = cell'[Word(t)]
             /\ \A r \in Slots \ {s} : EntryOf(r)' = EntryOf(r)
             /\ FreshCells'
  <1> DEFINE s == SlotOf(Job(t).this)
             w == Word(t)
  <1>1. /\ thread[t].pc \in Filling
        /\ BitypeLookupStart' = BitypeLookupStart /\ Tables' = Tables
        /\ \A v \in CellAddrs : v # Word(t) => cell'[v] = cell[v]
    <2>1. /\ thread[t].pc \in Filling
          /\ BitypeLookupStart' = BitypeLookupStart /\ Tables' = Tables
      BY DEF WriteRef, WriteOffset, At, Filling, tableVars, Tables
    <2>. QED
      BY <2>1 DEF WriteRef, WriteOffset, TypeInv, GlobalsOK
  <1>2. /\ s \in Slots
        /\ EntryOf(s) = cell[w] /\ w \in CellAddrs /\ cell[w] \in Entry
        /\ \A x \in TableAddrs : \A j \in 0 .. L2_BITS - 1 :
             w = x + 2 * j => x \in Tables
        /\ \A r \in Slots : BitypeLookupStart[r[1]] # 0 /\ r # s
             => w # BitypeLookupStart[r[1]] + 2 * r[2]
    BY <1>1, WordEntry
  <1>3. /\ thread'[t].job = Job(t)
    BY WriteRefMoves, WriteOffsetMoves DEF Moves
  <1>4. w = BitypeLookupStart[s[1]] + 2 * s[2] /\ BitypeLookupStart[s[1]] # 0
    <2>1. /\ Job(t) \in Jobs /\ thread[t].level2 \in Tables
          /\ thread[t].level2 = BitypeLookupStart[Idx1(Job(t).this)]
          /\ w = thread[t].level2 + 2 * Idx2(Job(t).this)
      BY <1>1, WordInTable
    <2>2. thread[t].level2 # 0
      BY <2>1 DEF Tables
    <2>. QED
      BY <2>1, <2>2, JobType, IndexRange
  <1>5. Job(t)' = Job(t)
    BY <1>3 DEF Job
  <1> HIDE DEF w, s
  <1>6. SlotOf(Job(t).this) = s /\ Word(t) = w
    BY DEF s, w
  <1>7. EntryOf(SlotOf(Job(t).this))' = cell'[w]
    BY <1>1, <1>4, <1>5, <1>6 DEF EntryOf
  <1>8. ASSUME NEW r \in Slots \ {s}
        PROVE  EntryOf(r)' = EntryOf(r)
    <2>1. BitypeLookupStart[r[1]] # 0
            => BitypeLookupStart[r[1]] + 2 * r[2] \in CellAddrs
      BY SlotParts, CellsDistinct DEF Serial, FirstLevelInv
    <2>. QED
      BY <1>1, <1>2, <1>6, <2>1 DEF EntryOf
  <1>9. FreshCells'
    BY <1>1, <1>2, <1>6, CellsDistinct DEF Entries, FreshCells
  <1>. QED
    BY <1>2, <1>6, <1>7, <1>8, <1>9

(* The two stores of a registration or a removal, in their order.          *)
LEMMA WriteEntries ==
  ASSUME TypeInv, Serial, Entries, NEW t \in Threads,
         WriteRef(t) \/ WriteOffset(t)
  PROVE  Entries'
  <1> DEFINE s == SlotOf(Job(t).this)
  <1>1. /\ s \in Slots
        /\ EntryOf(s) = cell[Word(t)] /\ cell[Word(t)] \in Entry
        /\ EntryOf(SlotOf(Job(t).this))' = cell'[Word(t)]
        /\ \A r \in Slots \ {s} : EntryOf(r)' = EntryOf(r)
        /\ FreshCells'
    BY WritesOwnSlot
  <1>2. /\ thread[t].pc \in {"ref", "off"} /\ expected' = expected
    BY DEF WriteRef, WriteOffset, At
  <1>3. /\ Job(t).op # "lookup" /\ Progress(t)
        /\ thread[t].start # 0 => Job(t).op = "inline"
    BY <1>2 DEF TypeInv, Place, Entries
  <1>4. expected[s] = [ref |-> Job(t).ref, off |-> Job(t).off]
    BY <1>2, <1>3 DEF Progress
  <1>5. /\ thread'[t].job = Job(t)
        /\ \A u \in Threads \ {t} : thread'[u] = thread[u]
    BY WriteRefMoves, WriteOffsetMoves DEF Moves
  <1>6. Word(t) \in CellAddrs
    BY <1>2, WordEntry DEF Filling
  <1>7. \/ /\ thread'[t].pc = "off"
           /\ cell'[Word(t)].ref = Job(t).ref
        \/ /\ thread'[t].pc \in {"bump", "done"}
           /\ cell'[Word(t)] = expected[s]
    <2>1. CASE WriteRef(t)
      <3>1. cell' = [cell EXCEPT ![Word(t)].ref = Job(t).ref]
        BY <2>1 DEF WriteRef
      <3>2. cell'[Word(t)].ref = Job(t).ref
        BY <1>1, <1>6, <3>1 DEF TypeInv, GlobalsOK, Entry
      <3>. QED
        BY <2>1, <3>2, WriteRefMoves DEF Moves
    <2>2. CASE WriteOffset(t)
      <3>1. /\ cell' = [cell EXCEPT ![Word(t)].off = Job(t).off]
            /\ thread[t].pc = "off"
        BY <2>2 DEF WriteOffset, At
      <3>2. cell[Word(t)].ref = Job(t).ref
        BY <1>1, <1>3, <1>4, <3>1 DEF Progress
      <3>3. cell'[Word(t)] = [ref |-> Job(t).ref, off |-> Job(t).off]
        BY <1>1, <1>6, <3>1, <3>2 DEF TypeInv, GlobalsOK, Entry
      <3>. QED
        BY <1>4, <2>2, <3>3, WriteOffsetMoves DEF Moves
    <2>. QED
      BY <2>1, <2>2
  <1>8. Job(t)' = Job(t)
    BY <1>5 DEF Job
  <1> HIDE DEF s
  <1>9. s = SlotOf(Job(t).this)
    BY DEF s
  <1>10. Progress(t)'
    BY <1>1, <1>2, <1>3, <1>4, <1>7, <1>8, <1>9 DEF Progress
  <1>11. ASSUME NEW u \in Threads, thread'[u].pc # "idle", u # t
         PROVE  Progress(u)'
    <2>1. /\ thread'[u] = thread[u] /\ Progress(u) /\ Job(u)' = Job(u)
          /\ SlotOf(Job(u).this) \in Slots
      BY <1>5, <1>11, JobType DEF Entries, TypeInv, Place, Job
    <2>2. SlotOf(Job(u).this) # s
      BY <1>2, <1>3, <1>9, <1>11, <2>1 DEF TypeInv, Exclusion
    <2>3. EntryOf(SlotOf(Job(u).this))' = EntryOf(SlotOf(Job(u).this))
      BY <1>1, <2>1, <2>2
    <2>. QED
      BY <1>2, <2>1, <2>3 DEF Progress
  <1>12. ASSUME NEW r \in Slots, ~Writing(r)'
         PROVE  EntryOf(r)' = expected'[r]
    <2>1. r # s /\ ~Writing(r)
      BY <1>2, <1>3, <1>5, <1>7, <1>8, <1>9, <1>12 DEF Writing, Job
    <2>. QED
      BY <1>1, <1>2, <2>1 DEF Entries
  <1>. QED
    BY <1>1, <1>10, <1>11, <1>12 DEF Entries

LEMMA InitEntries == Init => EntriesInv
  <1> SUFFICES ASSUME Init
               PROVE  Entries
    BY DEF EntriesInv
  <1>1. FreshCells
    BY CellsDistinct DEF Init, FreshCells
  <1>2. \A s \in Slots : EntryOf(s) = expected[s]
    BY SlotParts DEF Init, EntryOf
  <1>3. \A t \in Threads : thread[t].pc = "idle"
    BY DEF Init, IdleThread
  <1>. QED
    BY <1>1, <1>2, <1>3 DEF Entries

LEMMA NextEntries ==
  TypeInv /\ SerialInv /\ EntriesInv /\ [Next]_vars => EntriesInv'
  <1>1. ASSUME Entries, UNCHANGED <<tableVars, cell, thread, expected>>
        PROVE  Entries'
    BY <1>1 DEF Entries, FreshCells, Tables, Writing, Progress, EntryOf, Job,
                tableVars
  <1>2. ASSUME TypeInv, SerialInv, EntriesInv, Next
        PROVE  EntriesInv'
    <2> SUFFICES ASSUME ~overlapped'
                 PROVE  Entries'
      BY DEF EntriesInv
    <2>1. ~overlapped /\ Serial /\ Entries
      BY <1>2 DEF Next, Watch, SerialInv, EntriesInv
    <2>2. PICK t \in Threads : Begin(t) \/ Step(t)
      BY <1>2 DEF Next
    <2>3. CASE MapFailed(t) \/ Fault(t)
      BY <1>1, <2>1, <2>3 DEF MapFailed, Fault
    <2>. QED
      BY <1>2, <2>1, <2>2, <2>3, BeginEntries, LoadTableEntries,
         AllocationEntries, PublishEntries, ReadEntries, WriteEntries,
         ReturnEntries DEF Step
  <1>3. ASSUME EntriesInv, UNCHANGED vars
        PROVE  EntriesInv'
    BY <1>1, <1>3 DEF EntriesInv, vars
  <1>. QED
    BY <1>2, <1>3

LEMMA EntriesInvariant == Spec => []EntriesInv
  BY TypeInvariant, SerialInvariant, InitEntries, NextEntries, PTL DEF Spec

(* No registration or removal is lost or undone by a thread that works on  *)
(* another slot, in the same table or not, unless allocations overlapped.  *)
THEOREM NothingLostHolds == Spec => []NothingLost
  <1>1. EntriesInv => NothingLost
    BY DEF EntriesInv, Entries, NothingLost, Busy, Writing
  <1>. QED
    BY <1>1, EntriesInvariant, PTL

(* A lookup answers the last registration of its slot, vector and offset   *)
(* of the same one.                                                        *)
THEOREM LookupsExactHolds == Spec => []LookupsExact
  <1>1. EntriesInv => LookupsExact
    BY DEF EntriesInv, Entries, Progress, LookupsExact
  <1>. QED
    BY <1>1, EntriesInvariant, PTL
=============================================================================

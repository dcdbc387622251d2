-------------------------- MODULE LookupTableThreads --------------------------
(***************************************************************************)
(* The lookup table as the threads of a program share it, one memory       *)
(* access per step.  The runtime has no lock: the first-level table, the   *)
(* cursor BitypeSecondLevelStart and its bound are plain globals that every*)
(* thread loads and stores (bitype.cpp:110-142 and its copies; the inlined *)
(* code of BitypeUtil.cpp:1285-1398 moves the cursor last).                *)
(*                                                                         *)
(* The program is assumed race free about its objects: two threads are     *)
(* never inside calls for the same slot, unless both only look it up.  The *)
(* size word is left out: it is written with the offset.                   *)
(***************************************************************************)
EXTENDS TableMemory, FiniteSets

CONSTANTS
  Threads,
  Refs, NULL,  (* Code vectors.                                            *)
  Addr,        (* Addresses of objects.                                    *)
  Offsets      (* Offsets of a tracked type within its object.             *)

ASSUME ThreadsAssumption == Addr \subseteq Nat

VARIABLES
  BitypeLookupStart, BitypeSecondLevelStart, BitypeSecondLevelEnd, chunks,
  cell,        (* Slot contents, by word address.                          *)
  thread,      (* The call each thread is in, with its local variables.    *)
  exited,      (* mmap failed or an access faulted: the program is gone.   *)
  expected,    (* Ghost: what the program last said of each slot.          *)
  overlapped   (* Ghost: two threads were allocating tables at once.       *)

cursorVars == <<BitypeSecondLevelStart, BitypeSecondLevelEnd, chunks>>
tableVars  == <<BitypeLookupStart, cursorVars>>
vars == <<tableVars, cell, thread, exited, expected, overlapped>>

Entry   == [ref : Refs \cup {NULL}, off : Offsets \cup {0}]
NoEntry == [ref |-> NULL, off |-> 0]

Jobs ==
  [op : {"update", "inline"}, this : Addr, ref : Refs, off : Offsets]
    \cup [op : {"erase", "lookup"}, this : Addr, ref : {NULL}, off : {0}]

(* start is what the thread last loaded of the cursor, from the load that  *)
(* starts an allocation to the store that ends it.                         *)
IdleThread == [pc |-> "idle", job |-> NULL, level2 |-> 0, start |-> 0,
               seen |-> NoEntry]

Init ==
  /\ BitypeLookupStart = [i \in 0 .. L1_BITS - 1 |-> 0]
  /\ BitypeSecondLevelStart = FirstChunk
  /\ BitypeSecondLevelEnd = FirstChunk + mmap_words
  /\ chunks = {FirstChunk}
  /\ cell = [w \in CellAddrs |-> NoEntry]
  /\ thread = [t \in Threads |-> IdleThread]
  /\ exited = FALSE
  /\ expected = [s \in Slots |-> NoEntry]
  /\ overlapped = FALSE

-----------------------------------------------------------------------------
Job(t)  == thread[t].job
Word(t) == thread[t].level2 + WordOf(Job(t).this)

At(t, pc) == ~exited /\ thread[t].pc = pc

Goto(t, pc) == thread' = [thread EXCEPT ![t].pc = pc]

(* Calls that no race-free program makes at the same time.                 *)
Conflict(j, k) ==
  /\ SlotOf(j.this) = SlotOf(k.this)
  /\ j.op # "lookup" \/ k.op # "lookup"

Begin(t) ==
  \E j \in Jobs :
    /\ At(t, "idle")
    /\ \A u \in Threads : thread[u].pc # "idle" => ~Conflict(j, Job(u))
    /\ thread' = [thread EXCEPT ![t].pc = "table", ![t].job = j]
    /\ expected' = IF j.op = "lookup" THEN expected
                   ELSE [expected EXCEPT ![SlotOf(j.this)] =
                           [ref |-> j.ref, off |-> j.off]]
    /\ UNCHANGED <<tableVars, cell, exited>>

(* Faulty: a registration allocates a table even when there is one.        *)
LoadTableAnew(t) ==
  LET table == BitypeLookupStart[Idx1(Job(t).this)]
      next  == CASE Job(t).op \in {"update", "inline"} -> "start"
                 [] table # 0 /\ Job(t).op = "lookup" -> "read"
                 [] table # 0 /\ Job(t).op = "erase" -> "ref"
                 [] table = 0 /\ Job(t).op \in {"erase", "lookup"} -> "done"
  IN  /\ At(t, "table")
      /\ thread' = [thread EXCEPT ![t].pc = next, ![t].level2 = table]
      /\ UNCHANGED <<tableVars, cell, exited, expected>>

(* Faulty: a lookup waits for the table to appear.                         *)
LoadTableWaiting(t) ==
  LET table == BitypeLookupStart[Idx1(Job(t).this)]
      next  == CASE table # 0 /\ Job(t).op = "lookup" -> "read"
                 [] table # 0 /\ Job(t).op # "lookup" -> "ref"
                 [] table = 0 /\ Job(t).op \in {"update", "inline"} -> "start"
                 [] table = 0 /\ Job(t).op = "erase" -> "done"
                 [] table = 0 /\ Job(t).op = "lookup" -> "table"
  IN  /\ At(t, "table")
      /\ thread' = [thread EXCEPT ![t].pc = next, ![t].level2 = table]
      /\ UNCHANGED <<tableVars, cell, exited, expected>>

(* level2 = BitypeLookupStart[idx1]: absent for a registration, allocate;  *)
(* absent for the others, return.                                          *)
LoadTable(t) ==
  LET table == BitypeLookupStart[Idx1(Job(t).this)]
      next  == CASE table # 0 /\ Job(t).op = "lookup" -> "read"
                 [] table # 0 /\ Job(t).op # "lookup" -> "ref"
                 [] table = 0 /\ Job(t).op \in {"update", "inline"} -> "start"
                 [] table = 0 /\ Job(t).op \in {"erase", "lookup"} -> "done"
  IN  /\ At(t, "table")
      /\ thread' = [thread EXCEPT ![t].pc = next, ![t].level2 = table]
      /\ UNCHANGED <<tableVars, cell, exited, expected>>

-----------------------------------------------------------------------------
(* Allocation of a table.                                                  *)

LoadStart(t) ==
  /\ At(t, "start")
  /\ thread' = [thread EXCEPT ![t].pc = "check",
                              ![t].start = BitypeSecondLevelStart]
  /\ UNCHANGED <<tableVars, cell, exited, expected>>

(* Faulty: > for >=.                                                       *)
CheckEndOverrun(t) ==
  /\ At(t, "check")
  /\ Goto(t, IF thread[t].start > BitypeSecondLevelEnd THEN "map" ELSE "take")
  /\ UNCHANGED <<tableVars, cell, exited, expected>>

CheckEnd(t) ==
  /\ At(t, "check")
  /\ Goto(t, IF thread[t].start >= BitypeSecondLevelEnd THEN "map" ELSE "take")
  /\ UNCHANGED <<tableVars, cell, exited, expected>>

MapChunk(t) ==
  /\ At(t, "map")
  /\ \E b \in ChunkBases \ chunks :
       /\ chunks' = chunks \cup {b}
       /\ BitypeSecondLevelStart' = b
       /\ thread' = [thread EXCEPT ![t].pc = "end", ![t].start = b]
  /\ UNCHANGED <<BitypeLookupStart, BitypeSecondLevelEnd, cell, exited, expected>>

(* Faulty: MAP_FAILED is taken for a chunk.                                *)
MapFailedUnseen(t) ==
  /\ At(t, "map")
  /\ BitypeSecondLevelStart' = -1
  /\ Goto(t, "end")
  /\ UNCHANGED <<BitypeLookupStart, BitypeSecondLevelEnd, chunks, cell, exited,
                 expected>>

MapFailed(t) ==
  /\ At(t, "map")
  /\ exited' = TRUE
  /\ UNCHANGED <<tableVars, cell, thread, expected>>

(* The compiler may load the global again or use what the thread has of it. *)
StartValues(t) == {BitypeSecondLevelStart, thread[t].start}

SetEnd(t) ==
  /\ At(t, "end")
  /\ \E v \in StartValues(t) : BitypeSecondLevelEnd' = v + added_memory_size
  /\ Goto(t, "take")
  /\ UNCHANGED <<BitypeLookupStart, BitypeSecondLevelStart, chunks, cell,
                 exited, expected>>

TakeTable(t) ==
  /\ At(t, "take")
  /\ \E v \in StartValues(t) :
       thread' = [thread EXCEPT ![t].pc = "publish", ![t].start = v,
                                ![t].level2 = v]
  /\ UNCHANGED <<tableVars, cell, exited, expected>>

(* The inlined code fills the slot before it moves the cursor.             *)
Publish(t) ==
  /\ At(t, "publish")
  /\ BitypeLookupStart' =
       [BitypeLookupStart EXCEPT ![Idx1(Job(t).this)] = thread[t].level2]
  /\ Goto(t, IF Job(t).op = "inline" THEN "ref" ELSE "reload")
  /\ UNCHANGED <<cursorVars, cell, exited, expected>>

ReloadStart(t) ==
  /\ At(t, "reload")
  /\ thread' = [thread EXCEPT ![t].pc = "bump",
                              ![t].start = BitypeSecondLevelStart]
  /\ UNCHANGED <<tableVars, cell, exited, expected>>

(* Faulty: the cursor is stored back as it was.                            *)
BumpNothing(t) ==
  /\ At(t, "bump")
  /\ BitypeSecondLevelStart' = thread[t].start
  /\ thread' = [thread EXCEPT ![t].pc = IF Job(t).op = "inline" THEN "done"
                                                              ELSE "ref",
                              ![t].start = 0]
  /\ UNCHANGED <<BitypeLookupStart, BitypeSecondLevelEnd, chunks, cell,
                 exited, expected>>

Bump(t) ==
  /\ At(t, "bump")
  /\ BitypeSecondLevelStart' = thread[t].start + Stride
  /\ thread' = [thread EXCEPT ![t].pc = IF Job(t).op = "inline" THEN "done"
                                                              ELSE "ref",
                              ![t].start = 0]
  /\ UNCHANGED <<BitypeLookupStart, BitypeSecondLevelEnd, chunks, cell,
                 exited, expected>>

-----------------------------------------------------------------------------
(* Accesses to the slot.                                                   *)

Mapped(w) == \E b \in chunks : b <= w /\ w < b + mmap_words

Fault(t) ==
  /\ \E pc \in {"ref", "off", "read", "readoff"} : At(t, pc)
  /\ ~Mapped(Word(t))
  /\ exited' = TRUE
  /\ UNCHANGED <<tableVars, cell, thread, expected>>

WriteRef(t) ==
  /\ At(t, "ref") /\ Mapped(Word(t))
  /\ cell' = [cell EXCEPT ![Word(t)].ref = Job(t).ref]
  /\ Goto(t, "off")
  /\ UNCHANGED <<tableVars, exited, expected>>

(* Faulty: the offset of a slot is written once, with its table.           *)
WriteOffsetOnce(t) ==
  /\ At(t, "off") /\ Mapped(Word(t))
  /\ cell' = IF thread[t].start # 0
             THEN [cell EXCEPT ![Word(t)].off = Job(t).off] ELSE cell
  /\ Goto(t, IF thread[t].start # 0 THEN "bump" ELSE "done")
  /\ UNCHANGED <<tableVars, exited, expected>>

WriteOffset(t) ==
  /\ At(t, "off") /\ Mapped(Word(t))
  /\ cell' = [cell EXCEPT ![Word(t)].off = Job(t).off]
  /\ Goto(t, IF thread[t].start # 0 THEN "bump" ELSE "done")
  /\ UNCHANGED <<tableVars, exited, expected>>

ReadRef(t) ==
  LET ref == cell[Word(t)].ref
  IN  /\ At(t, "read") /\ Mapped(Word(t))
      /\ thread' = [thread EXCEPT
                      ![t].pc = IF ref = NULL THEN "done" ELSE "readoff",
                      ![t].seen.ref = ref]
      /\ UNCHANGED <<tableVars, cell, exited, expected>>

ReadOffset(t) ==
  /\ At(t, "readoff") /\ Mapped(Word(t))
  /\ thread' = [thread EXCEPT ![t].pc = "done",
                              ![t].seen.off = cell[Word(t)].off]
  /\ UNCHANGED <<tableVars, cell, exited, expected>>

Return(t) ==
  /\ At(t, "done")
  /\ thread' = [thread EXCEPT ![t] = IdleThread]
  /\ UNCHANGED <<tableVars, cell, exited, expected>>

-----------------------------------------------------------------------------
Step(t) ==
  \/ LoadTable(t)
  \/ LoadStart(t) \/ CheckEnd(t) \/ MapChunk(t) \/ MapFailed(t) \/ SetEnd(t)
  \/ TakeTable(t) \/ Publish(t) \/ ReloadStart(t) \/ Bump(t)
  \/ Fault(t) \/ WriteRef(t) \/ WriteOffset(t) \/ ReadRef(t) \/ ReadOffset(t)
  \/ Return(t)

(* From the load that found no table to the store that moves the cursor.   *)
Allocating(t) == thread[t].pc = "start" \/ thread[t].start # 0

Contended == \E t, u \in Threads : t # u /\ Allocating(t) /\ Allocating(u)

Watch == overlapped' = (overlapped \/ Contended')

Next == (\E t \in Threads : Begin(t) \/ Step(t)) /\ Watch

Spec == Init /\ [][Next]_vars

(* Threads are scheduled; whether they call the runtime is their business. *)
FairSpec ==
  Spec /\ \A t \in Threads : WF_vars(Step(t) /\ Watch)

-----------------------------------------------------------------------------
TypeOK ==
  /\ BitypeLookupStart \in [0 .. L1_BITS - 1 -> Nat]
  /\ BitypeSecondLevelStart \in Nat /\ BitypeSecondLevelEnd \in Nat
  /\ chunks \subseteq ChunkBases
  /\ cell \in [CellAddrs -> Entry]
  /\ \A t \in Threads : IF thread[t].pc = "idle" THEN Job(t) = NULL
                                               ELSE Job(t) \in Jobs
  /\ exited \in BOOLEAN /\ overlapped \in BOOLEAN
  /\ expected \in [Slots -> Entry]

Tables == {BitypeLookupStart[i] : i \in 0 .. L1_BITS - 1} \ {0}

(* Threads that never allocate at the same time keep the tables of their   *)
(* regions apart and inside mapped memory, whatever else they do meanwhile:*)
(* look up, erase, fill slots, and read the pointers another one stores.   *)
SerialTables ==
  ~overlapped =>
    /\ Tables \subseteq TableAddrs
    /\ \A i, k \in 0 .. L1_BITS - 1 :
         i # k /\ BitypeLookupStart[i] # 0
           => BitypeLookupStart[i] # BitypeLookupStart[k]
    /\ \A t \in Tables : Mapped(t) /\ Mapped(t + Stride - 1)

Busy(s) == \E t \in Threads : thread[t].pc # "idle" /\ SlotOf(Job(t).this) = s

EntryOf(s) ==
  IF BitypeLookupStart[s[1]] = 0 THEN NoEntry
  ELSE cell[BitypeLookupStart[s[1]] + 2 * s[2]]

(* No registration or removal is lost or undone by a thread that works on  *)
(* another slot, unless allocations overlapped.                            *)
NothingLost ==
  ~overlapped /\ ~exited =>
    \A s \in Slots : ~Busy(s) => EntryOf(s) = expected[s]

(* A lookup answers the last registration, and never the vector of one     *)
(* object with the offset of another.                                      *)
LookupsExact ==
  \A t \in Threads :
    (thread[t].pc = "done" /\ Job(t).op = "lookup" /\ ~overlapped) =>
      LET e == expected[SlotOf(Job(t).this)]
      IN  /\ thread[t].seen.ref = e.ref
          /\ e.ref # NULL => thread[t].seen.off = e.off

(* The pointer a thread loaded or took still leads to mapped memory when   *)
(* the thread uses it, so no access of the runtime faults.                 *)
AccessesMapped ==
  ~overlapped =>
    \A t \in Threads :
      thread[t].pc \in {"ref", "off", "read", "readoff"} => Mapped(Word(t))

(* A region's table is replaced only when two threads found it missing:    *)
(* otherwise what a thread loaded from the first-level table stays true    *)
(* until it has written its slot.                                          *)
TablesStay ==
  [][~overlapped' =>
       \A i \in 0 .. L1_BITS - 1 :
         BitypeLookupStart[i] # 0 =>
           BitypeLookupStart'[i] = BitypeLookupStart[i]]_vars

(* Every call returns, even when allocations overlap: no call waits for    *)
(* another thread.                                                         *)
CallsReturn ==
  \A t \in Threads : thread[t].pc # "idle" ~> (thread[t].pc = "idle" \/ exited)
=============================================================================

----------------------------- MODULE LookupTable -----------------------------
(***************************************************************************)
(* The metadata store of the Bitype runtime (projects/compiler-rt/lib/     *)
(* bitype/bitype.cpp) as one thread drives it.  A first-level table of     *)
(* pointers; second-level tables carved one after the other out of mmapped *)
(* chunks the first time an address of their region is registered; two     *)
(* words per slot, a pointer to the code vector and a size/offset pair.    *)
(*                                                                         *)
(* Pointers into second-level memory are word addresses, 0 is NULL.  The   *)
(* two words of a slot are one record, kept at the address of the first.   *)
(* A handler that loops over the elements of an array takes one step per   *)
(* element: call holds its arguments and its counter meanwhile.            *)
(***************************************************************************)
EXTENDS TableMemory, SafeSetCode

CONSTANTS
  Refs, NULL, Vector, Addr, Sizes, Offsets, Codes, Sites,   (* see TypeMap *)
  TypeSizes,      (* Element sizes of arrays, in bytes.                    *)
  Counts,         (* Element counts of erased arrays, unsigned long.       *)
  UINT32          (* 2^32 in the code: element offsets and counters wrap.  *)

ASSUME TableAssumption ==
  /\ NULL \notin Refs
  /\ \A r \in Refs : \A i \in DOMAIN Vector[r] : Vector[r][i] \in Byte
  /\ UINT32 \in Nat \ {0}
  /\ TypeSizes \subseteq Nat
  /\ Addr \subseteq Nat
  /\ Counts \subseteq Nat
  /\ Sizes \subseteq 0 .. UINT32 - 1 /\ {0, 1} \subseteq Sizes
  /\ Offsets \subseteq Int /\ {0, -1} \subseteq Offsets
  /\ Codes \subseteq Nat \ {0}
  /\ Sites \subseteq Int

VARIABLES
  BitypeLookupStart,       (* First-level table: pointer or 0.             *)
  BitypeSecondLevelStart,  (* Next free second-level table.                *)
  BitypeSecondLevelEnd,    (* End of the chunk it is in.                   *)
  chunks,                  (* Chunks mapped so far.                        *)
  cell,                    (* Slot contents, by word address.              *)
  call,                    (* The array handler in progress.               *)
  verdict,                 (* The last verification and its outcome.       *)
  debugArray,              (* Cast sites already reported.                 *)
  exited                   (* mmap failed and the program exited.          *)

tableVars == <<BitypeLookupStart, BitypeSecondLevelStart,
               BitypeSecondLevelEnd, chunks>>
vars == <<tableVars, cell, call, verdict, debugArray, exited>>

Outcomes  == {"none", "null", "miss", "ok", "confusion"}
Verdicts  == [source : Addr \cup {0}, target : Addr \cup {0},
              code : Codes \cup {0}, outcome : Outcomes]
NoVerdict == [source |-> 0, target |-> 0, code |-> 0, outcome |-> "none"]

Cell      == [ref : Refs \cup {NULL}, size : Sizes, off : Offsets]
ZeroCell  == [ref |-> NULL, size |-> 0, off |-> 0]

Idle == [op |-> "idle", this |-> 0, ref |-> NULL, step |-> 0, n |-> 0,
         off |-> 0, i |-> 0]

(* bitypeInitialization, run from .preinit_array before anything else.     *)
Init ==
  /\ BitypeLookupStart = [i \in 0 .. L1_BITS - 1 |-> 0]
  /\ BitypeSecondLevelStart = FirstChunk
  /\ BitypeSecondLevelEnd = FirstChunk + mmap_words
  /\ chunks = {FirstChunk}
  /\ cell = [w \in CellAddrs |-> ZeroCell]
  /\ call = Idle
  /\ verdict = NoVerdict
  /\ debugArray = {}
  /\ exited = FALSE

-----------------------------------------------------------------------------
(* The second-level table of addr, 0 when there is none.                   *)
Level2(addr) == BitypeLookupStart[Idx1(addr)]

CellOf(addr) == Level2(addr) + WordOf(addr)

(* Faulty: the cursor advances by the slots of a table, not its words.     *)
TakeTableBySlots(i, t) ==
  /\ BitypeLookupStart' = [BitypeLookupStart EXCEPT ![i] = t]
  /\ BitypeSecondLevelStart' = t + L2_BITS

(* Faulty: the cursor stays where it is.                                   *)
TakeTableForGood(i, t) ==
  /\ BitypeLookupStart' = [BitypeLookupStart EXCEPT ![i] = t]
  /\ BitypeSecondLevelStart' = t

(* Use the free table at t for the region with first-level index i.        *)
TakeTable(i, t) ==
  /\ BitypeLookupStart' = [BitypeLookupStart EXCEPT ![i] = t]
  /\ BitypeSecondLevelStart' = t + Stride

(* Faulty: > for >=, and a chunk given up with one table left in it.       *)
ChunkOverrun == BitypeSecondLevelStart > BitypeSecondLevelEnd
ChunkAlmostFull == BitypeSecondLevelStart + Stride >= BitypeSecondLevelEnd

ChunkFull == BitypeSecondLevelStart >= BitypeSecondLevelEnd

(* "level2 has not be assigned": allocate the table of addr when needed.   *)
EnsureTable(addr) ==
  \/ /\ Level2(addr) # 0
     /\ UNCHANGED tableVars
  \/ /\ Level2(addr) = 0
     /\ ~ChunkFull
     /\ TakeTable(Idx1(addr), BitypeSecondLevelStart)
     /\ UNCHANGED <<BitypeSecondLevelEnd, chunks>>
  \/ /\ Level2(addr) = 0
     /\ ChunkFull
     /\ \E b \in ChunkBases \ chunks :
          /\ chunks' = chunks \cup {b}
          /\ BitypeSecondLevelEnd' = b + added_memory_size
          /\ TakeTable(Idx1(addr), b)

(* Faulty: the slot index taken from the bits of the region.               *)
StoreByRegion(addr, c) ==
  cell' = [cell EXCEPT ![BitypeLookupStart'[Idx1(addr)]
                           + 2 * (Idx1(addr) % L2_BITS)] = c]

(* Store c in the slot of addr, in a table that exists by now.             *)
Store(addr, c) ==
  cell' = [cell EXCEPT ![BitypeLookupStart'[Idx1(addr)] + WordOf(addr)] = c]

Running == ~exited /\ call.op = "idle"

(* mmap answered MAP_FAILED: the handler prints an error and exits.        *)
MapFailed(addr) ==
  /\ Level2(addr) = 0
  /\ ChunkFull
  /\ exited' = TRUE
  /\ UNCHANGED <<tableVars, cell, call, verdict, debugArray>>

-----------------------------------------------------------------------------
(* Registration of one object.                                             *)

bitype_direct_updateObjTrace(this, ref, offset) ==
  /\ Running
  /\ EnsureTable(this)
  /\ Store(this, [ref |-> ref, size |-> 0, off |-> offset])
  /\ UNCHANGED <<call, verdict, debugArray, exited>>

(* The same as inlined code; a slot of a fresh table gets size 1.          *)
InlineUpdateObjTrace(this, ref, offset) ==
  /\ Running
  /\ EnsureTable(this)
  /\ Store(this, [ref |-> ref, size |-> IF Level2(this) = 0 THEN 1 ELSE 0,
                  off |-> offset])
  /\ UNCHANGED <<call, verdict, debugArray, exited>>

(* Set the array size, leaving the rest of the slot as it is.              *)
bitype_update_arraySize(this, ArraySize) ==
  /\ Running
  /\ this # 0
  /\ EnsureTable(this)
  /\ LET w == BitypeLookupStart'[Idx1(this)] + WordOf(this)
     IN  cell' = [cell EXCEPT ![w].size = ArraySize]
  /\ UNCHANGED <<call, verdict, debugArray, exited>>

bitype_handle_reinterpret_cast(this, ref) ==
  /\ Running
  /\ EnsureTable(this)
  /\ LET w == BitypeLookupStart'[Idx1(this)] + WordOf(this)
     IN  IF cell[w].ref # NULL /\ cell[w].off # -1
         THEN UNCHANGED cell
         ELSE Store(this, [ref |-> ref, size |-> 0, off |-> -1])
  /\ UNCHANGED <<call, verdict, debugArray, exited>>

-----------------------------------------------------------------------------
(* Registration and removal of the elements of an array.                   *)

Start(op, this, ref, step, n, offset) ==
  call' = IF n = 0 THEN Idle
          ELSE [op |-> op, this |-> this, ref |-> ref, step |-> step, n |-> n,
                off |-> offset, i |-> 0]

(* Faulty: elements counted from one.                                      *)
ElementAddrFromOne == call.this + ((call.step * (call.i + 1)) % UINT32)

(* thisPtr + TypeSize * k, the product in 32 bits.                         *)
Element(k) == call.this + ((call.step * k) % UINT32)

ElementAddr == Element(call.i)

(* i++ of a uint32_t i.                                                    *)
NextIndex == (call.i + 1) % UINT32

(* Faulty: the counter is never incremented.                               *)
SameElement == call' = IF NextIndex < call.n THEN call ELSE Idle

(* The counter is a uint32_t; the count of an erased array is 64 bits wide *)
(* and may be out of its reach.                                            *)
NextElement ==
  call' = IF NextIndex < call.n THEN [call EXCEPT !.i = NextIndex] ELSE Idle

bitype_updateObjTrace(this, ref, TypeSize, ArraySize, offset) ==
  /\ Running
  /\ Start("update", this, ref, TypeSize, ArraySize, offset)
  /\ UNCHANGED <<tableVars, cell, verdict, debugArray, exited>>

UpdateElement ==
  /\ ~exited /\ call.op = "update"
  /\ EnsureTable(ElementAddr)
  /\ Store(ElementAddr, [ref |-> call.ref, size |-> 0, off |-> call.off])
  /\ NextElement
  /\ UNCHANGED <<verdict, debugArray, exited>>

(* A heap object takes its element count from the slot of its start.       *)
bitype_eraseObj(this, objAddr, TypeSize, ArraySize, heap) ==
  LET sized == cell[CellOf(objAddr)].size
      count == IF ~heap THEN ArraySize ELSE IF sized # 0 THEN sized ELSE 1
  IN  /\ Running
      /\ heap => Level2(objAddr) # 0
      /\ Start("erase", this, NULL, TypeSize, count, 0)
      /\ UNCHANGED <<tableVars, cell, verdict, debugArray, exited>>

EraseElement ==
  /\ ~exited /\ call.op = "erase"
  /\ cell' = IF Level2(ElementAddr) = 0 THEN cell
             ELSE [cell EXCEPT ![CellOf(ElementAddr)].ref = NULL]
  /\ NextElement
  /\ UNCHANGED <<tableVars, verdict, debugArray, exited>>

bitype_direct_eraseObj(this) ==
  /\ Running
  /\ Level2(this) # 0
  /\ cell' = [cell EXCEPT ![CellOf(this)] = ZeroCell]
  /\ UNCHANGED <<tableVars, call, verdict, debugArray, exited>>

(* The whole second word goes, the offset with the size.                   *)
bitype_direct_eraseArraySize(this) ==
  /\ Running
  /\ this # 0
  /\ Level2(this) # 0
  /\ cell' = [cell EXCEPT ![CellOf(this)].size = 0, ![CellOf(this)].off = 0]
  /\ UNCHANGED <<tableVars, call, verdict, debugArray, exited>>

-----------------------------------------------------------------------------
(* Verification.                                                           *)

Found(addr) == Level2(addr) # 0 /\ cell[CellOf(addr)].ref # NULL

(* thisPtr - (sourcePtr - OffsetTmp) is negative.                          *)
BelowObject(source, this) ==
  LET offset    == cell[CellOf(source)].off
      OffsetTmp == IF offset = -1 THEN 0 ELSE offset
  IN  this - (source - OffsetTmp) < 0

(* Faulty: the vector of the source decides, not that of the target.       *)
VerifyBySource(source, this, code) ==
  IF source = 0 THEN {"null"}
  ELSE IF ~Found(source) THEN {"miss"}
  ELSE IF source # this /\ (BelowObject(source, this) \/ ~Found(this))
       THEN {"confusion"}
  ELSE {IF Rejects(tempChar, code) THEN "confusion" ELSE "ok" :
          tempChar \in ByteAt(Vector[cell[CellOf(source)].ref], code)}

(* The verdict, in the order of the early returns of the code.             *)
bitype_verify_cast(source, this, code) ==
  IF source = 0 THEN {"null"}
  ELSE IF ~Found(source) THEN {"miss"}
  ELSE IF source # this /\ (BelowObject(source, this) \/ ~Found(this))
       THEN {"confusion"}
  ELSE {IF Rejects(tempChar, code) THEN "confusion" ELSE "ok" :
          tempChar \in ByteAt(Vector[cell[CellOf(this)].ref], code)}

(* A site with an index is reported once, one without every time.          *)
print_confusion_inline(debug) ==
  debugArray' = IF debug < 0 THEN debugArray ELSE debugArray \cup {debug}

bitype_cast_verification(source, this, code, debug) ==
  /\ Running
  /\ \E v \in bitype_verify_cast(source, this, code) :
       /\ verdict' = [source |-> source, target |-> this, code |-> code,
                      outcome |-> v]
       /\ IF v = "confusion" THEN print_confusion_inline(debug)
                            ELSE UNCHANGED debugArray
  /\ UNCHANGED <<tableVars, cell, call, exited>>

bitype_dynamic_cast_verification(this, code) ==
  bitype_cast_verification(this, this, code, -1)

bitype_print_type_confusion(debug) ==
  /\ Running
  /\ print_confusion_inline(debug)
  /\ UNCHANGED <<tableVars, cell, call, verdict, exited>>

-----------------------------------------------------------------------------
Register ==
  \E this \in Addr, ref \in Refs, offset \in Offsets :
    \/ bitype_direct_updateObjTrace(this, ref, offset)
    \/ InlineUpdateObjTrace(this, ref, offset)
    \/ \E step \in TypeSizes, n \in Sizes :
         bitype_updateObjTrace(this, ref, step, n, offset)

Annotate ==
  \E this \in Addr :
    \/ \E n \in Sizes : bitype_update_arraySize(this, n)
    \/ \E ref \in Refs : bitype_handle_reinterpret_cast(this, ref)

Erase ==
  \E this \in Addr :
    \/ bitype_direct_eraseObj(this)
    \/ bitype_direct_eraseArraySize(this)
    \/ \E obj \in Addr, step \in TypeSizes, n \in Counts, heap \in BOOLEAN :
         bitype_eraseObj(this, obj, step, n, heap)

Cast ==
  \E this \in Addr, code \in Codes :
    \/ \E source \in Addr, debug \in Sites :
         bitype_cast_verification(source, this, code, debug)
    \/ bitype_dynamic_cast_verification(this, code)

Report == \E debug \in Sites : bitype_print_type_confusion(debug)

OutOfMemory ==
  \/ Running /\ \E addr \in Addr : MapFailed(addr)
  \/ ~exited /\ call.op = "update" /\ MapFailed(ElementAddr)

Next == \/ Register \/ Annotate \/ Erase \/ Cast \/ Report
        \/ UpdateElement \/ EraseElement \/ OutOfMemory

Spec == Init /\ [][Next]_vars

(* The handler in progress takes its next step; programs call whenever     *)
(* they like.                                                              *)
FairSpec == Spec /\ WF_vars(UpdateElement \/ EraseElement \/ OutOfMemory)

-----------------------------------------------------------------------------
(* The entry of every slot, as the tables hold it.                         *)
Meta == [s \in Slots |-> LET table == BitypeLookupStart[s[1]]
                         IN  IF table = 0 THEN ZeroCell
                             ELSE cell[table + 2 * s[2]]]

Map == INSTANCE TypeMap WITH meta <- Meta, reported <- debugArray

(* What each call does to the map: it writes the entry of the slot of the  *)
(* address it was given, or of the element it is at, and no other.         *)
OwnEntry ==
  /\ \A this \in Addr :
       /\ \A ref \in Refs, offset \in Offsets :
            /\ bitype_direct_updateObjTrace(this, ref, offset)
                 => Map!Register(SlotOf(this), ref, 0, offset)
            /\ InlineUpdateObjTrace(this, ref, offset)
                 => \E n \in {0, 1} : Map!Register(SlotOf(this), ref, n, offset)
       /\ \A n \in Sizes :
            bitype_update_arraySize(this, n) => Map!SetArraySize(SlotOf(this), n)
       /\ \A ref \in Refs :
            bitype_handle_reinterpret_cast(this, ref)
              => \/ Map!Reinterpret(SlotOf(this), ref)
                 \/ /\ Meta[SlotOf(this)].ref # NULL
                    /\ Meta[SlotOf(this)].off # -1
                    /\ UNCHANGED Meta
       /\ bitype_direct_eraseObj(this) => Map!Forget(SlotOf(this))
       /\ bitype_direct_eraseArraySize(this) => Map!ForgetSize(SlotOf(this))
  /\ UpdateElement
       => Map!Register(SlotOf(Element(call.i)), call.ref, 0, call.off)
  /\ EraseElement => Map!ForgetRef(SlotOf(Element(call.i)))

(* The two-level table behaves as a map from slots to entries: allocating  *)
(* tables on demand is invisible, no call touches the entry of a slot that *)
(* is not its own, and verdicts depend on the entries alone.               *)
ImplementsMap == Map!MapSpec /\ [][OwnEntry]_vars

TypeOK ==
  /\ BitypeLookupStart \in [0 .. L1_BITS - 1 -> TableAddrs \cup {0}]
  /\ BitypeSecondLevelStart \in
       TableAddrs \cup {b + mmap_words : b \in ChunkBases}
  /\ BitypeSecondLevelEnd \in {b + mmap_words : b \in ChunkBases}
  /\ chunks \subseteq ChunkBases
  /\ cell \in [CellAddrs -> Cell]
  /\ call \in [op : {"idle", "update", "erase"}, this : Nat,
               ref : Refs \cup {NULL}, step : Nat, n : Nat, off : Offsets,
               i : 0 .. UINT32 - 1]
  /\ verdict \in Verdicts
  /\ debugArray \subseteq Sites
  /\ exited \in BOOLEAN

Tables == {BitypeLookupStart[i] : i \in 0 .. L1_BITS - 1} \ {0}

(* Two regions never share a word of metadata.                             *)
TablesApart ==
  \A i, k \in 0 .. L1_BITS - 1 :
    /\ i # k
    /\ BitypeLookupStart[i] # 0
    /\ BitypeLookupStart[k] # 0
    => \/ BitypeLookupStart[i] + Stride <= BitypeLookupStart[k]
       \/ BitypeLookupStart[k] + Stride <= BitypeLookupStart[i]

(* Every table lies inside one chunk that mmap returned: the cursor        *)
(* arithmetic never hands out memory past the end of a chunk.              *)
TablesMapped ==
  \A t \in Tables : \E b \in chunks : b <= t /\ t + Stride <= b + mmap_words

(* The tables a chunk still has to give.                                   *)
FreeTables ==
  {t \in TableAddrs : /\ BitypeSecondLevelStart <= t
                      /\ t < BitypeSecondLevelEnd}

(* Mapped memory is a table of some region or still free: none is lost     *)
(* when a chunk fills up and the next one is mapped.                       *)
NoTableWasted ==
  \A t \in TableAddrs :
    (\E b \in chunks : b <= t /\ t < b + mmap_words)
       => (t \in Tables <=> t \notin FreeTables)

(* A table that no region uses holds no entries, so the first look at a    *)
(* fresh table finds every slot but the registered one untracked.          *)
FreshTables ==
  \A t \in TableAddrs \ Tables :
    \A j \in 0 .. L2_BITS - 1 : cell[t + 2 * j] = ZeroCell

(* Half-way through an array, the elements before the counter are done:    *)
(* registered by an update, forgotten by an erase, even where elements     *)
(* share a slot or lie in different tables.                                *)
ElementDone(k) ==
  LET addr == Element(k)
  IN  IF call.op = "update"
      THEN /\ Level2(addr) # 0
           /\ cell[CellOf(addr)] =
                [ref |-> call.ref, size |-> 0, off |-> call.off]
      ELSE Level2(addr) # 0 => cell[CellOf(addr)].ref = NULL

ArrayProgress ==
  call.op # "idle" =>
    /\ call.i < call.n
    /\ \A k \in 0 .. call.i - 1 : ElementDone(k)

(* Every array handler returns, or the program exits, but for the erasure  *)
(* of 2^32 elements or more: its counter never reaches the count and it    *)
(* never returns (__bitype_eraseObj, bitype.cpp:351 and 373).              *)
HandlerEnds ==
  /\ call.op # "idle" /\ call.n < UINT32 ~> call.op = "idle" \/ exited
  /\ [][call.n >= UINT32 => call' # Idle]_call
=============================================================================

# Bitype in TLA+

Bitype finds type confusion in C++ programs. A program casts a pointer down to a derived class with `static_cast`; when the
object is no instance of that class, the cast is undefined behaviour. Bitype numbers the classes of a family, gives every class
a bit vector of the classes its objects may be cast to, remembers at run time which vector belongs to which word of memory, and
tests a bit at every downcast.

The code is a fork of LLVM and Clang. About 4,700 lines of it are Bitype; this directory is about those. Paths below leave
out the leading `src/llvm/`.

## 1. Inventory

| Part | Source | State | Operations |
|---|---|---|---|
| Metadata runtime | `projects/compiler-rt/lib/bitype/bitype.cpp`, `bitype.h` | first-level table, cursor and end of the chunk second-level tables are cut from, two words per 8-byte slot (code vector; array size and offset), reported cast sites | initialise, register one object or an array, set an array size, erase, handle a `reinterpret_cast`, verify a cast, report |
| Heap tracing | `lib/Transforms/Instrumentation/BitypeInitializePass.cpp` 56-228, 347-419 | none of its own; drives the runtime | calls after allocation and deallocation, at placement `new` and `reinterpret_cast` |
| Cast instrumentation | the same file, 230-346 and 420-567 | none | removes the checks of casts whose source the function knows, emits the inlined check |
| Stack and global tracing | `lib/Transforms/Instrumentation/BitypePass.cpp` | maps from allocas to lifetime markers, from functions to returns | registration and removal of local variables, registration of globals |
| Instrumentation utilities | `lib/Transforms/Utils/BitypeUtil.cpp` | the files read, type relations of a module, code vectors emitted | read files, relate types, compute vectors, emit calls or inlined code |
| Class coding tool `find-class-decls` | `tools/clang/tools/extra/classDecls/FindClassDecls.cpp` | numbers of class names, graphs of families and of classes without growth, relations, cast targets and sources | visit classes and casts, search families, assign codes, write files |
| Front end | `tools/clang/lib/Basic/SanitizerRelation.cpp`, hooks in `tools/clang/lib/CodeGen` | codes and debug indexes read from files | emits a verification call per downcast, placement `new` and `reinterpret_cast` hooks |

How they interact. `find-class-decls` runs first, over the whole program, and leaves `coding-num.txt` (codes),
`castrelated-set.txt` (family sizes) and `safecast.txt` (target bases of a class). Every compilation reads them: the front end to
put code and byte index into the calls it emits at casts, the passes to build the vectors and to decide what to trace. At run
time the instrumented program calls the runtime, or executes the same code inlined, from all its threads, without locks.

What is hard:

- *Shared tables without locks.* Tables are allocated on demand with plain loads and stores, in the runtime and in inlined
  copies that order their stores differently.
- *Pointer arithmetic of the tables*: words against bytes, the last table of a chunk, arrays that cross a region.
- *Two words per slot, several writers*: five operations own different parts of an entry.
- *Erasing after the fact*: heap entries are erased after `free`, with a count read from the metadata itself; stack entries
  at one marker of possibly many, and not at all when an exception leaves the frame.
- *Types nobody allocated*: objects constructed in raw memory and memory named by a `reinterpret_cast` share the words of the
  tables with allocations that know nothing of them.
- *Start-up*: globals of several modules, some without instrumentation, and initialisers that run code before `main`.
- *Orders of declarations*: numbers, families, phantom sets and codes depend on what the tool meets first.
- *Two views of a class*: the tool sees declarations and templates, the compiler sees struct types of one module.

What makes each part correct: the tables of two regions never share memory and lie in mapped memory; the table behaves as a
map from slots to entries and verdicts depend on that map alone; no thread loses or tears an entry; live objects are described by
their type and dead memory by nothing; a correct cast is never reported; a confusion of classes of one family is reported.
The hazards behind these are in `PROJECT.json`, each at its line.

## 2. Modules

| Module | Models | Composition |
|---|---|---|
| `LookupAddress` | address arithmetic: index of the region, slot in it | |
| `TableMemory` | chunk sizes and the addresses tables can have | extends `LookupAddress` |
| `SafeSetCode` | code vectors: byte index, bit, test | |
| `TypeMap` | abstract: one entry per slot, verdicts from entries | extends `LookupAddress`, `SafeSetCode` |
| `LookupTable` | the runtime, one thread, every entry point | extends `TableMemory`, `SafeSetCode`; refines `TypeMap` |
| `TableMemory_proofs` | proofs: arithmetic of tables and chunks | extends `TableMemory`, `TLAPS` |
| `LookupTable_proofs` | proofs: the runtime with one thread, its refinement of `TypeMap` | extends `LookupTable`, `TableMemory_proofs` |
| `LookupTableThreads` | the runtime and its inlined copy, one memory access per step | extends `TableMemory` |
| `LookupTableThreads_proofs` | proofs | extends `LookupTableThreads`, `TableMemory_proofs` |
| `HeapTracing` | heap objects and the calls the pass puts at their allocation and release | entries are those of `TypeMap` |
| `HeapTracing_proofs` | proofs | extends `HeapTracing`, `TLAPS` |
| `ClangTracing` | placement `new` and `reinterpret_cast` between the calls of the heap | extends `HeapTracing` |
| `ClangTracing_proofs` | proofs | extends `ClangTracing`, `HeapTracing_proofs` |
| `StackTracing` | the choice of registration and removal points in a function, and its paths, calls and exceptions | entries are those of `TypeMap` |
| `GlobalTracing` | constructors that register globals, initialisers, then `main` | extends `StackTracing` |
| `GlobalTracing_proofs` | proofs about stack and globals | extends `GlobalTracing`, `TLAPS` |
| `CastElision` | removal of checks at compile time, and the function that then runs | |
| `CastElision_proofs` | proofs | extends `CastElision`, `TLAPS` |
| `ClassGraph` | the walk of `find-class-decls` | |
| `ClassCoding` | families, codes, files | extends `ClassGraph` |
| `CastVectors` | vectors of classes and of words, verdicts of the runtime and of the inlined check | extends `ClassCoding` |
| `CastVectors_proofs` | proofs about the walk, the searches and the codes | extends `CastVectors`, `TLAPS` |
| `MC...` | values of the constants for TLC | extend the module they name |

### The runtime: `LookupTable`

Variables carry the names of the globals of `bitype.cpp`. Memory is word addressed; the two words of a slot are one record, kept
at the address of the first, because every operation of one thread that writes both writes them in one call. Each entry point
is an action with the name of the function without its `__`. The two array handlers take a step per element, because a table
may be allocated, and `mmap` may fail, half-way; `call` holds their arguments and counter. `EnsureTable` is the allocation
that is repeated in five functions and inlined. `InlineUpdateObjTrace` differs from the call in one value: a slot of a fresh table
gets size 1. A verdict is a set of outcomes because the code may read a byte past the end of a vector (`ByteAt`).

`ImplementsMap` is more than the refinement. `TypeMap!Trace` lets a step write the entry of any one slot; `OwnEntry` says of each call which
one: that of the address it was given, or of the element its loop is at.

The loop counters are `uint32_t`: the element offset `TypeSize * i` wraps at `UINT32` (`Element`), and so does the counter (`NextIndex`).
The count of `__bitype_eraseObj` is an `unsigned long` taken from `Counts`. `HandlerEnds` says which calls come back: all with a count below
`UINT32`, and no other, since the counter never reaches such a count.

### Threads: `LookupTableThreads`

One load or store of a shared variable per step; `thread` holds the program counter and the locals. Between two uses of a plain
global the compiler may or may not load it again: `StartValues` is both values. The program is assumed free of races on its own
objects: two threads are not inside calls for one slot unless both only look it up. Memory is sequentially consistent. The size word
is left out (it shares its word with the offset).

The runtime does not protect table allocation: two threads that allocate at once may get the same table, or replace each other's.
The ghost variable `overlapped` says this has happened. The safety properties hold until then, and that is the precise extent of
what the lock-free code gives: nothing but overlapping allocation can go wrong. `CallsReturn` holds with overlaps as well.

### Heap objects: `HeapTracing`

Allocations (`malloc`, `new`, `calloc`, `realloc`, failing ones too) and deallocations are steps of the program; each leaves a
sequence of runtime calls in `call`, one per tracked member, taken one at a time and interleaved with other threads. `Elements` is
the result of `getArrayAlignment`. The ghost `unhandled` records events the pass does not handle: memory freed
through another type, moved by `realloc`, allocated by a `calloc` whose element size is not its count (the pass takes operand 1),
memory reused before its last owner's entries are erased (they are erased after `free`), and a failed request large enough to reach the
heap. The result of an allocation is not tested: `RequestFailed` (`MallocFailed`, `CallocFailed`) registers from address 0 on, whatever the
request was, and the elements that lie in the heap overwrite the entries there. `HeapExact` holds up to these events.
`RegistrationHeals` says, for a program of one thread, how far they reach: when the calls of a later registration are done, the elements they
were told of and their number are right, whatever was there. Other words of the block may keep a stale entry, and so may elements a
`calloc` was not told of.

### Placement new and reinterpret_cast: `ClangTracing`

The front end puts a handle after a placement `new` (a `nothrow` one counts as such, `CGExprCXX.cpp:1775`) and at a
`reinterpret_cast` between pointers; the pass replaces it by one call per word in which a member of at least eight bytes starts.
`Extended` gives their vectors: where a smaller class starts at the same word the pass drops it and builds the vector from the rest, so the vector need
not be that of `Elements`. `PlaceMember` writes size 0, or 1 as the inlined code does in a fresh table. `PlacementNew` and `ReinterpretCast` start these calls, `PlaceMember` and `NameMember` are the calls, and `HeapStep`
is any step of `HeapTracing`. `placed` is the set of live objects constructed in blocks. The ghost `left` holds words whose entry
outlives its object because nothing removes it (`Abandoned`): those of a placed object whose memory was released or reused as raw
memory, and a name on the first word of a block, which loses its mark when the block is erased (`LosesName`). What `HeapTracing` calls `unhandled` covers here a
placement into a typed block, and a name on the first word of a block that is not itself tracked (it overwrites the count).
A class index is a class: front end and pass number the lines of `castrelated-set.txt` alike.

### Stack objects: `StackTracing`

A function is its instructions in layout order with their successors. `stackObjTracing` computes, as the pass does, where a variable
is registered and removed: first start marker or alloca; first end marker or every dominated return; nowhere when
its address is returned. The rest of the module runs the instrumented functions: branches, calls, returns, exceptions that land in a
cleanup or pass a frame. `live` gives each variable of a frame the instruction its lifetime began at, 0 outside a lifetime;
`abandoned` is a ghost for the words where a lifetime ended on a path the pass leaves out: a second end marker, a return the
alloca does not dominate, an exception, and every end of a variable whose address is returned.

`Disciplined` is what the theorems assume of the compiler, not a property of this code: variables of a function share words
only with disjoint lifetimes (StackColoring), a lifetime does not begin again before it ends, and a path to a return passes an end
marker of a variable that has any. It speaks of the frames of a run. `Scoped` is the same as a condition on the text of one function, as a
compiler would check it: a table that says of each instruction which lifetimes may be open there, and since where, agrees with every edge of the
control flow, and instructions and edges meet the conditions under it. The run's `FunctionsScoped` finds such a table for each of its
functions, and `ScopedDisciplined` proves that a program of such functions is `Disciplined`.

### Globals and start-up: `GlobalTracing`

`start` is the set of what is still to be run: the constructors of all modules, and `main`; `Before` orders it, by priority, then
by module, then by place in the module (`global_ctors`), and `Starts` takes the least. A module lists its own
`__init_global_object` (`globalObjTracing`, priority 0) and the constructors of its globals, which may call any instrumented function
(`Initialise`). `globals` are the entries of global memory; arrays are registered element by element. `Mentions` are the
globals a module defines or declares, all of which it registers. The functions then run as in `StackTracing`.

### Removed checks: `CastElision`

`stores`, `source` and `exposed` describe a function: the stores whose pointer operand is one of its pointer variables, in the order of the
instructions, the source of the cast, and the variables that are stored to in other ways as well: by functions that get their address, or by the function
itself through a pointer or reference to the variable, a bitcast of it, or `memcpy`. `isSafePointer` compares the variable with the
operand only and sees none of these. `Known` are objects the function allocates and globals; `Element` is the result of a
`getelementptr` with a class for result, which the pass takes for safe although it may point into any memory. `calls` is the stack of the recursion between `isSafePointer` and `isSafeSrcValue`, one
frame per variable with the place of the next store; an answer FALSE unwinds it. `Origins` are the variables a value can come from,
the least set closed under the stores; the pass does not compute it, the properties compare its walk with it. `StackLimit` stands for the size of the
compiler's own stack. When the pass is done the function runs: its stores in any order and any number of times, the stores the pass
does not look for (`StoreUnseen`), and the cast. `RemovedSourceKnown` names what a removed check leaves open: exposed variables, elements, and the address of
a variable taken for the variable.

### Classes: `ClassGraph`, `ClassCoding`, `CastVectors`

`Walk` lets the tool meet declarations and casts in every order a C++ program allows (a class after its bases, a cast after its
class) and any number of times. Names are what the tool knows classes by, so a template is one class. `WriteFiles` is `main` after
the walk. `Compile` chooses the struct types a module uses in full; the vectors are then functions of the state. `Verdicts` is
the verdict of the runtime on a cast, given the object and the places of source and target in it, computed with the vectors of the
words these lie in; `InlinedVerdicts` is that of the inlined check, which sees the target only. `NoFalseAlarm` asks both about
every downcast to a class that is the object or a part of it, from a base at any whole number of words (section 5 says why).
`NoMissedConfusion` asks for a report of every confusion among classes that were coded together (`Together`): in one family with their
bases and their phantom set. Templates over a parameter can break that; a class whose phantom set lies in several families (`Straddles`)
may have its code from another one, and `CodesTellApart` says that codes of a family collide in no other way.

`program` is the program the tool is run over, chosen from `Programs`: one run covers all of them.

The loops of the tool are recursive functions over `0 .. n`, one step per round, so that their results can be reasoned about. A loop
that ends on a condition (an empty stack) runs for a number of rounds that is enough, and then stands still; that it is enough is proved
(`SearchEnds`). `Depth` witnesses that inheritance has no cycles, which C++ requires; the recursion over the bases of a class needs it.

## 3. What the runs check

| Run | Instance | Properties |
|---|---|---|
| `LookupTable` | three regions of two slots, chunks of two tables, two chunks, arrays of two elements that cross regions; 32-bit products and counters that wrap at 32, counts 1, 2 and 32 | `TypeOK`, `TablesApart`, `TablesMapped`, `NoTableWasted`, `FreshTables`, `ArrayProgress`, `ImplementsMap`, `HandlerEnds` |
| `LookupCast` | two regions of one slot, two classes, offsets -1, 0 and 8, a code past its vector | `ImplementsMap` with all verdicts |
| `LookupTableThreads` | two threads, two regions of two slots, chunks of one table | `TypeOK`, `SerialTables`, `NothingLost`, `LookupsExact`, `AccessesMapped`, `TablesStay` |
| `ThreadsProgress` | the same with two addresses, fair threads | `CallsReturn` |
| `HeapTracing` | two threads, four words of heap with two below it, a one-word class, a two-word class with a member, untracked memory | `TypeOK`, `HeapExact` |
| `HeapOneThread` | one thread, the same heap, a class with a small member, a class whose first word is not tracked and whose second a small and a large class share, raw memory | `PlacedDescribed`, `EntriesExplained`, `RegistrationHeals`, `NamesYield` |
| `StackTracing` | two modules, an array of pairs and an external global; seven functions, five words | `ProgramTypeOK`, `LiveDescribed`, `NothingElse`, `GlobalsDescribed` |
| `CastVectors` | five programs of three to five classes: two roots with multiple inheritance and a class without growth; a template with a member and an anonymous union; a class that starts with a field; a template with two bases and one without growth; bases that share a word. Two codes to a byte | `TypeOK`, `NoFalseAlarm`, `NoMissedConfusion`, `PhantomsShareCode`, `TargetsCoded`, `CodesTellApart`, `CodesFit` |
| `CastElision` | two pointer variables, three stores, room for four calls | `TypeOK`, `RemovedSourceKnown`, `WalkExact`, `OverflowNeedsCircle`, `PassAnswers` |
| `TemplateFamilies`, `TemplateCasts`, `AdjustedCasts` | one of these programs each | violated: section 5 |

Why the bounds are enough. Table addresses only matter through three cases: the region has a table, the chunk has one left, the
chunk is used up; three regions and two chunks of two tables show each after each other, and the third chunk is the failing `mmap`.
The proofs remove this bound, and those of the other safety properties section 4 lists. Two threads and two regions show every pair of one region missed twice, two regions
missed at once, and one slot filled while its neighbour's table is published. Four heap words hold two arrays of
one-word objects or one array of pairs, so that blocks are reused at another size and another start; two words below the heap let failed requests end
below it, end in it, and pass it. In `LookupTable` the product of size and counter wraps after two elements, and a count of 32 is the least the counter,
which wraps at 32 as well, cannot reach. Five stack words hold three
frames, the deepest at every alignment with earlier ones. In `CastVectors` a byte holds two codes, so that families of three targets need
two bytes; five classes are the least for two roots, a join and a class without growth. In `CastElision` three stores give a
variable two of them, the second reached through the other variable, and every circle of two variables; four open calls are twice
what a walk without circles needs.

Most cfg files say `CHECK_DEADLOCK FALSE`, because the programs stop: the runtime after it has exited, a tool after it has
written its files, `main` when it returns, a program that makes no call.

`Apart` in `HeapOneThread.cfg` is a constraint: the events the pass does not handle and those Clang announces are explored in
separate histories; `RegistrationHeals` holds over both. `Handled` in `HeapTracing.cfg` is a constraint: `HeapExact` says nothing after an unhandled event, so the search stops there.
Sites, addresses, sizes and codes are inputs from small sets named in the cfg files; no other counter is bounded.

Fairness. `HandlerEnds` assumes weak fairness of the handler in progress: a thread inside a call goes on. `CallsReturn` assumes it for
every thread separately: threads are preemptive and no call holds a lock. Programs are never obliged to call.
`PassAnswers` assumes that the compiler goes on with its walk.

## 4. What is proved

Everything in this section is for all values of the constants that satisfy the named assumptions, which are stated where the
constants are declared. They say what the code or its environment guarantees: positive table sizes and addresses
(`AddressAssumption`), chunks of `mmap` that do not overlap (`MmapAssumption`), NULL is no vector (`TableAssumption`), calls at
addresses (`ThreadsAssumption`), members ordered inside their type, NULL outside the heap and positive lengths (`LayoutAssumption`; how much a program
asks for is not bounded), values and variables of one function
(`ValuesAssumption`, `BoundsAssumption`), well-formed control flow and frames (`CodeAssumption`, `FrameAssumption`), globals with
words of their own (`GlobalAssumption`), the words of the front end's members of a class among those of its layout (`ExtendedAssumption`; the vectors may differ), finitely many
classes without cycles of inheritance (`ClassAssumption`). TLC evaluates them in the runs of section 3.

### The runtime, one thread (`LookupTable_proofs`)

- `InvariantHolds`: the inductive invariant `IInv == TypeOK /\ TableInv /\ FreshTables`; the refinement adds `CallRef`, that an array
  registration in progress has a vector.
- `TypeCorrect`, `TablesApartHolds`, `TablesMappedHolds`, `NoTableWastedHolds`, `FreshTablesHolds`, `ArrayProgressHolds`: the safety
  properties of the run.
- `Refinement`: `Spec => ImplementsMap`, the two-level table implements `TypeMap`, and each call writes the entry of its own slot (`OwnEntry`).

`TablesApart` is not inductive: a table taken from the cursor is new only because the cursor is a table address in
a mapped chunk, all tables of mapped chunks are in use or at and beyond the cursor, and the end of the chunk is the end of the
chunk the cursor is in. `TableInv` says that. `EnsureTableInv` shows that allocation keeps it, in its three cases. All actions but
allocation write one slot of a region with a table; `WriteSlotInv` does these once, and one lemma per operation
(`RegisterWrites` ... `DirectEraseWrites`) says which slot it writes. For the refinement, `CellsDistinct` makes such a write a
write of one slot of `Meta`, and `FreshTables` makes allocation invisible: a region without a table and one with a fresh table look
alike. Verdicts need `RejectsBit`, which turns the byte arithmetic of the test (shift, exclusive or, comparison) into membership.
`ArrayProgress` says what a handler has done half-way. It holds also where the product of element size and counter wraps: an element
that meets the slot of an earlier one writes the same entry there.

### Threads (`LookupTableThreads_proofs`)

`ThreadsTyped`, `SerialTablesHolds`, `AccessesMappedHolds`, `TablesStayHolds`, `NothingLostHolds`, `LookupsExactHolds`: every safety
and action property of the run, for any number of threads. The invariant has three layers. `TypeInv` holds always: where each thread is, which
locals are set there, that two threads on one slot only look up, and that without an overlap at most one thread is between its
test of the region and its last store to the cursor. `SerialInv` is about the tables while allocations have not overlapped. The
cursor alone does not say what is free, because the pointer is stored before the cursor moves and the cursor before its bound:
`CursorInv` makes exceptions of exactly these two moments (`Unbumped`, `Remapped`), and `Knows` says what the one allocating thread
carries across them. `EntriesInv` adds how far each call's slot is (`Progress`). Nothing is claimed of the tables after an overlap.

### Heap (`HeapTracing_proofs`)

- `HeapInvariant`, `HeapTyped`, `HeapExactHolds`: for any number of threads, types with any members, and lengths.
- `RegistrationHealsHolds`: for a program with one thread (`Single`), as in the run.

`HeapExact` speaks of quiet memory. To keep it through the steps of a call the invariant says what is half done: a registration
has described its first members and nothing beyond (`Registering`); a release has forgotten its first members, and the count it
erases by is still the one in the size word (`Forgetting`), since the runtime reads it back at every member; no two calls and no live block are
at the same memory (`CallsApart`, `CallShape`). This part is conditional on `~unhandled`. Calls of a
failed request stand apart from the others: their address is 0 and they own no memory, and while nothing unhandled has happened their elements stay below
the heap (`Counted`: a call was told the right count or reaches no word of the heap). TLC checked `IInv` on the run's instance first.

### Heap with Clang's handles (`ClangTracing_proofs`)

- `ClangInvariant`, `PlacedDescribedHolds`, `EntriesExplainedHolds`, `NamesYieldHolds`: for any number of threads. The run has one
  thread; the theorems are what says that calls of several may interleave.
- `ClangRegistrationHealsHolds`: `RegistrationHeals` under `ClangSpec`, the specification of the run, for one thread (`Single`).

The invariant of `HeapTracing` does not carry over: words of raw blocks now have entries, and a name may stand at a member while its
block is registered over it. `ClangInv` has two parts. `ClangShape` holds always: types, blocks apart, and that calls, names and placed
objects lie in a live block (a block is released only while no call is at it, `Owned`). `ClangHandled` holds up to unhandled events. It
says how far each call is, for registrations and releases (`HalfDone`) and for objects of placement `new`
(`PlacedEntries`: a member has its entry or a thread has yet to make its call), that calls under way share no word (`PendingApart`), that blocks are
described while nothing registers or erases them (`Blocks`), and that each entry belongs to a member, is a name, is known to be left over, or is one
a release under way has yet to erase (`Explained`). A `reinterpret_cast` may meet any of these at once: it changes only words without an
entry and names, which no block or placed object relies on, with the exception `NameCalls` makes for the size word. `NamesYield` is
a step property: the only step of a thread at a name is its own call, and `Explained` leaves a word nobody owns no entry but a
name. TLC checked `ClangInv` on the run's instance as well. The attempt to prove it found that an earlier `HeapStep` wrote `left` with an ambiguous
precedence of `UNION` and `\cup`; `Abandoned` says what was meant.

### Stack and globals (`GlobalTracing_proofs`)

- `ProgramInvariant`, `ProgramTyped`, `GlobalsDescribedHolds`: for every program, with no hypothesis on its layout.
- `StackInvariant`, `LiveDescribedHolds`, `NothingElseHolds`: `ProgramSpec /\ []Disciplined => ...`, for every program the compiler laid
  out as `Disciplined` says, an assumption no code of Bitype sees to. Without it the two properties are false: two live variables in the same words cannot both be described.
- `ScopedDisciplined`, `ScopedDescribed`: if each function has a table of lifetimes that makes it `Scoped`, the program is `Disciplined`, and
  the properties hold with no assumption about its runs.

The frames invariant (`FramesOK`) puts every frame above its caller's end, so that what a frame registers or removes leaves the
others alone. `LiveDescribed` is then inductive: a registration writes the whole of its variable, a removal is of a variable not alive
afterwards, and other variables of the frame are apart from both by `Disciplined`. `NothingElse` needs `LiveDescribed` nowhere, but needs
that each end of a lifetime either removes or is one of the abandoned kinds; the attempt showed that a variable whose address is returned
and that has end markers is such a kind, which an earlier version of the model had missed. For start-up, `StartInv` says that
constructors of priority 0 are all done before anything else starts, and that entries of a registered global are not
disturbed by a later module that mentions it or another one. TLC checked `ProgramInv` on the run's instance first.

### Removed checks (`CastElision_proofs`)

`ElisionTyped`, `WalkExactHolds`, `RemovedSourceKnownHolds`, and `OverflowNeedsCircleHolds`, the last where the stack has room for a
call per variable (`RoomForVariables`; with less the walk overflows without circles). While the walk is on, anything foreign the source
can come from is among the stores still ahead of some open call (`WalkInv`, `Ahead`); a return TRUE of a call is safe because a
variable that is asked about again below is looked at from its first store. For runs of the function `RunInv` says of every
variable the source can come from what `RemovedSourceKnown` says of the cast, with the same exceptions: exposed variables, elements of class type,
and addresses of variables. For the stack, each open call's variable is an
origin of what is stored to the variables of the calls before it (`LinkedInv`); more open calls than variables means that one of
them is its own origin. TLC checked the three invariants first.

### Classes (`CastVectors_proofs`)

- `NumbersTyped` (`TypeOK`), `DowncastTargetsCoded` (`TargetsCoded`), `PhantomsCodedTogether` (`PhantomsShareCode`): for every set of programs,
  every order in which the tool meets classes and casts, and every choice of the compiler's modules.
- `CodesTellClassesApart` (`CodesTellApart`), `CodesWithinFamily` (`CodesFit`): two classes of a family have one code only if they belong to one
  phantom set, and a code is within the size of its family, both up to phantom sets that lie in several families.
- `FamiliesOfPlainClassesWhole`: if no template names a base by a parameter, a class and the bases recorded for it are in one family.
- `CastSetOfPlainCodeComplete`: if no cast waits for the instantiation of a template, every cast target has a code.

The last two have the properties of the violated runs `TemplateFamilies` and `TemplateCasts` under the conditions those runs break, so the
two constructs are all that can go wrong there. TLC finds no counterexample on the run's instance when the conditions hold.

The induction theorems of the library take a property as a parameter, which the provers cannot instantiate, but the well-foundedness of
the numbers can be used for sets: `Steps` is induction for the set of numbers at which something holds, and
`Recursion` gives every recursion over `0 .. n` a function that solves it. Each loop of the tool then has a lemma that follows one round
and one that follows the loop (`KnownNames`, `PushedAll`, `SearchEnds`, `DFSSplits`, `CodeFamilyKeeps`, `CodingFound`). `DFSSplits` is what the
search promises: its sets are apart, cover the numbered names, and are closed where every edge leads both ways. That the bounded number of rounds
empties the stack is a count: a name is pushed once, and there are no more different names than numbers (`Pigeonhole`). The
coding then gives all classes of a phantom set their code at one time, because phantom sets are a partition. For `CodesTellApart` the loop over a
family gives numbers below its counter, each to one phantom set that has a class in the family (`Adds`); so a phantom set within a
family that is still to come has no code yet, and one within a family that is done gets none any more (`Told`). The invariant `IInv` adds
`Gathered` to the properties: names have numbers, phantoms are linked both ways, and targets were declared. `Kin` does the same for the
families: the walk has linked each declared class and all its bases both ways, which makes the one-way edges of casts harmless.

### Only model-checked

Liveness (`HandlerEnds`, with its second half, that a count beyond the counter never ends, `CallsReturn`, `PassAnswers`) is out of the prover's reach. `NoFalseAlarm` and `NoMissedConfusion` stay with TLC:
they relate the vectors to layouts of objects, and a general statement would need every rule by which a C++ compiler lays out
classes as an assumption on `Elements`.

## 5. Where code and intent differ

Three runs end in a counterexample; each property is a comment or an assertion of the code.

- `TemplateFamilies` (`FindClassDecls.cpp:311`). `addRelationShip` sets `graph[current][current]` and `graph[base][current]`; the two
  lines below it set `graph_family` in both directions. The search then misses the base when it starts at the derived class. The edge of
  `VisitCXXRecordDecl` usually hides it; it does not where a template names the base by a parameter. A class and its base are
  in different families, both counted from 1, so a confusion between them can pass. With a template that adds nothing to such a base the
  phantom set lies in two families, and classes of one family can get the same code or, if all their codes are taken from the
  other one, be left untracked (`Straddles`).
- `TemplateCasts` (`FindClassDecls.cpp:342`, `CGExprScalar.cpp:1716`). The tool does not enter template instantiations; the compiler
  asserts that every cast target has a code. In a build without assertions the cast is not checked.
- `AdjustedCasts` (`bitype.cpp:263`). The offset stored for a word is a multiple of 8 (`BitypeUtil.cpp:1225`), but the check subtracts it
  from the pointer itself. For a base in the middle of a word the object seems to start too late, and a correct cast to the derived
  class is reported. `NoFalseAlarm` holds for the other bases; the inlined check does not have the problem.

Other observations that no comment contradicts: `calloc` takes the wrong operand for the count; entries are erased after `free`; a
failed allocation registers from NULL on, and a large one overwrites the entries of a heap at low addresses; `realloc` never erases; end markers other than the first, exceptions and merged returns leave
stack entries; struct members at any offset, and the first type of the module in place of an unknown one, are taken for parents
(`BitypeUtil.cpp:422`), so vectors can allow too much. These appear as ghosts or as conditions of the properties above. Further:

- `FindClassDecls.cpp:168` enters the name of the first field into the graph, not the name of its class (`OffsetZeroNames`).
- `__bitype_eraseObj` counts a 64-bit number of elements with a `uint32_t` (lines 351 and 373): for 2^32 elements or more that are no heap object
  it never returns (`HandlerEnds`).
- The verification at compile time compares nothing with the target of the cast: an object of a base class in a local variable is a safe
  source for a downcast to any derived class. `RemovedSourceKnown` says no more than that the source is known.
- It takes any `getelementptr` with a class for result for safe, also into memory the function knows nothing of (line 319), and of the stores to a
  pointer variable only those whose operand is the variable, so that a store through a reference or a `memcpy` goes unseen (line 283).
- `isSafePointer` takes a variable without stores for safe, and variables assigned in a circle make it run until the compiler's
  stack overflows; `OverflowNeedsCircle` says that nothing else does.
- The inlined check finds no confusion when the target has no entry; the runtime reports one if the source has.
- A name on the untracked first word of a block survives the block as if it were registered (`__bitype_direct_eraseArraySize` clears the
  offset as well), and a name given there while the block lives clears the number of its elements.
- The handle of a placement `new` comes after the constructor: casts in it see what the memory was before.

## 6. Abstractions and what is not modelled

- Runtime: statistics (`BITYPE_LOG`), printed reports, the `nullptr` result of huge requests. Sites stand for debug indexes within
  `debugArray`. The two words of a slot are separate in `LookupTableThreads` only.
- Heap: placement `new` of arrays beyond the first element, which the code does not register; cookies of overloaded `new[]`; allocations smaller than one object; counts, and products of
  count and size, of 2^32 and more (`LookupTable` has the wrap); the entries of words below the heap; `free` of NULL; the early
  return of `__bitype_eraseObj` in an untracked region, which at the level of entries changes nothing.
- Stack and globals: `thread_local` globals of other threads; array elements whose size is no multiple of 8, which share words; copies of `byval` parameters; variable-length arrays as arrays (their removal keeps offsets, as on the heap); the
  filters `isSafeStackAlloca` and `isSafeStackFn`, which take variables out (`Elements`). `mayCast` answers TRUE for any function that
  calls.
- Classes: string handling of names (`syncTypeName`) is the identity of classes; arrays of members; debug locations; the bound
  `MAX_NUM_CLASS`; `graph_family` and `castClass`, which are filled and never used; the two-byte class index in front of a vector.
  A downcast between references is not recorded by the tool (`getPointeeCXXRecordDecl` is null) and has no action.
- Cast instrumentation: the order of instructions other than stores; `bitcast`s, which the walk looks through. `getClassIndex` and
  `getDebugInfo` of `SanitizerRelation.cpp` keep nothing but a map from lines of a file. The front-end hooks are modelled by what they
  pass on; driver, build files, sample programs and everything that is LLVM's own are not modelled.

## 7. Plan

Done, in this order: the runtime and its refinement with proofs; threads; heap; classes; stack; adjusted casts and the inlined check;
removal of checks; globals and start-up; placement `new` and `reinterpret_cast`; proofs about threads, heap, stack, globals,
removed checks, Clang's handles, the class tool, and scoped functions.

1. Array handlers and the size word in `LookupTableThreads`.
2. The rules of layout as an assumption on `Elements`, to prove `NoFalseAlarm` from.
3. A weaker specification of `HeapTracing` over several blocks that says which stale entries survive.

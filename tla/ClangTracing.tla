---------------------------- MODULE ClangTracing -----------------------------
(***************************************************************************)
(* Types the front end announces: after a placement new and at a           *)
(* reinterpret_cast Clang puts a handle, which the pass replaces by        *)
(* runtime calls for the class (BitypeInitializePass.cpp 347-419).  They   *)
(* come between the calls HeapTracing describes.  A placement new          *)
(* registers whatever was there; a reinterpret_cast gives a name, the      *)
(* offset -1, to words without an entry and to those that have a name.     *)
(* Nothing ever removes what either of them wrote.                         *)
(***************************************************************************)
EXTENDS HeapTracing

CONSTANTS
  Extended  (* Extended[y]: the members of y when the classes smaller than *)
            (* a word are left out.  A word they had to themselves is not  *)
            (* tracked, a word they shared has the vector of the others.   *)

ASSUME ExtendedAssumption ==
  /\ NULL \notin Vectors
  /\ Extended \in [Types -> Seq(Nat \X Vectors)]
  /\ \A y \in Types : \A k \in 1 .. Len(Extended[y]) :
       /\ \E j \in 1 .. Len(Elements[y]) : Extended[y][k][1] = Elements[y][j][1]
       /\ \A j \in 1 .. k - 1 : Extended[y][j][1] < Extended[y][k][1]

VARIABLES
  placed,   (* Live objects a placement new made in blocks.                *)
  left      (* Ghost: words with an entry that is neither removed nor      *)
            (* renamed although its object is gone.                        *)

clangVars == <<vars, placed, left>>

ClangInit == Init /\ placed = {} /\ left = {}

-----------------------------------------------------------------------------
Overlap(p, q) == Extent(p) \cap Extent(q) # {}

(* The members of p the calls are about.                                   *)
ExtendedWords(p) ==
  {p.addr + Extended[p.type][k][1] : k \in DOMAIN Extended[p.type]}

NamedWord(w) == meta[w].ref # NULL /\ meta[w].off = -1

(* The calls that replace the handle; none for a class without members.    *)
emitExtendObjTraceInst(t, op, p) ==
  call' = [call EXCEPT ![t] =
             IF Extended[p.type] = <<>> THEN Idle
             ELSE [op |-> op, addr |-> p.addr, len |-> p.len, type |-> p.type,
                   count |-> 1, k |-> 1]]

(* The objects of class y that fit in the block o.                         *)
Within(o, y) ==
  {p \in {[addr |-> w, len |-> Size[y], type |-> y] : w \in Extent(o)} :
     Extent(p) \subseteq Extent(o)}

(* The new object ends those it is put upon.  Typed blocks are not meant   *)
(* for other objects.                                                      *)
PlacementNew(t) ==
  /\ call[t] = Idle
  /\ \E o \in heap, y \in Types : Owned(o) /\ \E p \in Within(o, y) :
       LET ended == {q \in placed : Overlap(p, q)}
       IN  /\ emitExtendObjTraceInst(t, "place", p)
           /\ placed' = (placed \ ended) \cup {p}
           /\ left' = left \cup UNION {ExtendedWords(q) : q \in ended}
           /\ unhandled' = (unhandled \/ Elements[o.type] # <<>>)
  /\ UNCHANGED <<heap, meta>>

(* A name written to the first word of a typed block overwrites the number *)
(* of its elements.                                                        *)
ReinterpretCast(t) ==
  /\ call[t] = Idle
  /\ \E o \in heap, y \in Types : Owned(o) /\ \E p \in Within(o, y) :
       /\ emitExtendObjTraceInst(t, "name", p)
       /\ unhandled' = \/ unhandled
                       \/ /\ Elements[o.type] # <<>> /\ Elements[o.type][1][1] # 0
                          /\ o.addr \in ExtendedWords(p)
  /\ UNCHANGED <<heap, meta, placed, left>>

ExtendedMember(t) == Extended[call[t].type][call[t].k]

ExtendedWord(t) == call[t].addr + ExtendedMember(t)[1]

NextExtended(t) ==
  call' = [call EXCEPT ![t] = IF call[t].k = Len(Extended[call[t].type]) THEN Idle
                              ELSE [call[t] EXCEPT !.k = call[t].k + 1]]

Removed == {w \in left : meta'[w].ref = NULL}

(* __bitype_direct_updateObjTrace, or the inlined stores, which give the   *)
(* first entry of a table the size 1.                                      *)
PlaceMember(t) ==
  /\ call[t].op = "place"
  /\ \E n \in {0, 1} :
       meta' = [meta EXCEPT ![ExtendedWord(t)] =
                  [ref |-> ExtendedMember(t)[2], size |-> n, off |-> ExtendedMember(t)[1]]]
  /\ NextExtended(t)
  /\ left' = left \ Removed
  /\ UNCHANGED <<heap, unhandled, placed>>

(* Faulty: a name is given once.                                           *)
NamesOnce(w, r) ==
  IF meta[w].ref # NULL THEN meta[w] ELSE [ref |-> r, size |-> 0, off |-> -1]

(* Faulty: every entry is renamed.                                         *)
NamesAll(w, r) == [ref |-> r, size |-> 0, off |-> -1]

(* __bitype_handle_reinterpret_cast.                                       *)
handle_reinterpret_cast(w, r) ==
  IF meta[w].ref # NULL /\ meta[w].off # -1 THEN meta[w]
  ELSE [ref |-> r, size |-> 0, off |-> -1]

NameMember(t) ==
  /\ call[t].op = "name"
  /\ meta' = [meta EXCEPT ![ExtendedWord(t)] =
                handle_reinterpret_cast(ExtendedWord(t), ExtendedMember(t)[2])]
  /\ NextExtended(t)
  /\ UNCHANGED <<heap, unhandled, placed, left>>

(* A name on the first word of a block loses its offset when the block is  *)
(* erased.                                                                 *)
LosesName(w) ==
  NamedWord(w) /\ meta'[w] = [meta[w] EXCEPT !.size = 0, !.off = 0]

Abandoned ==
  (UNION {ExtendedWords(p) : p \in placed \ placed'}) \cup {w \in Words : LosesName(w)}

(* The steps of HeapTracing.  Objects end with their block.                *)
HeapStep ==
  /\ Next
  /\ placed' = {p \in placed : \E o \in heap \cap heap' : Extent(p) \subseteq Extent(o)}
  /\ left' = (left \ Removed) \cup Abandoned

ClangStep(t) == PlacementNew(t) \/ ReinterpretCast(t) \/ PlaceMember(t) \/ NameMember(t)

ClangNext == HeapStep \/ \E t \in Threads : ClangStep(t)

ClangSpec == ClangInit /\ [][ClangNext]_clangVars

-----------------------------------------------------------------------------
(* Objects a placement new made in raw memory are described by their class *)
(* as long as they live, whatever reinterpret_casts come their way and     *)
(* whatever goes on in the blocks around them.                             *)
PlacedDescribed ==
  ~unhandled =>
    \A p \in placed : Quiet(Extent(p)) =>
      \A k \in DOMAIN Extended[p.type] :
        LET e == meta[p.addr + Extended[p.type][k][1]]
        IN  e.ref = Extended[p.type][k][2] /\ e.off = Extended[p.type][k][1]

(* A word that is a member of a live block or a live object, or one known  *)
(* to be left over by such an object.                                      *)
Taken(w) ==
  \/ w \in left
  \/ \E o \in heap : w \in Extent(o) /\ MembersAt(o, w) # {}
  \/ \E p \in placed : w \in ExtendedWords(p)

(* Every entry is that of a word taken or a name the next reinterpret_cast *)
(* may change, and typed blocks keep their description and the number of   *)
(* their elements between all of these.                                    *)
EntriesExplained ==
  ~unhandled =>
    /\ \A o \in heap : Quiet(Extent(o)) =>
         /\ \A w \in Extent(o) : \A k \in MembersAt(o, w) :
              meta[w].ref = Elements[o.type][k][2] /\ meta[w].off = Elements[o.type][k][1]
         /\ Elements[o.type] # <<>> => meta[o.addr].size = o.len \div Size[o.type]
    /\ \A w \in Words : meta[w].ref # NULL /\ Quiet({w}) => NamedWord(w) \/ Taken(w)

(* The last reinterpret_cast of memory that is not taken decides what the  *)
(* memory is, whatever blocks, objects and names it was before.            *)
NamesYield ==
  [][\A t \in Threads :
       call[t].op = "name" /\ call'[t] # call[t] /\ ~unhandled /\ ~Taken(ExtendedWord(t))
         => meta'[ExtendedWord(t)].ref = ExtendedMember(t)[2]]_clangVars
=============================================================================

----------------------------- MODULE ClassGraph ------------------------------
(***************************************************************************)
(* What find-class-decls gathers while it walks the declarations of a      *)
(* program: numbers for names, three relations between them, and the       *)
(* classes that casts name.  A class is known by its unqualified name, so  *)
(* the instantiations of a template are one class.                         *)
(*                                                                         *)
(* The walk follows the program text: a class comes after the bases it     *)
(* names, a cast after the class.  A class may be met again (a header in   *)
(* a second translation unit), which adds nothing.                         *)
(* graph_family and castClass are filled by the code and never used.       *)
(***************************************************************************)
EXTENDS Naturals, FiniteSets, Sequences, SequencesExt

CONSTANTS
  Class,          (* Names of classes.                                     *)
  Programs,       (* The programs the tool may be run over: sets of names. *)
  Bases,          (* Bases[c]: the direct bases of c, as declared.         *)
  Depth,          (* Depth[c]: the levels of bases below c.                *)
  Template,       (* Class templates: the walk meets the pattern only.     *)
  DependentBase,  (* <<c, b>>: template c names its base b by a parameter. *)
  Size,           (* Size[c]: the size of an object of class c.            *)
  OffsetZero,     (* OffsetZero[c]: the fields of class type at offset 0,  *)
                  (* [name, type], if c is no aggregate nor polymorphic.   *)
  InstantiatedTargets (* Classes that casts in templates turn out to name. *)

FieldName == UNION {{f.name : f \in ToSet(OffsetZero[c])} : c \in Class}
Name      == Class \cup FieldName

(* No class is a base of itself, by whatever way.                          *)
ASSUME ClassAssumption ==
  /\ IsFiniteSet(Class) /\ Class # {} /\ Programs \subseteq SUBSET Class
  /\ Bases \in [Class -> Seq(Class)]
  /\ Depth \in [Class -> 0 .. Cardinality(Class)]
  /\ \A c \in Class : \A i \in DOMAIN Bases[c] : Depth[Bases[c][i]] < Depth[c]
  /\ OffsetZero \in [Class -> Seq([name : FieldName, type : Class])]

VARIABLES
  program,         (* The classes of the program the tool is run over.     *)
  numberName,      (* The names met, in the order of their numbers.        *)
  graph,           (* Edges between members of a family.                   *)
  graph_phantoms,  (* Edges between base and derived class of one size.    *)
  relations,       (* relations[c]: the bases recorded for c.              *)
  declared,        (* Classes whose definition was met.                    *)
  downCastVec,     (* Targets of the downcasts met.                        *)
  basedCastClass,  (* Sources of the downcasts met.                        *)
  checked          (* Targets of all downcasts the compiler will check.    *)

graphVars == <<program, numberName, graph, graph_phantoms, relations, declared>>
castVars  == <<downCastVec, basedCastClass, checked>>

GraphInit ==
  /\ program \in Programs
  /\ numberName = <<>>
  /\ graph = {} /\ graph_phantoms = {}
  /\ relations = [c \in Class |-> {}]
  /\ declared = {} /\ downCastVec = {} /\ basedCastClass = {} /\ checked = {}

-----------------------------------------------------------------------------
(* The direct bases, then those of the last one, ..., of the first one.    *)
Below(direct, basesOf) ==
  direct \o FlattenSeq([i \in DOMAIN direct |-> basesOf[Reverse(direct)[i]]])

AllBasesOf[c \in Class] == Below(Bases[c], AllBasesOf)

CollectAllBases(direct) == Below(direct, AllBasesOf)

(* A dependent base has no record type yet and is passed over.             *)
WrittenBases(c) ==
  LET kept[i \in 0 .. Len(Bases[c])] ==
        IF i = 0 THEN <<>>
        ELSE IF <<c, Bases[c][i]>> \in DependentBase THEN kept[i - 1]
        ELSE Append(kept[i - 1], Bases[c][i])
  IN  kept[Len(Bases[c])]

AllBases(c) == ToSet(AllBasesOf[c])

(* A name gets the next number when it is met for the first time.          *)
NumberAgain(names) == numberName' = numberName \o names

AddName(known, name) == IF Contains(known, name) THEN known ELSE Append(known, name)

Known(old, names) ==
  LET known[i \in 0 .. Len(names)] ==
        IF i = 0 THEN old ELSE AddName(known[i - 1], names[i])
  IN  known[Len(names)]

Number(names) == numberName' = Known(numberName, names)

Both(edges) == edges \cup {<<e[2], e[1]>> : e \in edges}

PhantomsOfAnySize(c, bases) == Both({c} \X bases)

Phantoms(c, bases) == Both({<<c, b>> : b \in {x \in bases : Size[x] = Size[c]}})

OffsetZeroTypes(c) == {f.type : f \in ToSet(OffsetZero[c])}

(* The name of a field, not of its class, becomes the neighbour of c.      *)
OffsetZeroNames(c) ==
  IF c \in Template \cup declared THEN <<>>
  ELSE [i \in DOMAIN OffsetZero[c] |-> OffsetZero[c][i].name]

VisitCXXRecordDecl(c) ==
  LET bases == CollectAllBases(WrittenBases(c))
      names == OffsetZeroNames(c) \o bases
  IN  /\ ToSet(bases) \cup OffsetZeroTypes(c) \subseteq declared
      /\ Number(<<c>> \o names)
      /\ graph' = graph \cup Both({c} \X ToSet(names))
      /\ graph_phantoms' = graph_phantoms \cup
           IF c \in Template THEN {} ELSE Phantoms(c, ToSet(bases))
      /\ relations' = [relations EXCEPT ![c] = @ \cup ToSet(bases)]
      /\ declared' = declared \cup {c}
      /\ UNCHANGED <<program, castVars>>

-----------------------------------------------------------------------------
(* Edges lead from a base to the derived class only.                       *)
FamilyEdges(c) == IF AllBases(c) = {} THEN {} ELSE (AllBases(c) \cup {c}) \X {c}

(* addRelationShip for every class of S, the first of them being c.        *)
addRelationShip(c, S) ==
  /\ S \cup UNION {AllBases(d) : d \in S} \subseteq declared
  /\ Number(<<c>> \o AllBasesOf[c])
  /\ graph' = graph \cup UNION {FamilyEdges(d) : d \in S}
  /\ graph_phantoms' = graph_phantoms \cup UNION {Phantoms(d, AllBases(d)) : d \in S}
  /\ relations' = [d \in Class |-> relations[d] \cup IF d \in S THEN AllBases(d) ELSE {}]
  /\ UNCHANGED <<program, declared>>

BaseToDerived(base, derived) ==
  /\ addRelationShip(derived, {derived} \cup AllBases(derived))
  /\ downCastVec' = downCastVec \cup {derived}
  /\ basedCastClass' = basedCastClass \cup {base}
  /\ checked' = checked \cup {derived}

DerivedToBase(derived) ==
  /\ addRelationShip(derived, {derived} \cup AllBases(derived))
  /\ UNCHANGED castVars

BitCast(c) ==
  /\ addRelationShip(c, {c})
  /\ UNCHANGED castVars

(* A cast in a template has a type in the instantiations only, and the     *)
(* walk does not enter them: the compiler checks it, the tool misses it.   *)
InstantiatedCast(derived) ==
  /\ AllBases(derived) \cup {derived} \subseteq declared
  /\ checked' = checked \cup {derived}
  /\ UNCHANGED <<graphVars, downCastVec, basedCastClass>>

Walk ==
  \/ \E c \in program : VisitCXXRecordDecl(c) \/ DerivedToBase(c) \/ BitCast(c)
  \/ \E derived \in program : \E base \in AllBases(derived) : BaseToDerived(base, derived)
  \/ \E derived \in InstantiatedTargets \cap program : InstantiatedCast(derived)
=============================================================================

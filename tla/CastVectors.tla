----------------------------- MODULE CastVectors -----------------------------
(***************************************************************************)
(* The compiler's use of the files of ClassCoding: for every class a byte  *)
(* vector of the codes an object of it may be cast to, the vectors of the  *)
(* words of an object, and the verdict on a cast.                          *)
(*                                                                         *)
(* A struct type of the module is known by its class (syncTypeName strips  *)
(* prefixes, and the suffix of the layout a class has as a base).  Sizes   *)
(* and offsets are in units of which WordUnits make an 8-byte word.        *)
(***************************************************************************)
EXTENDS ClassCoding

CONSTANTS
  Untracked,  (* Struct types without the prefix trackedtype.: anonymous   *)
              (* unions, types of C headers, blacklisted classes.          *)
  Elements,   (* Elements[c]: the struct-typed elements of the struct of c,*)
              (* base subobjects and members, each with its offset.        *)
  WordUnits,  (* Units in the word that carries one vector.                *)
  CodeBits,   (* Codes in a byte of a vector: 8 in the program.            *)
  Modules     (* Sets of classes whose structs a module may use in full.   *)

VARIABLES
  moduleTypes,  (* The struct types of the module in full: AllTypeInfo.    *)
  firstType     (* The type with TypeIndex 0.                              *)

CastVars == <<graphVars, castVars, fileVars, moduleTypes, firstType>>

ElementTypes(c) == {e.type : e \in Elements[c]}

Spread(S, edges) == S \cup {e[2] : e \in {d \in edges : d[1] \in S}}

(* A path to what S reaches needs no edge twice.                           *)
ReachedFrom(S, edges) ==
  LET reached[n \in 0 .. Cardinality(edges)] ==
        IF n = 0 THEN S ELSE Spread(reached[n - 1], edges)
  IN  reached[Cardinality(edges)]

-----------------------------------------------------------------------------
(* Every element counts as a parent; one that is no type of the module     *)
(* keeps the index 0 it was given.                                         *)
DirectParents(c) ==
  {IF t \in moduleTypes THEN t ELSE firstType : t \in ElementTypes(c)}

DirectPhantoms ==
  UNION {Phantoms(c, ElementTypes(c) \cap moduleTypes) : c \in moduleTypes}

AllParents(c) ==
  ReachedFrom({c}, DirectPhantoms
                     \cup {p \in moduleTypes \X moduleTypes : p[2] \in DirectParents(p[1])})

StartTypes(c) == {e.type : e \in {d \in Elements[c] : d.off = 0}}

OffsetZeroSetInside(S) ==
  ReachedFrom(UNION {StartTypes(c) : c \in S},
              UNION {{c} \X StartTypes(c) : c \in program \cup Untracked}) \ Untracked

OffsetZeroSet(S) ==
  ReachedFrom(S, UNION {{c} \X StartTypes(c) : c \in program \cup Untracked})
    \ Untracked

Coded   == DOMAIN bitypeCodeMap
Related == DOMAIN bitypeCastRelatedClass

InheritedFrom(S) ==
  UNION {BitypeInheritanceSet[c] : c \in S \cap DOMAIN BitypeInheritanceSet}
    \cap Coded \cap Related

VectorRoundedDown(Fs, S) ==
  LET largest == Max({bitypeCastRelatedClass[f] : f \in Fs \cap Related})
  IN  [bytes |-> largest \div CodeBits,
       codes |-> {bitypeCodeMap[c] : c \in S \cap Coded}]

(* A vector long enough for the largest family of Fs, with the codes of S. *)
Vector(Fs, S) ==
  LET largest == Max({bitypeCastRelatedClass[f] : f \in Fs \cap Related})
  IN  [bytes |-> (largest + CodeBits - 1) \div CodeBits,
       codes |-> {bitypeCodeMap[c] : c \in S \cap Coded}]

getAllClassSafeCast(c) ==
  LET zero == OffsetZeroSet({c}) \cap Coded \cap Related
      parents == AllParents(c) \cap Coded
  IN  Vector({c} \cup zero \cup parents,
             {c} \cup zero \cup parents \cup InheritedFrom(OffsetZeroSet({c})))

(* The vector of a word that several classes share.                        *)
CreateGlobalVariable(S) ==
  Vector(S, S \cup OffsetZeroSet(S) \cup InheritedFrom(OffsetZeroSet(S)))

-----------------------------------------------------------------------------
(* Only the outermost class at an offset is registered.                    *)
Registered[c \in Class \cup Untracked, off \in Nat, taken \in BOOLEAN] ==
  LET own == c \in Related \ Untracked /\ ~taken
  IN  (IF own THEN {<<off, c>>} ELSE {}) \cup
      UNION {Registered[e.type, off + e.off, e.off = 0 /\ (taken \/ own)] :
               e \in Elements[c]}

WordSet(c, off) ==
  {r[2] : r \in {m \in Registered[c, 0, FALSE] :
                   m[1] \div WordUnits = off \div WordUnits}}

WordVector(S) ==
  IF \E c \in moduleTypes : S = {c}
  THEN getAllClassSafeCast(CHOOSE c \in S : TRUE) ELSE CreateGlobalVariable(S)

(* The test of the byte of d; past the end of the vector, of any byte.     *)
Tested(c, off, d) ==
  LET code   == bitypeCodeMap[d]
      vector == WordVector(WordSet(c, off))
  IN  IF (code - 1) \div CodeBits >= vector.bytes THEN {"ok", "confusion"}
      ELSE IF code \in vector.codes THEN {"ok"} ELSE {"confusion"}

OffsetForgotten(c, source, target) ==
  target # source /\ (target < source \/ WordSet(c, target) = {})

(* The pointers of a cast lie source and target units into an object of c. *)
(* An entry tells how far the word it describes, not the pointer, is from  *)
(* the start of the object: a target before that start is a confusion, and *)
(* so is one that has no entry.                                            *)
OutsideObject(c, source, target) ==
  LET start == source - WordUnits * (source \div WordUnits)
  IN  target # source /\ (target < start \/ WordSet(c, target) = {})

(* The verdicts of the runtime.                                            *)
Verdicts(c, source, target, d) ==
  IF WordSet(c, source) = {} THEN {"miss"}
  ELSE IF d \notin Coded THEN {"unchecked"}
  ELSE IF OutsideObject(c, source, target) THEN {"confusion"}
  ELSE Tested(c, target, d)

(* The verdicts of the inlined check, which looks at the target only.      *)
InlinedVerdicts(c, target, d) ==
  IF d \notin Coded THEN {"unchecked"}
  ELSE IF WordSet(c, target) = {} THEN {"miss"}
  ELSE Tested(c, target, d)

-----------------------------------------------------------------------------
Init ==
  /\ GraphInit /\ CodingInit
  /\ moduleTypes = {} /\ firstType = CHOOSE c \in Class : TRUE

(* A class can be laid out once its bases and members are known.           *)
Layable(c) ==
  ReachedFrom({c}, UNION {{d} \X (AllBases(d) \cup (ElementTypes(d) \cap Class)) :
                            d \in program}) \subseteq declared

(* One module of the program the tool has walked is compiled.              *)
Compile ==
  /\ written /\ moduleTypes = {}
  /\ UNCHANGED <<graphVars, castVars, fileVars>>
  /\ \E types \in Modules :
       /\ moduleTypes' = {c \in types : Layable(c)}
       /\ firstType' \in moduleTypes'

Next == (CodingNext /\ UNCHANGED <<moduleTypes, firstType>>) \/ Compile

Spec == Init /\ [][Next]_CastVars

-----------------------------------------------------------------------------
(* Types; a name has one number.                                           *)
TypeOK ==
  /\ IsInjective(numberName)
  /\ declared \subseteq ToSet(numberName)
  /\ graph \cup graph_phantoms \subseteq ToSet(numberName) \X ToSet(numberName)
  /\ relations \in [Class -> SUBSET Class]
  /\ declared \subseteq Class
  /\ downCastVec \subseteq checked /\ checked \subseteq Class
  /\ basedCastClass \subseteq Class
  /\ Coded \subseteq ToSet(numberName) /\ Related \subseteq Class
  /\ bitypeCodeMap \in [Coded -> Nat \ {0}]
  /\ bitypeCastRelatedClass \in [Related -> Nat \ {0}]
  /\ DOMAIN BitypeInheritanceSet \subseteq Class
  /\ written \in BOOLEAN
  /\ moduleTypes \subseteq declared /\ firstType \in Class

(* The objects in an object of class c at offset off, with their places:   *)
(* itself, its bases without any layout of their own, and those in its     *)
(* elements, or in the elements that are bases.                            *)
Parts[c \in Class \cup Untracked, off \in Nat, basesOnly \in BOOLEAN] ==
  LET empty    == {b \in AllBases(c) : \A d \in program : b \notin ElementTypes(d)}
      entered  == IF basesOnly THEN ToSet(Bases[c]) ELSE Class
  IN  {<<off, p>> : p \in {c} \cup empty} \cup
      UNION {Parts[e.type, off + e.off, basesOnly] :
               e \in {d \in Elements[c] : d.type \in entered}}

Subobjects(c)     == Parts[c, 0, FALSE]
BaseSubobjects(c) == Parts[c, 0, TRUE]

(* The bases of d that downcasts start from.                               *)
CastSources(d) ==
  {b \in BaseSubobjects(d) : b[2] \in basedCastClass \cup {d}}

(* Families as the search found them.                                      *)
InOneFamily(S) ==
  LET families == DFS(graph)
  IN  \E i \in DOMAIN families : S \subseteq ToSet(families[i])

(* A class whose phantom set lies in several families may have its code    *)
(* from another one: a template without growth over a parameter does so.   *)
Straddles(c) == ~ InOneFamily(PhantomSet(DFS(graph_phantoms), c))

(* A pointer to a base at offset off of d, in the d at offset place of a   *)
(* c, may be cast to d.  The cast is missed only where all codes of the    *)
(* family are from another one, which leaves its classes untracked.        *)
CorrectCastPasses(c, place, off, d) ==
  \A verdict \in Verdicts(c, place + off, place, d) \cup InlinedVerdicts(c, place, d) :
    verdict = "ok" \/ (verdict = "miss" /\ Straddles(d))

(* A correct cast is never called a type confusion: whatever the order in  *)
(* which the tool met the classes, and whichever types the module uses, a  *)
(* pointer to a base of an object that is a d, as a whole or as a part of  *)
(* a larger one, may be cast to d by the runtime and by the inlined check, *)
(* if the base lies as far into its word as the d (FindClassDecls.cpp      *)
(* codingFunc, BitypeUtil.cpp getAllClassSafeCast and                      *)
(* CreateGlobalVariable, bitype.cpp bitype_verify_cast).                   *)
NoFalseAlarm ==
  \A c \in moduleTypes : \A s \in Subobjects(c) : s[2] \in downCastVec =>
    \A b \in CastSources(s[2]) :
      b[1] % WordUnits = 0 => CorrectCastPasses(c, s[1], b[1], s[2])

(* The same for every base: a report is about a cast whose object is not   *)
(* of the derived type (CGExprScalar.cpp CK_BaseToDerived, bitype.cpp      *)
(* printTypeConfusion).                                                    *)
ReportsAreConfusions ==
  \A c \in moduleTypes : \A s \in Subobjects(c) : s[2] \in downCastVec =>
    \A b \in CastSources(s[2]) : CorrectCastPasses(c, s[1], b[1], s[2])

(* What a vector is meant to allow: the objects at the word, their bases,  *)
(* and classes linked to one of these by inheritance without growth.       *)
Safe(S) ==
  ReachedFrom(S, {p \in program \X program :
                    \/ p[2] \in AllBases(p[1])
                    \/ p[1] \in AllBases(p[2]) /\ Size[p[1]] = Size[p[2]]})

(* A class made of its bases and plain data, all known to the module: any  *)
(* other struct in it is taken for a parent (parsingTypeInfo), and one     *)
(* that is unknown for the first type (extendTypeRelationInfo).            *)
MadeOfBases(c) ==
  \A b \in {c} \cup AllBases(c) : ElementTypes(b) \subseteq AllBases(b) \cap moduleTypes

(* A class in one family with its bases and its phantom set.  Templates    *)
(* over a parameter may miss either, see FamiliesWhole.                    *)
Together(c) == ~ Straddles(c) /\ InOneFamily({c} \cup AllBases(c))

(* A confusion the type system lets happen is reported: a pointer to the   *)
(* source of some downcast is cast to a derived class d, and nothing in    *)
(* the word where the d would start is a d (or a d without growth); that   *)
(* word may lie outside of the object.  The classes concerned must be      *)
(* coded together, or their codes say nothing of each other (bitype.cpp    *)
(* bitype_verify_cast, BitypeUtil.cpp getAllClassSafeCast and              *)
(* CreateGlobalVariable).                                                  *)
NoMissedConfusion ==
  \A c \in moduleTypes : \A d \in downCastVec : \A b \in CastSources(d) :
    \A s \in {p \in Subobjects(c) : p[2] = b[2] /\ b[2] # d} :
      LET target == s[1] - b[1]
          there  == {t[2] : t \in {u \in Subobjects(c) :
                                     u[1] \div WordUnits = target \div WordUnits}}
      IN  d \notin Safe(there) /\ (\A h \in there : MadeOfBases(h))
            /\ (\A x \in {d} \cup (Safe(there) \cap declared) : Together(x))
          => Verdicts(c, s[1], target, d) = {"confusion"}

(* Classes of one phantom set, base and derived without growth, share a    *)
(* code, also when they were numbered in different families (codingFunc:   *)
(* "the phantom classes share the same serial number").                    *)
PhantomsShareCode ==
  written => \A e \in graph_phantoms :
               e[1] \in Coded => e[2] \in Coded /\ bitypeCodeMap[e[1]] = bitypeCodeMap[e[2]]

(* Two classes of a family have one code only if they are of one phantom   *)
(* set, whatever was coded before the family; an object of one would       *)
(* otherwise pass for the other (FindClassDecls.cpp codingFunc, where a    *)
(* class with a code keeps it and the next one gets the next number).      *)
CodesTellApart ==
  written =>
    \A x, y \in Coded :
      (bitypeCodeMap[x] = bitypeCodeMap[y] /\ InOneFamily({x, y}))
      => \/ y \in PhantomSet(DFS(graph_phantoms), x)
         \/ Straddles(x) \/ Straddles(y)

(* No code is beyond the size of its family, which the vectors are cut to  *)
(* (FindClassDecls.cpp codingFunc familySize, BitypeUtil.cpp computeCode). *)
CodesFit ==
  written => \A x \in Coded \cap Related :
               bitypeCodeMap[x] <= bitypeCastRelatedClass[x] \/ Straddles(x)

(* Every target of a downcast the tool meets gets a code, whatever family  *)
(* and phantom set it was found in (FindClassDecls.cpp codingFunc).        *)
TargetsCoded == written => downCastVec \subseteq Coded

(* Every class the compiler checks a cast to has a code (CGExprScalar.cpp: *)
(* "Error, the cast class set is incomplete!").                            *)
CastSetComplete == written => checked \subseteq Coded

(* The walk collects all classes of a family (FindClassDecls.cpp: "collect *)
(* the all family classes"): a class is in one family with its bases.      *)
FamiliesWhole ==
  written => \A c \in Class : \A b \in relations[c] : InOneFamily({b, c})
=============================================================================

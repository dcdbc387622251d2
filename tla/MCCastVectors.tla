---------------------------- MODULE MCCastVectors ----------------------------
(***************************************************************************)
(* Small programs.  Sizes and offsets are in halves of a word, and a byte  *)
(* of a vector holds two codes, so that a family needs several bytes.      *)
(*   TwoRoots: Flag adds nothing to Base; Join has two bases, the second   *)
(*   of them away from offset 0.                                           *)
(*   Members: Tag and its base Node have no layout; Mark adds Tag to Root. *)
(*   Leaf is a template that names its base Root by a parameter and holds  *)
(*   a Mark in the word where it starts, and an anonymous union.           *)
(*   Fields: a Box starts with a field head of class Item.                 *)
(*   Templates: Table is a template that names one of its bases, Key, by a *)
(*   parameter, and the other one, Value, not; Handle is a template over   *)
(*   Key without growth, Probe a class derived from Key.                   *)
(*   HalfWords: the two bases of Pair share a word.                        *)
(***************************************************************************)
EXTENDS CastVectors

CONSTANTS TwoRoots, Members, Fields, Templates, HalfWords

At(type, off) == [type |-> type, off |-> off]

AllClasses == TwoRoots \cup Members \cup Fields \cup Templates \cup HalfWords
Everything == {TwoRoots, Members, Fields, Templates, HalfWords}
OnlyMembers == {Members}
OnlyTemplates == {Templates}
OnlyHalfWords == {HalfWords}

DeclaredBases ==
  [c \in AllClasses |->
     CASE c \in {"Left", "Flag"} -> <<"Base">> [] c = "Join" -> <<"Left", "Other">>
       [] c = "Tag" -> <<"Node">> [] c = "Mark" -> <<"Root", "Tag">>
       [] c = "Leaf" -> <<"Root">>
       [] c = "Part" -> <<"Item">>
       [] c \in {"Probe", "Handle"} -> <<"Key">> [] c = "Table" -> <<"Key", "Value">>
       [] c = "Pair" -> <<"First", "Second">>
       [] OTHER -> <<>>]
LevelsOfBases ==
  [c \in AllClasses |->
     CASE c \in {"Join", "Mark"} -> 2 [] DeclaredBases[c] # <<>> -> 1 [] OTHER -> 0]
DeclaredSize ==
  [c \in AllClasses |->
     CASE c \in {"Left", "Leaf", "Box", "Table", "Probe"} -> 4 [] c = "Join" -> 6
       [] c \in {"Node", "Tag"} -> 0
       [] c \in {"Root", "Mark", "First", "Second"} -> 1 [] OTHER -> 2]
LaidOut ==
  [c \in AllClasses \cup {"anon"} |->
     CASE c \in {"Left", "Flag"} -> {At("Base", 0)}
       [] c = "Join" -> {At("Left", 0), At("Other", 4)}
       [] c = "Mark" -> {At("Root", 0)}
       [] c = "Leaf" -> {At("Root", 0), At("Mark", 1), At("anon", 2)}
       [] c = "Part" -> {At("Item", 0)}
       [] c = "Box" -> {At("Item", 0), At("Part", 2)}
       [] c \in {"Probe", "Handle"} -> {At("Key", 0)}
       [] c = "Table" -> {At("Key", 0), At("Value", 2)}
       [] c = "Pair" -> {At("First", 0), At("Second", 1)}
       [] OTHER -> {}]
HeadOfBox ==
  [c \in AllClasses |-> IF c = "Box" THEN <<[name |-> "head", type |-> "Item"]>> ELSE <<>>]

WithAndWithoutLeft == {AllClasses, AllClasses \ {"Left", "Root"}}
NamedByParameter == {<<"Leaf", "Root">>, <<"Table", "Key">>, <<"Handle", "Key">>}
=============================================================================

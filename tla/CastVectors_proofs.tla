-------------------------- MODULE CastVectors_proofs --------------------------
(***************************************************************************)
(* What find-class-decls writes, proved for every program: the search      *)
(* splits the names into closed sets, every target of a downcast gets a    *)
(* code, and classes that differ in nothing but their name share it.       *)
(*                                                                         *)
(* The loops of the tool are recursive functions over 0 .. n.  The prover  *)
(* has no rule of induction for a property, but one for a set (Steps), and *)
(* with it a function exists for every such recursion (Recursion).         *)
(***************************************************************************)
EXTENDS CastVectors, WellFoundedInduction, FiniteSetTheorems, SequenceTheorems, TLAPS

-----------------------------------------------------------------------------
(* Induction over numbers, for sets.                                       *)

NatLess == {p \in Nat \X Nat : p[1] < p[2]}

(* The order of the numbers has no endless descent.                        *)
LEMMA NatLessWellFounded == IsWellFoundedOn(NatLess, Nat)
  BY NatLessThanWellFounded DEF OpToRel, NatLess

(* A set of numbers that is not empty has a least one.                     *)
LEMMA LeastNumber ==
  ASSUME NEW T, T \subseteq Nat, T # {}
  PROVE  \E n \in T : \A m \in T : n <= m
  <1>1. \E x \in T : \A y \in T : ~ (<<y, x>> \in NatLess)
    BY NatLessWellFounded, WFMin
  <1>2. PICK x \in T : \A y \in T : ~ (<<y, x>> \in NatLess)
    BY <1>1
  <1>3. ASSUME NEW y \in T
        PROVE  x <= y
    <2>1. x \in Nat /\ y \in Nat
      OBVIOUS
    <2>2. ~ (<<y, x>> \in NatLess)
      BY <1>2
    <2>. QED
      BY <2>1, <2>2 DEF NatLess
  <1>. QED
    BY <1>3

(* What holds at 0 and is passed on from every number below L to the next  *)
(* holds up to L.                                                          *)
LEMMA Steps ==
  ASSUME NEW L \in Nat, NEW T, 0 \in T,
         \A n \in 0 .. L - 1 : n \in T => n + 1 \in T
  PROVE  \A n \in 0 .. L : n \in T
  <1> DEFINE B == {n \in 0 .. L : n \notin T}
  <1>1. SUFFICES ASSUME B # {} PROVE FALSE
    OBVIOUS
  <1>2. B \subseteq Nat
    OBVIOUS
  <1> HIDE DEF B
  <1>3. PICK n \in B : \A m \in B : n <= m
    BY <1>1, <1>2, LeastNumber
  <1>4. n \in 0 .. L /\ n \notin T /\ n # 0
    BY DEF B
  <1>5. n - 1 \in 0 .. L - 1
    BY <1>4
  <1>6. n - 1 \notin B
    BY <1>3, <1>4, <1>5
  <1>7. n - 1 \in T
    BY <1>5, <1>6 DEF B
  <1>8. (n - 1) + 1 \in T
    BY <1>5, <1>7
  <1>. QED
    BY <1>4, <1>8

Solves(g, L, b, step) ==
  g[0] = b /\ \A n \in 1 .. L : g[n] = step[<<g[n - 1], n>>]

(* A recursion over 0 .. L has a solution.                                 *)
LEMMA Recursion ==
  ASSUME NEW S, NEW L \in Nat, NEW b \in S, NEW step \in [S \X (1 .. L) -> S]
  PROVE  \E g \in [0 .. L -> S] : Solves(g, L, b, step)
  <1> DEFINE T == {k \in 0 .. L : \E g \in [0 .. k -> S] : Solves(g, k, b, step)}
  <1>1. 0 \in T
    <2> DEFINE h == [i \in 0 .. 0 |-> b]
    <2>1. h \in [0 .. 0 -> S] /\ Solves(h, 0, b, step)
      BY DEF Solves
    <2>2. 0 \in 0 .. L
      OBVIOUS
    <2>3. \E g \in [0 .. 0 -> S] : Solves(g, 0, b, step)
      BY <2>1
    <2>. QED
      BY <2>2, <2>3
  <1>2. ASSUME NEW k \in 0 .. L - 1, k \in T
        PROVE  k + 1 \in T
    <2>1. PICK g \in [0 .. k -> S] : Solves(g, k, b, step)
      BY <1>2
    <2>2. k \in Nat /\ k + 1 \in 1 .. L /\ k + 1 \in 0 .. L
      OBVIOUS
    <2>3. g[k] \in S /\ step[<<g[k], k + 1>>] \in S
      BY <2>1, <2>2 DEF Solves
    <2> DEFINE h == [i \in 0 .. k + 1 |-> IF i = k + 1 THEN step[<<g[k], k + 1>>] ELSE g[i]]
    <2>4. h \in [0 .. k + 1 -> S]
      BY <2>2, <2>3
    <2>5. h[0] = b
      BY <2>1, <2>2 DEF Solves
    <2>6. ASSUME NEW n \in 1 .. k + 1
          PROVE  h[n] = step[<<h[n - 1], n>>]
      <3>1. n - 1 \in 0 .. k /\ n - 1 # k + 1
        BY <2>2
      <3>2. h[n - 1] = g[n - 1]
        BY <2>2, <3>1
      <3>3. CASE n = k + 1
        BY <2>2, <3>2, <3>3
      <3>4. CASE n # k + 1
        <4>1. n \in 1 .. k
          BY <2>2, <3>4
        <4>2. h[n] = g[n]
          BY <2>2, <3>4
        <4>. QED
          BY <2>1, <3>2, <4>1, <4>2 DEF Solves
      <3>. QED
        BY <3>3, <3>4
    <2> HIDE DEF h
    <2>7. Solves(h, k + 1, b, step)
      BY <2>5, <2>6 DEF Solves
    <2>. QED
      BY <2>2, <2>4, <2>7
  <1> HIDE DEF T
  <1>3. \A n \in 0 .. L : n \in T
    BY <1>1, <1>2, Steps
  <1>4. L \in T
    BY <1>3
  <1>5. PICK g \in [0 .. L -> S] : Solves(g, L, b, step)
    BY <1>4 DEF T
  <1>. QED
    BY <1>5

-----------------------------------------------------------------------------
(* Sequences and the sets of their elements.                               *)

LEMMA ToSetTyped ==
  ASSUME NEW X, NEW s \in Seq(X)
  PROVE  ToSet(s) \subseteq X
  BY DEF ToSet

LEMMA ToSetAppend ==
  ASSUME NEW X, NEW s \in Seq(X), NEW e \in X
  PROVE  ToSet(Append(s, e)) = ToSet(s) \cup {e}
  <1>1. Append(s, e) \in Seq(X) /\ Len(Append(s, e)) = Len(s) + 1 /\ Len(s) \in Nat
    OBVIOUS
  <1>2. \A i \in 1 .. Len(s) : Append(s, e)[i] = s[i]
    OBVIOUS
  <1>3. Append(s, e)[Len(s) + 1] = e
    OBVIOUS
  <1>4. ToSet(s) \cup {e} \subseteq ToSet(Append(s, e))
    BY <1>1, <1>2, <1>3 DEF ToSet
  <1>5. ASSUME NEW i \in DOMAIN Append(s, e)
        PROVE  Append(s, e)[i] \in ToSet(s) \cup {e}
    <2>1. i = Len(s) + 1 \/ i \in 1 .. Len(s)
      BY <1>1
    <2>. QED
      BY <2>1, <1>2, <1>3 DEF ToSet
  <1>. QED
    BY <1>4, <1>5 DEF ToSet

LEMMA ToSetConcat ==
  ASSUME NEW X, NEW s \in Seq(X), NEW t \in Seq(X)
  PROVE  ToSet(s \o t) = ToSet(s) \cup ToSet(t)
  <1>1. /\ s \o t \in Seq(X) /\ Len(s \o t) = Len(s) + Len(t)
        /\ Len(s) \in Nat /\ Len(t) \in Nat
    OBVIOUS
  <1>2. \A i \in 1 .. Len(s) : (s \o t)[i] = s[i]
    OBVIOUS
  <1>3. \A i \in 1 .. Len(t) : (s \o t)[Len(s) + i] = t[i]
    OBVIOUS
  <1>4. ASSUME NEW x \in ToSet(s) \cup ToSet(t)
        PROVE  x \in ToSet(s \o t)
    <2>1. CASE x \in ToSet(s)
      <3>1. PICK i \in 1 .. Len(s) : x = s[i]
        BY <2>1 DEF ToSet
      <3>. QED
        BY <3>1, <1>1, <1>2 DEF ToSet
    <2>2. CASE x \in ToSet(t)
      <3>1. PICK i \in 1 .. Len(t) : x = t[i]
        BY <2>2 DEF ToSet
      <3>2. Len(s) + i \in 1 .. Len(s \o t)
        BY <1>1
      <3>3. x = (s \o t)[Len(s) + i] /\ Len(s) + i \in DOMAIN (s \o t)
        BY <3>1, <3>2, <1>1, <1>3
      <3>. QED
        BY <3>3 DEF ToSet
    <2>. QED
      BY <2>1, <2>2
  <1>5. ASSUME NEW i \in DOMAIN (s \o t)
        PROVE  (s \o t)[i] \in ToSet(s) \cup ToSet(t)
    <2>1. i \in 1 .. Len(s) + Len(t)
      BY <1>1
    <2>2. CASE i \in 1 .. Len(s)
      BY <2>2, <1>2 DEF ToSet
    <2>3. CASE i \notin 1 .. Len(s)
      <3>1. i - Len(s) \in 1 .. Len(t) /\ i = Len(s) + (i - Len(s))
        BY <1>1, <2>1, <2>3
      <3>. QED
        BY <3>1, <1>3 DEF ToSet
    <2>. QED
      BY <2>2, <2>3
  <1>. QED
    BY <1>4, <1>5 DEF ToSet

LEMMA ToSetLast ==
  ASSUME NEW X, NEW s \in Seq(X), s # <<>>
  PROVE  /\ Last(s) \in X /\ Front(s) \in Seq(X)
         /\ Len(s) \in Nat \ {0} /\ Len(Front(s)) = Len(s) - 1
         /\ ToSet(s) = ToSet(Front(s)) \cup {Last(s)}
         /\ IsInjective(s) => IsInjective(Front(s)) /\ Last(s) \notin ToSet(Front(s))
  <1>1. Len(s) \in Nat \ {0}
    OBVIOUS
  <1>2. /\ Front(s) \in Seq(X) /\ Len(Front(s)) = Len(s) - 1
        /\ \A i \in 1 .. Len(s) - 1 : Front(s)[i] = s[i]
    <2> DEFINE m == Len(s) - 1
    <2>1. m \in Nat /\ \A i \in 1 .. m : s[i] \in X
      BY <1>1
    <2> HIDE DEF m
    <2>2. SubSeq(s, 1, m) \in Seq(X)
      BY <2>1, SubSeqProperties
    <2>3. /\ Len(SubSeq(s, 1, m)) = IF 1 <= m THEN m - 1 + 1 ELSE 0
          /\ \A i \in 1 .. m - 1 + 1 : SubSeq(s, 1, m)[i] = s[1 + i - 1]
      BY <2>1, SubSeqProperties
    <2>4. Len(SubSeq(s, 1, m)) = m /\ \A i \in 1 .. m : SubSeq(s, 1, m)[i] = s[i]
      BY <2>1, <2>3
    <2>. QED
      BY <2>2, <2>4 DEF m, Front
  <1>3. Last(s) \in X
    BY <1>1 DEF Last
  <1>4. DOMAIN s = 1 .. Len(s) /\ DOMAIN Front(s) = 1 .. Len(s) - 1
    BY <1>2
  <1>5. ToSet(Front(s)) \cup {Last(s)} \subseteq ToSet(s)
    BY <1>1, <1>2, <1>4 DEF ToSet, Last
  <1>6. ASSUME NEW i \in 1 .. Len(s)
        PROVE  s[i] \in ToSet(Front(s)) \cup {Last(s)}
    <2>1. i = Len(s) \/ i \in 1 .. Len(s) - 1
      BY <1>1
    <2>. QED
      BY <2>1, <1>2, <1>4 DEF ToSet, Last
  <1>7. ToSet(s) = ToSet(Front(s)) \cup {Last(s)}
    BY <1>4, <1>5, <1>6 DEF ToSet
  <1>8. ASSUME IsInjective(s)
        PROVE  IsInjective(Front(s)) /\ Last(s) \notin ToSet(Front(s))
    <2>1. IsInjective(Front(s))
      BY <1>1, <1>2, <1>4, <1>8 DEF IsInjective
    <2>2. ASSUME NEW i \in 1 .. Len(s) - 1
          PROVE  Front(s)[i] # Last(s)
      BY <1>1, <1>2, <1>4, <1>8 DEF IsInjective, Last
    <2>. QED
      BY <2>1, <2>2, <1>4 DEF ToSet
  <1>. QED
    BY <1>1, <1>2, <1>3, <1>7, <1>8

LEMMA InjectiveAppend ==
  ASSUME NEW X, NEW s \in Seq(X), NEW e \in X, IsInjective(s), e \notin ToSet(s)
  PROVE  IsInjective(Append(s, e))
  <1>1. DOMAIN Append(s, e) = 1 .. Len(s) + 1 /\ DOMAIN s = 1 .. Len(s) /\ Len(s) \in Nat
    OBVIOUS
  <1>2. \A i \in 1 .. Len(s) : Append(s, e)[i] = s[i] /\ s[i] # e
    BY DEF ToSet
  <1>3. Append(s, e)[Len(s) + 1] = e
    OBVIOUS
  <1>4. SUFFICES ASSUME NEW i \in 1 .. Len(s) + 1, NEW j \in 1 .. Len(s) + 1,
                        Append(s, e)[i] = Append(s, e)[j]
                 PROVE  i = j
    BY <1>1 DEF IsInjective
  <1>5. (i \in 1 .. Len(s) \/ i = Len(s) + 1) /\ (j \in 1 .. Len(s) \/ j = Len(s) + 1)
    BY <1>1
  <1>. QED
    BY <1>1, <1>2, <1>3, <1>4, <1>5 DEF IsInjective

LEMMA ContainsToSet ==
  ASSUME NEW X, NEW s \in Seq(X), NEW e
  PROVE  Contains(s, e) <=> e \in ToSet(s)
  BY DEF Contains, ToSet

(* FlattenSeq is a recursion over the sequences it joins.                  *)
LEMMA FlattenTyped ==
  ASSUME NEW X, NEW seqs \in Seq(Seq(X))
  PROVE  FlattenSeq(seqs) \in Seq(X)
  <1>1. CASE Len(seqs) = 0
    <2>1. seqs = <<>>
      BY <1>1
    <2>. QED
      BY <1>1, <2>1 DEF FlattenSeq
  <1>2. CASE Len(seqs) # 0
    <2> DEFINE L == Len(seqs)
    <2> DEFINE flatten[i \in 1 .. Len(seqs)] ==
                 IF i = 1 THEN seqs[i] ELSE flatten[i - 1] \o seqs[i]
    <2>1. FlattenSeq(seqs) = flatten[L]
      BY <1>2 DEF FlattenSeq
    <2>2. L \in Nat /\ L # 0 /\ <<>> \in Seq(X)
      BY <1>2
    <2> DEFINE step == [p \in Seq(X) \X (1 .. L) |-> p[1] \o seqs[p[2]]]
    <2>3. step \in [Seq(X) \X (1 .. L) -> Seq(X)]
      <3>1. ASSUME NEW p \in Seq(X) \X (1 .. L)
            PROVE  p[1] \o seqs[p[2]] \in Seq(X)
        <4>1. p[1] \in Seq(X) /\ seqs[p[2]] \in Seq(X)
          OBVIOUS
        <4>. QED
          BY <4>1
      <3>. QED
        BY <3>1
    <2>4. \A x \in Seq(X) : \A n \in 1 .. L : step[<<x, n>>] = x \o seqs[n]
      OBVIOUS
    <2> HIDE DEF step
    <2>5. PICK g \in [0 .. L -> Seq(X)] : Solves(g, L, <<>>, step)
      BY <2>2, <2>3, Recursion
    <2> DEFINE h == [i \in 1 .. L |-> g[i]]
    <2>6. ASSUME NEW i \in 1 .. L
          PROVE  h[i] = IF i = 1 THEN seqs[i] ELSE h[i - 1] \o seqs[i]
      <3>1. i - 1 \in 0 .. L
        BY <2>2
      <3>2. g[i - 1] \in Seq(X) /\ seqs[i] \in Seq(X)
        <4>1. g[i - 1] \in Seq(X)
          BY <2>5, <3>1
        <4>2. seqs[i] \in Seq(X)
          OBVIOUS
        <4>. QED
          BY <4>1, <4>2
      <3>3. g[i] = g[i - 1] \o seqs[i]
        BY <2>4, <2>5, <3>2 DEF Solves
      <3>4. CASE i = 1
        <4>1. g[i - 1] = <<>>
          BY <2>5, <3>4 DEF Solves
        <4>2. <<>> \o seqs[i] = seqs[i]
          BY <3>2
        <4>. QED
          BY <3>3, <3>4, <4>1, <4>2
      <3>5. CASE i # 1
        <4>1. i - 1 \in 1 .. L
          BY <2>2, <3>5
        <4>. QED
          BY <3>3, <3>5, <4>1
      <3>. QED
        BY <3>4, <3>5
    <2>7. h = [i \in 1 .. L |-> IF i = 1 THEN seqs[i] ELSE h[i - 1] \o seqs[i]]
      <3> HIDE DEF h
      <3>1. DOMAIN h = 1 .. L /\ h = [i \in 1 .. L |-> h[i]]
        BY DEF h
      <3>. QED
        BY <2>6, <3>1
    <2>8. flatten = [i \in 1 .. L |-> IF i = 1 THEN seqs[i] ELSE flatten[i - 1] \o seqs[i]]
      <3> HIDE DEF h
      <3>. QED
        BY <2>7
    <2> HIDE DEF flatten
    <2> DEFINE T == {k \in 0 .. L - 1 : flatten[k + 1] \in Seq(X)}
    <2>9. 0 \in T
      BY <2>2, <2>8
    <2>10. ASSUME NEW n \in 0 .. (L - 1) - 1, n \in T
           PROVE  n + 1 \in T
      <3>1. n + 1 \in 0 .. L - 1 /\ (n + 1) + 1 \in 1 .. L /\ (n + 1) + 1 # 1
        BY <2>2
      <3>2. ((n + 1) + 1) - 1 = n + 1
        BY <2>2
      <3>3. flatten[(n + 1) + 1] = flatten[n + 1] \o seqs[(n + 1) + 1]
        BY <2>8, <3>1, <3>2
      <3>4. seqs[(n + 1) + 1] \in Seq(X) /\ flatten[n + 1] \in Seq(X)
        BY <2>10, <3>1
      <3>5. flatten[(n + 1) + 1] \in Seq(X)
        BY <3>3, <3>4
      <3>. QED
        BY <3>1, <3>5
    <2> HIDE DEF T
    <2>11. L - 1 \in Nat /\ L - 1 \in 0 .. L - 1 /\ (L - 1) + 1 = L
      BY <2>2
    <2>12. \A n \in 0 .. L - 1 : n \in T
      BY <2>9, <2>10, <2>11, Steps
    <2>13. L - 1 \in T
      BY <2>11, <2>12
    <2>. QED
      BY <2>1, <2>11, <2>13 DEF T
  <1>. QED
    BY <1>1, <1>2

-----------------------------------------------------------------------------
(* Loops: a function that follows the steps of a loop stays in its set.    *)

Follows(f, S, L, b, step) ==
  /\ f = [i \in 0 .. L |-> f[i]] /\ f[0] = b
  /\ \A n \in 1 .. L : f[n - 1] \in S => f[n] = step[<<f[n - 1], n>>]

LEMMA LoopTyped ==
  ASSUME NEW S, NEW L \in Nat, NEW b \in S, NEW step \in [S \X (1 .. L) -> S],
         NEW f, Follows(f, S, L, b, step)
  PROVE  f \in [0 .. L -> S] /\ Solves(f, L, b, step)
  <1> DEFINE T == {n \in 0 .. L : f[n] \in S}
  <1>1. 0 \in T
    BY DEF Follows
  <1>2. ASSUME NEW n \in 0 .. L - 1, n \in T
        PROVE  n + 1 \in T
    <2>1. n + 1 \in 1 .. L /\ n + 1 \in 0 .. L /\ (n + 1) - 1 = n
      OBVIOUS
    <2>2. f[n] \in S
      BY <1>2
    <2>3. f[n + 1] = step[<<f[n], n + 1>>]
      BY <2>1, <2>2 DEF Follows
    <2>. QED
      BY <2>1, <2>2, <2>3
  <1> HIDE DEF T
  <1>3. \A n \in 0 .. L : n \in T
    BY <1>1, <1>2, Steps
  <1>4. \A n \in 0 .. L : f[n] \in S
    BY <1>3 DEF T
  <1>5. f \in [0 .. L -> S]
    BY <1>4 DEF Follows
  <1>6. ASSUME NEW n \in 1 .. L
        PROVE  f[n] = step[<<f[n - 1], n>>]
    <2>1. n - 1 \in 0 .. L
      OBVIOUS
    <2>. QED
      BY <1>4, <2>1 DEF Follows
  <1>. QED
    BY <1>5, <1>6 DEF Solves, Follows

LEMMA AddNameTyped ==
  ASSUME NEW X, NEW known \in Seq(X), NEW name \in X
  PROVE  /\ AddName(known, name) \in Seq(X)
         /\ ToSet(AddName(known, name)) = ToSet(known) \cup {name}
         /\ IsInjective(known) => IsInjective(AddName(known, name))
  <1>1. CASE Contains(known, name)
    BY <1>1, ContainsToSet DEF AddName
  <1>2. CASE ~ Contains(known, name)
    <2>1. name \notin ToSet(known)
      BY <1>2, ContainsToSet
    <2>2. AddName(known, name) = Append(known, name)
      BY <1>2 DEF AddName
    <2>3. Append(known, name) \in Seq(X)
      OBVIOUS
    <2>. QED
      BY <2>1, <2>2, <2>3, ToSetAppend, InjectiveAppend
  <1>. QED
    BY <1>1, <1>2

(* Numbering names keeps the old ones, adds the new ones, and no other, and *)
(* gives no name a second number.                                          *)
LEMMA KnownNames ==
  ASSUME NEW X, NEW old \in Seq(X), NEW names \in Seq(X)
  PROVE  /\ Known(old, names) \in Seq(X)
         /\ ToSet(Known(old, names)) = ToSet(old) \cup ToSet(names)
         /\ IsInjective(old) => IsInjective(Known(old, names))
  <1> DEFINE L == Len(names)
             S == Seq(X)
             step == [p \in S \X (1 .. L) |-> AddName(p[1], names[p[2]])]
  <1> DEFINE known[i \in 0 .. Len(names)] ==
               IF i = 0 THEN old ELSE AddName(known[i - 1], names[i])
  <1>1. Known(old, names) = known[L]
    BY DEF Known
  <1>2. L \in Nat /\ old \in S /\ \A n \in 1 .. L : names[n] \in X
    OBVIOUS
  <1>3. step \in [S \X (1 .. L) -> S]
    <2>1. ASSUME NEW p \in S \X (1 .. L)
          PROVE  AddName(p[1], names[p[2]]) \in S
      <3>1. p[1] \in Seq(X) /\ names[p[2]] \in X
        BY <1>2
      <3>. QED
        BY <3>1, AddNameTyped
    <2>. QED
      BY <2>1
  <1>4. \A x \in S : \A n \in 1 .. L : step[<<x, n>>] = AddName(x, names[n])
    OBVIOUS
  <1> HIDE DEF step, S
  <1>5. PICK g \in [0 .. L -> S] : Solves(g, L, old, step)
    BY <1>2, <1>3, Recursion
  <1>6. \A n \in 1 .. L : n # 0 /\ n - 1 \in 0 .. L /\ n \in 0 .. L
    BY <1>2
  <1>7. g = [i \in 0 .. L |-> IF i = 0 THEN old ELSE AddName(g[i - 1], names[i])]
    <2>1. ASSUME NEW i \in 0 .. L
          PROVE  g[i] = IF i = 0 THEN old ELSE AddName(g[i - 1], names[i])
      <3>1. CASE i = 0
        BY <1>5, <3>1 DEF Solves
      <3>2. CASE i # 0
        <4>1. i \in 1 .. L /\ g[i - 1] \in S
          BY <1>2, <1>5, <1>6, <3>2
        <4>. QED
          BY <1>4, <1>5, <3>2, <4>1 DEF Solves
      <3>. QED
        BY <3>1, <3>2
    <2>2. g = [i \in 0 .. L |-> g[i]]
      BY <1>5
    <2>. QED
      BY <2>1, <2>2
  <1>8. known = [i \in 0 .. L |-> IF i = 0 THEN old ELSE AddName(known[i - 1], names[i])]
    BY <1>7
  <1> HIDE DEF known
  <1>9. /\ known = [i \in 0 .. L |-> known[i]] /\ known[0] = old
        /\ \A n \in 1 .. L : known[n] = AddName(known[n - 1], names[n])
    <2>1. known = [i \in 0 .. L |-> known[i]]
      BY <1>8
    <2>2. known[0] = old
      BY <1>2, <1>8
    <2>3. \A n \in 1 .. L : known[n] = AddName(known[n - 1], names[n])
      BY <1>6, <1>8
    <2>. QED
      BY <2>1, <2>2, <2>3
  <1>10. known \in [0 .. L -> S]
    <2>1. \A n \in 1 .. L : known[n - 1] \in S => known[n] = step[<<known[n - 1], n>>]
      BY <1>4, <1>9
    <2>2. known = [i \in 0 .. L |-> known[i]] /\ known[0] = old
      BY <1>9
    <2>3. Follows(known, S, L, old, step)
      BY <2>1, <2>2 DEF Follows
    <2>. QED
      BY <1>2, <1>3, <2>3, LoopTyped
  <1> DEFINE T == {n \in 0 .. L : /\ ToSet(known[n]) = ToSet(old) \cup {names[i] : i \in 1 .. n}
                                  /\ IsInjective(old) => IsInjective(known[n])}
  <1>11. 0 \in T
    BY <1>2, <1>9
  <1>12. ASSUME NEW n \in 0 .. L - 1, n \in T
         PROVE  n + 1 \in T
    <2>1. n + 1 \in 1 .. L /\ n + 1 \in 0 .. L /\ (n + 1) - 1 = n /\ n \in 0 .. L
      BY <1>2
    <2>2. known[n + 1] = AddName(known[n], names[n + 1])
      BY <1>9, <2>1
    <2>3. known[n] \in Seq(X) /\ names[n + 1] \in X
      BY <1>2, <1>10, <2>1 DEF S
    <2> DEFINE now == known[n]
               name == names[n + 1]
    <2>a. now \in Seq(X) /\ name \in X
      BY <2>3
    <2> HIDE DEF now, name
    <2>b. /\ ToSet(AddName(now, name)) = ToSet(now) \cup {name}
          /\ IsInjective(now) => IsInjective(AddName(now, name))
      BY <2>a, AddNameTyped
    <2>4. ToSet(known[n + 1]) = ToSet(known[n]) \cup {names[n + 1]}
      BY <2>2, <2>b DEF now, name
    <2>5. {names[i] : i \in 1 .. n + 1} = {names[i] : i \in 1 .. n} \cup {names[n + 1]}
      <3>1. \A i : i \in 1 .. n + 1 <=> i \in 1 .. n \/ i = n + 1
        BY <2>1
      <3>. QED
        BY <3>1
    <2>6. IsInjective(old) => IsInjective(known[n + 1])
      BY <1>12, <2>2, <2>b DEF now, name
    <2>. QED
      BY <1>12, <2>1, <2>4, <2>5, <2>6
  <1> HIDE DEF T
  <1>13. \A n \in 0 .. L : n \in T
    BY <1>2, <1>11, <1>12, Steps
  <1>14. L \in T /\ L \in 0 .. L
    BY <1>2, <1>13
  <1>15. {names[i] : i \in 1 .. L} = ToSet(names)
    BY DEF ToSet
  <1>16. known[L] \in Seq(X)
    BY <1>10, <1>14 DEF S
  <1>. QED
    BY <1>1, <1>14, <1>15, <1>16 DEF T

(* The bases a walk can read off a class are some of those it declares, and *)
(* all of them where none is dependent.                                    *)
LEMMA WrittenTyped ==
  ASSUME NEW c \in Class
  PROVE  /\ WrittenBases(c) \in Seq(Class)
         /\ (\A b \in Class : <<c, b>> \notin DependentBase) => WrittenBases(c) = Bases[c]
  <1> DEFINE L == Len(Bases[c])
             S == Seq(Class)
             Keep(s, n) == IF <<c, Bases[c][n]>> \in DependentBase THEN s
                           ELSE Append(s, Bases[c][n])
             step == [p \in S \X (1 .. L) |-> Keep(p[1], p[2])]
  <1> DEFINE kept[i \in 0 .. Len(Bases[c])] ==
               IF i = 0 THEN <<>>
               ELSE IF <<c, Bases[c][i]>> \in DependentBase THEN kept[i - 1]
               ELSE Append(kept[i - 1], Bases[c][i])
  <1>1. WrittenBases(c) = kept[L]
    BY DEF WrittenBases
  <1>2. Bases[c] \in Seq(Class)
    BY ClassAssumption
  <1>3. L \in Nat /\ <<>> \in S /\ \A n \in 1 .. L : Bases[c][n] \in Class
    BY <1>2
  <1>4. step \in [S \X (1 .. L) -> S]
    <2>1. ASSUME NEW p \in S \X (1 .. L)
          PROVE  Keep(p[1], p[2]) \in S
      <3>1. p[1] \in Seq(Class) /\ Bases[c][p[2]] \in Class
        BY <1>3
      <3>. QED
        BY <3>1
    <2>. QED
      BY <2>1
  <1>5. \A x \in S : \A n \in 1 .. L : step[<<x, n>>] = Keep(x, n)
    OBVIOUS
  <1> HIDE DEF step, S
  <1>6. PICK g \in [0 .. L -> S] : Solves(g, L, <<>>, step)
    BY <1>3, <1>4, Recursion
  <1>7. \A n \in 1 .. L : n # 0 /\ n - 1 \in 0 .. L /\ n \in 0 .. L
    BY <1>3
  <1>8. g = [i \in 0 .. L |-> IF i = 0 THEN <<>>
                              ELSE IF <<c, Bases[c][i]>> \in DependentBase THEN g[i - 1]
                              ELSE Append(g[i - 1], Bases[c][i])]
    <2>1. ASSUME NEW i \in 0 .. L
          PROVE  g[i] = IF i = 0 THEN <<>>
                        ELSE IF <<c, Bases[c][i]>> \in DependentBase THEN g[i - 1]
                        ELSE Append(g[i - 1], Bases[c][i])
      <3>1. CASE i = 0
        BY <1>6, <3>1 DEF Solves
      <3>2. CASE i # 0
        <4>1. i \in 1 .. L /\ g[i - 1] \in S
          BY <1>3, <1>6, <1>7, <3>2
        <4>2. g[i] = Keep(g[i - 1], i)
          BY <1>5, <1>6, <4>1 DEF Solves
        <4>. QED
          BY <3>2, <4>2
      <3>. QED
        BY <3>1, <3>2
    <2>2. g = [i \in 0 .. L |-> g[i]]
      BY <1>6
    <2>. QED
      BY <2>1, <2>2
  <1>9. kept = [i \in 0 .. L |-> IF i = 0 THEN <<>>
                                 ELSE IF <<c, Bases[c][i]>> \in DependentBase THEN kept[i - 1]
                                 ELSE Append(kept[i - 1], Bases[c][i])]
    BY <1>8
  <1> HIDE DEF kept
  <1>10. kept = [i \in 0 .. L |-> kept[i]] /\ kept[0] = <<>>
    BY <1>3, <1>9
  <1>11. \A n \in 1 .. L : kept[n] = Keep(kept[n - 1], n)
    BY <1>7, <1>9
  <1> HIDE DEF Keep
  <1>12. Follows(kept, S, L, <<>>, step)
    BY <1>5, <1>10, <1>11 DEF Follows
  <1>13. kept \in [0 .. L -> S]
    BY <1>3, <1>4, <1>12, LoopTyped
  <1>14. L \in 0 .. L
    BY <1>3
  <1>15. ASSUME \A b \in Class : <<c, b>> \notin DependentBase
         PROVE  kept[L] = Bases[c]
    <2> DEFINE T == {n \in 0 .. L : /\ Len(kept[n]) = n
                                    /\ \A i \in 1 .. n : kept[n][i] = Bases[c][i]}
    <2>1. 0 \in T
      BY <1>3, <1>10
    <2>2. ASSUME NEW n \in 0 .. L - 1, n \in T
          PROVE  n + 1 \in T
      <3>1. n + 1 \in 1 .. L /\ n + 1 \in 0 .. L /\ (n + 1) - 1 = n /\ n \in 0 .. L
        BY <1>3
      <3>2. kept[n + 1] = Append(kept[n], Bases[c][n + 1])
        BY <1>3, <1>11, <1>15, <3>1 DEF Keep
      <3>3. kept[n] \in Seq(Class) /\ Bases[c][n + 1] \in Class
        BY <1>3, <1>13, <3>1 DEF S
      <3>4. Len(kept[n]) = n /\ \A i \in 1 .. n : kept[n][i] = Bases[c][i]
        BY <2>2
      <3>5. Len(kept[n + 1]) = n + 1
        BY <3>2, <3>3, <3>4
      <3>6. ASSUME NEW i \in 1 .. n + 1
            PROVE  kept[n + 1][i] = Bases[c][i]
        <4>1. CASE i = n + 1
          BY <3>2, <3>3, <3>4, <4>1
        <4>2. CASE i # n + 1
          <5>1. i \in 1 .. n
            BY <3>1, <4>2
          <5>. QED
            BY <3>2, <3>3, <3>4, <5>1
        <4>. QED
          BY <4>1, <4>2
      <3>. QED
        BY <3>1, <3>5, <3>6
    <2> HIDE DEF T
    <2>3. \A n \in 0 .. L : n \in T
      BY <1>3, <2>1, <2>2, Steps
    <2>4. L \in T
      BY <1>14, <2>3
    <2>5. Len(kept[L]) = Len(Bases[c]) /\ \A i \in 1 .. L : kept[L][i] = Bases[c][i]
      BY <2>4 DEF T
    <2>6. kept[L] \in Seq(Class)
      BY <1>13, <1>14 DEF S
    <2>. QED
      BY <1>2, <2>5, <2>6
  <1>16. kept[L] \in Seq(Class)
    BY <1>13, <1>14 DEF S
  <1>. QED
    BY <1>1, <1>15, <1>16

-----------------------------------------------------------------------------
(* The bases of a class, of whatever depth.                                *)

LEMMA BelowTyped ==
  ASSUME NEW direct \in Seq(Class), NEW f,
         \A i \in DOMAIN direct : f[direct[i]] \in Seq(Class)
  PROVE  Below(direct, f) \in Seq(Class)
  <1>1. Len(direct) \in Nat /\ DOMAIN direct = 1 .. Len(direct)
    OBVIOUS
  <1> DEFINE parts == [i \in DOMAIN direct |-> f[Reverse(direct)[i]]]
  <1>2. ASSUME NEW i \in DOMAIN direct
        PROVE  f[Reverse(direct)[i]] \in Seq(Class)
    <2>1. (Len(direct) - i) + 1 \in DOMAIN direct
      BY <1>1
    <2>2. Reverse(direct)[i] = direct[(Len(direct) - i) + 1]
      BY <1>1 DEF Reverse
    <2>. QED
      BY <2>1, <2>2
  <1>3. parts \in Seq(Seq(Class))
    BY <1>1, <1>2
  <1> HIDE DEF parts
  <1>4. FlattenSeq(parts) \in Seq(Class)
    BY <1>3, FlattenTyped
  <1>5. Below(direct, f) = direct \o FlattenSeq(parts)
    BY DEF Below, parts
  <1>. QED
    BY <1>4, <1>5

LEMMA BelowSame ==
  ASSUME NEW direct \in Seq(Class), NEW f, NEW g,
         \A i \in DOMAIN direct : f[direct[i]] = g[direct[i]]
  PROVE  Below(direct, f) = Below(direct, g)
  <1>1. Len(direct) \in Nat /\ DOMAIN direct = 1 .. Len(direct)
    OBVIOUS
  <1>2. ASSUME NEW i \in DOMAIN direct
        PROVE  f[Reverse(direct)[i]] = g[Reverse(direct)[i]]
    <2>1. (Len(direct) - i) + 1 \in DOMAIN direct
      BY <1>1
    <2>2. Reverse(direct)[i] = direct[(Len(direct) - i) + 1]
      BY <1>1 DEF Reverse
    <2>. QED
      BY <2>1, <2>2
  <1>3. [i \in DOMAIN direct |-> f[Reverse(direct)[i]]]
          = [i \in DOMAIN direct |-> g[Reverse(direct)[i]]]
    BY <1>2
  <1>. QED
    BY <1>3 DEF Below

(* The recursion over the bases ends, because no class is its own base.    *)
LEMMA AllBasesTyped ==
  /\ AllBasesOf \in [Class -> Seq(Class)]
  /\ \A c \in Class : AllBasesOf[c] = Below(Bases[c], AllBasesOf)
  <1> DEFINE N == Cardinality(Class) + 1
             Upto(k) == {c \in Class : Depth[c] < k}
             T == {k \in 0 .. N : \E g \in [Upto(k) -> Seq(Class)] :
                                    \A c \in Upto(k) : g[c] = Below(Bases[c], g)}
  <1>1. N \in Nat /\ \A c \in Class : Depth[c] \in Nat /\ Depth[c] < N
    <2>1. Cardinality(Class) \in Nat
      BY ClassAssumption, FS_CardinalityType
    <2>. QED
      BY <2>1, ClassAssumption
  <1>2. \A c \in Class : Bases[c] \in Seq(Class)
    BY ClassAssumption
  <1>3. \A c \in Class : \A i \in DOMAIN Bases[c] :
          Bases[c][i] \in Class /\ Depth[Bases[c][i]] < Depth[c]
    BY ClassAssumption, <1>2
  <1> HIDE DEF N
  <1>4. 0 \in T
    <2>1. Upto(0) = {}
      BY <1>1
    <2> DEFINE e == [c \in Upto(0) |-> <<>>]
    <2>2. e \in [Upto(0) -> Seq(Class)]
      BY <2>1
    <2> HIDE DEF e, Upto
    <2>3. \E g \in [Upto(0) -> Seq(Class)] : \A c \in Upto(0) : g[c] = Below(Bases[c], g)
      BY <2>1, <2>2
    <2>4. 0 \in 0 .. N
      BY <1>1
    <2>. QED
      BY <2>3, <2>4
  <1>5. ASSUME NEW k \in 0 .. N - 1, k \in T
        PROVE  k + 1 \in T
    <2>1. PICK g \in [Upto(k) -> Seq(Class)] : \A c \in Upto(k) : g[c] = Below(Bases[c], g)
      BY <1>5
    <2>2. k + 1 \in 0 .. N /\ k \in Nat
      BY <1>1
    <2>3. ASSUME NEW c \in Upto(k + 1), NEW i \in DOMAIN Bases[c]
          PROVE  Bases[c][i] \in Upto(k)
      <3>1. c \in Class /\ Depth[c] < k + 1 /\ Bases[c][i] \in Class
              /\ Depth[Bases[c][i]] < Depth[c]
        BY <1>3
      <3>2. Depth[c] \in Nat /\ Depth[Bases[c][i]] \in Nat
        BY <1>1, <3>1
      <3>. QED
        BY <2>2, <3>1, <3>2
    <2> DEFINE h == [c \in Upto(k + 1) |-> Below(Bases[c], g)]
    <2> HIDE DEF Upto
    <2>4. ASSUME NEW c \in Upto(k + 1)
          PROVE  Below(Bases[c], g) \in Seq(Class) /\ Below(Bases[c], h) = Below(Bases[c], g)
      <3>1. c \in Class /\ Bases[c] \in Seq(Class)
        BY <1>2 DEF Upto
      <3>2. \A i \in DOMAIN Bases[c] : g[Bases[c][i]] \in Seq(Class)
        BY <2>1, <2>3
      <3>3. ASSUME NEW i \in DOMAIN Bases[c]
            PROVE  h[Bases[c][i]] = g[Bases[c][i]]
        <4>1. Bases[c][i] \in Upto(k)
          BY <2>3
        <4>2. Bases[c][i] \in Upto(k + 1)
          BY <4>1, <1>1, <2>2 DEF Upto
        <4>. QED
          BY <2>1, <4>1, <4>2
      <3> HIDE DEF h
      <3>4. Below(Bases[c], g) \in Seq(Class)
        BY <3>1, <3>2, BelowTyped
      <3>5. Below(Bases[c], h) = Below(Bases[c], g)
        BY <3>1, <3>3, BelowSame
      <3>. QED
        BY <3>4, <3>5
    <2>5. h \in [Upto(k + 1) -> Seq(Class)] /\ \A c \in Upto(k + 1) : h[c] = Below(Bases[c], h)
      BY <2>4
    <2> HIDE DEF h
    <2>. QED
      BY <2>2, <2>5
  <1> HIDE DEF T
  <1>6. \A k \in 0 .. N : k \in T
    BY <1>1, <1>4, <1>5, Steps
  <1>7. N \in T /\ Upto(N) = Class
    BY <1>1, <1>6
  <1>8. PICK g \in [Class -> Seq(Class)] : \A c \in Class : g[c] = Below(Bases[c], g)
    BY <1>7 DEF T
  <1>9. g = [c \in Class |-> Below(Bases[c], g)]
    BY <1>8
  <1>10. AllBasesOf = [c \in Class |-> Below(Bases[c], AllBasesOf)]
    BY <1>9 DEF AllBasesOf
  <1> DEFINE W == {k \in 0 .. N : \A c \in Upto(k) : AllBasesOf[c] \in Seq(Class)}
  <1>11. 0 \in W
    BY <1>1
  <1>12. ASSUME NEW k \in 0 .. N - 1, k \in W
         PROVE  k + 1 \in W
    <2>1. k + 1 \in 0 .. N /\ k \in Nat
      BY <1>1
    <2>2. ASSUME NEW c \in Upto(k + 1)
          PROVE  AllBasesOf[c] \in Seq(Class)
      <3>1. c \in Class /\ Bases[c] \in Seq(Class) /\ AllBasesOf[c] = Below(Bases[c], AllBasesOf)
        BY <1>2, <1>10
      <3>2. ASSUME NEW i \in DOMAIN Bases[c]
            PROVE  AllBasesOf[Bases[c][i]] \in Seq(Class)
        <4>1. Bases[c][i] \in Class /\ Depth[Bases[c][i]] < Depth[c] /\ Depth[c] < k + 1
          BY <1>3
        <4>2. Depth[c] \in Nat /\ Depth[Bases[c][i]] \in Nat
          BY <1>1, <3>1, <4>1
        <4>3. Bases[c][i] \in Upto(k)
          BY <2>1, <4>1, <4>2
        <4>. QED
          BY <1>12, <4>3
      <3>. QED
        BY <3>1, <3>2, BelowTyped
    <2>. QED
      BY <2>1, <2>2
  <1> HIDE DEF W
  <1>13. \A k \in 0 .. N : k \in W
    BY <1>1, <1>11, <1>12, Steps
  <1>14. \A c \in Class : AllBasesOf[c] \in Seq(Class)
    BY <1>1, <1>7, <1>13 DEF W
  <1>. QED
    BY <1>10, <1>14

-----------------------------------------------------------------------------
(* One search.  What is on the stack or done is apart from what earlier    *)
(* searches have seen, and seen is no more than that.                      *)

SearchRecord == [stack : Seq(Name), seen : SUBSET Name, order : Seq(Name)]

Apart(s, before) ==
  /\ IsInjective(s.stack) /\ IsInjective(s.order)
  /\ ToSet(s.stack) \cap ToSet(s.order) = {}
  /\ (ToSet(s.stack) \cup ToSet(s.order)) \cap before = {}
  /\ ToSet(s.stack) \cup ToSet(s.order) \subseteq ToSet(numberName)
  /\ s.seen = before \cup ToSet(s.stack) \cup ToSet(s.order)

Searches(before) == {s \in SearchRecord : Apart(s, before)}

(* A name that was pushed.                                                 *)
LEMMA PushKeepsApart ==
  ASSUME NEW edges, NEW before, NEW v, NEW s \in Searches(before),
         NEW n \in ToSet(numberName), numberName \in Seq(Name)
  PROVE  /\ PushNew(edges, v, s, n) \in Searches(before)
         /\ PushNew(edges, v, s, n).order = s.order
         /\ s.seen \subseteq PushNew(edges, v, s, n).seen
         /\ <<v, n>> \in edges => n \in PushNew(edges, v, s, n).seen
  <1>1. CASE ~ (<<v, n>> \in edges /\ n \notin s.seen)
    <2>1. PushNew(edges, v, s, n) = s
      BY <1>1 DEF PushNew
    <2>. QED
      BY <1>1, <2>1
  <1>2. CASE <<v, n>> \in edges /\ n \notin s.seen
    <2> DEFINE r == [stack |-> Append(s.stack, n), seen |-> s.seen \cup {n}, order |-> s.order]
    <2>1. PushNew(edges, v, s, n) = r
      BY <1>2 DEF PushNew
    <2>2. s \in SearchRecord /\ Apart(s, before)
      BY DEF Searches
    <2>3. /\ s.stack \in Seq(Name) /\ s.order \in Seq(Name) /\ s.seen \subseteq Name
          /\ n \in Name
      BY <2>2, ToSetTyped DEF SearchRecord
    <2>4. n \notin ToSet(s.stack) /\ n \notin ToSet(s.order) /\ n \notin before
      BY <1>2, <2>2 DEF Apart
    <2>5. /\ ToSet(Append(s.stack, n)) = ToSet(s.stack) \cup {n}
          /\ IsInjective(Append(s.stack, n)) /\ Append(s.stack, n) \in Seq(Name)
      BY <2>2, <2>3, <2>4, ToSetAppend, InjectiveAppend DEF Apart
    <2>6. r \in SearchRecord
      BY <2>3, <2>5 DEF SearchRecord
    <2>7. /\ r.stack = Append(s.stack, n) /\ r.seen = s.seen \cup {n} /\ r.order = s.order
      OBVIOUS
    <2> HIDE DEF r
    <2>8. Apart(r, before)
      BY <2>2, <2>4, <2>5, <2>7 DEF Apart
    <2>. QED
      BY <2>1, <2>6, <2>7, <2>8 DEF Searches
  <1>. QED
    BY <1>1, <1>2

(* All neighbours of a vertex are pushed, unless they were seen.           *)
LEMMA PushedAll ==
  ASSUME NEW edges, NEW before, NEW v, NEW s \in Searches(before),
         numberName \in Seq(Name)
  PROVE  /\ Pushed(edges, v, s) \in Searches(before)
         /\ Pushed(edges, v, s).order = s.order
         /\ s.seen \subseteq Pushed(edges, v, s).seen
         /\ \A n \in ToSet(numberName) :
              <<v, n>> \in edges => n \in Pushed(edges, v, s).seen
  <1> DEFINE L == Len(numberName)
             S == {r \in Searches(before) : r.order = s.order /\ s.seen \subseteq r.seen}
             Push(r, n) == PushNew(edges, v, r, numberName[n])
             step == [p \in S \X (1 .. L) |-> Push(p[1], p[2])]
  <1> DEFINE pushed[i \in 0 .. Len(numberName)] ==
               IF i = 0 THEN s ELSE PushNew(edges, v, pushed[i - 1], numberName[i])
  <1>1. Pushed(edges, v, s) = pushed[L]
    BY DEF Pushed
  <1>2. L \in Nat /\ s \in S /\ \A n \in 1 .. L : numberName[n] \in ToSet(numberName)
    BY DEF ToSet
  <1>3. ASSUME NEW r \in S, NEW n \in 1 .. L
        PROVE  /\ Push(r, n) \in S /\ r.seen \subseteq Push(r, n).seen
               /\ <<v, numberName[n]>> \in edges => numberName[n] \in Push(r, n).seen
    <2>1. r \in Searches(before) /\ r.order = s.order /\ s.seen \subseteq r.seen
      OBVIOUS
    <2>2. /\ Push(r, n) \in Searches(before) /\ Push(r, n).order = r.order
          /\ r.seen \subseteq Push(r, n).seen
          /\ <<v, numberName[n]>> \in edges => numberName[n] \in Push(r, n).seen
      <3> DEFINE name == numberName[n]
      <3>1. name \in ToSet(numberName)
        BY <1>2
      <3> HIDE DEF name
      <3>2. /\ PushNew(edges, v, r, name) \in Searches(before)
            /\ PushNew(edges, v, r, name).order = r.order
            /\ r.seen \subseteq PushNew(edges, v, r, name).seen
            /\ <<v, name>> \in edges => name \in PushNew(edges, v, r, name).seen
        BY <2>1, <3>1, PushKeepsApart
      <3>. QED
        BY <3>2 DEF name
    <2>. QED
      BY <2>1, <2>2
  <1> HIDE DEF Push
  <1>4. step \in [S \X (1 .. L) -> S]
    <2>1. ASSUME NEW p \in S \X (1 .. L)
          PROVE  Push(p[1], p[2]) \in S
      <3>1. p[1] \in S /\ p[2] \in 1 .. L
        OBVIOUS
      <3>. QED
        BY <1>3, <3>1
    <2>. QED
      BY <2>1
  <1>5. \A x \in S : \A n \in 1 .. L : step[<<x, n>>] = Push(x, n)
    OBVIOUS
  <1> HIDE DEF step, S
  <1>6. PICK g \in [0 .. L -> S] : Solves(g, L, s, step)
    BY <1>2, <1>4, Recursion
  <1>7. \A n \in 1 .. L : n # 0 /\ n - 1 \in 0 .. L /\ n \in 0 .. L
    BY <1>2
  <1>8. g = [i \in 0 .. L |-> IF i = 0 THEN s ELSE PushNew(edges, v, g[i - 1], numberName[i])]
    <2>1. ASSUME NEW i \in 0 .. L
          PROVE  g[i] = IF i = 0 THEN s ELSE PushNew(edges, v, g[i - 1], numberName[i])
      <3>1. CASE i = 0
        BY <1>6, <3>1 DEF Solves
      <3>2. CASE i # 0
        <4>1. i \in 1 .. L /\ g[i - 1] \in S
          BY <1>2, <1>6, <1>7, <3>2
        <4>2. g[i] = Push(g[i - 1], i)
          BY <1>5, <1>6, <4>1 DEF Solves
        <4>. QED
          BY <3>2, <4>2 DEF Push
      <3>. QED
        BY <3>1, <3>2
    <2>2. g = [i \in 0 .. L |-> g[i]]
      BY <1>6
    <2>. QED
      BY <2>1, <2>2
  <1>9. pushed = [i \in 0 .. L |-> IF i = 0 THEN s
                                   ELSE PushNew(edges, v, pushed[i - 1], numberName[i])]
    BY <1>8
  <1> HIDE DEF pushed
  <1>10. pushed = [i \in 0 .. L |-> pushed[i]] /\ pushed[0] = s
    BY <1>2, <1>9
  <1>11. \A n \in 1 .. L : pushed[n] = Push(pushed[n - 1], n)
    BY <1>7, <1>9 DEF Push
  <1>12. Follows(pushed, S, L, s, step)
    BY <1>5, <1>10, <1>11 DEF Follows
  <1>13. pushed \in [0 .. L -> S]
    BY <1>2, <1>4, <1>12, LoopTyped
  <1> DEFINE T == {n \in 0 .. L : \A i \in 1 .. n :
                      <<v, numberName[i]>> \in edges => numberName[i] \in pushed[n].seen}
  <1>14. 0 \in T
    BY <1>2
  <1>15. ASSUME NEW n \in 0 .. L - 1, n \in T
         PROVE  n + 1 \in T
    <2>1. n + 1 \in 1 .. L /\ n + 1 \in 0 .. L /\ (n + 1) - 1 = n /\ n \in 0 .. L
      BY <1>2
    <2>2. pushed[n + 1] = Push(pushed[n], n + 1) /\ pushed[n] \in S
      BY <1>11, <1>13, <2>1
    <2>3. /\ pushed[n].seen \subseteq pushed[n + 1].seen
          /\ <<v, numberName[n + 1]>> \in edges => numberName[n + 1] \in pushed[n + 1].seen
      BY <1>3, <2>1, <2>2
    <2>4. \A i \in 1 .. n + 1 : i \in 1 .. n \/ i = n + 1
      BY <2>1
    <2>. QED
      BY <1>15, <2>1, <2>3, <2>4
  <1> HIDE DEF T
  <1>16. \A n \in 0 .. L : n \in T
    BY <1>2, <1>14, <1>15, Steps
  <1>17. L \in T /\ pushed[L] \in S
    BY <1>2, <1>13, <1>16
  <1>18. \A n \in ToSet(numberName) : <<v, n>> \in edges => n \in pushed[L].seen
    BY <1>17 DEF T, ToSet
  <1>. QED
    BY <1>1, <1>17, <1>18 DEF S

(* The neighbours of the vertices that are done were seen.                 *)
Done(s, edges) ==
  \A v \in ToSet(s.order) : \A n \in ToSet(numberName) :
    <<v, n>> \in edges => n \in s.seen

LEMMA PopKeepsDone ==
  ASSUME NEW edges, NEW before, NEW s \in Searches(before),
         Done(s, edges), numberName \in Seq(Name)
  PROVE  /\ Pop(edges, s) \in Searches(before) /\ Done(Pop(edges, s), edges)
         /\ s.seen \subseteq Pop(edges, s).seen
         /\ s.stack = <<>> => Pop(edges, s) = s
         /\ s.stack # <<>> => Len(Pop(edges, s).order) = Len(s.order) + 1
  <1>1. CASE s.stack = <<>>
    BY <1>1 DEF Pop
  <1>2. CASE s.stack # <<>>
    <2> DEFINE v == Last(s.stack)
               r == [stack |-> Front(s.stack), seen |-> s.seen, order |-> Append(s.order, v)]
    <2>1. Pop(edges, s) = Pushed(edges, v, r)
      BY <1>2 DEF Pop
    <2>2. s \in SearchRecord /\ Apart(s, before)
      BY DEF Searches
    <2>3. s.stack \in Seq(Name) /\ s.order \in Seq(Name) /\ s.seen \subseteq Name
      BY <2>2 DEF SearchRecord
    <2>4. /\ v \in Name /\ Front(s.stack) \in Seq(Name)
          /\ ToSet(s.stack) = ToSet(Front(s.stack)) \cup {v}
          /\ IsInjective(Front(s.stack)) /\ v \notin ToSet(Front(s.stack))
      BY <1>2, <2>2, <2>3, ToSetLast DEF Apart
    <2> HIDE DEF v
    <2>5. v \notin ToSet(s.order)
      BY <2>2, <2>4 DEF Apart
    <2>6. /\ Append(s.order, v) \in Seq(Name)
          /\ ToSet(Append(s.order, v)) = ToSet(s.order) \cup {v}
          /\ IsInjective(Append(s.order, v))
          /\ Len(Append(s.order, v)) = Len(s.order) + 1
      BY <2>2, <2>3, <2>4, <2>5, ToSetAppend, InjectiveAppend DEF Apart
    <2>7. r \in SearchRecord
      BY <2>3, <2>4, <2>6 DEF SearchRecord
    <2>8. r.stack = Front(s.stack) /\ r.seen = s.seen /\ r.order = Append(s.order, v)
      OBVIOUS
    <2> HIDE DEF r
    <2>9. Apart(r, before)
      <3>1. IsInjective(r.stack) /\ IsInjective(r.order)
        BY <2>4, <2>6, <2>8
      <3>2. ToSet(r.stack) \cap ToSet(r.order) = {}
        BY <2>2, <2>4, <2>6, <2>8 DEF Apart
      <3>3. ToSet(r.stack) \cup ToSet(r.order) = ToSet(s.stack) \cup ToSet(s.order)
        BY <2>4, <2>6, <2>8
      <3>. QED
        BY <2>2, <2>8, <3>1, <3>2, <3>3 DEF Apart
    <2>10. r \in Searches(before)
      BY <2>7, <2>9 DEF Searches
    <2>11. /\ Pop(edges, s) \in Searches(before)
           /\ Pop(edges, s).order = r.order
           /\ r.seen \subseteq Pop(edges, s).seen
           /\ \A n \in ToSet(numberName) : <<v, n>> \in edges => n \in Pop(edges, s).seen
      BY <2>1, <2>10, PushedAll
    <2>12. Done(Pop(edges, s), edges)
      BY <2>6, <2>8, <2>11 DEF Done
    <2>. QED
      BY <1>2, <2>6, <2>8, <2>11, <2>12
  <1>. QED
    BY <1>1, <1>2

(* There are not more different names than numbers.                        *)
LEMMA Pigeonhole ==
  ASSUME numberName \in Seq(Name), NEW order \in Seq(ToSet(numberName)),
         IsInjective(order)
  PROVE  Len(order) <= Len(numberName)
  <1> DEFINE V == ToSet(numberName)
             L == Len(numberName)
             M == Len(order)
  <1>1. L \in Nat /\ M \in Nat /\ DOMAIN numberName = 1 .. L /\ DOMAIN order = 1 .. M
    OBVIOUS
  <1>2. numberName \in [1 .. L -> V]
    BY <1>1 DEF ToSet
  <1>3. \A x \in V : \E i \in 1 .. L : numberName[i] = x
    BY <1>1 DEF ToSet
  <1>4. numberName \in Surjection(1 .. L, V)
    BY <1>2, <1>3 DEF Surjection
  <1>5. order \in [1 .. M -> V]
    BY <1>1
  <1>6. order \in Injection(1 .. M, V)
    BY <1>5 DEF Injection
  <1>7. /\ IsFiniteSet(1 .. L) /\ Cardinality(1 .. L) = L
        /\ IsFiniteSet(1 .. M) /\ Cardinality(1 .. M) = M
    <2>1. \A k \in Nat : IsFiniteSet(1 .. k) /\ Cardinality(1 .. k) = k
      <3>1. ASSUME NEW k \in Nat
            PROVE  IsFiniteSet(1 .. k) /\ Cardinality(1 .. k) = k
        BY FS_Interval
      <3>. QED
        BY <3>1
    <2>. QED
      BY <1>1, <2>1
  <1> HIDE DEF V
  <1>8. IsFiniteSet(V) /\ Cardinality(V) <= L
    BY <1>4, <1>7, FS_Surjection
  <1>9. M <= Cardinality(V)
    BY <1>6, <1>7, <1>8, FS_Injection
  <1>10. Cardinality(V) \in Nat
    BY <1>8, FS_CardinalityType
  <1>. QED
    BY <1>1, <1>8, <1>9, <1>10

(* A search ends with an empty stack, and with the name it started from    *)
(* among those that are done.                                              *)
LEMMA SearchEnds ==
  ASSUME NEW edges, NEW before, NEW n \in ToSet(numberName), n \notin before,
         before \subseteq Name, numberName \in Seq(Name)
  PROVE  /\ Search(edges, n, before) \in Searches(before)
         /\ Done(Search(edges, n, before), edges)
         /\ Search(edges, n, before).stack = <<>>
         /\ n \in ToSet(Search(edges, n, before).order)
  <1> DEFINE L == Len(numberName)
             S == {s \in Searches(before) : Done(s, edges) /\ n \in s.seen}
             start == [stack |-> <<n>>, seen |-> before \cup {n}, order |-> <<>>]
             step == [p \in S \X (1 .. L) |-> Pop(edges, p[1])]
  <1> DEFINE popped[k \in 0 .. Len(numberName)] ==
               IF k = 0 THEN [stack |-> <<n>>, seen |-> before \cup {n}, order |-> <<>>]
               ELSE Pop(edges, popped[k - 1])
  <1>1. Search(edges, n, before) = popped[L]
    BY DEF Search
  <1>2. L \in Nat
    OBVIOUS
  <1>3. start \in S
    <2>1. n \in Name
      BY ToSetTyped
    <2>2. start.stack = <<n>> /\ start.seen = before \cup {n} /\ start.order = <<>>
      OBVIOUS
    <2>3. /\ <<n>> \in Seq(Name) /\ <<>> \in Seq(Name)
          /\ ToSet(<<n>>) = {n} /\ ToSet(<<>>) = {}
          /\ IsInjective(<<n>>) /\ IsInjective(<<>>)
      BY <2>1 DEF ToSet, IsInjective
    <2>4. start \in SearchRecord
      BY <2>1, <2>3 DEF SearchRecord
    <2> HIDE DEF start
    <2>5. Apart(start, before) /\ Done(start, edges)
      BY <2>2, <2>3 DEF Apart, Done
    <2>. QED
      BY <2>2, <2>4, <2>5 DEF Searches
  <1>4. ASSUME NEW s \in S
        PROVE  /\ Pop(edges, s) \in S
               /\ s.stack = <<>> => Pop(edges, s) = s
               /\ s.stack # <<>> => Len(Pop(edges, s).order) = Len(s.order) + 1
    <2>1. s \in Searches(before) /\ Done(s, edges) /\ n \in s.seen
      OBVIOUS
    <2>2. /\ Pop(edges, s) \in Searches(before) /\ Done(Pop(edges, s), edges)
          /\ s.seen \subseteq Pop(edges, s).seen
          /\ s.stack = <<>> => Pop(edges, s) = s
          /\ s.stack # <<>> => Len(Pop(edges, s).order) = Len(s.order) + 1
      BY <2>1, PopKeepsDone
    <2>. QED
      BY <2>1, <2>2
  <1>5. step \in [S \X (1 .. L) -> S]
    <2>1. ASSUME NEW p \in S \X (1 .. L)
          PROVE  Pop(edges, p[1]) \in S
      <3>1. p[1] \in S
        OBVIOUS
      <3>. QED
        BY <1>4, <3>1
    <2>. QED
      BY <2>1
  <1>6. \A x \in S : \A k \in 1 .. L : step[<<x, k>>] = Pop(edges, x)
    OBVIOUS
  <1> HIDE DEF step, S, start
  <1>7. PICK g \in [0 .. L -> S] : Solves(g, L, start, step)
    BY <1>2, <1>3, <1>5, Recursion
  <1>8. \A k \in 1 .. L : k # 0 /\ k - 1 \in 0 .. L /\ k \in 0 .. L
    BY <1>2
  <1>9. g = [k \in 0 .. L |-> IF k = 0 THEN start ELSE Pop(edges, g[k - 1])]
    <2>1. ASSUME NEW k \in 0 .. L
          PROVE  g[k] = IF k = 0 THEN start ELSE Pop(edges, g[k - 1])
      <3>1. CASE k = 0
        BY <1>7, <3>1 DEF Solves
      <3>2. CASE k # 0
        <4>1. k \in 1 .. L /\ g[k - 1] \in S
          BY <1>2, <1>7, <1>8, <3>2
        <4>2. g[k] = Pop(edges, g[k - 1])
          BY <1>6, <1>7, <4>1 DEF Solves
        <4>. QED
          BY <3>2, <4>2
      <3>. QED
        BY <3>1, <3>2
    <2>2. g = [k \in 0 .. L |-> g[k]]
      BY <1>7
    <2>. QED
      BY <2>1, <2>2
  <1>10. popped = [k \in 0 .. L |-> IF k = 0 THEN start ELSE Pop(edges, popped[k - 1])]
    BY <1>9 DEF start
  <1> HIDE DEF popped
  <1>11. popped = [k \in 0 .. L |-> popped[k]] /\ popped[0] = start
    BY <1>2, <1>10
  <1>12. \A k \in 1 .. L : popped[k] = Pop(edges, popped[k - 1])
    BY <1>8, <1>10
  <1>13. Follows(popped, S, L, start, step)
    BY <1>6, <1>11, <1>12 DEF Follows
  <1>14. popped \in [0 .. L -> S]
    BY <1>2, <1>3, <1>5, <1>13, LoopTyped
  <1>15. \A s \in S : /\ s \in Searches(before) /\ Done(s, edges) /\ n \in s.seen
                      /\ s.order \in Seq(Name) /\ s.stack \in Seq(Name)
    BY DEF S, Searches, SearchRecord
  <1> DEFINE T == {k \in 0 .. L : popped[k].stack = <<>> \/ Len(popped[k].order) = k}
  <1>16. 0 \in T
    <2>1. Len(start.order) = 0
      BY DEF start
    <2>. QED
      BY <1>2, <1>11, <2>1
  <1>17. ASSUME NEW k \in 0 .. L - 1, k \in T
         PROVE  k + 1 \in T
    <2>1. k + 1 \in 1 .. L /\ k + 1 \in 0 .. L /\ (k + 1) - 1 = k /\ k \in 0 .. L
      BY <1>2
    <2>2. popped[k + 1] = Pop(edges, popped[k]) /\ popped[k] \in S
      BY <1>12, <1>14, <2>1
    <2>3. CASE popped[k].stack = <<>>
      BY <1>4, <2>1, <2>2, <2>3
    <2>4. CASE popped[k].stack # <<>>
      <3>1. Len(popped[k].order) = k
        BY <1>17, <2>4
      <3>2. Len(popped[k + 1].order) = k + 1
        BY <1>4, <2>2, <2>4, <3>1
      <3>. QED
        BY <2>1, <3>2
    <2>. QED
      BY <2>3, <2>4
  <1> HIDE DEF T
  <1>18. \A k \in 0 .. L : k \in T
    BY <1>2, <1>16, <1>17, Steps
  <1>19. L \in T /\ popped[L] \in S
    BY <1>2, <1>14, <1>18
  <1> DEFINE last == popped[L]
  <1> HIDE DEF last
  <1>20. /\ last \in Searches(before) /\ Done(last, edges) /\ n \in last.seen
         /\ last.order \in Seq(Name) /\ last.stack \in Seq(Name)
         /\ Apart(last, before) /\ Search(edges, n, before) = last
    <2>1. last \in S
      BY <1>19 DEF last
    <2>2. last \in Searches(before) /\ Apart(last, before)
      BY <1>15, <2>1 DEF Searches
    <2>. QED
      BY <1>1, <1>15, <2>1, <2>2 DEF last
  <1>21. last.stack = <<>>
    <2>1. SUFFICES ASSUME last.stack # <<>> PROVE FALSE
      OBVIOUS
    <2>2. Len(last.order) = L
      BY <1>19, <2>1 DEF T, last
    <2> DEFINE v == Last(last.stack)
               longer == Append(last.order, v)
    <2>3. v \in ToSet(last.stack) /\ v \in Name
      <3> DEFINE stack == last.stack
      <3>1. stack \in Seq(Name) /\ stack # <<>>
        BY <1>20, <2>1
      <3> HIDE DEF stack
      <3>2. Last(stack) \in Name /\ ToSet(stack) = ToSet(Front(stack)) \cup {Last(stack)}
        BY <3>1, ToSetLast
      <3>3. Last(stack) \in ToSet(stack)
        BY <3>2
      <3>. QED
        BY <3>2, <3>3 DEF stack
    <2> HIDE DEF v
    <2>4. v \in ToSet(numberName) /\ v \notin ToSet(last.order)
            /\ ToSet(last.order) \subseteq ToSet(numberName) /\ IsInjective(last.order)
      BY <1>20, <2>3 DEF Apart
    <2>5. longer \in Seq(Name) /\ Len(longer) = L + 1
      BY <1>20, <2>2, <2>3
    <2>6. IsInjective(longer) /\ ToSet(longer) \subseteq ToSet(numberName)
      BY <1>20, <2>3, <2>4, InjectiveAppend, ToSetAppend
    <2> HIDE DEF longer
    <2>7. longer \in Seq(ToSet(numberName))
      <3>1. longer \in [1 .. Len(longer) -> Name] /\ Len(longer) \in Nat
        BY <2>5
      <3>2. \A i \in 1 .. Len(longer) : longer[i] \in ToSet(numberName)
        BY <2>6, <3>1 DEF ToSet
      <3>3. longer \in [1 .. Len(longer) -> ToSet(numberName)]
        BY <3>1, <3>2
      <3>. QED
        BY <3>1, <3>3
    <2>8. Len(longer) <= L
      BY <2>6, <2>7, Pigeonhole
    <2>. QED
      BY <1>2, <2>5, <2>8
  <1>22. n \in ToSet(last.order)
    <2>1. ToSet(last.stack) = {}
      BY <1>21 DEF ToSet
    <2>. QED
      BY <1>20, <2>1 DEF Apart
  <1>. QED
    BY <1>20, <1>21, <1>22

-----------------------------------------------------------------------------
(* All searches.  The sets found are apart, and where every edge leads both *)
(* ways no edge leaves one of them.                                        *)

Covered(sets) == UNION {ToSet(sets[i]) : i \in DOMAIN sets}

Symmetric(edges) ==
  \A a, b \in ToSet(numberName) : <<a, b>> \in edges => <<b, a>> \in edges

Closed(S, edges) ==
  \A a \in S : \A b \in ToSet(numberName) : <<a, b>> \in edges => b \in S

Split(sets, edges) ==
  /\ Covered(sets) \subseteq ToSet(numberName)
  /\ \A i \in DOMAIN sets : IsInjective(sets[i])
  /\ \A i, j \in DOMAIN sets : i # j => ToSet(sets[i]) \cap ToSet(sets[j]) = {}
  /\ Symmetric(edges) => \A i \in DOMAIN sets : Closed(ToSet(sets[i]), edges)

FoundRecord == [sets : Seq(Seq(Name)), seen : SUBSET Name]

Founds(edges) == {f \in FoundRecord : Split(f.sets, edges) /\ f.seen = Covered(f.sets)}

LEMMA CoveredAppend ==
  ASSUME NEW sets \in Seq(Seq(Name)), NEW order \in Seq(Name)
  PROVE  /\ Append(sets, order) \in Seq(Seq(Name))
         /\ DOMAIN Append(sets, order) = DOMAIN sets \cup {Len(sets) + 1}
         /\ \A i \in DOMAIN sets : Append(sets, order)[i] = sets[i] /\ i # Len(sets) + 1
         /\ Append(sets, order)[Len(sets) + 1] = order
         /\ Covered(Append(sets, order)) = Covered(sets) \cup ToSet(order)
  <1> DEFINE longer == Append(sets, order)
             L == Len(sets)
  <1>1. /\ longer \in Seq(Seq(Name)) /\ L \in Nat
        /\ DOMAIN longer = 1 .. L + 1 /\ DOMAIN sets = 1 .. L
        /\ \A i \in 1 .. L : longer[i] = sets[i]
        /\ longer[L + 1] = order
    OBVIOUS
  <1> HIDE DEF longer
  <1>2. DOMAIN longer = DOMAIN sets \cup {L + 1} /\ \A i \in DOMAIN sets : i # L + 1
    BY <1>1
  <1>3. Covered(longer) = Covered(sets) \cup ToSet(order)
    <2>1. ASSUME NEW x \in Covered(longer)
          PROVE  x \in Covered(sets) \cup ToSet(order)
      <3>1. PICK i \in DOMAIN longer : x \in ToSet(longer[i])
        BY DEF Covered
      <3>2. CASE i = L + 1
        BY <1>1, <3>1, <3>2
      <3>3. CASE i # L + 1
        <4>1. i \in DOMAIN sets /\ x \in ToSet(sets[i])
          BY <1>1, <1>2, <3>1, <3>3
        <4>. QED
          BY <4>1 DEF Covered
      <3>. QED
        BY <3>2, <3>3
    <2>2. ASSUME NEW x \in Covered(sets)
          PROVE  x \in Covered(longer)
      <3>1. PICK i \in DOMAIN sets : x \in ToSet(sets[i])
        BY DEF Covered
      <3>2. i \in DOMAIN longer /\ longer[i] = sets[i]
        BY <1>1, <1>2, <3>1
      <3>. QED
        BY <3>1, <3>2 DEF Covered
    <2>3. ASSUME NEW x \in ToSet(order)
          PROVE  x \in Covered(longer)
      BY <1>1, <1>2 DEF Covered
    <2>. QED
      BY <2>1, <2>2, <2>3
  <1>. QED
    BY <1>1, <1>2, <1>3 DEF longer

LEMMA StartKeepsSplit ==
  ASSUME NEW edges, NEW f \in Founds(edges), NEW n \in ToSet(numberName),
         numberName \in Seq(Name)
  PROVE  /\ StartAt(edges, f, n) \in Founds(edges)
         /\ f.seen \subseteq StartAt(edges, f, n).seen
         /\ n \in StartAt(edges, f, n).seen
  <1>1. CASE n \in f.seen
    BY <1>1 DEF StartAt
  <1>2. CASE n \notin f.seen
    <2> DEFINE end == Search(edges, n, f.seen)
               r == [sets |-> Append(f.sets, end.order), seen |-> end.seen]
    <2>1. StartAt(edges, f, n) = r
      BY <1>2 DEF StartAt
    <2>2. /\ f.sets \in Seq(Seq(Name)) /\ f.seen \subseteq Name
          /\ Split(f.sets, edges) /\ f.seen = Covered(f.sets)
      BY DEF Founds, FoundRecord
    <2>3. /\ end \in Searches(f.seen) /\ Done(end, edges)
          /\ end.stack = <<>> /\ n \in ToSet(end.order)
      BY <1>2, <2>2, SearchEnds
    <2> HIDE DEF end
    <2>4. end \in SearchRecord /\ Apart(end, f.seen)
      BY <2>3 DEF Searches
    <2>5. end.order \in Seq(Name) /\ end.seen \subseteq Name
      BY <2>4 DEF SearchRecord
    <2>6. /\ ToSet(end.order) \cap f.seen = {} /\ IsInjective(end.order)
          /\ ToSet(end.order) \subseteq ToSet(numberName)
          /\ end.seen = f.seen \cup ToSet(end.order)
      <3>1. ToSet(end.stack) = {}
        BY <2>3 DEF ToSet
      <3>. QED
        BY <2>4, <3>1 DEF Apart
    <2> DEFINE sets == Append(f.sets, end.order)
               k == Len(f.sets) + 1
    <2>7. /\ sets \in Seq(Seq(Name)) /\ DOMAIN sets = DOMAIN f.sets \cup {k}
          /\ \A i \in DOMAIN f.sets : sets[i] = f.sets[i] /\ i # k
          /\ sets[k] = end.order
          /\ Covered(sets) = Covered(f.sets) \cup ToSet(end.order)
      BY <2>2, <2>5, CoveredAppend
    <2>8. r.sets = sets /\ r.seen = end.seen /\ r \in FoundRecord
      BY <2>5, <2>7 DEF FoundRecord
    <2> HIDE DEF sets, k, r
    <2>9. Covered(sets) \subseteq ToSet(numberName) /\ r.seen = Covered(sets)
      BY <2>2, <2>6, <2>7, <2>8 DEF Split
    <2>10. \A i \in DOMAIN sets : IsInjective(sets[i])
      BY <2>2, <2>6, <2>7 DEF Split
    <2>11. \A i \in DOMAIN f.sets : ToSet(f.sets[i]) \subseteq f.seen
      BY <2>2 DEF Covered
    <2>12. \A i, j \in DOMAIN sets : i # j => ToSet(sets[i]) \cap ToSet(sets[j]) = {}
      <3>1. SUFFICES ASSUME NEW i \in DOMAIN sets, NEW j \in DOMAIN sets, i # j
                     PROVE  ToSet(sets[i]) \cap ToSet(sets[j]) = {}
        OBVIOUS
      <3>2. CASE i \in DOMAIN f.sets /\ j \in DOMAIN f.sets
        BY <2>2, <2>7, <3>1, <3>2 DEF Split
      <3>3. CASE i = k /\ j \in DOMAIN f.sets
        BY <2>6, <2>7, <2>11, <3>3
      <3>4. CASE j = k /\ i \in DOMAIN f.sets
        BY <2>6, <2>7, <2>11, <3>4
      <3>. QED
        BY <2>7, <3>1, <3>2, <3>3, <3>4
    <2>13. ASSUME Symmetric(edges)
           PROVE  \A i \in DOMAIN sets : Closed(ToSet(sets[i]), edges)
      <3>1. \A i \in DOMAIN f.sets : Closed(ToSet(sets[i]), edges)
        BY <2>2, <2>7, <2>13 DEF Split
      <3>2. ASSUME NEW a \in ToSet(end.order), NEW b \in ToSet(numberName),
                   <<a, b>> \in edges
            PROVE  b \in ToSet(end.order)
        <4>1. b \in end.seen
          BY <2>3, <3>2 DEF Done
        <4>2. SUFFICES ASSUME b \in f.seen PROVE FALSE
          BY <2>6, <4>1
        <4>3. PICK i \in DOMAIN f.sets : b \in ToSet(f.sets[i])
          BY <2>2, <4>2 DEF Covered
        <4>4. <<b, a>> \in edges
          BY <2>6, <2>13, <3>2 DEF Symmetric
        <4>5. a \in ToSet(f.sets[i])
          BY <2>6, <2>7, <3>1, <4>3, <4>4 DEF Closed
        <4>. QED
          BY <2>6, <2>11, <4>5
      <3>3. Closed(ToSet(sets[k]), edges)
        BY <2>7, <3>2 DEF Closed
      <3>. QED
        BY <2>7, <3>1, <3>3
    <2>14. Split(sets, edges)
      BY <2>9, <2>10, <2>12, <2>13 DEF Split
    <2>15. r \in Founds(edges)
      BY <2>8, <2>9, <2>14 DEF Founds
    <2>16. f.seen \subseteq r.seen /\ n \in r.seen
      BY <2>3, <2>6, <2>8
    <2>. QED
      BY <2>1, <2>15, <2>16
  <1>. QED
    BY <1>1, <1>2

(* The families, and the phantom sets: every name is in one of them.       *)
LEMMA DFSSplits ==
  ASSUME NEW edges, numberName \in Seq(Name)
  PROVE  /\ DFS(edges) \in Seq(Seq(Name)) /\ Split(DFS(edges), edges)
         /\ Covered(DFS(edges)) = ToSet(numberName)
  <1> DEFINE L == Len(numberName)
             S == Founds(edges)
             b == [sets |-> <<>>, seen |-> {}]
             Start(f, n) == StartAt(edges, f, numberName[n])
             step == [p \in S \X (1 .. L) |-> Start(p[1], p[2])]
  <1> DEFINE found[i \in 0 .. Len(numberName)] ==
               IF i = 0 THEN [sets |-> <<>>, seen |-> {}]
               ELSE StartAt(edges, found[i - 1], numberName[i])
  <1>1. DFS(edges) = found[L].sets
    BY DEF DFS
  <1>2. L \in Nat /\ \A n \in 1 .. L : numberName[n] \in ToSet(numberName)
    BY DEF ToSet
  <1>3. b \in S
    <2>1. b.sets = <<>> /\ b.seen = {}
      OBVIOUS
    <2>2. b \in FoundRecord
      BY DEF FoundRecord
    <2>3. Covered(<<>>) = {}
      BY DEF Covered
    <2>4. Split(<<>>, edges)
      BY <2>3 DEF Split
    <2> HIDE DEF b
    <2>. QED
      BY <2>1, <2>2, <2>3, <2>4 DEF Founds
  <1>4. ASSUME NEW f \in S, NEW n \in 1 .. L
        PROVE  /\ Start(f, n) \in S /\ f.seen \subseteq Start(f, n).seen
               /\ numberName[n] \in Start(f, n).seen
    <2> DEFINE name == numberName[n]
    <2>1. name \in ToSet(numberName) /\ f \in Founds(edges)
      BY <1>2
    <2> HIDE DEF name
    <2>2. /\ StartAt(edges, f, name) \in Founds(edges)
          /\ f.seen \subseteq StartAt(edges, f, name).seen
          /\ name \in StartAt(edges, f, name).seen
      BY <2>1, StartKeepsSplit
    <2>. QED
      BY <2>2 DEF name
  <1> HIDE DEF Start
  <1>5. step \in [S \X (1 .. L) -> S]
    <2>1. ASSUME NEW p \in S \X (1 .. L)
          PROVE  Start(p[1], p[2]) \in S
      <3>1. p[1] \in S /\ p[2] \in 1 .. L
        OBVIOUS
      <3>. QED
        BY <1>4, <3>1
    <2>. QED
      BY <2>1
  <1>6. \A x \in S : \A n \in 1 .. L : step[<<x, n>>] = Start(x, n)
    OBVIOUS
  <1> HIDE DEF step, S, b
  <1>7. PICK g \in [0 .. L -> S] : Solves(g, L, b, step)
    BY <1>2, <1>3, <1>5, Recursion
  <1>8. \A n \in 1 .. L : n # 0 /\ n - 1 \in 0 .. L /\ n \in 0 .. L
    BY <1>2
  <1>9. g = [i \in 0 .. L |-> IF i = 0 THEN b ELSE StartAt(edges, g[i - 1], numberName[i])]
    <2>1. ASSUME NEW i \in 0 .. L
          PROVE  g[i] = IF i = 0 THEN b ELSE StartAt(edges, g[i - 1], numberName[i])
      <3>1. CASE i = 0
        BY <1>7, <3>1 DEF Solves
      <3>2. CASE i # 0
        <4>1. i \in 1 .. L /\ g[i - 1] \in S
          BY <1>2, <1>7, <1>8, <3>2
        <4>2. g[i] = Start(g[i - 1], i)
          BY <1>6, <1>7, <4>1 DEF Solves
        <4>. QED
          BY <3>2, <4>2 DEF Start
      <3>. QED
        BY <3>1, <3>2
    <2>2. g = [i \in 0 .. L |-> g[i]]
      BY <1>7
    <2>. QED
      BY <2>1, <2>2
  <1>10. found = [i \in 0 .. L |-> IF i = 0 THEN b
                                   ELSE StartAt(edges, found[i - 1], numberName[i])]
    BY <1>9 DEF b
  <1> HIDE DEF found
  <1>11. found = [i \in 0 .. L |-> found[i]] /\ found[0] = b
    BY <1>2, <1>10
  <1>12. \A n \in 1 .. L : found[n] = Start(found[n - 1], n)
    BY <1>8, <1>10 DEF Start
  <1>13. Follows(found, S, L, b, step)
    BY <1>6, <1>11, <1>12 DEF Follows
  <1>14. found \in [0 .. L -> S]
    BY <1>2, <1>3, <1>5, <1>13, LoopTyped
  <1> DEFINE T == {n \in 0 .. L : \A i \in 1 .. n : numberName[i] \in found[n].seen}
  <1>15. 0 \in T
    BY <1>2
  <1>16. ASSUME NEW n \in 0 .. L - 1, n \in T
         PROVE  n + 1 \in T
    <2>1. n + 1 \in 1 .. L /\ n + 1 \in 0 .. L /\ (n + 1) - 1 = n /\ n \in 0 .. L
      BY <1>2
    <2>2. found[n + 1] = Start(found[n], n + 1) /\ found[n] \in S
      BY <1>12, <1>14, <2>1
    <2>3. found[n].seen \subseteq found[n + 1].seen /\ numberName[n + 1] \in found[n + 1].seen
      BY <1>4, <2>1, <2>2
    <2>4. \A i \in 1 .. n + 1 : i \in 1 .. n \/ i = n + 1
      BY <2>1
    <2>. QED
      BY <1>16, <2>1, <2>3, <2>4
  <1> HIDE DEF T
  <1>17. \A n \in 0 .. L : n \in T
    BY <1>2, <1>15, <1>16, Steps
  <1>18. L \in T /\ found[L] \in S
    BY <1>2, <1>14, <1>17
  <1>19. ToSet(numberName) \subseteq found[L].seen
    BY <1>18 DEF T, ToSet
  <1>20. /\ found[L].sets \in Seq(Seq(Name)) /\ Split(found[L].sets, edges)
         /\ found[L].seen = Covered(found[L].sets)
    BY <1>18 DEF S, Founds, FoundRecord
  <1>21. Covered(found[L].sets) = ToSet(numberName)
    BY <1>19, <1>20 DEF Split
  <1>. QED
    BY <1>1, <1>20, <1>21

-----------------------------------------------------------------------------
(* Codes.  The classes of a phantom set get their code together.           *)

Maps(T) == UNION {[D -> T] : D \in SUBSET ToSet(numberName)}

Code == Nat \ {0}

Partition(sets) ==
  /\ \A i, j \in DOMAIN sets : i # j => ToSet(sets[i]) \cap ToSet(sets[j]) = {}
  /\ Covered(sets) = ToSet(numberName)

Shared(codes, sets) ==
  \A i \in DOMAIN sets : \A x, y \in ToSet(sets[i]) :
    x \in DOMAIN codes => y \in DOMAIN codes /\ codes[x] = codes[y]

Codings(sets) == {a \in [codes : Maps(Code), index : Code] : Shared(a.codes, sets)}

LEMMA MapTyped ==
  ASSUME NEW T, NEW f
  PROVE  f \in Maps(T) <=> /\ f = [x \in DOMAIN f |-> f[x]]
                           /\ DOMAIN f \subseteq ToSet(numberName)
                           /\ \A x \in DOMAIN f : f[x] \in T
  <1>1. ASSUME f \in Maps(T)
        PROVE  /\ f = [x \in DOMAIN f |-> f[x]]
               /\ DOMAIN f \subseteq ToSet(numberName)
               /\ \A x \in DOMAIN f : f[x] \in T
    <2>1. PICK D \in SUBSET ToSet(numberName) : f \in [D -> T]
      BY <1>1 DEF Maps
    <2>. QED
      BY <2>1
  <1>2. ASSUME f = [x \in DOMAIN f |-> f[x]], DOMAIN f \subseteq ToSet(numberName),
               \A x \in DOMAIN f : f[x] \in T
        PROVE  f \in Maps(T)
    <2>1. f \in [DOMAIN f -> T]
      BY <1>2
    <2>. QED
      BY <1>2, <2>1 DEF Maps
  <1>. QED
    BY <1>1, <1>2

LEMMA InsertTyped ==
  ASSUME NEW T, NEW f \in Maps(T), NEW D, D \subseteq ToSet(numberName), NEW value \in T
  PROVE  /\ Insert(f, D, value) \in Maps(T)
         /\ DOMAIN Insert(f, D, value) = DOMAIN f \cup D
         /\ \A x \in DOMAIN f : Insert(f, D, value)[x] = f[x]
         /\ \A x \in D \ DOMAIN f : Insert(f, D, value)[x] = value
  <1> DEFINE g == Insert(f, D, value)
  <1>1. /\ g = [x \in DOMAIN f \cup D |-> IF x \in DOMAIN f THEN f[x] ELSE value]
        /\ DOMAIN g = DOMAIN f \cup D
        /\ \A x \in DOMAIN f : g[x] = f[x]
        /\ \A x \in D \ DOMAIN f : g[x] = value
    BY DEF Insert
  <1> HIDE DEF g
  <1>2. DOMAIN f \subseteq ToSet(numberName) /\ \A x \in DOMAIN f : f[x] \in T
    BY MapTyped
  <1>3. \A x \in DOMAIN g : g[x] \in T
    BY <1>1, <1>2
  <1>4. g = [x \in DOMAIN g |-> g[x]]
    BY <1>1
  <1>5. g \in Maps(T)
    BY <1>1, <1>2, <1>3, <1>4, MapTyped
  <1>. QED
    BY <1>1, <1>5 DEF g

(* A class is in one phantom set.                                          *)
LEMMA PhantomSetFound ==
  ASSUME NEW sets, Partition(sets), NEW c \in ToSet(numberName)
  PROVE  /\ \E i \in DOMAIN sets : PhantomSet(sets, c) = ToSet(sets[i])
         /\ c \in PhantomSet(sets, c) /\ PhantomSet(sets, c) \subseteq ToSet(numberName)
  <1>1. PICK i \in DOMAIN sets : c \in ToSet(sets[i])
    BY DEF Partition, Covered
  <1>2. \A j \in DOMAIN sets : c \in ToSet(sets[j]) => j = i
    BY <1>1 DEF Partition
  <1>3. ASSUME NEW x \in PhantomSet(sets, c)
        PROVE  x \in ToSet(sets[i])
    BY <1>1, <1>2 DEF PhantomSet
  <1>4. ToSet(sets[i]) \subseteq PhantomSet(sets, c)
    BY <1>1 DEF PhantomSet
  <1>5. PhantomSet(sets, c) = ToSet(sets[i])
    BY <1>3, <1>4
  <1>6. ToSet(sets[i]) \subseteq ToSet(numberName)
    BY DEF Partition, Covered
  <1>. QED
    BY <1>1, <1>5, <1>6

LEMMA CodeClassKeeps ==
  ASSUME NEW sets, Partition(sets), NEW a \in Codings(sets), NEW c \in ToSet(numberName)
  PROVE  /\ CodeClass(sets, a, c) \in Codings(sets)
         /\ DOMAIN a.codes \subseteq DOMAIN CodeClass(sets, a, c).codes
         /\ c \in downCastVec => c \in DOMAIN CodeClass(sets, a, c).codes
  <1>1. CASE c \notin downCastVec \/ c \in DOMAIN a.codes
    BY <1>1 DEF CodeClass
  <1>2. CASE ~ (c \notin downCastVec \/ c \in DOMAIN a.codes)
    <2> DEFINE P == PhantomSet(sets, c)
               codes == Insert(a.codes, P, a.index)
               r == [codes |-> codes, index |-> a.index + 1]
    <2>1. CodeClass(sets, a, c) = r
      BY <1>2 DEF CodeClass
    <2>2. a.codes \in Maps(Code) /\ a.index \in Code /\ Shared(a.codes, sets)
      BY DEF Codings
    <2>3. c \in P /\ P \subseteq ToSet(numberName) /\ \E i \in DOMAIN sets : P = ToSet(sets[i])
      BY PhantomSetFound
    <2> HIDE DEF P
    <2> DEFINE f     == a.codes
               value == a.index
    <2>3a. f \in Maps(Code) /\ value \in Code
      BY <2>2
    <2> HIDE DEF f, value
    <2>3b. /\ Insert(f, P, value) \in Maps(Code)
           /\ DOMAIN Insert(f, P, value) = DOMAIN f \cup P
           /\ \A x \in DOMAIN f : Insert(f, P, value)[x] = f[x]
           /\ \A x \in P \ DOMAIN f : Insert(f, P, value)[x] = value
      BY <2>3, <2>3a, InsertTyped
    <2>4. /\ codes \in Maps(Code) /\ DOMAIN codes = DOMAIN a.codes \cup P
          /\ \A x \in DOMAIN a.codes : codes[x] = a.codes[x]
          /\ \A x \in P \ DOMAIN a.codes : codes[x] = a.index
      BY <2>3b DEF f, value
    <2>5. a.index + 1 \in Code
      BY <2>2 DEF Code
    <2>6. r.codes = codes /\ r \in [codes : Maps(Code), index : Code]
      BY <2>4, <2>5
    <2> HIDE DEF codes, r
    <2>7. ASSUME NEW j \in DOMAIN sets, NEW x \in ToSet(sets[j]), NEW y \in ToSet(sets[j]),
                 x \in DOMAIN codes
          PROVE  y \in DOMAIN codes /\ codes[x] = codes[y]
      <3>1. CASE x \in DOMAIN a.codes
        <4>1. y \in DOMAIN a.codes /\ a.codes[x] = a.codes[y]
          BY <2>2, <3>1 DEF Shared
        <4>. QED
          BY <2>4, <3>1, <4>1
      <3>2. CASE x \notin DOMAIN a.codes
        <4>1. x \in P
          BY <2>4, <2>7, <3>2
        <4>2. PICK i \in DOMAIN sets : P = ToSet(sets[i])
          BY <2>3
        <4>3. i = j
          BY <4>1, <4>2 DEF Partition
        <4>4. y \in P /\ y \notin DOMAIN a.codes
          BY <2>2, <3>2, <4>2, <4>3 DEF Shared
        <4>. QED
          BY <2>4, <3>2, <4>1, <4>4
      <3>. QED
        BY <3>1, <3>2
    <2>8. Shared(r.codes, sets)
      BY <2>6, <2>7 DEF Shared
    <2>. QED
      BY <2>1, <2>3, <2>4, <2>6, <2>8 DEF Codings
  <1>. QED
    BY <1>1, <1>2

(* The rounds of the loop over a family.                                   *)
LEMMA CodeFamilyRounds ==
  ASSUME NEW sets, Partition(sets), NEW codes \in Maps(Code), Shared(codes, sets),
         NEW family \in Seq(Name), ToSet(family) \subseteq ToSet(numberName)
  PROVE  \E coded \in [0 .. Len(family) -> Codings(sets)] :
           /\ coded[0] = [codes |-> codes, index |-> 1]
           /\ \A n \in 1 .. Len(family) : coded[n] = CodeClass(sets, coded[n - 1], family[n])
           /\ CodeFamily(sets, codes, family) = coded[Len(family)]
  <1> DEFINE L == Len(family)
             S == Codings(sets)
             b == [codes |-> codes, index |-> 1]
             Step(a, n) == CodeClass(sets, a, family[n])
             step == [p \in S \X (1 .. L) |-> Step(p[1], p[2])]
  <1> DEFINE coded[i \in 0 .. Len(family)] ==
               IF i = 0 THEN [codes |-> codes, index |-> 1]
               ELSE CodeClass(sets, coded[i - 1], family[i])
  <1>1. CodeFamily(sets, codes, family) = coded[L]
    BY DEF CodeFamily
  <1>2. L \in Nat /\ \A n \in 1 .. L : family[n] \in ToSet(numberName)
    BY DEF ToSet
  <1>3. b \in S /\ b.codes = codes
    <2>1. 1 \in Code
      BY DEF Code
    <2>2. b.codes = codes /\ b \in [codes : Maps(Code), index : Code]
      BY <2>1
    <2>. QED
      BY <2>2 DEF Codings
  <1>4. ASSUME NEW a \in S, NEW n \in 1 .. L
        PROVE  Step(a, n) \in S
    <2> DEFINE c == family[n]
    <2>1. c \in ToSet(numberName) /\ a \in Codings(sets)
      BY <1>2
    <2> HIDE DEF c
    <2>2. CodeClass(sets, a, c) \in Codings(sets)
      BY <2>1, CodeClassKeeps
    <2>. QED
      BY <2>2 DEF c
  <1> HIDE DEF Step
  <1>5. step \in [S \X (1 .. L) -> S]
    <2>1. ASSUME NEW p \in S \X (1 .. L)
          PROVE  Step(p[1], p[2]) \in S
      <3>1. p[1] \in S /\ p[2] \in 1 .. L
        OBVIOUS
      <3>. QED
        BY <1>4, <3>1
    <2>. QED
      BY <2>1
  <1>6. \A x \in S : \A n \in 1 .. L : step[<<x, n>>] = Step(x, n)
    OBVIOUS
  <1> HIDE DEF step, S, b
  <1>7. PICK g \in [0 .. L -> S] : Solves(g, L, b, step)
    BY <1>2, <1>3, <1>5, Recursion
  <1>8. \A n \in 1 .. L : n # 0 /\ n - 1 \in 0 .. L /\ n \in 0 .. L
    BY <1>2
  <1>9. g = [i \in 0 .. L |-> IF i = 0 THEN b ELSE CodeClass(sets, g[i - 1], family[i])]
    <2>1. ASSUME NEW i \in 0 .. L
          PROVE  g[i] = IF i = 0 THEN b ELSE CodeClass(sets, g[i - 1], family[i])
      <3>1. CASE i = 0
        BY <1>7, <3>1 DEF Solves
      <3>2. CASE i # 0
        <4>1. i \in 1 .. L /\ g[i - 1] \in S
          BY <1>2, <1>7, <1>8, <3>2
        <4>2. g[i] = Step(g[i - 1], i)
          BY <1>6, <1>7, <4>1 DEF Solves
        <4>. QED
          BY <3>2, <4>2 DEF Step
      <3>. QED
        BY <3>1, <3>2
    <2>2. g = [i \in 0 .. L |-> g[i]]
      BY <1>7
    <2>. QED
      BY <2>1, <2>2
  <1>10. coded = [i \in 0 .. L |-> IF i = 0 THEN b
                                   ELSE CodeClass(sets, coded[i - 1], family[i])]
    BY <1>9 DEF b
  <1> HIDE DEF coded
  <1>11. coded = [i \in 0 .. L |-> coded[i]] /\ coded[0] = b
    BY <1>2, <1>10
  <1>12. \A n \in 1 .. L : coded[n] = Step(coded[n - 1], n)
    BY <1>8, <1>10 DEF Step
  <1>13. Follows(coded, S, L, b, step)
    BY <1>6, <1>11, <1>12 DEF Follows
  <1>14. coded \in [0 .. L -> S]
    BY <1>2, <1>3, <1>5, <1>13, LoopTyped
  <1>. QED
    BY <1>1, <1>11, <1>12, <1>14 DEF S, b, Step

(* Every target of a downcast in a family has a code when the family has   *)
(* been coded, and no class has lost one.                                  *)
LEMMA CodeFamilyKeeps ==
  ASSUME NEW sets, Partition(sets), NEW codes \in Maps(Code), Shared(codes, sets),
         NEW family \in Seq(Name), ToSet(family) \subseteq ToSet(numberName)
  PROVE  /\ CodeFamily(sets, codes, family) \in Codings(sets)
         /\ DOMAIN codes \subseteq DOMAIN CodeFamily(sets, codes, family).codes
         /\ \A c \in ToSet(family) \cap downCastVec :
              c \in DOMAIN CodeFamily(sets, codes, family).codes
  <1> DEFINE L == Len(family)
             S == Codings(sets)
  <1>1. PICK coded \in [0 .. L -> S] :
          /\ coded[0] = [codes |-> codes, index |-> 1]
          /\ \A n \in 1 .. L : coded[n] = CodeClass(sets, coded[n - 1], family[n])
          /\ CodeFamily(sets, codes, family) = coded[L]
    BY CodeFamilyRounds
  <1>2. L \in Nat /\ \A n \in 1 .. L : family[n] \in ToSet(numberName)
    BY DEF ToSet
  <1> DEFINE T == {n \in 0 .. L :
                     /\ DOMAIN codes \subseteq DOMAIN coded[n].codes
                     /\ \A i \in 1 .. n :
                          family[i] \in downCastVec => family[i] \in DOMAIN coded[n].codes}
  <1>15. 0 \in T
    BY <1>1, <1>2
  <1>16. ASSUME NEW n \in 0 .. L - 1, n \in T
         PROVE  n + 1 \in T
    <2>1. n + 1 \in 1 .. L /\ n + 1 \in 0 .. L /\ (n + 1) - 1 = n /\ n \in 0 .. L
      BY <1>2
    <2>2. coded[n + 1] = CodeClass(sets, coded[n], family[n + 1]) /\ coded[n] \in S
      BY <1>1, <2>1
    <2>3. /\ DOMAIN coded[n].codes \subseteq DOMAIN coded[n + 1].codes
          /\ family[n + 1] \in downCastVec => family[n + 1] \in DOMAIN coded[n + 1].codes
      BY <1>2, <2>1, <2>2, CodeClassKeeps
    <2>4. \A i \in 1 .. n + 1 : i \in 1 .. n \/ i = n + 1
      BY <2>1
    <2>5. DOMAIN codes \subseteq DOMAIN coded[n + 1].codes
      BY <1>16, <2>3
    <2>6. \A i \in 1 .. n + 1 :
            family[i] \in downCastVec => family[i] \in DOMAIN coded[n + 1].codes
      BY <1>16, <2>3, <2>4
    <2>. QED
      BY <2>1, <2>5, <2>6
  <1> HIDE DEF T
  <1>17. \A n \in 0 .. L : n \in T
    BY <1>2, <1>15, <1>16, Steps
  <1>18. L \in T /\ coded[L] \in S
    BY <1>1, <1>2, <1>17
  <1>19. \A c \in ToSet(family) \cap downCastVec : c \in DOMAIN coded[L].codes
    BY <1>18 DEF T, ToSet
  <1>20. DOMAIN codes \subseteq DOMAIN coded[L].codes
    BY <1>18 DEF T
  <1>. QED
    BY <1>1, <1>18, <1>19, <1>20 DEF S


(* What is coded family by family covers all families.                     *)
Results(sets) == {a \in [codes : Maps(Code), sizes : Maps(Nat)] : Shared(a.codes, sets)}

LEMMA AddFamilyKeeps ==
  ASSUME NEW sets, Partition(sets), NEW a \in Results(sets),
         NEW family \in Seq(Name), ToSet(family) \subseteq ToSet(numberName)
  PROVE  /\ AddFamily(sets, a, family) \in Results(sets)
         /\ DOMAIN a.codes \subseteq DOMAIN AddFamily(sets, a, family).codes
         /\ \A c \in ToSet(family) \cap downCastVec :
              c \in DOMAIN AddFamily(sets, a, family).codes
  <1> DEFINE f     == a.codes
             coded == CodeFamily(sets, f, family)
             old   == a.sizes
             D     == ToSet(family)
             size  == coded.index - 1
             sizes == Insert(old, D, size)
             r     == [codes |-> coded.codes, sizes |-> sizes]
  <1>1. AddFamily(sets, a, family) = r
    BY DEF AddFamily
  <1>2. f \in Maps(Code) /\ old \in Maps(Nat) /\ Shared(f, sets)
    BY DEF Results
  <1>3. D \subseteq ToSet(numberName)
    OBVIOUS
  <1> HIDE DEF f, old
  <1>4. /\ coded \in Codings(sets) /\ DOMAIN f \subseteq DOMAIN coded.codes
        /\ \A c \in ToSet(family) \cap downCastVec : c \in DOMAIN coded.codes
    BY <1>2, CodeFamilyKeeps
  <1>5. coded.codes \in Maps(Code) /\ coded.index \in Code /\ Shared(coded.codes, sets)
    BY <1>4 DEF Codings
  <1>6. size \in Nat
    BY <1>5 DEF Code
  <1> HIDE DEF size, D, coded
  <1>7. sizes \in Maps(Nat)
    BY <1>2, <1>3, <1>6, InsertTyped
  <1> HIDE DEF sizes
  <1>8. r.codes = coded.codes /\ r \in [codes : Maps(Code), sizes : Maps(Nat)]
    BY <1>5, <1>7
  <1>9. r \in Results(sets)
    BY <1>5, <1>8 DEF Results
  <1> HIDE DEF r
  <1>. QED
    BY <1>1, <1>4, <1>8, <1>9 DEF f

(* The rounds of the loop over all families.                               *)
LEMMA CodingRounds ==
  ASSUME NEW families \in Seq(Seq(Name)), Covered(families) \subseteq ToSet(numberName),
         NEW sets, Partition(sets)
  PROVE  \E result \in [0 .. Len(families) -> Results(sets)] :
           /\ result[0] = [codes |-> <<>>, sizes |-> <<>>]
           /\ \A n \in 1 .. Len(families) :
                result[n] = AddFamily(sets, result[n - 1], families[n])
           /\ codingFunc(families, sets) = result[Len(families)]
  <1> DEFINE L == Len(families)
             S == Results(sets)
             b == [codes |-> <<>>, sizes |-> <<>>]
             Step(a, n) == AddFamily(sets, a, families[n])
             step == [p \in S \X (1 .. L) |-> Step(p[1], p[2])]
  <1> DEFINE result[i \in 0 .. Len(families)] ==
               IF i = 0 THEN [codes |-> <<>>, sizes |-> <<>>]
               ELSE AddFamily(sets, result[i - 1], families[i])
  <1>1. codingFunc(families, sets) = result[L]
    BY DEF codingFunc
  <1>2. L \in Nat /\ \A n \in 1 .. L : families[n] \in Seq(Name)
                                       /\ ToSet(families[n]) \subseteq ToSet(numberName)
    <2>1. L \in Nat /\ DOMAIN families = 1 .. L /\ \A n \in 1 .. L : families[n] \in Seq(Name)
      OBVIOUS
    <2>2. \A n \in 1 .. L : ToSet(families[n]) \subseteq Covered(families)
      BY <2>1 DEF Covered
    <2>. QED
      BY <2>1, <2>2
  <1>3. b \in S
    <2>1. << >> \in Maps(Code) /\ << >> \in Maps(Nat)
      <3>1. DOMAIN << >> = {} /\ << >> = [x \in DOMAIN << >> |-> << >>[x]]
        OBVIOUS
      <3>. QED
        BY <3>1, MapTyped
    <2>2. b.codes = << >> /\ b \in [codes : Maps(Code), sizes : Maps(Nat)]
      BY <2>1
    <2>3. Shared(b.codes, sets)
      BY <2>2 DEF Shared
    <2>. QED
      BY <2>2, <2>3 DEF Results
  <1>4. ASSUME NEW a \in S, NEW n \in 1 .. L
        PROVE  Step(a, n) \in S
    <2> DEFINE family == families[n]
    <2>1. family \in Seq(Name) /\ ToSet(family) \subseteq ToSet(numberName)
          /\ a \in Results(sets)
      BY <1>2
    <2> HIDE DEF family
    <2>2. AddFamily(sets, a, family) \in Results(sets)
      BY <2>1, AddFamilyKeeps
    <2>. QED
      BY <2>2 DEF family
  <1> HIDE DEF Step
  <1>5. step \in [S \X (1 .. L) -> S]
    <2>1. ASSUME NEW p \in S \X (1 .. L)
          PROVE  Step(p[1], p[2]) \in S
      <3>1. p[1] \in S /\ p[2] \in 1 .. L
        OBVIOUS
      <3>. QED
        BY <1>4, <3>1
    <2>. QED
      BY <2>1
  <1>6. \A x \in S : \A n \in 1 .. L : step[<<x, n>>] = Step(x, n)
    OBVIOUS
  <1> HIDE DEF step, S, b
  <1>7. PICK g \in [0 .. L -> S] : Solves(g, L, b, step)
    BY <1>2, <1>3, <1>5, Recursion
  <1>8. \A n \in 1 .. L : n # 0 /\ n - 1 \in 0 .. L /\ n \in 0 .. L
    BY <1>2
  <1>9. g = [i \in 0 .. L |-> IF i = 0 THEN b ELSE AddFamily(sets, g[i - 1], families[i])]
    <2>1. ASSUME NEW i \in 0 .. L
          PROVE  g[i] = IF i = 0 THEN b ELSE AddFamily(sets, g[i - 1], families[i])
      <3>1. CASE i = 0
        BY <1>7, <3>1 DEF Solves
      <3>2. CASE i # 0
        <4>0. i \in 1 .. L /\ i - 1 \in 0 .. L
          BY <1>2, <3>2
        <4>1. i \in 1 .. L /\ g[i - 1] \in S
          BY <1>7, <4>0
        <4>2. g[i] = Step(g[i - 1], i)
          BY <1>6, <1>7, <4>1 DEF Solves
        <4>. QED
          BY <3>2, <4>2 DEF Step
      <3>. QED
        BY <3>1, <3>2
    <2>2. g = [i \in 0 .. L |-> g[i]]
      BY <1>7
    <2>. QED
      BY <2>1, <2>2
  <1>10. result = [i \in 0 .. L |-> IF i = 0 THEN b
                                    ELSE AddFamily(sets, result[i - 1], families[i])]
    BY <1>9 DEF b
  <1> HIDE DEF result
  <1>11. result = [i \in 0 .. L |-> result[i]] /\ result[0] = b
    BY <1>2, <1>10
  <1>12. \A n \in 1 .. L : result[n] = Step(result[n - 1], n)
    BY <1>8, <1>10 DEF Step
  <1>13. Follows(result, S, L, b, step)
    BY <1>6, <1>11, <1>12 DEF Follows
  <1>14. result \in [0 .. L -> S]
    BY <1>2, <1>3, <1>5, <1>13, LoopTyped
  <1>. QED
    BY <1>1, <1>11, <1>12, <1>14 DEF S, b, Step

LEMMA CodingFound ==
  ASSUME NEW families \in Seq(Seq(Name)), Covered(families) \subseteq ToSet(numberName),
         NEW sets, Partition(sets)
  PROVE  /\ codingFunc(families, sets) \in Results(sets)
         /\ Covered(families) \cap downCastVec \subseteq DOMAIN codingFunc(families, sets).codes
  <1> DEFINE L == Len(families)
             S == Results(sets)
  <1>1. PICK result \in [0 .. L -> S] :
          /\ result[0] = [codes |-> <<>>, sizes |-> <<>>]
          /\ \A n \in 1 .. L : result[n] = AddFamily(sets, result[n - 1], families[n])
          /\ codingFunc(families, sets) = result[L]
    BY CodingRounds
  <1>2. L \in Nat /\ \A n \in 1 .. L : families[n] \in Seq(Name)
                                       /\ ToSet(families[n]) \subseteq ToSet(numberName)
    <2>1. L \in Nat /\ DOMAIN families = 1 .. L /\ \A n \in 1 .. L : families[n] \in Seq(Name)
      OBVIOUS
    <2>2. \A n \in 1 .. L : ToSet(families[n]) \subseteq Covered(families)
      BY <2>1 DEF Covered
    <2>. QED
      BY <2>1, <2>2
  <1> DEFINE T == {n \in 0 .. L : \A i \in 1 .. n :
                     ToSet(families[i]) \cap downCastVec \subseteq DOMAIN result[n].codes}
  <1>15. 0 \in T
    BY <1>2
  <1>16. ASSUME NEW n \in 0 .. L - 1, n \in T
         PROVE  n + 1 \in T
    <2>1. n + 1 \in 1 .. L /\ n + 1 \in 0 .. L /\ (n + 1) - 1 = n /\ n \in 0 .. L
      BY <1>2
    <2>2. result[n + 1] = AddFamily(sets, result[n], families[n + 1]) /\ result[n] \in S
      BY <1>1, <2>1
    <2>3. /\ DOMAIN result[n].codes \subseteq DOMAIN result[n + 1].codes
          /\ \A c \in ToSet(families[n + 1]) \cap downCastVec :
               c \in DOMAIN result[n + 1].codes
      BY <1>2, <2>1, <2>2, AddFamilyKeeps
    <2>4. \A i \in 1 .. n + 1 : i \in 1 .. n \/ i = n + 1
      BY <2>1
    <2>5. \A i \in 1 .. n + 1 :
            ToSet(families[i]) \cap downCastVec \subseteq DOMAIN result[n + 1].codes
      BY <1>16, <2>3, <2>4
    <2>. QED
      BY <2>1, <2>5
  <1> HIDE DEF T
  <1>17. \A n \in 0 .. L : n \in T
    BY <1>2, <1>15, <1>16, Steps
  <1>18. L \in T /\ result[L] \in S
    BY <1>1, <1>2, <1>17
  <1>19. Covered(families) \cap downCastVec \subseteq DOMAIN result[L].codes
    <2>1. ASSUME NEW c \in Covered(families) \cap downCastVec
          PROVE  c \in DOMAIN result[L].codes
      <3>1. PICK i \in DOMAIN families : c \in ToSet(families[i])
        BY DEF Covered
      <3>2. i \in 1 .. L
        OBVIOUS
      <3>. QED
        BY <1>18, <3>1, <3>2 DEF T
    <2>. QED
      BY <2>1
  <1>. QED
    BY <1>1, <1>18, <1>19 DEF S


-----------------------------------------------------------------------------
(* The walk.                                                               *)

Mutual(edges) == \A e \in edges : <<e[2], e[1]>> \in edges

LEMMA BothMutual ==
  ASSUME NEW A, NEW B, NEW edges \in SUBSET (A \X B)
  PROVE  /\ Mutual(Both(edges)) /\ edges \subseteq Both(edges)
         /\ Both(edges) \subseteq (A \cup B) \X (A \cup B)
  <1>1. \A e \in edges : e = <<e[1], e[2]>> /\ e[1] \in A /\ e[2] \in B
    OBVIOUS
  <1>2. \A e \in Both(edges) : \/ e \in edges
                               \/ \E d \in edges : e = <<d[2], d[1]>>
    BY DEF Both
  <1>3. \A e \in edges : e \in Both(edges) /\ <<e[2], e[1]>> \in Both(edges)
    BY DEF Both
  <1>4. ASSUME NEW e \in Both(edges)
        PROVE  <<e[2], e[1]>> \in Both(edges) /\ e \in (A \cup B) \X (A \cup B)
    <2>1. CASE e \in edges
      BY <1>1, <1>3, <2>1
    <2>2. CASE \E d \in edges : e = <<d[2], d[1]>>
      <3>1. PICK d \in edges : e = <<d[2], d[1]>>
        BY <2>2
      <3>2. d = <<d[1], d[2]>> /\ d[1] \in A /\ d[2] \in B /\ d \in Both(edges)
        BY <1>1, <1>3
      <3>3. e[1] = d[2] /\ e[2] = d[1]
        BY <3>1
      <3>4. <<e[2], e[1]>> = d
        BY <3>2, <3>3
      <3>. QED
        BY <3>1, <3>2, <3>4
    <2>. QED
      BY <1>2, <2>1, <2>2
  <1>. QED
    BY <1>3, <1>4 DEF Mutual

LEMMA MutualUnion ==
  ASSUME NEW A, NEW B, Mutual(A), Mutual(B)
  PROVE  Mutual(A \cup B)
  BY DEF Mutual

LEMMA PhantomsTyped ==
  ASSUME NEW c \in Class, NEW bases \in SUBSET Class
  PROVE  /\ Mutual(Phantoms(c, bases))
         /\ Phantoms(c, bases) \subseteq (bases \cup {c}) \X (bases \cup {c})
  <1> DEFINE edges == {<<c, b>> : b \in {x \in bases : Size[x] = Size[c]}}
             A     == {c}
  <1>1. edges \in SUBSET (A \X bases)
    OBVIOUS
  <1>2. Phantoms(c, bases) = Both(edges)
    BY DEF Phantoms
  <1>3. A \cup bases = bases \cup {c}
    OBVIOUS
  <1> HIDE DEF edges, A
  <1>4. Mutual(Both(edges)) /\ Both(edges) \subseteq (A \cup bases) \X (A \cup bases)
    BY <1>1, BothMutual
  <1>. QED
    BY <1>2, <1>3, <1>4

LEMMA AllBasesClasses ==
  ASSUME NEW c \in Class
  PROVE  /\ AllBasesOf[c] \in Seq(Class) /\ ToSet(AllBasesOf[c]) = AllBases(c)
         /\ AllBases(c) \subseteq Class
  BY AllBasesTyped, ToSetTyped DEF AllBases

LEMMA CollectedTyped ==
  ASSUME NEW c \in Class
  PROVE  CollectAllBases(WrittenBases(c)) \in Seq(Class)
  <1> DEFINE direct == WrittenBases(c)
  <1>1. direct \in Seq(Class)
    BY WrittenTyped
  <1> HIDE DEF direct
  <1>2. \A i \in DOMAIN direct : direct[i] \in Class
    BY <1>1
  <1>3. \A i \in DOMAIN direct : AllBasesOf[direct[i]] \in Seq(Class)
    BY <1>2, AllBasesTyped
  <1>4. Below(direct, AllBasesOf) \in Seq(Class)
    BY <1>1, <1>3, BelowTyped
  <1>. QED
    BY <1>4 DEF CollectAllBases, direct

LEMMA CollectedAll ==
  ASSUME NEW c \in Class, DependentBase = {}
  PROVE  CollectAllBases(WrittenBases(c)) = AllBasesOf[c]
  <1>1. WrittenBases(c) = Bases[c]
    BY WrittenTyped
  <1>. QED
    BY <1>1, AllBasesTyped DEF CollectAllBases

LEMMA OffsetZeroNamesTyped ==
  ASSUME NEW c \in Class
  PROVE  OffsetZeroNames(c) \in Seq(FieldName)
  <1> DEFINE Field == [name : FieldName, type : Class]
             fields == OffsetZero[c]
  <1>1. fields \in Seq(Field)
    BY ClassAssumption
  <1>2. \A f \in Field : f.name \in FieldName
    OBVIOUS
  <1> HIDE DEF Field
  <1> HIDE DEF fields
  <1>3. Len(fields) \in Nat /\ DOMAIN fields = 1 .. Len(fields)
        /\ \A i \in DOMAIN fields : fields[i] \in Field
    BY <1>1
  <1>4. [i \in DOMAIN fields |-> fields[i].name] \in Seq(FieldName)
    BY <1>2, <1>3
  <1>. QED
    BY <1>4 DEF OffsetZeroNames, fields

LEMMA NamesMore ==
  ASSUME NEW X, NEW Y, NEW s \in Seq(X)
  PROVE  s \in Seq(X \cup Y)
  OBVIOUS


-----------------------------------------------------------------------------
(* The invariant.  The names behind the edges are numbered, so that every  *)
(* class of an edge is in a set of the search; phantoms are linked both    *)
(* ways, so that such a set is closed.                                     *)

Gathered ==
  /\ program \in Programs /\ numberName \in Seq(Name)
  /\ downCastVec \subseteq declared /\ Mutual(graph_phantoms)

IInv == TypeOK /\ Gathered /\ TargetsCoded /\ PhantomsShareCode

Among(edges, S) == edges \subseteq S \X S

Walked ==
  /\ program' = program
  /\ numberName' \in Seq(Name) /\ IsInjective(numberName')
  /\ ToSet(numberName) \subseteq ToSet(numberName')
  /\ Among(graph' \cup graph_phantoms', ToSet(numberName')) /\ Mutual(graph_phantoms')
  /\ relations' \in [Class -> SUBSET Class]
  /\ declared \subseteq declared' /\ declared' \subseteq Class \cap ToSet(numberName')

LEMMA NumberedNames ==
  ASSUME numberName \in Seq(Name), IsInjective(numberName),
         NEW names \in Seq(Name), Number(names)
  PROVE  /\ numberName' \in Seq(Name) /\ IsInjective(numberName')
         /\ ToSet(numberName') = ToSet(numberName) \cup ToSet(names)
  BY KnownNames DEF Number

LEMMA VisitStep ==
  ASSUME TypeOK, Gathered, NEW c \in Class, VisitCXXRecordDecl(c)
  PROVE  Walked
  <1> DEFINE bases == CollectAllBases(WrittenBases(c))
             names == OffsetZeroNames(c) \o bases
             known == <<c>> \o names
             N     == ToSet(numberName')
  <1>1. /\ ToSet(bases) \cup OffsetZeroTypes(c) \subseteq declared
        /\ Number(known)
        /\ graph' = graph \cup Both({c} \X ToSet(names))
        /\ graph_phantoms' = graph_phantoms \cup
             (IF c \in Template THEN {} ELSE Phantoms(c, ToSet(bases)))
        /\ relations' = [relations EXCEPT ![c] = @ \cup ToSet(bases)]
        /\ declared' = declared \cup {c}
        /\ program' = program
    BY DEF VisitCXXRecordDecl
  <1>2. bases \in Seq(Class) /\ OffsetZeroNames(c) \in Seq(FieldName)
    BY CollectedTyped, OffsetZeroNamesTyped
  <1> HIDE DEF bases
  <1>3. ToSet(bases) \subseteq Class
    BY <1>2, ToSetTyped
  <1>4. bases \in Seq(Name) /\ OffsetZeroNames(c) \in Seq(Name) /\ <<c>> \in Seq(Name)
    BY <1>2 DEF Name
  <1>5. names \in Seq(Name) /\ ToSet(names) = ToSet(OffsetZeroNames(c)) \cup ToSet(bases)
    BY <1>4, ToSetConcat
  <1> HIDE DEF names
  <1>6. ToSet(<<c>>) = {c}
    BY DEF ToSet
  <1>7. known \in Seq(Name) /\ ToSet(known) = {c} \cup ToSet(names)
    <2> DEFINE one == <<c>>
    <2>1. one \in Seq(Name) /\ ToSet(one) = {c} /\ names \in Seq(Name)
      BY <1>4, <1>5, <1>6
    <2> HIDE DEF one
    <2>2. one \o names \in Seq(Name) /\ ToSet(one \o names) = ToSet(one) \cup ToSet(names)
      BY <2>1, ToSetConcat
    <2>. QED
      BY <2>1, <2>2 DEF one
  <1> HIDE DEF known
  <1>8. numberName \in Seq(Name) /\ IsInjective(numberName)
    BY DEF TypeOK, Gathered
  <1>9. numberName' \in Seq(Name) /\ IsInjective(numberName')
        /\ N = ToSet(numberName) \cup ToSet(known)
    BY <1>1, <1>7, <1>8, NumberedNames
  <1> HIDE DEF N
  <1>10. {c} \cup ToSet(names) \subseteq N /\ ToSet(bases) \cup {c} \subseteq N
    BY <1>5, <1>7, <1>9
  <1>11. Among(Both({c} \X ToSet(names)), N)
    <2> DEFINE A     == {c}
               B     == ToSet(names)
               edges == A \X B
    <2>1. edges \in SUBSET (A \X B)
      OBVIOUS
    <2>2. A \cup B \subseteq N
      BY <1>10
    <2> HIDE DEF A, B, edges
    <2>3. Both(edges) \subseteq (A \cup B) \X (A \cup B)
      BY <2>1, BothMutual
    <2>4. Both(edges) \subseteq N \X N
      BY <2>2, <2>3
    <2>. QED
      BY <2>4 DEF Among, A, B, edges
  <1>12. Mutual(Phantoms(c, ToSet(bases))) /\ Among(Phantoms(c, ToSet(bases)), N)
    BY <1>3, <1>10, PhantomsTyped DEF Among
  <1>13. graph \cup graph_phantoms \subseteq N \X N /\ Mutual(graph_phantoms)
    BY <1>9 DEF TypeOK, Gathered
  <1>14. graph' \cup graph_phantoms' \subseteq N \X N
    BY <1>1, <1>11, <1>12, <1>13 DEF Among
  <1>15. Mutual(graph_phantoms')
    <2>1. CASE c \in Template
      BY <1>1, <1>13, <2>1
    <2>2. CASE c \notin Template
      BY <1>1, <1>12, <1>13, <2>2, MutualUnion
    <2>. QED
      BY <2>1, <2>2
  <1>16. relations' \in [Class -> SUBSET Class]
    BY <1>1, <1>3 DEF TypeOK
  <1>17. declared \subseteq declared' /\ declared' \subseteq Class \cap N
    BY <1>1, <1>9, <1>10 DEF TypeOK
  <1>. QED
    BY <1>1, <1>9, <1>14, <1>15, <1>16, <1>17 DEF Walked, Among, N

LEMMA RelationStep ==
  ASSUME TypeOK, Gathered, NEW c \in Class, NEW S \in SUBSET Class, addRelationShip(c, S)
  PROVE  Walked /\ declared' = declared /\ S \subseteq declared
  <1> DEFINE known == <<c>> \o AllBasesOf[c]
             N     == ToSet(numberName')
             kin   == UNION {FamilyEdges(d) : d \in S}
             same  == UNION {Phantoms(d, AllBases(d)) : d \in S}
  <1>1. /\ S \cup UNION {AllBases(d) : d \in S} \subseteq declared
        /\ Number(known)
        /\ graph' = graph \cup kin
        /\ graph_phantoms' = graph_phantoms \cup same
        /\ relations' = [d \in Class |-> relations[d] \cup IF d \in S THEN AllBases(d) ELSE {}]
        /\ program' = program /\ declared' = declared
    BY DEF addRelationShip
  <1>2. AllBasesOf[c] \in Seq(Name) /\ <<c>> \in Seq(Name)
    BY AllBasesClasses DEF Name
  <1>3. known \in Seq(Name)
    BY <1>2
  <1> HIDE DEF known
  <1>4. numberName \in Seq(Name) /\ IsInjective(numberName)
    BY DEF TypeOK, Gathered
  <1>5. numberName' \in Seq(Name) /\ IsInjective(numberName')
        /\ N = ToSet(numberName) \cup ToSet(known)
    BY <1>1, <1>3, <1>4, NumberedNames
  <1> HIDE DEF N
  <1>6. declared \subseteq Class \cap N /\ graph \cup graph_phantoms \subseteq N \X N
        /\ Mutual(graph_phantoms)
    BY <1>5 DEF TypeOK, Gathered
  <1>7. ASSUME NEW d \in S
        PROVE  d \in N /\ AllBases(d) \subseteq N
    BY <1>1, <1>6
  <1>8. \A e \in kin : e \in N \X N
    <2>1. ASSUME NEW d \in S, NEW e \in FamilyEdges(d)
          PROVE  e \in N \X N
      BY <1>7 DEF FamilyEdges
    <2>. QED
      BY <2>1
  <1>9. ASSUME NEW d \in S
        PROVE  Mutual(Phantoms(d, AllBases(d))) /\ Among(Phantoms(d, AllBases(d)), N)
    <2> DEFINE bases == AllBases(d)
    <2>1. d \in Class /\ bases \in SUBSET Class /\ bases \cup {d} \subseteq N
      BY <1>7, AllBasesClasses
    <2> HIDE DEF bases
    <2>2. Mutual(Phantoms(d, bases)) /\ Among(Phantoms(d, bases), N)
      BY <2>1, PhantomsTyped DEF Among
    <2>. QED
      BY <2>2 DEF bases
  <1>10. Mutual(same) /\ \A e \in same : e \in N \X N
    <2>1. ASSUME NEW d \in S, NEW e \in Phantoms(d, AllBases(d))
          PROVE  e \in N \X N /\ <<e[2], e[1]>> \in same
      BY <1>9, <2>1 DEF Among, Mutual
    <2>. QED
      BY <2>1 DEF Mutual
  <1> HIDE DEF kin, same
  <1>11. graph' \cup graph_phantoms' \subseteq N \X N
    BY <1>1, <1>6, <1>8, <1>10
  <1>12. Mutual(graph_phantoms')
    BY <1>1, <1>6, <1>10, MutualUnion
  <1>13. relations' \in [Class -> SUBSET Class]
    BY <1>1, AllBasesClasses DEF TypeOK
  <1>14. declared' \subseteq Class \cap N
    BY <1>1, <1>6
  <1>. QED
    BY <1>1, <1>5, <1>11, <1>12, <1>13, <1>14 DEF Walked, Among, N


(* A step of the walk before the files are written.                        *)
LEMMA WalkedKeeps ==
  ASSUME IInv, Walked, ~written, UNCHANGED <<fileVars, moduleTypes, firstType>>,
         downCastVec' \subseteq checked' \cap declared', checked' \subseteq Class,
         basedCastClass' \subseteq Class
  PROVE  IInv'
  <1>1. TypeOK /\ Gathered
    BY DEF IInv
  <1>2. /\ bitypeCodeMap' = bitypeCodeMap /\ written' = written
        /\ bitypeCastRelatedClass' = bitypeCastRelatedClass
        /\ BitypeInheritanceSet' = BitypeInheritanceSet
        /\ moduleTypes' = moduleTypes /\ firstType' = firstType
    BY DEF fileVars
  <1>3. /\ program' = program /\ numberName' \in Seq(Name) /\ IsInjective(numberName')
        /\ ToSet(numberName) \subseteq ToSet(numberName')
        /\ graph' \cup graph_phantoms' \subseteq ToSet(numberName') \X ToSet(numberName')
        /\ Mutual(graph_phantoms')
        /\ relations' \in [Class -> SUBSET Class]
        /\ declared \subseteq declared' /\ declared' \subseteq Class \cap ToSet(numberName')
    BY DEF Walked, Among
  <1>4. /\ Coded \subseteq ToSet(numberName) /\ Related \subseteq Class
        /\ bitypeCodeMap \in [Coded -> Nat \ {0}]
        /\ bitypeCastRelatedClass \in [Related -> Nat \ {0}]
        /\ DOMAIN BitypeInheritanceSet \subseteq Class
        /\ written \in BOOLEAN /\ moduleTypes \subseteq declared /\ firstType \in Class
    BY <1>1 DEF TypeOK
  <1>5. Coded' = Coded /\ Related' = Related
    BY <1>2 DEF Coded, Related
  <1>6. Coded' \subseteq ToSet(numberName') /\ moduleTypes' \subseteq declared'
    BY <1>2, <1>3, <1>4, <1>5
  <1>7. bitypeCodeMap' \in [Coded' -> Nat \ {0}]
        /\ bitypeCastRelatedClass' \in [Related' -> Nat \ {0}]
    BY <1>2, <1>4, <1>5
  <1>8. TypeOK'
    BY <1>2, <1>3, <1>4, <1>5, <1>6, <1>7 DEF TypeOK
  <1>9. Gathered'
    BY <1>1, <1>3 DEF Gathered
  <1>10. TargetsCoded' /\ PhantomsShareCode'
    BY <1>2 DEF TargetsCoded, PhantomsShareCode
  <1>. QED
    BY <1>8, <1>9, <1>10 DEF IInv

LEMMA WalkKeeps ==
  ASSUME IInv, ~written, Walk, UNCHANGED <<fileVars, moduleTypes, firstType>>
  PROVE  IInv'
  <1>1. TypeOK /\ Gathered
    BY DEF IInv
  <1>2. /\ downCastVec \subseteq checked \cap declared /\ checked \subseteq Class
        /\ basedCastClass \subseteq Class /\ program \subseteq Class
    BY <1>1, ClassAssumption DEF TypeOK, Gathered
  <1>3. ASSUME NEW c \in program, VisitCXXRecordDecl(c)
        PROVE  IInv'
    <2>1. Walked
      BY <1>1, <1>2, <1>3, VisitStep
    <2>2. UNCHANGED castVars
      BY <1>3 DEF VisitCXXRecordDecl
    <2>3. downCastVec' \subseteq checked' \cap declared' /\ checked' \subseteq Class
          /\ basedCastClass' \subseteq Class
      BY <1>2, <2>1, <2>2 DEF castVars, Walked
    <2>. QED
      BY <2>1, <2>3, WalkedKeeps
  <1>4. ASSUME NEW c \in program, NEW S \in SUBSET Class, addRelationShip(c, S),
               UNCHANGED castVars
        PROVE  IInv'
    <2>1. Walked
      BY <1>1, <1>2, <1>4, RelationStep
    <2>2. downCastVec' \subseteq checked' \cap declared' /\ checked' \subseteq Class
          /\ basedCastClass' \subseteq Class
      BY <1>2, <1>4, <2>1 DEF castVars, Walked
    <2>. QED
      BY <2>1, <2>2, WalkedKeeps
  <1>5. ASSUME NEW c \in program, DerivedToBase(c)
        PROVE  IInv'
    <2> DEFINE S == {c} \cup AllBases(c)
    <2>1. S \in SUBSET Class
      BY <1>2, AllBasesClasses
    <2>2. addRelationShip(c, S) /\ UNCHANGED castVars
      BY <1>5 DEF DerivedToBase
    <2> HIDE DEF S
    <2>. QED
      BY <1>4, <2>1, <2>2
  <1>6. ASSUME NEW c \in program, BitCast(c)
        PROVE  IInv'
    <2> DEFINE S == {c}
    <2>1. S \in SUBSET Class
      BY <1>2
    <2>2. addRelationShip(c, S) /\ UNCHANGED castVars
      BY <1>6 DEF BitCast
    <2> HIDE DEF S
    <2>. QED
      BY <1>4, <2>1, <2>2
  <1>7. ASSUME NEW derived \in program, NEW base \in AllBases(derived),
               BaseToDerived(base, derived)
        PROVE  IInv'
    <2> DEFINE S == {derived} \cup AllBases(derived)
    <2>1. S \in SUBSET Class /\ derived \in S /\ derived \in Class /\ base \in Class
      BY <1>2, AllBasesClasses
    <2>2. /\ addRelationShip(derived, S)
          /\ downCastVec' = downCastVec \cup {derived}
          /\ basedCastClass' = basedCastClass \cup {base}
          /\ checked' = checked \cup {derived}
      BY <1>7 DEF BaseToDerived
    <2> HIDE DEF S
    <2>3. Walked /\ declared' = declared /\ S \subseteq declared
      BY <1>1, <2>1, <2>2, RelationStep
    <2>4. downCastVec' \subseteq checked' \cap declared' /\ checked' \subseteq Class
          /\ basedCastClass' \subseteq Class
      BY <1>2, <2>1, <2>2, <2>3
    <2>. QED
      BY <2>3, <2>4, WalkedKeeps
  <1>8. ASSUME NEW derived \in program, InstantiatedCast(derived)
        PROVE  IInv'
    <2>1. /\ checked' = checked \cup {derived} /\ downCastVec' = downCastVec
          /\ basedCastClass' = basedCastClass /\ UNCHANGED graphVars
      BY <1>8 DEF InstantiatedCast
    <2>2. Walked
      BY <1>1, <2>1 DEF Walked, Among, graphVars, TypeOK, Gathered
    <2>3. downCastVec' \subseteq checked' \cap declared' /\ checked' \subseteq Class
          /\ basedCastClass' \subseteq Class
      BY <1>2, <2>1, <2>2 DEF Walked
    <2>. QED
      BY <2>2, <2>3, WalkedKeeps
  <1>. QED
    BY <1>3, <1>5, <1>6, <1>7, <1>8 DEF Walk

-----------------------------------------------------------------------------
(* The files.                                                              *)

(* The sets of a search through phantoms are its classes, each in one.     *)
LEMMA PhantomSetsFound ==
  ASSUME TypeOK, Gathered
  PROVE  /\ DFS(graph_phantoms) \in Seq(Seq(Name)) /\ Partition(DFS(graph_phantoms))
         /\ \A e \in graph_phantoms : \E i \in DOMAIN DFS(graph_phantoms) :
              {e[1], e[2]} \subseteq ToSet(DFS(graph_phantoms)[i])
  <1> DEFINE sets == DFS(graph_phantoms)
  <1>1. /\ numberName \in Seq(Name) /\ Mutual(graph_phantoms)
        /\ graph_phantoms \subseteq ToSet(numberName) \X ToSet(numberName)
    BY DEF TypeOK, Gathered
  <1>2. sets \in Seq(Seq(Name)) /\ Split(sets, graph_phantoms)
        /\ Covered(sets) = ToSet(numberName)
    BY <1>1, DFSSplits
  <1> HIDE DEF sets
  <1>3. Symmetric(graph_phantoms)
    BY <1>1 DEF Symmetric, Mutual
  <1>4. ASSUME NEW e \in graph_phantoms
        PROVE  \E i \in DOMAIN sets : {e[1], e[2]} \subseteq ToSet(sets[i])
    <2>1. e[1] \in ToSet(numberName) /\ e[2] \in ToSet(numberName) /\ e = <<e[1], e[2]>>
      BY <1>1
    <2>2. PICK i \in DOMAIN sets : e[1] \in ToSet(sets[i])
      BY <1>2, <2>1 DEF Covered
    <2>3. Closed(ToSet(sets[i]), graph_phantoms)
      BY <1>2, <1>3 DEF Split
    <2>4. e[2] \in ToSet(sets[i])
      BY <2>1, <2>2, <2>3 DEF Closed
    <2>. QED
      BY <2>2, <2>4
  <1>5. Partition(sets)
    BY <1>2 DEF Split, Partition
  <1>. QED
    BY <1>2, <1>4, <1>5 DEF sets

LEMMA WriteFilesKeeps ==
  ASSUME IInv, WriteFiles, UNCHANGED <<moduleTypes, firstType>>
  PROVE  IInv'
  <1> DEFINE families == DFS(graph)
             sets     == DFS(graph_phantoms)
             result   == codingFunc(families, sets)
             related  == {c \in castrelatedClass \cap DOMAIN result.sizes :
                            result.sizes[c] > 0}
  <1>1. TypeOK /\ Gathered
    BY DEF IInv
  <1>2. /\ written' = TRUE /\ bitypeCodeMap' = result.codes
        /\ bitypeCastRelatedClass' = [c \in related |-> result.sizes[c]]
        /\ BitypeInheritanceSet' =
             [c \in {x \in castrelatedClass : SafeCast(x) # {}} |-> SafeCast(c)]
        /\ UNCHANGED <<graphVars, castVars>>
    BY DEF WriteFiles
  <1>3. numberName \in Seq(Name)
    BY <1>1 DEF Gathered
  <1>4. /\ families \in Seq(Seq(Name)) /\ Covered(families) = ToSet(numberName)
        /\ Partition(sets)
        /\ \A e \in graph_phantoms : \E i \in DOMAIN sets :
             {e[1], e[2]} \subseteq ToSet(sets[i])
    BY <1>1, <1>3, DFSSplits, PhantomSetsFound
  <1> HIDE DEF families, sets
  <1>5. result \in Results(sets) /\ ToSet(numberName) \cap downCastVec \subseteq DOMAIN result.codes
    BY <1>4, CodingFound
  <1> HIDE DEF result
  <1>6. result.codes \in Maps(Code) /\ result.sizes \in Maps(Nat) /\ Shared(result.codes, sets)
    BY <1>5 DEF Results
  <1>7. castrelatedClass \subseteq Class
    BY <1>1 DEF castrelatedClass, TypeOK
  <1>8. /\ program' = program /\ numberName' = numberName /\ graph' = graph
        /\ graph_phantoms' = graph_phantoms /\ relations' = relations /\ declared' = declared
        /\ downCastVec' = downCastVec /\ basedCastClass' = basedCastClass
        /\ checked' = checked /\ moduleTypes' = moduleTypes /\ firstType' = firstType
    BY <1>2 DEF graphVars, castVars
  <1>9. DOMAIN bitypeCodeMap' \subseteq ToSet(numberName)
        /\ bitypeCodeMap' \in [DOMAIN bitypeCodeMap' -> Nat \ {0}]
    <2> DEFINE f == result.codes
    <2>1. f \in Maps(Code)
      BY <1>6
    <2> HIDE DEF f
    <2>2. /\ f = [x \in DOMAIN f |-> f[x]] /\ DOMAIN f \subseteq ToSet(numberName)
          /\ \A x \in DOMAIN f : f[x] \in Code
      BY <2>1, MapTyped
    <2>3. f \in [DOMAIN f -> Nat \ {0}]
      BY <2>2 DEF Code
    <2>. QED
      BY <1>2, <2>2, <2>3 DEF f
  <1>10. DOMAIN bitypeCastRelatedClass' \subseteq Class
         /\ bitypeCastRelatedClass' \in [DOMAIN bitypeCastRelatedClass' -> Nat \ {0}]
    <2> DEFINE f == result.sizes
    <2>1. f \in Maps(Nat)
      BY <1>6
    <2> HIDE DEF f
    <2>2. \A x \in DOMAIN f : f[x] \in Nat
      BY <2>1, MapTyped
    <2>3. \A c \in related : c \in Class /\ f[c] \in Nat \ {0}
      BY <1>7, <2>2 DEF f
    <2> HIDE DEF related
    <2>4. [c \in related |-> f[c]] \in [related -> Nat \ {0}]
      BY <2>3
    <2>. QED
      BY <1>2, <2>3, <2>4 DEF f
  <1>11. DOMAIN BitypeInheritanceSet' \subseteq Class
    BY <1>2, <1>7
  <1>12. TypeOK'
    BY <1>1, <1>2, <1>8, <1>9, <1>10, <1>11 DEF TypeOK, Coded, Related
  <1>13. Gathered'
    BY <1>1, <1>8 DEF Gathered
  <1>14. downCastVec \subseteq DOMAIN result.codes
    BY <1>1, <1>5 DEF TypeOK, Gathered
  <1>15. TargetsCoded'
    BY <1>2, <1>8, <1>14 DEF TargetsCoded, Coded
  <1>16. ASSUME NEW e \in graph_phantoms, e[1] \in DOMAIN result.codes
         PROVE  e[2] \in DOMAIN result.codes /\ result.codes[e[1]] = result.codes[e[2]]
    <2>1. PICK i \in DOMAIN sets : {e[1], e[2]} \subseteq ToSet(sets[i])
      BY <1>4
    <2>. QED
      BY <1>6, <1>16, <2>1 DEF Shared
  <1>17. PhantomsShareCode'
    BY <1>2, <1>8, <1>16 DEF PhantomsShareCode, Coded
  <1>. QED
    BY <1>12, <1>13, <1>15, <1>17 DEF IInv


-----------------------------------------------------------------------------
(* The compiler.                                                           *)

LEMMA ReachedContains ==
  ASSUME NEW S, NEW edges, IsFiniteSet(edges)
  PROVE  S \subseteq ReachedFrom(S, edges)
  <1> DEFINE L    == Cardinality(edges)
             V    == S \cup {e[2] : e \in edges}
             All  == SUBSET V
             step == [p \in All \X (1 .. L) |-> Spread(p[1], edges)]
  <1> DEFINE reached[n \in 0 .. Cardinality(edges)] ==
               IF n = 0 THEN S ELSE Spread(reached[n - 1], edges)
  <1>1. ReachedFrom(S, edges) = reached[L]
    BY DEF ReachedFrom
  <1>2. L \in Nat
    BY FS_CardinalityType
  <1>3. S \in All
    OBVIOUS
  <1>4. ASSUME NEW R \in All
        PROVE  Spread(R, edges) \in All /\ R \subseteq Spread(R, edges)
    BY DEF Spread
  <1>5. step \in [All \X (1 .. L) -> All]
    <2>1. ASSUME NEW p \in All \X (1 .. L)
          PROVE  Spread(p[1], edges) \in All
      <3>1. p[1] \in All
        OBVIOUS
      <3>. QED
        BY <1>4, <3>1
    <2>. QED
      BY <2>1
  <1>6. \A x \in All : \A n \in 1 .. L : step[<<x, n>>] = Spread(x, edges)
    OBVIOUS
  <1> HIDE DEF step, All, L
  <1>7. PICK g \in [0 .. L -> All] : Solves(g, L, S, step)
    BY <1>2, <1>3, <1>5, Recursion
  <1>8. \A n \in 1 .. L : n # 0 /\ n - 1 \in 0 .. L /\ n \in 0 .. L
    BY <1>2
  <1>9. g = [i \in 0 .. L |-> IF i = 0 THEN S ELSE Spread(g[i - 1], edges)]
    <2>1. ASSUME NEW i \in 0 .. L
          PROVE  g[i] = IF i = 0 THEN S ELSE Spread(g[i - 1], edges)
      <3>1. CASE i = 0
        BY <1>7, <3>1 DEF Solves
      <3>2. CASE i # 0
        <4>1. i \in 1 .. L /\ i - 1 \in 0 .. L
          BY <1>2, <3>2
        <4>2. g[i - 1] \in All
          BY <1>7, <4>1
        <4>3. g[i] = Spread(g[i - 1], edges)
          BY <1>6, <1>7, <4>1, <4>2 DEF Solves
        <4>. QED
          BY <3>2, <4>3
      <3>. QED
        BY <3>1, <3>2
    <2>2. g = [i \in 0 .. L |-> g[i]]
      BY <1>7
    <2>. QED
      BY <2>1, <2>2
  <1>10. reached = [n \in 0 .. L |-> IF n = 0 THEN S ELSE Spread(reached[n - 1], edges)]
    BY <1>9 DEF L
  <1> HIDE DEF reached
  <1>11. reached = [i \in 0 .. L |-> reached[i]] /\ reached[0] = S
    BY <1>2, <1>10
  <1>12. \A n \in 1 .. L : reached[n] = Spread(reached[n - 1], edges)
    BY <1>8, <1>10
  <1>13. Follows(reached, All, L, S, step)
    BY <1>6, <1>11, <1>12 DEF Follows
  <1>14. reached \in [0 .. L -> All]
    BY <1>2, <1>3, <1>5, <1>13, LoopTyped
  <1> DEFINE T == {n \in 0 .. L : S \subseteq reached[n]}
  <1>15. 0 \in T
    BY <1>2, <1>11
  <1>16. ASSUME NEW n \in 0 .. L - 1, n \in T
         PROVE  n + 1 \in T
    <2>1. n + 1 \in 1 .. L /\ n + 1 \in 0 .. L /\ (n + 1) - 1 = n /\ n \in 0 .. L
      BY <1>2
    <2>2. reached[n + 1] = Spread(reached[n], edges) /\ reached[n] \in All
      BY <1>12, <1>14, <2>1
    <2>3. S \subseteq reached[n]
      BY <1>16
    <2>4. reached[n] \subseteq Spread(reached[n], edges)
      BY <1>4, <2>2
    <2>. QED
      BY <2>1, <2>2, <2>3, <2>4
  <1> HIDE DEF T
  <1>17. \A n \in 0 .. L : n \in T
    BY <1>2, <1>15, <1>16, Steps
  <1>18. L \in T
    BY <1>2, <1>17
  <1>. QED
    BY <1>1, <1>18 DEF T

LEMMA LayableDeclared ==
  ASSUME TypeOK, Gathered, NEW c, Layable(c)
  PROVE  c \in declared
  <1> DEFINE edges == UNION {{d} \X (AllBases(d) \cup (ElementTypes(d) \cap Class)) :
                               d \in program}
             S == {c}
  <1>1. ReachedFrom(S, edges) \subseteq declared
    BY DEF Layable
  <1>2. program \subseteq Class
    BY ClassAssumption DEF Gathered
  <1>3. edges \subseteq Class \X Class
    <2>1. ASSUME NEW d \in program
          PROVE  {d} \X (AllBases(d) \cup (ElementTypes(d) \cap Class)) \subseteq Class \X Class
      BY <1>2, AllBasesClasses
    <2>. QED
      BY <2>1
  <1> HIDE DEF edges
  <1>4. IsFiniteSet(Class \X Class)
    BY ClassAssumption, FS_Product
  <1>5. IsFiniteSet(edges)
    BY <1>3, <1>4, FS_Subset
  <1>6. S \subseteq ReachedFrom(S, edges)
    BY <1>5, ReachedContains
  <1>. QED
    BY <1>1, <1>6

LEMMA CompileKeeps ==
  ASSUME IInv, Compile
  PROVE  IInv'
  <1>1. TypeOK /\ Gathered
    BY DEF IInv
  <1>2. PICK types \in Modules :
          moduleTypes' = {c \in types : Layable(c)} /\ firstType' \in moduleTypes'
    BY DEF Compile
  <1>3. moduleTypes' \subseteq declared
    BY <1>1, <1>2, LayableDeclared
  <1>4. UNCHANGED <<graphVars, castVars, fileVars>>
    BY DEF Compile
  <1>5. /\ program' = program /\ numberName' = numberName /\ graph' = graph
        /\ graph_phantoms' = graph_phantoms /\ relations' = relations /\ declared' = declared
        /\ downCastVec' = downCastVec /\ basedCastClass' = basedCastClass
        /\ checked' = checked /\ written' = written
        /\ bitypeCodeMap' = bitypeCodeMap
        /\ bitypeCastRelatedClass' = bitypeCastRelatedClass
        /\ BitypeInheritanceSet' = BitypeInheritanceSet
    BY <1>4 DEF graphVars, castVars, fileVars
  <1>6. declared \subseteq Class
    BY <1>1 DEF TypeOK
  <1>7. moduleTypes' \subseteq declared' /\ firstType' \in Class
    BY <1>2, <1>3, <1>5, <1>6
  <1>8. TypeOK'
    BY <1>1, <1>5, <1>7 DEF TypeOK, Coded, Related
  <1>9. Gathered'
    BY <1>1, <1>5 DEF Gathered
  <1>10. TargetsCoded' /\ PhantomsShareCode'
    BY <1>5 DEF IInv, TargetsCoded, PhantomsShareCode, Coded
  <1>. QED
    BY <1>8, <1>9, <1>10 DEF IInv

LEMMA InitInvariant ==
  ASSUME Init
  PROVE  IInv
  <1>1. /\ program \in Programs /\ numberName = <<>> /\ graph = {} /\ graph_phantoms = {}
        /\ relations = [c \in Class |-> {}] /\ declared = {} /\ downCastVec = {}
        /\ basedCastClass = {} /\ checked = {}
        /\ bitypeCodeMap = <<>> /\ bitypeCastRelatedClass = <<>>
        /\ BitypeInheritanceSet = <<>> /\ written = FALSE
        /\ moduleTypes = {} /\ firstType = CHOOSE c \in Class : TRUE
    BY DEF Init, GraphInit, CodingInit
  <1>2. firstType \in Class
    BY <1>1, ClassAssumption
  <1>3. numberName \in Seq(Name) /\ IsInjective(numberName)
    BY <1>1 DEF IsInjective
  <1>4. Coded = {} /\ Related = {} /\ DOMAIN BitypeInheritanceSet = {}
    BY <1>1 DEF Coded, Related
  <1>5. bitypeCodeMap \in [Coded -> Nat \ {0}] /\ bitypeCastRelatedClass \in [Related -> Nat \ {0}]
    BY <1>1, <1>4
  <1>6. TypeOK
    BY <1>1, <1>2, <1>3, <1>4, <1>5 DEF TypeOK
  <1>7. Gathered
    BY <1>1, <1>3 DEF Gathered, Mutual
  <1>8. TargetsCoded /\ PhantomsShareCode
    BY <1>1 DEF TargetsCoded, PhantomsShareCode
  <1>. QED
    BY <1>6, <1>7, <1>8 DEF IInv

LEMMA NextKeeps ==
  ASSUME IInv, [Next]_CastVars
  PROVE  IInv'
  <1>1. CASE CodingNext /\ UNCHANGED <<moduleTypes, firstType>>
    <2>1. CASE ~written /\ Walk /\ UNCHANGED fileVars
      BY <1>1, <2>1, WalkKeeps
    <2>2. CASE WriteFiles
      BY <1>1, <2>2, WriteFilesKeeps
    <2>. QED
      BY <1>1, <2>1, <2>2 DEF CodingNext
  <1>2. CASE Compile
    BY <1>2, CompileKeeps
  <1>3. CASE UNCHANGED CastVars
    <2>1. /\ program' = program /\ numberName' = numberName /\ graph' = graph
          /\ graph_phantoms' = graph_phantoms /\ relations' = relations /\ declared' = declared
          /\ downCastVec' = downCastVec /\ basedCastClass' = basedCastClass
          /\ checked' = checked /\ written' = written
          /\ bitypeCodeMap' = bitypeCodeMap
          /\ bitypeCastRelatedClass' = bitypeCastRelatedClass
          /\ BitypeInheritanceSet' = BitypeInheritanceSet
          /\ moduleTypes' = moduleTypes /\ firstType' = firstType
      BY <1>3 DEF CastVars, graphVars, castVars, fileVars
    <2>2. TypeOK' /\ Gathered'
      BY <2>1 DEF IInv, TypeOK, Gathered, Coded, Related
    <2>3. TargetsCoded' /\ PhantomsShareCode'
      BY <2>1 DEF IInv, TargetsCoded, PhantomsShareCode, Coded
    <2>. QED
      BY <2>2, <2>3 DEF IInv
  <1>. QED
    BY <1>1, <1>2, <1>3 DEF Next

LEMMA Invariant == Spec => []IInv
  <1>1. Init => IInv
    BY InitInvariant
  <1>2. IInv /\ [Next]_CastVars => IInv'
    BY NextKeeps
  <1>. QED
    BY <1>1, <1>2, PTL DEF Spec

(* A name is numbered once, and every class of an edge has a number; the   *)
(* codes and the sizes of families start at 1 (FindClassDecls.cpp          *)
(* IsNameExist, addNumber, codingFunc).                                    *)
THEOREM NumbersTyped == Spec => []TypeOK
  <1>1. IInv => TypeOK
    BY DEF IInv
  <1>. QED
    BY <1>1, Invariant, PTL

(* The searches pass no class over: every target of a downcast the tool    *)
(* has met gets a code, whatever the classes, their order and their        *)
(* families (FindClassDecls.cpp DFS, codingFunc).                          *)
THEOREM DowncastTargetsCoded == Spec => []TargetsCoded
  <1>1. IInv => TargetsCoded
    BY DEF IInv
  <1>. QED
    BY <1>1, Invariant, PTL

(* Base and derived class without growth share a code, though they may be  *)
(* numbered in different families and coded in different turns             *)
(* (FindClassDecls.cpp codingFunc).                                        *)
THEOREM PhantomsCodedTogether == Spec => []PhantomsShareCode
  <1>1. IInv => PhantomsShareCode
    BY DEF IInv
  <1>. QED
    BY <1>1, Invariant, PTL


-----------------------------------------------------------------------------
(* Programs whose templates name all their bases outright.                 *)

Kin ==
  /\ Mutual(graph)
  /\ \A c \in declared : \A b \in AllBases(c) : <<c, b>> \in graph
  /\ \A c \in Class : relations[c] \subseteq AllBases(c) /\ (relations[c] # {} => c \in declared)

LEMMA VisitKin ==
  ASSUME DependentBase = {}, TypeOK, Kin, NEW c \in Class, VisitCXXRecordDecl(c)
  PROVE  Kin'
  <1> DEFINE all   == AllBasesOf[c]
             names == OffsetZeroNames(c) \o all
             new   == Both({c} \X ToSet(names))
  <1>1. /\ graph' = graph \cup new
        /\ relations' = [relations EXCEPT ![c] = @ \cup ToSet(all)]
        /\ declared' = declared \cup {c}
    BY CollectedAll DEF VisitCXXRecordDecl
  <1>2. all \in Seq(Name) /\ OffsetZeroNames(c) \in Seq(Name) /\ ToSet(all) = AllBases(c)
    BY AllBasesClasses, OffsetZeroNamesTyped DEF Name
  <1> HIDE DEF all
  <1>3. AllBases(c) \subseteq ToSet(names)
    BY <1>2, ToSetConcat
  <1> HIDE DEF names
  <1>4. Mutual(new) /\ {c} \X ToSet(names) \subseteq new
    <2> DEFINE A     == {c}
               B     == ToSet(names)
               edges == A \X B
    <2>1. edges \in SUBSET (A \X B)
      OBVIOUS
    <2> HIDE DEF A, B, edges
    <2>2. Mutual(Both(edges)) /\ edges \subseteq Both(edges)
      BY <2>1, BothMutual
    <2>. QED
      BY <2>2 DEF A, B, edges
  <1> HIDE DEF new
  <1>5. Mutual(graph')
    BY <1>1, <1>4, MutualUnion DEF Kin
  <1>6. \A d \in declared' : \A b \in AllBases(d) : <<d, b>> \in graph'
    BY <1>1, <1>3, <1>4 DEF Kin
  <1>7. \A d \in Class : relations'[d] \subseteq AllBases(d) /\ (relations'[d] # {} => d \in declared')
    BY <1>1, <1>2 DEF Kin, TypeOK
  <1>. QED
    BY <1>5, <1>6, <1>7 DEF Kin

LEMMA RelationKin ==
  ASSUME TypeOK, Kin, NEW c \in Class, NEW S \in SUBSET Class, addRelationShip(c, S)
  PROVE  Kin'
  <1> DEFINE kin == UNION {FamilyEdges(d) : d \in S}
  <1>1. /\ S \subseteq declared /\ graph' = graph \cup kin
        /\ relations' = [d \in Class |-> relations[d] \cup IF d \in S THEN AllBases(d) ELSE {}]
        /\ declared' = declared
    BY DEF addRelationShip
  <1>2. ASSUME NEW d \in S, NEW e \in FamilyEdges(d)
        PROVE  <<e[2], e[1]>> \in graph \cup kin
    <2>1. e[2] = d /\ e = <<e[1], d>> /\ (e[1] = d \/ e[1] \in AllBases(d))
      BY <1>2 DEF FamilyEdges
    <2>2. CASE e[1] = d
      <3>1. <<e[2], e[1]>> = e /\ e \in kin
        BY <1>2, <2>1, <2>2
      <3>. QED
        BY <3>1
    <2>3. CASE e[1] \in AllBases(d)
      BY <1>1, <2>1, <2>3 DEF Kin
    <2>. QED
      BY <2>1, <2>2, <2>3
  <1>3. \A e \in kin : <<e[2], e[1]>> \in graph \cup kin
    BY <1>2
  <1> HIDE DEF kin
  <1>4. Mutual(graph')
    BY <1>1, <1>3 DEF Kin, Mutual
  <1>5. \A d \in declared' : \A b \in AllBases(d) : <<d, b>> \in graph'
    BY <1>1 DEF Kin
  <1>6. \A d \in Class : relations'[d] \subseteq AllBases(d) /\ (relations'[d] # {} => d \in declared')
    BY <1>1 DEF Kin
  <1>. QED
    BY <1>4, <1>5, <1>6 DEF Kin

LEMMA WalkKin ==
  ASSUME DependentBase = {}, IInv, Kin, Walk
  PROVE  Kin'
  <1>1. TypeOK /\ program \subseteq Class
    BY ClassAssumption DEF IInv, Gathered
  <1>2. ASSUME NEW c \in program, VisitCXXRecordDecl(c)
        PROVE  Kin'
    BY <1>1, <1>2, VisitKin
  <1>3. ASSUME NEW c \in program, DerivedToBase(c)
        PROVE  Kin'
    <2> DEFINE S == {c} \cup AllBases(c)
    <2>1. S \in SUBSET Class /\ c \in Class /\ addRelationShip(c, S)
      BY <1>1, <1>3, AllBasesClasses DEF DerivedToBase
    <2> HIDE DEF S
    <2>. QED
      BY <1>1, <2>1, RelationKin
  <1>4. ASSUME NEW c \in program, BitCast(c)
        PROVE  Kin'
    <2> DEFINE S == {c}
    <2>1. S \in SUBSET Class /\ c \in Class /\ addRelationShip(c, S)
      BY <1>1, <1>4 DEF BitCast
    <2> HIDE DEF S
    <2>. QED
      BY <1>1, <2>1, RelationKin
  <1>5. ASSUME NEW derived \in program, NEW base \in AllBases(derived),
               BaseToDerived(base, derived)
        PROVE  Kin'
    <2> DEFINE S == {derived} \cup AllBases(derived)
    <2>1. S \in SUBSET Class /\ derived \in Class /\ addRelationShip(derived, S)
      BY <1>1, <1>5, AllBasesClasses DEF BaseToDerived
    <2> HIDE DEF S
    <2>. QED
      BY <1>1, <2>1, RelationKin
  <1>6. ASSUME NEW derived \in program, InstantiatedCast(derived)
        PROVE  Kin'
    <2>1. graph' = graph /\ relations' = relations /\ declared' = declared
      BY <1>6 DEF InstantiatedCast, graphVars
    <2>. QED
      BY <2>1 DEF Kin
  <1>. QED
    BY <1>2, <1>3, <1>4, <1>5, <1>6 DEF Walk

LEMMA KinInvariant == DependentBase = {} => (Spec => []Kin)
  <1> SUFFICES ASSUME DependentBase = {}
               PROVE  Spec => []Kin
    OBVIOUS
  <1>1. Init => Kin
    BY DEF Init, GraphInit, Kin, Mutual
  <1>2. IInv /\ Kin /\ [Next]_CastVars => Kin'
    <2> SUFFICES ASSUME IInv, Kin, [Next]_CastVars
                 PROVE  Kin'
      OBVIOUS
    <2>1. CASE Walk
      BY <2>1, WalkKin
    <2>2. CASE WriteFiles \/ Compile \/ UNCHANGED CastVars
      <3>1. graph' = graph /\ relations' = relations /\ declared' = declared
        BY <2>2 DEF WriteFiles, Compile, CastVars, graphVars
      <3>. QED
        BY <3>1 DEF Kin
    <2>. QED
      BY <2>1, <2>2 DEF Next, CodingNext
  <1>. QED
    BY <1>1, <1>2, Invariant, PTL DEF Spec

(* A class is in one family with all bases recorded for it, when no        *)
(* template names a base by a parameter: the walk links every class and    *)
(* its bases both ways, so the one-way edges that casts add split nothing  *)
(* (FindClassDecls.cpp VisitCXXRecordDecl, addRelationShip, DFS).          *)
THEOREM FamiliesOfPlainClassesWhole == DependentBase = {} => (Spec => []FamiliesWhole)
  <1> SUFFICES ASSUME DependentBase = {}
               PROVE  Spec => []FamiliesWhole
    OBVIOUS
  <1>1. IInv /\ Kin => FamiliesWhole
    <2> SUFFICES ASSUME IInv, Kin
                 PROVE  FamiliesWhole
      OBVIOUS
    <2> DEFINE families == DFS(graph)
    <2>1. /\ numberName \in Seq(Name) /\ declared \subseteq ToSet(numberName)
          /\ graph \subseteq ToSet(numberName) \X ToSet(numberName)
      BY DEF IInv, TypeOK, Gathered
    <2>2. Split(families, graph) /\ Covered(families) = ToSet(numberName)
      BY <2>1, DFSSplits
    <2>3. Symmetric(graph)
      BY DEF Kin, Mutual, Symmetric
    <2>4. ASSUME NEW c \in Class, NEW b \in relations[c]
          PROVE  InOneFamily({b, c})
      <3>1. c \in declared /\ <<c, b>> \in graph
        BY <2>4 DEF Kin
      <3>2. c \in ToSet(numberName) /\ b \in ToSet(numberName)
        BY <2>1, <3>1
      <3> HIDE DEF families
      <3>3. PICK i \in DOMAIN families : c \in ToSet(families[i])
        BY <2>2, <3>2 DEF Covered
      <3>4. b \in ToSet(families[i])
        BY <2>2, <2>3, <3>1, <3>2, <3>3 DEF Split, Closed
      <3>. QED
        BY <3>3, <3>4 DEF InOneFamily, families
    <2>. QED
      BY <2>4 DEF FamiliesWhole
  <1>2. Spec => []Kin
    BY KinInvariant
  <1>. QED
    BY <1>1, <1>2, Invariant, PTL

LEMMA CheckedInvariant == InstantiatedTargets = {} => (Spec => [](checked \subseteq downCastVec))
  <1> SUFFICES ASSUME InstantiatedTargets = {}
               PROVE  Spec => [](checked \subseteq downCastVec)
    OBVIOUS
  <1>1. Init => checked \subseteq downCastVec
    BY DEF Init, GraphInit
  <1>2. checked \subseteq downCastVec /\ [Next]_CastVars => (checked \subseteq downCastVec)'
    <2> SUFFICES ASSUME checked \subseteq downCastVec, [Next]_CastVars
                 PROVE  checked' \subseteq downCastVec'
      OBVIOUS
    <2>1. CASE Walk
      BY <2>1 DEF Walk, VisitCXXRecordDecl, DerivedToBase, BitCast, BaseToDerived, castVars
    <2>2. CASE WriteFiles \/ Compile \/ UNCHANGED CastVars
      BY <2>2 DEF WriteFiles, Compile, CastVars, castVars
    <2>. QED
      BY <2>1, <2>2 DEF Next, CodingNext
  <1>. QED
    BY <1>1, <1>2, PTL DEF Spec

(* Every class the compiler checks casts to has a code, when no cast of a  *)
(* template waits for its type (CGExprScalar.cpp: "Error, the cast class   *)
(* set is incomplete!").                                                   *)
THEOREM CastSetOfPlainCodeComplete ==
  InstantiatedTargets = {} => (Spec => []CastSetComplete)
  <1> SUFFICES ASSUME InstantiatedTargets = {}
               PROVE  Spec => []CastSetComplete
    OBVIOUS
  <1>1. IInv /\ checked \subseteq downCastVec => CastSetComplete
    BY DEF IInv, TargetsCoded, CastSetComplete
  <1>2. Spec => [](checked \subseteq downCastVec)
    BY CheckedInvariant
  <1>. QED
    BY <1>1, <1>2, Invariant, PTL

-----------------------------------------------------------------------------
(* Codes tell the phantom sets of a family apart.                          *)

(* The phantom set of x has a class in S.                                  *)
Meets(sets, S, x) == \E c \in S : c \in PhantomSet(sets, x)

(* What the loop over a family has added to the codes it began with.       *)
Adds(sets, codes, S, a) ==
  /\ DOMAIN codes \subseteq DOMAIN a.codes
  /\ \A x \in DOMAIN codes : a.codes[x] = codes[x]
  /\ \A x \in DOMAIN a.codes \ DOMAIN codes :
       /\ a.codes[x] < a.index /\ Meets(sets, S, x)
       /\ \A y \in DOMAIN a.codes \ DOMAIN codes :
            a.codes[x] = a.codes[y] => y \in PhantomSet(sets, x)

(* The classes of a phantom set have the same one.                         *)
LEMMA PhantomSetSame ==
  ASSUME NEW sets, Partition(sets), NEW c \in ToSet(numberName),
         NEW x \in PhantomSet(sets, c)
  PROVE  x \in ToSet(numberName) /\ PhantomSet(sets, x) = PhantomSet(sets, c)
  <1>1. PICK i \in DOMAIN sets : PhantomSet(sets, c) = ToSet(sets[i])
    BY PhantomSetFound
  <1>2. x \in ToSet(numberName) /\ x \in ToSet(sets[i])
    BY <1>1, PhantomSetFound
  <1>3. PICK j \in DOMAIN sets : PhantomSet(sets, x) = ToSet(sets[j])
    BY <1>2, PhantomSetFound
  <1>4. x \in ToSet(sets[j])
    BY <1>2, <1>3, PhantomSetFound
  <1>5. i = j
    BY <1>2, <1>4 DEF Partition
  <1>. QED
    BY <1>1, <1>2, <1>3, <1>5

LEMMA CodeClassAdds ==
  ASSUME NEW sets, Partition(sets), NEW codes, NEW S, S \subseteq ToSet(numberName),
         NEW a \in Codings(sets), Adds(sets, codes, S, a), NEW c \in S
  PROVE  Adds(sets, codes, S, CodeClass(sets, a, c))
  <1>1. CASE c \notin downCastVec \/ c \in DOMAIN a.codes
    BY <1>1 DEF CodeClass
  <1>2. CASE ~ (c \notin downCastVec \/ c \in DOMAIN a.codes)
    <2> DEFINE P     == PhantomSet(sets, c)
               f     == a.codes
               value == a.index
               g     == Insert(f, P, value)
               r     == [codes |-> g, index |-> value + 1]
    <2>1. CodeClass(sets, a, c) = r
      BY <1>2 DEF CodeClass
    <2>2. f \in Maps(Code) /\ value \in Code
      BY DEF Codings
    <2>3. c \in ToSet(numberName) /\ c \in P /\ P \subseteq ToSet(numberName)
      BY PhantomSetFound
    <2>4. \A x \in P : PhantomSet(sets, x) = P
      BY <2>3, PhantomSetSame
    <2>5. /\ DOMAIN codes \subseteq DOMAIN f
          /\ \A x \in DOMAIN codes : f[x] = codes[x]
          /\ \A x \in DOMAIN f \ DOMAIN codes :
               /\ f[x] < value /\ Meets(sets, S, x)
               /\ \A y \in DOMAIN f \ DOMAIN codes :
                    f[x] = f[y] => y \in PhantomSet(sets, x)
      BY DEF Adds
    <2> HIDE DEF P, f, value
    <2>6. /\ DOMAIN g = DOMAIN f \cup P
          /\ \A x \in DOMAIN f : g[x] = f[x]
          /\ \A x \in P \ DOMAIN f : g[x] = value
      <3>1. P \subseteq ToSet(numberName)
        BY <2>3
      <3>2. /\ Insert(f, P, value) \in Maps(Code)
            /\ DOMAIN Insert(f, P, value) = DOMAIN f \cup P
            /\ \A x \in DOMAIN f : Insert(f, P, value)[x] = f[x]
            /\ \A x \in P \ DOMAIN f : Insert(f, P, value)[x] = value
        BY <2>2, <3>1, InsertTyped
      <3>. QED
        BY <3>2
    <2> HIDE DEF g
    <2>7. r.codes = g /\ r.index = value + 1
      OBVIOUS
    <2> HIDE DEF r
    <2>8. ASSUME NEW x \in DOMAIN g \ DOMAIN codes
          PROVE  g[x] < value + 1 /\ Meets(sets, S, x)
      <3>1. CASE x \in DOMAIN f
        <4>1. g[x] = f[x] /\ f[x] < value /\ Meets(sets, S, x)
          BY <2>5, <2>6, <2>8, <3>1
        <4>2. f[x] \in Nat /\ value \in Nat
          BY <2>2, <3>1, MapTyped DEF Code
        <4>. QED
          BY <4>1, <4>2
      <3>2. CASE x \notin DOMAIN f
        <4>1. x \in P /\ g[x] = value
          BY <2>6, <2>8, <3>2
        <4>2. Meets(sets, S, x)
          BY <2>3, <2>4, <4>1 DEF Meets
        <4>. QED
          BY <2>2, <4>1, <4>2 DEF Code
      <3>. QED
        BY <3>1, <3>2
    <2>9. ASSUME NEW x \in DOMAIN g \ DOMAIN codes, NEW y \in DOMAIN g \ DOMAIN codes,
                 g[x] = g[y]
          PROVE  y \in PhantomSet(sets, x)
      <3>1. ASSUME NEW z \in DOMAIN f \ DOMAIN codes
            PROVE  g[z] # value
        <4>1. g[z] = f[z] /\ f[z] < value
          BY <2>5, <2>6
        <4>2. f[z] \in Nat /\ value \in Nat
          BY <2>2, MapTyped DEF Code
        <4>. QED
          BY <4>1, <4>2
      <3>2. CASE x \in DOMAIN f /\ y \in DOMAIN f
        BY <2>5, <2>6, <2>9, <3>2
      <3>3. CASE x \notin DOMAIN f \/ y \notin DOMAIN f
        <4>1. x \in P /\ y \in P
          BY <2>6, <2>9, <3>1, <3>3
        <4>. QED
          BY <2>4, <4>1
      <3>. QED
        BY <3>2, <3>3
    <2>10. DOMAIN codes \subseteq DOMAIN g /\ \A x \in DOMAIN codes : g[x] = codes[x]
      BY <2>5, <2>6
    <2>. QED
      BY <2>1, <2>7, <2>8, <2>9, <2>10 DEF Adds
  <1>. QED
    BY <1>1, <1>2

LEMMA CodeFamilyAdds ==
  ASSUME NEW sets, Partition(sets), NEW codes \in Maps(Code), Shared(codes, sets),
         NEW family \in Seq(Name), ToSet(family) \subseteq ToSet(numberName)
  PROVE  Adds(sets, codes, ToSet(family), CodeFamily(sets, codes, family))
  <1> DEFINE L == Len(family)
             S == ToSet(family)
  <1>1. PICK coded \in [0 .. L -> Codings(sets)] :
          /\ coded[0] = [codes |-> codes, index |-> 1]
          /\ \A n \in 1 .. L : coded[n] = CodeClass(sets, coded[n - 1], family[n])
          /\ CodeFamily(sets, codes, family) = coded[L]
    BY CodeFamilyRounds
  <1>2. L \in Nat /\ \A n \in 1 .. L : family[n] \in S
    BY DEF ToSet
  <1> DEFINE T == {n \in 0 .. L : Adds(sets, codes, S, coded[n])}
  <1>3. 0 \in T
    <2>1. coded[0].codes = codes /\ 0 \in 0 .. L
      BY <1>1, <1>2
    <2>2. Adds(sets, codes, S, coded[0])
      BY <2>1 DEF Adds
    <2>. QED
      BY <2>1, <2>2
  <1>4. ASSUME NEW n \in 0 .. L - 1, n \in T
        PROVE  n + 1 \in T
    <2>1. n + 1 \in 1 .. L /\ n + 1 \in 0 .. L /\ (n + 1) - 1 = n /\ n \in 0 .. L
      BY <1>2
    <2> DEFINE a == coded[n]
               c == family[n + 1]
    <2>2. a \in Codings(sets) /\ c \in S /\ Adds(sets, codes, S, a)
          /\ coded[n + 1] = CodeClass(sets, a, c)
      BY <1>1, <1>2, <1>4, <2>1
    <2> HIDE DEF a, c
    <2>3. Adds(sets, codes, S, CodeClass(sets, a, c))
      BY <2>2, CodeClassAdds
    <2>. QED
      BY <2>1, <2>2, <2>3
  <1> HIDE DEF T
  <1>5. \A n \in 0 .. L : n \in T
    BY <1>2, <1>3, <1>4, Steps
  <1>6. Adds(sets, codes, S, coded[L])
    BY <1>2, <1>5 DEF T
  <1>. QED
    BY <1>1, <1>6

(* The codes of phantom sets within F are different and within its size.   *)
Distinct(sets, F, r) ==
  \A x \in DOMAIN r.codes : PhantomSet(sets, x) \subseteq F =>
    /\ r.codes[x] <= r.sizes[x]
    /\ \A y \in DOMAIN r.codes :
         PhantomSet(sets, y) \subseteq F /\ r.codes[x] = r.codes[y] => y \in PhantomSet(sets, x)

(* What is known when the first k families have been coded.                *)
Told(sets, families, k, r) ==
  /\ \A x \in DOMAIN r.codes : \E j \in 1 .. k : Meets(sets, ToSet(families[j]), x)
  /\ \A x \in DOMAIN r.sizes : \E j \in 1 .. k : x \in ToSet(families[j])
  /\ \A j \in 1 .. k : /\ ToSet(families[j]) \subseteq DOMAIN r.sizes
                       /\ Distinct(sets, ToSet(families[j]), r)

FamiliesApart(families) ==
  \A i, j \in DOMAIN families : i # j => ToSet(families[i]) \cap ToSet(families[j]) = {}

(* A class whose phantom set lies in one family is not coded with another  *)
(* one, so that it finds all codes of its own family still to be given.    *)
LEMMA AddFamilyTells ==
  ASSUME NEW families \in Seq(Seq(Name)), Covered(families) \subseteq ToSet(numberName),
         FamiliesApart(families), NEW sets, Partition(sets), NEW a \in Results(sets),
         NEW k \in 0 .. Len(families) - 1, Told(sets, families, k, a)
  PROVE  Told(sets, families, k + 1, AddFamily(sets, a, families[k + 1]))
  <1> DEFINE family == families[k + 1]
             F      == ToSet(family)
             f      == a.codes
             old    == a.sizes
             coded  == CodeFamily(sets, f, family)
             g      == coded.codes
             size   == coded.index - 1
             sizes  == Insert(old, F, size)
             r      == [codes |-> g, sizes |-> sizes]
             Fam(j) == ToSet(families[j])
             PS(x)  == PhantomSet(sets, x)
  <1>1. AddFamily(sets, a, family) = r
    BY DEF AddFamily
  <1>2. f \in Maps(Code) /\ old \in Maps(Nat) /\ Shared(f, sets)
    BY DEF Results
  <1>3. /\ k + 1 \in DOMAIN families /\ 1 .. k \subseteq DOMAIN families
        /\ family \in Seq(Name) /\ Len(families) \in Nat /\ k \in Nat
        /\ \A j \in 1 .. k + 1 : j \in 1 .. k \/ j = k + 1
        /\ \A j \in 1 .. k : j # k + 1 /\ j \in 1 .. k + 1
        /\ k + 1 \in 1 .. k + 1
    OBVIOUS
  <1>4. F \subseteq ToSet(numberName)
    BY <1>3 DEF Covered
  <1>5. \A i \in 1 .. k : Fam(i) \cap F = {}
    BY <1>3 DEF FamiliesApart
  <1>6. Fam(k + 1) = F
    OBVIOUS
  <1>7. /\ \A x \in DOMAIN f : \E j \in 1 .. k : Meets(sets, Fam(j), x)
        /\ \A x \in DOMAIN old : \E j \in 1 .. k : x \in Fam(j)
        /\ \A j \in 1 .. k : Fam(j) \subseteq DOMAIN old
        /\ \A j \in 1 .. k : Distinct(sets, Fam(j), a)
    BY DEF Told
  <1> HIDE DEF f, old, family
  <1>8. coded \in Codings(sets) /\ Adds(sets, f, F, coded)
    BY <1>2, <1>3, <1>4, CodeFamilyKeeps, CodeFamilyAdds
  <1>9. g \in Maps(Code) /\ coded.index \in Code
    BY <1>8 DEF Codings
  <1>10. /\ DOMAIN f \subseteq DOMAIN g
         /\ \A x \in DOMAIN f : g[x] = f[x]
         /\ \A x \in DOMAIN g \ DOMAIN f :
              /\ g[x] < coded.index /\ Meets(sets, F, x)
              /\ \A y \in DOMAIN g \ DOMAIN f : g[x] = g[y] => y \in PS(x)
    BY <1>8 DEF Adds
  <1> HIDE DEF coded
  <1>11. size \in Nat /\ \A x \in DOMAIN g \ DOMAIN f : g[x] <= size
    <2>1. \A x \in DOMAIN g : g[x] \in Nat
      BY <1>9, MapTyped DEF Code
    <2>. QED
      BY <1>9, <1>10, <2>1 DEF Code
  <1> HIDE DEF size, F, g
  <1>12. /\ DOMAIN sizes = DOMAIN old \cup F
         /\ \A x \in DOMAIN old : sizes[x] = old[x]
         /\ \A x \in F \ DOMAIN old : sizes[x] = size
    <2>1. /\ Insert(old, F, size) \in Maps(Nat)
          /\ DOMAIN Insert(old, F, size) = DOMAIN old \cup F
          /\ \A x \in DOMAIN old : Insert(old, F, size)[x] = old[x]
          /\ \A x \in F \ DOMAIN old : Insert(old, F, size)[x] = size
      BY <1>2, <1>4, <1>11, InsertTyped
    <2>. QED
      BY <2>1
  <1> HIDE DEF sizes
  <1>13. r.codes = g /\ r.sizes = sizes
    OBVIOUS
  <1> HIDE DEF r
  <1>14. DOMAIN g \subseteq ToSet(numberName)
    BY <1>9, MapTyped
  <1>15. \A x \in DOMAIN g : x \in PS(x)
    BY <1>14, PhantomSetFound
  <1>16. ASSUME NEW x \in DOMAIN g, PS(x) \subseteq F
         PROVE  x \notin DOMAIN f
    <2>1. SUFFICES ASSUME x \in DOMAIN f PROVE FALSE
      OBVIOUS
    <2>2. PICK j \in 1 .. k : Meets(sets, Fam(j), x)
      BY <1>7, <2>1
    <2>. QED
      BY <1>5, <1>16, <2>2 DEF Meets
  <1>17. ASSUME NEW j \in 1 .. k, NEW x \in DOMAIN g, PS(x) \subseteq Fam(j)
         PROVE  x \in DOMAIN f
    <2>1. SUFFICES ASSUME x \notin DOMAIN f PROVE FALSE
      OBVIOUS
    <2>2. Meets(sets, F, x)
      BY <1>10, <2>1
    <2>. QED
      BY <1>5, <1>17, <2>2 DEF Meets
  <1>18. Distinct(sets, F, r)
    <2>1. ASSUME NEW x \in DOMAIN g, PS(x) \subseteq F
          PROVE  g[x] <= sizes[x]
      <3>1. x \in F /\ x \notin DOMAIN f
        BY <1>15, <1>16, <2>1
      <3>2. x \notin DOMAIN old
        BY <1>5, <1>7, <3>1
      <3>. QED
        BY <1>11, <1>12, <3>1, <3>2
    <2>2. ASSUME NEW x \in DOMAIN g, NEW y \in DOMAIN g, PS(x) \subseteq F, PS(y) \subseteq F,
                 g[x] = g[y]
          PROVE  y \in PS(x)
      BY <1>10, <1>16, <2>2
    <2>. QED
      BY <1>13, <2>1, <2>2 DEF Distinct
  <1>19. ASSUME NEW j \in 1 .. k
         PROVE  Distinct(sets, Fam(j), r)
    <2>0. \A x \in DOMAIN f : PS(x) \subseteq Fam(j) =>
            /\ f[x] <= old[x]
            /\ \A y \in DOMAIN f : PS(y) \subseteq Fam(j) /\ f[x] = f[y] => y \in PS(x)
      BY <1>7 DEF Distinct, f, old
    <2>1. ASSUME NEW x \in DOMAIN g, PS(x) \subseteq Fam(j)
          PROVE  g[x] <= sizes[x]
      <3>1. x \in DOMAIN f /\ x \in Fam(j)
        BY <1>15, <1>17, <2>1
      <3>2. x \in DOMAIN old
        BY <1>7, <3>1
      <3>. QED
        BY <1>10, <1>12, <2>0, <2>1, <3>1, <3>2
    <2>2. ASSUME NEW x \in DOMAIN g, NEW y \in DOMAIN g, PS(x) \subseteq Fam(j),
                 PS(y) \subseteq Fam(j), g[x] = g[y]
          PROVE  y \in PS(x)
      <3>1. x \in DOMAIN f /\ y \in DOMAIN f
        BY <1>17, <2>2
      <3>. QED
        BY <1>10, <2>0, <2>2, <3>1
    <2>. QED
      BY <1>13, <2>1, <2>2 DEF Distinct
  <1>20. \A x \in DOMAIN g : \E j \in 1 .. k + 1 : Meets(sets, Fam(j), x)
    BY <1>3, <1>6, <1>7, <1>10
  <1>21. \A x \in DOMAIN sizes : \E j \in 1 .. k + 1 : x \in Fam(j)
    BY <1>3, <1>6, <1>7, <1>12
  <1>22. \A j \in 1 .. k + 1 : Fam(j) \subseteq DOMAIN sizes /\ Distinct(sets, Fam(j), r)
    BY <1>3, <1>6, <1>7, <1>12, <1>18, <1>19
  <1>23. Told(sets, families, k + 1, r)
    BY <1>13, <1>20, <1>21, <1>22 DEF Told
  <1>. QED
    BY <1>1, <1>23 DEF family

LEMMA CodingTells ==
  ASSUME NEW families \in Seq(Seq(Name)), Covered(families) \subseteq ToSet(numberName),
         FamiliesApart(families), NEW sets, Partition(sets)
  PROVE  Told(sets, families, Len(families), codingFunc(families, sets))
  <1> DEFINE L == Len(families)
  <1>1. PICK result \in [0 .. L -> Results(sets)] :
          /\ result[0] = [codes |-> <<>>, sizes |-> <<>>]
          /\ \A n \in 1 .. L : result[n] = AddFamily(sets, result[n - 1], families[n])
          /\ codingFunc(families, sets) = result[L]
    BY CodingRounds
  <1>2. L \in Nat
    OBVIOUS
  <1> DEFINE T == {n \in 0 .. L : Told(sets, families, n, result[n])}
  <1>3. 0 \in T
    <2>1. result[0].codes = <<>> /\ result[0].sizes = <<>> /\ 0 \in 0 .. L
      BY <1>1, <1>2
    <2>2. Told(sets, families, 0, result[0])
      BY <2>1 DEF Told
    <2>. QED
      BY <2>1, <2>2
  <1>4. ASSUME NEW n \in 0 .. L - 1, n \in T
        PROVE  n + 1 \in T
    <2>1. n + 1 \in 1 .. L /\ n + 1 \in 0 .. L /\ (n + 1) - 1 = n /\ n \in 0 .. L
      BY <1>2
    <2> DEFINE a == result[n]
    <2>2. /\ a \in Results(sets) /\ Told(sets, families, n, a)
          /\ result[n + 1] = AddFamily(sets, a, families[n + 1])
      BY <1>1, <1>4, <2>1
    <2> HIDE DEF a
    <2>3. Told(sets, families, n + 1, AddFamily(sets, a, families[n + 1]))
      BY <2>2, AddFamilyTells
    <2>. QED
      BY <2>1, <2>2, <2>3
  <1> HIDE DEF T
  <1>5. \A n \in 0 .. L : n \in T
    BY <1>2, <1>3, <1>4, Steps
  <1>6. Told(sets, families, L, result[L])
    BY <1>2, <1>5 DEF T
  <1>. QED
    BY <1>1, <1>6

Telling == CodesTellApart /\ CodesFit

(* The searches look at the numbers and at their edges only.               *)
LEMMA DFSSame ==
  ASSUME numberName' = numberName, graph' = graph, graph_phantoms' = graph_phantoms
  PROVE  DFS(graph)' = DFS(graph) /\ DFS(graph_phantoms)' = DFS(graph_phantoms)
  <1>1. DFS(graph)' = DFS(graph)
    BY DEF DFS, StartAt, Search, Pop, Pushed, PushNew
  <1>2. DFS(graph_phantoms)' = DFS(graph_phantoms)
    BY DEF DFS, StartAt, Search, Pop, Pushed, PushNew
  <1>. QED
    BY <1>1, <1>2

LEMMA WriteFilesTells ==
  ASSUME IInv, WriteFiles
  PROVE  Telling'
  <1> DEFINE families == DFS(graph)
             sets     == DFS(graph_phantoms)
             result   == codingFunc(families, sets)
             related  == {c \in castrelatedClass \cap DOMAIN result.sizes :
                            result.sizes[c] > 0}
             Within(S) == \E i \in DOMAIN families : S \subseteq ToSet(families[i])
  <1>1. TypeOK /\ Gathered
    BY DEF IInv
  <1>2. /\ bitypeCodeMap' = result.codes
        /\ bitypeCastRelatedClass' = [c \in related |-> result.sizes[c]]
        /\ UNCHANGED <<graphVars, castVars>>
    BY DEF WriteFiles
  <1>3. numberName' = numberName /\ graph' = graph /\ graph_phantoms' = graph_phantoms
    BY <1>2 DEF graphVars
  <1>4. DFS(graph)' = families /\ DFS(graph_phantoms)' = sets
    BY <1>3, DFSSame
  <1>5. numberName \in Seq(Name)
    BY <1>1 DEF Gathered
  <1>6. /\ families \in Seq(Seq(Name)) /\ Covered(families) = ToSet(numberName)
        /\ Split(families, graph) /\ Partition(sets)
    BY <1>1, <1>5, DFSSplits, PhantomSetsFound
  <1> HIDE DEF families, sets
  <1>7. FamiliesApart(families)
    BY <1>6 DEF Split, FamiliesApart
  <1>8. Told(sets, families, Len(families), result)
    BY <1>6, <1>7, CodingTells
  <1>9. result \in Results(sets)
    BY <1>6, CodingFound
  <1> HIDE DEF result
  <1>10. \A j \in DOMAIN families : Distinct(sets, ToSet(families[j]), result)
    BY <1>6, <1>8 DEF Told
  <1>11. DOMAIN result.codes \subseteq ToSet(numberName)
    BY <1>9, MapTyped DEF Results
  <1>12. \A x \in DOMAIN result.codes : x \in PhantomSet(sets, x)
    BY <1>6, <1>11, PhantomSetFound
  <1>13. \A S : InOneFamily(S)' <=> Within(S)
    BY <1>4 DEF InOneFamily
  <1>14. \A x \in DOMAIN result.codes : Straddles(x)' <=> ~ Within(PhantomSet(sets, x))
    BY <1>4 DEF InOneFamily, Straddles
  <1>15. ASSUME NEW x \in DOMAIN result.codes, NEW y \in DOMAIN result.codes,
                result.codes[x] = result.codes[y], Within({x, y}),
                Within(PhantomSet(sets, x)), Within(PhantomSet(sets, y))
         PROVE  y \in PhantomSet(sets, x)
    <2>1. PICK l \in DOMAIN families : {x, y} \subseteq ToSet(families[l])
      BY <1>15
    <2>2. PICK i \in DOMAIN families : PhantomSet(sets, x) \subseteq ToSet(families[i])
      BY <1>15
    <2>3. PICK j \in DOMAIN families : PhantomSet(sets, y) \subseteq ToSet(families[j])
      BY <1>15
    <2>4. x \in ToSet(families[i]) /\ y \in ToSet(families[j])
      BY <1>12, <2>2, <2>3
    <2>5. i = l /\ j = l
      BY <1>7, <2>1, <2>4 DEF FamiliesApart
    <2>. QED
      BY <1>10, <1>15, <2>2, <2>3, <2>5 DEF Distinct
  <1>16. ASSUME NEW x \in DOMAIN result.codes, Within(PhantomSet(sets, x))
         PROVE  result.codes[x] <= result.sizes[x]
    BY <1>10, <1>16 DEF Distinct
  <1> HIDE DEF Within, related
  <1>17. CodesTellApart'
    BY <1>2, <1>4, <1>13, <1>14, <1>15 DEF CodesTellApart, Coded
  <1>18. CodesFit'
    BY <1>2, <1>14, <1>16 DEF CodesFit, Coded, Related
  <1>. QED
    BY <1>17, <1>18 DEF Telling

LEMMA TellingInvariant == Spec => []Telling
  <1>1. Init => Telling
    BY DEF Init, CodingInit, Telling, CodesTellApart, CodesFit
  <1>2. IInv /\ Telling /\ [Next]_CastVars => Telling'
    <2> SUFFICES ASSUME IInv, Telling, [Next]_CastVars
                 PROVE  Telling'
      OBVIOUS
    <2>1. CASE ~ written /\ UNCHANGED fileVars
      BY <2>1 DEF Telling, CodesTellApart, CodesFit, fileVars
    <2>2. CASE WriteFiles
      BY <2>2, WriteFilesTells
    <2>3. CASE Compile \/ UNCHANGED CastVars
      <3>1. UNCHANGED <<graphVars, fileVars>>
        BY <2>3 DEF Compile, CastVars
      <3>2. /\ numberName' = numberName /\ graph' = graph /\ graph_phantoms' = graph_phantoms
            /\ written' = written /\ bitypeCodeMap' = bitypeCodeMap
            /\ bitypeCastRelatedClass' = bitypeCastRelatedClass
        BY <3>1 DEF graphVars, fileVars
      <3>3. DFS(graph)' = DFS(graph) /\ DFS(graph_phantoms)' = DFS(graph_phantoms)
        BY <3>2, DFSSame
      <3>4. \A S : InOneFamily(S)' <=> InOneFamily(S)
        BY <3>3 DEF InOneFamily
      <3>5. \A x : Straddles(x)' <=> Straddles(x)
        BY <3>3 DEF Straddles, InOneFamily
      <3>6. CodesTellApart'
        BY <3>2, <3>3, <3>4, <3>5 DEF Telling, CodesTellApart, Coded
      <3>7. CodesFit'
        BY <3>2, <3>5 DEF Telling, CodesFit, Coded, Related
      <3>. QED
        BY <3>6, <3>7 DEF Telling
    <2>. QED
      BY <2>1, <2>2, <2>3 DEF Next, CodingNext
  <1>. QED
    BY <1>1, <1>2, Invariant, PTL DEF Spec

(* Two classes of a family share a code only as classes of one phantom     *)
(* set, or where a phantom set lies in several families: a class coded     *)
(* earlier takes no number away from a family it is not in                 *)
(* (FindClassDecls.cpp codingFunc).                                        *)
THEOREM CodesTellClassesApart == Spec => []CodesTellApart
  <1>1. Telling => CodesTellApart
    BY DEF Telling
  <1>. QED
    BY <1>1, TellingInvariant, PTL

(* A code is within the size of its family, unless its phantom set lies in *)
(* several families (FindClassDecls.cpp codingFunc familySize).            *)
THEOREM CodesWithinFamily == Spec => []CodesFit
  <1>1. Telling => CodesFit
    BY DEF Telling
  <1>. QED
    BY <1>1, TellingInvariant, PTL
=============================================================================

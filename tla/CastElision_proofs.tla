-------------------------- MODULE CastElision_proofs --------------------------
(***************************************************************************)
(* Proofs about CastElision, for every function the pass may look at: any  *)
(* variables, values and stores, circles of variables included.            *)
(***************************************************************************)
EXTENDS CastElision, FiniteSetTheorems, SequenceTheorems, TLAPS

-----------------------------------------------------------------------------
(* Values and calls.                                                       *)

Loaded(v) == v \in Load \cup Address

LEMMA Kinds ==
  ASSUME NEW v \in Values
  PROVE  /\ v \in Known \cup {Element} \/ v = Foreign \/ Loaded(v)
         /\ ~(v \in Known \cup {Element} /\ v = Foreign)
         /\ Loaded(v) => /\ v \notin Known \cup {Element} /\ v # Foreign
                         /\ v.of \in Pointer
         /\ v # Undefined
         /\ ~(v \in Load /\ v \in Address)
  <1>1. v \in Known \cup {Element} \/ v = Foreign \/ v \in Load \/ v \in Address
    BY ValuesAssumption
  <1>2. v \in Known \cup {Element} =>
          v.kind \in {"object", "heap", "global", "element"}
    BY DEF Known, Element
  <1>3. Foreign.kind = "foreign" /\ Undefined.kind = "undefined"
    BY DEF Foreign, Undefined
  <1>4. v \in Load => v.kind = "load" /\ v.of \in Pointer
    BY DEF Load
  <1>5. v \in Address => v.kind = "address" /\ v.of \in Pointer
    BY DEF Address
  <1>. QED
    BY <1>1, <1>2, <1>3, <1>4, <1>5 DEF Loaded

Typed == TypeOK /\ Len(stores) <= MaxStores

LEMMA TypedStores ==
  ASSUME Typed
  PROVE  /\ Len(stores) \in Nat /\ DOMAIN stores = 1 .. Len(stores)
         /\ \A i \in DOMAIN stores :
              /\ i \in 1 .. MaxStores
              /\ stores[i].to \in Pointer /\ stores[i].value \in Values
  <1>1. stores \in Seq(Stores) /\ Len(stores) <= MaxStores /\ MaxStores \in Nat
    BY BoundsAssumption DEF Typed, TypeOK
  <1>2. Len(stores) \in Nat /\ DOMAIN stores = 1 .. Len(stores)
    BY <1>1
  <1>3. \A i \in DOMAIN stores : stores[i] \in Stores
    BY <1>1
  <1>. QED
    BY <1>1, <1>2, <1>3 DEF Stores

(* The call whose loop comes to a store, and the calls below it.           *)
Resumed(q, i) == Append(Front(q), [Last(q) EXCEPT !.at = i + 1])

LEMMA FrontCalls ==
  ASSUME NEW q \in Seq(Calls), q # <<>>
  PROVE  /\ Len(q) \in Nat /\ Len(q) > 0
         /\ Front(q) \in Seq(Calls) /\ Len(Front(q)) = Len(q) - 1
         /\ \A n \in 1 .. Len(q) - 1 : Front(q)[n] = q[n]
         /\ Last(q) = q[Len(q)] /\ Last(q) \in Calls
  <1>1. Len(q) \in Nat /\ Len(q) > 0 /\ q[Len(q)] \in Calls
    OBVIOUS
  <1>2. Front(q) = SubSeq(q, 1, Len(q) - 1) /\ Last(q) = q[Len(q)]
    BY DEF Front, Last
  <1>3. /\ SubSeq(q, 1, Len(q) - 1) \in Seq(Calls)
        /\ Len(SubSeq(q, 1, Len(q) - 1)) = Len(q) - 1
        /\ \A n \in 1 .. Len(q) - 1 : SubSeq(q, 1, Len(q) - 1)[n] = q[n]
    <2> DEFINE m == Len(q) - 1
    <2>1. m \in Nat /\ \A n \in 1 .. m : q[n] \in Calls
      BY <1>1
    <2> HIDE DEF m
    <2>2. SubSeq(q, 1, m) \in Seq(Calls)
      BY <2>1, SubSeqProperties
    <2>3. /\ Len(SubSeq(q, 1, m)) = IF 1 <= m THEN m - 1 + 1 ELSE 0
          /\ \A n \in 1 .. m - 1 + 1 : SubSeq(q, 1, m)[n] = q[1 + n - 1]
      BY <2>1, SubSeqProperties
    <2>4. Len(SubSeq(q, 1, m)) = m /\ \A n \in 1 .. m : SubSeq(q, 1, m)[n] = q[n]
      BY <2>1, <2>3
    <2>. QED
      BY <2>2, <2>4 DEF m
  <1>. QED
    BY <1>1, <1>2, <1>3

LEMMA ResumedCalls ==
  ASSUME NEW q \in Seq(Calls), q # <<>>, NEW i \in 1 .. MaxStores
  PROVE  /\ Resumed(q, i) \in Seq(Calls) /\ Len(Resumed(q, i)) = Len(q)
         /\ Resumed(q, i) # <<>>
         /\ \A n \in 1 .. Len(q) : Resumed(q, i)[n].target = q[n].target
         /\ \A n \in 1 .. Len(q) - 1 : Resumed(q, i)[n] = q[n]
         /\ Resumed(q, i)[Len(q)].at = i + 1
  <1> DEFINE f == Front(q)
             c == [Last(q) EXCEPT !.at = i + 1]
  <1>1. /\ Len(q) \in Nat /\ Len(q) > 0
        /\ f \in Seq(Calls) /\ Len(f) = Len(q) - 1
        /\ \A n \in 1 .. Len(q) - 1 : f[n] = q[n]
        /\ Last(q) = q[Len(q)] /\ Last(q) \in Calls
    BY FrontCalls
  <1>2. c \in Calls /\ c.target = q[Len(q)].target /\ c.at = i + 1
    <2>1. i + 1 \in 1 .. MaxStores + 1
      BY BoundsAssumption
    <2> DEFINE d == Last(q)
    <2>2. d \in [target : Pointer, at : 1 .. MaxStores + 1] /\ d = q[Len(q)]
      BY <1>1 DEF Calls
    <2> HIDE DEF d
    <2>3. /\ [d EXCEPT !.at = i + 1] \in [target : Pointer, at : 1 .. MaxStores + 1]
          /\ [d EXCEPT !.at = i + 1].target = d.target
          /\ [d EXCEPT !.at = i + 1].at = i + 1
      BY <2>1, <2>2
    <2>. QED
      BY <2>2, <2>3 DEF Calls, d
  <1> HIDE DEF f, c
  <1>3. /\ Append(f, c) \in Seq(Calls) /\ Len(Append(f, c)) = Len(q)
        /\ \A n \in 1 .. Len(q) - 1 : Append(f, c)[n] = q[n]
        /\ Append(f, c)[Len(q)] = c
    BY <1>1, <1>2
  <1>4. Resumed(q, i) = Append(f, c)
    BY DEF Resumed, f, c
  <1>5. \A n \in 1 .. Len(q) : n \in 1 .. Len(q) - 1 \/ n = Len(q)
    BY <1>1
  <1>. QED
    BY <1>1, <1>2, <1>3, <1>4, <1>5

LEMMA PushedCalls ==
  ASSUME NEW q \in Seq(Calls), NEW p \in Pointer
  PROVE  LET r == Append(q, [target |-> p, at |-> 1])
         IN  /\ r \in Seq(Calls) /\ Len(r) = Len(q) + 1
             /\ \A n \in 1 .. Len(q) : r[n] = q[n]
             /\ r[Len(q) + 1].target = p /\ r[Len(q) + 1].at = 1
  <1>1. [target |-> p, at |-> 1] \in Calls
    BY BoundsAssumption DEF Calls
  <1>. QED
    BY <1>1

-----------------------------------------------------------------------------
(* The steps.                                                              *)

(* What a call of isSafeSrcValue may come to.                              *)
LEMMA Answers ==
  ASSUME NEW v \in Values, NEW below \in Seq(Calls), isSafeSrcValue(v, below)
  PROVE  \/ v \in Known \cup {Element} /\ calls' = below /\ answer' = "walking"
         \/ v = Foreign /\ calls' = <<>> /\ answer' = "unsafe"
         \/ /\ Loaded(v) /\ Len(below) = StackLimit
            /\ calls' = <<>> /\ answer' = "overflow"
         \/ /\ Loaded(v) /\ answer' = "walking"
            /\ calls' = Append(below, [target |-> v.of, at |-> 1])
            /\ calls' \in Seq(Calls) /\ Len(calls') = Len(below) + 1
            /\ \A n \in 1 .. Len(below) : calls'[n] = below[n]
            /\ calls'[Len(below) + 1].target = v.of
            /\ calls'[Len(below) + 1].at = 1
  <1>1. CASE Loaded(v) /\ Len(below) # StackLimit
    <2>1. v \notin Known \cup {Element} /\ v # Foreign /\ v.of \in Pointer
      BY <1>1, Kinds
    <2>2. /\ calls' = Append(below, [target |-> v.of, at |-> 1])
          /\ answer' = "walking"
      BY <1>1, <2>1 DEF isSafeSrcValue
    <2>3. /\ Append(below, [target |-> v.of, at |-> 1]) \in Seq(Calls)
          /\ Len(Append(below, [target |-> v.of, at |-> 1])) = Len(below) + 1
          /\ \A n \in 1 .. Len(below) :
               Append(below, [target |-> v.of, at |-> 1])[n] = below[n]
          /\ Append(below, [target |-> v.of, at |-> 1])[Len(below) + 1].target = v.of
          /\ Append(below, [target |-> v.of, at |-> 1])[Len(below) + 1].at = 1
      BY <2>1, PushedCalls
    <2>. QED
      BY <1>1, <2>2, <2>3
  <1>2. CASE ~(Loaded(v) /\ Len(below) # StackLimit)
    BY <1>2 DEF isSafeSrcValue, Loaded
  <1>. QED
    BY <1>1, <1>2

(* The loop of the topmost call comes to the store i.                      *)
Reaches(i) ==
  /\ calls # <<>> /\ i \in StoresTo(Last(calls).target, Last(calls).at)
  /\ \A k \in StoresTo(Last(calls).target, Last(calls).at) : i <= k
  /\ isSafeSrcValue(stores[i].value, Resumed(calls, i))

LEMMA Steps ==
  ASSUME Typed, [Next]_vars
  PROVE  /\ UNCHANGED function
         /\ \/ /\ UNCHANGED run
               /\ \/ /\ answer = "asked" /\ calls = <<>>
                     /\ isSafeSrcValue(source, <<>>)
                  \/ answer = "walking" /\ \E i \in DOMAIN stores : Reaches(i)
                  \/ /\ calls # <<>>
                     /\ StoresTo(Last(calls).target, Last(calls).at) = {}
                     /\ calls' = Front(calls) /\ answer' = answer
                  \/ /\ answer = "walking" /\ calls = <<>>
                     /\ answer' = "safe" /\ calls' = <<>>
            \/ /\ UNCHANGED walk
               /\ RunStore \/ StoreUnseen \/ Cast \/ UNCHANGED run
  <1>1. calls # <<>> => answer = "walking"
    BY DEF Typed, TypeOK
  <1>2. ASSUME NextStore
        PROVE  /\ UNCHANGED <<function, run>> /\ answer = "walking"
               /\ \E i \in DOMAIN stores : Reaches(i)
    BY <1>1, <1>2 DEF NextStore, Reaches, Resumed, StoresTo
  <1>3. ASSUME compiletime_verification
        PROVE  /\ UNCHANGED <<function, run>> /\ answer = "asked" /\ calls = <<>>
               /\ isSafeSrcValue(source, <<>>)
    BY <1>1, <1>3 DEF compiletime_verification
  <1>4. ASSUME ReturnTrue
        PROVE  /\ UNCHANGED <<function, run>> /\ calls # <<>>
               /\ StoresTo(Last(calls).target, Last(calls).at) = {}
               /\ calls' = Front(calls) /\ answer' = answer
    BY <1>4 DEF ReturnTrue
  <1>5. ASSUME Erase
        PROVE  /\ UNCHANGED <<function, run>> /\ answer = "walking" /\ calls = <<>>
               /\ answer' = "safe" /\ calls' = <<>>
    BY <1>5 DEF Erase
  <1>6. ASSUME RunStore \/ StoreUnseen \/ Cast
        PROVE  UNCHANGED function /\ UNCHANGED walk
    BY <1>6 DEF RunStore, StoreUnseen, Cast
  <1>7. UNCHANGED vars => UNCHANGED function /\ UNCHANGED walk /\ UNCHANGED run
    BY DEF vars
  <1>. QED
    BY <1>2, <1>3, <1>4, <1>5, <1>6, <1>7 DEF Next, Walk

LEMMA TypedStep == Typed /\ [Next]_vars => Typed'
  <1> SUFFICES ASSUME Typed, [Next]_vars
               PROVE  Typed'
    OBVIOUS
  <1>1. /\ stores' = stores /\ source' = source /\ exposed' = exposed
        /\ \A i \in DOMAIN stores : i \in 1 .. MaxStores /\ stores[i].value \in Values
                                    /\ stores[i].to \in Pointer
    BY Steps, TypedStores DEF function
  <1>2. /\ stores \in Seq(Stores) /\ Len(stores) <= MaxStores /\ source \in Values
        /\ exposed \subseteq Pointer /\ calls \in Seq(Calls)
        /\ answer \in {"asked", "walking", "safe", "unsafe", "overflow"}
        /\ calls # <<>> => answer = "walking"
        /\ content \in [Pointer -> Values \cup {Foreign, Undefined}]
        /\ casted \in Values \cup {Foreign, Undefined}
    BY DEF Typed, TypeOK
  <1>3. /\ calls' \in Seq(Calls)
        /\ answer' \in {"asked", "walking", "safe", "unsafe", "overflow"}
        /\ calls' # <<>> => answer' = "walking"
    <2>1. ASSUME NEW v \in Values, NEW below \in Seq(Calls), isSafeSrcValue(v, below)
          PROVE  /\ calls' \in Seq(Calls)
                 /\ answer' \in {"asked", "walking", "safe", "unsafe", "overflow"}
                 /\ calls' # <<>> => answer' = "walking"
      <3>1. <<>> \in Seq(Calls)
        OBVIOUS
      <3>. QED
        BY <2>1, <3>1, Answers
    <2>2. CASE answer = "asked" /\ isSafeSrcValue(source, <<>>)
      <3>1. <<>> \in Seq(Calls)
        OBVIOUS
      <3>. QED
        BY <1>2, <2>1, <2>2, <3>1
    <2>3. CASE \E i \in DOMAIN stores : Reaches(i)
      <3>1. PICK i \in DOMAIN stores : Reaches(i)
        BY <2>3
      <3>2. Resumed(calls, i) \in Seq(Calls) /\ stores[i].value \in Values
        BY <1>1, <1>2, <3>1, ResumedCalls DEF Reaches
      <3>. QED
        BY <2>1, <3>1, <3>2 DEF Reaches
    <2>4. CASE calls # <<>> /\ calls' = Front(calls) /\ answer' = answer
      BY <1>2, <2>4, FrontCalls
    <2>5. CASE answer' = "safe" /\ calls' = <<>>
      BY <2>5
    <2>6. CASE UNCHANGED walk
      BY <1>2, <2>6 DEF walk
    <2>. QED
      BY <2>2, <2>3, <2>4, <2>5, <2>6, Steps
  <1>4. /\ content' \in [Pointer -> Values \cup {Foreign, Undefined}]
        /\ casted' \in Values \cup {Foreign, Undefined}
    <2>1. \A v \in Values : Evaluate(v) \in Values \cup {Foreign, Undefined}
      BY <1>2 DEF Evaluate, Load
    <2>2. CASE UNCHANGED run
      BY <1>2, <2>2 DEF run
    <2>3. CASE RunStore
      BY <1>1, <1>2, <2>1, <2>3 DEF RunStore
    <2>4. CASE StoreUnseen
      <3>1. PICK e \in exposed, v \in Values \cup {Foreign} :
              content' = [content EXCEPT ![e] = Evaluate(v)]
        BY <2>4 DEF StoreUnseen
      <3>2. Foreign \notin Load
        BY DEF Foreign, Load
      <3>3. Evaluate(v) \in Values \cup {Foreign, Undefined}
        BY <2>1, <3>2 DEF Evaluate
      <3>. QED
        BY <1>2, <2>4, <3>1, <3>3 DEF StoreUnseen
    <2>5. CASE Cast
      BY <1>2, <2>1, <2>5 DEF Cast
    <2>. QED
      BY <2>2, <2>3, <2>4, <2>5, Steps
  <1>. QED
    BY <1>1, <1>2, <1>3, <1>4 DEF Typed, TypeOK

LEMMA InitTyped == Init => Typed
  <1> SUFFICES ASSUME Init
               PROVE  Typed
    OBVIOUS
  <1>1. PICK n \in 0 .. MaxStores : stores \in [1 .. n -> Stores]
    BY DEF Init
  <1>2. n \in Nat /\ n <= MaxStores
    BY <1>1, BoundsAssumption
  <1>3. stores \in Seq(Stores) /\ Len(stores) = n
    BY <1>1, <1>2
  <1>4. <<>> \in Seq(Calls)
    OBVIOUS
  <1>. QED
    BY <1>2, <1>3, <1>4 DEF Init, Typed, TypeOK

(* The pass and the function only get values of their own, and the stack   *)
(* of calls is of variables of the function.                               *)
THEOREM ElisionTyped == Spec => []TypeOK
  <1>1. Typed => TypeOK
    BY DEF Typed
  <1>. QED
    BY <1>1, InitTyped, TypedStep, PTL DEF Spec


-----------------------------------------------------------------------------
(* Where values come from.                                                 *)

LEMMA OriginsClosed ==
  ASSUME Typed, NEW v \in Values, Loaded(v)
  PROVE  /\ v.of \in Origins(v) /\ Origins(v) \subseteq Pointer
         /\ Closed(Origins(v))
         /\ \A S \in SUBSET Pointer : v.of \in S /\ Closed(S) => Origins(v) \subseteq S
  <1>1. Origins(v) = {p \in Pointer : \A S \in SUBSET Pointer :
                                        v.of \in S /\ Closed(S) => p \in S}
    BY DEF Origins, Loaded
  <1>2. v.of \in Pointer
    BY Kinds
  <1>3. ASSUME NEW i \in DOMAIN stores, stores[i].to \in Origins(v),
               stores[i].value \in Load \cup Address
        PROVE  stores[i].value.of \in Origins(v)
    <2>1. stores[i].value.of \in Pointer
      BY <1>3, TypedStores, Kinds DEF Loaded
    <2>2. ASSUME NEW S \in SUBSET Pointer, v.of \in S, Closed(S)
          PROVE  stores[i].value.of \in S
      <3>1. stores[i].to \in S
        BY <1>1, <1>3, <2>2
      <3>. QED
        BY <1>3, <2>2, <3>1 DEF Closed
    <2>. QED
      BY <1>1, <2>1, <2>2
  <1>4. Closed(Origins(v))
    BY <1>3 DEF Closed
  <1>. QED
    BY <1>1, <1>2, <1>4

(* The origins of a value are closed, and hold those of every value that   *)
(* is stored to one of them.                                               *)
LEMMA OriginsOfStored ==
  ASSUME Typed, NEW v \in Values, NEW i \in DOMAIN stores,
         stores[i].to \in Origins(v)
  PROVE  Loaded(v) /\ Origins(stores[i].value) \subseteq Origins(v)
  <1> DEFINE w == stores[i].value
  <1>1. Loaded(v)
    BY DEF Origins, Loaded
  <1>2. w \in Values
    BY TypedStores
  <1>3. CASE Loaded(w)
    <2>1. w.of \in Origins(v)
      BY <1>1, <1>3, OriginsClosed DEF Closed, Loaded
    <2>. QED
      BY <1>1, <1>2, <1>3, <2>1, OriginsClosed
  <1>4. CASE ~Loaded(w)
    BY <1>1, <1>4 DEF Origins, Loaded
  <1>. QED
    BY <1>3, <1>4

(* Something foreign may get into v.                                       *)
Tainted(v) == Foreign \in OriginValues(v)

LEMMA TaintedWhen ==
  ASSUME Typed, NEW v
  PROVE  Tainted(v) <=> \/ v = Foreign
                        \/ \E i \in DOMAIN stores :
                             stores[i].to \in Origins(v) /\ stores[i].value = Foreign
  BY DEF Tainted, OriginValues, ToSet

(* It does through a value stored to the variable that v is of.            *)
LEMMA TaintedStore ==
  ASSUME Typed, NEW v \in Values
  PROVE  Tainted(v) <=>
           \/ v = Foreign
           \/ Loaded(v) /\ \E i \in DOMAIN stores : /\ stores[i].to = v.of
                                                    /\ Tainted(stores[i].value)
  <1>1. ASSUME Loaded(v), NEW i \in DOMAIN stores, stores[i].to = v.of,
               Tainted(stores[i].value)
        PROVE  Tainted(v)
    <2>1. stores[i].to \in Origins(v)
      BY <1>1, OriginsClosed
    <2>2. Origins(stores[i].value) \subseteq Origins(v)
      BY <2>1, OriginsOfStored
    <2>. QED
      BY <1>1, <2>1, <2>2, TaintedWhen
  <1>2. ASSUME Tainted(v), v # Foreign
        PROVE  Loaded(v) /\ \E i \in DOMAIN stores : /\ stores[i].to = v.of
                                                     /\ Tainted(stores[i].value)
    <2>1. PICK k \in DOMAIN stores :
            stores[k].to \in Origins(v) /\ stores[k].value = Foreign
      BY <1>2, TaintedWhen
    <2>2. Loaded(v)
      BY <2>1, OriginsOfStored
    <2> DEFINE S == {p \in Pointer :
                       \/ p = v.of
                       \/ \E i \in DOMAIN stores :
                            stores[i].to = v.of /\ p \in Origins(stores[i].value)}
    <2>3. ASSUME NEW j \in DOMAIN stores, stores[j].to \in S,
                 stores[j].value \in Load \cup Address
          PROVE  stores[j].value.of \in S
      <3>1. /\ stores[j].value \in Values /\ Loaded(stores[j].value)
            /\ stores[j].value.of \in Pointer
        BY <2>3, TypedStores, Kinds DEF Loaded
      <3>2. CASE stores[j].to = v.of
        BY <3>1, <3>2, OriginsClosed
      <3>3. CASE stores[j].to # v.of
        <4>1. PICK i \in DOMAIN stores :
                stores[i].to = v.of /\ stores[j].to \in Origins(stores[i].value)
          BY <2>3, <3>3
        <4>2. stores[i].value \in Values
          BY TypedStores
        <4>3. Origins(stores[j].value) \subseteq Origins(stores[i].value)
          BY <4>1, <4>2, OriginsOfStored
        <4>. QED
          BY <3>1, <4>1, <4>3, OriginsClosed
      <3>. QED
        BY <3>2, <3>3
    <2>4. Closed(S) /\ v.of \in S /\ S \in SUBSET Pointer
      BY <2>2, <2>3, Kinds DEF Closed
    <2>5. stores[k].to \in S
      BY <2>1, <2>2, <2>4, OriginsClosed
    <2>6. CASE stores[k].to = v.of
      BY <2>1, <2>2, <2>6, TaintedWhen
    <2>7. CASE stores[k].to # v.of
      <3>1. PICK i \in DOMAIN stores :
              stores[i].to = v.of /\ stores[k].to \in Origins(stores[i].value)
        BY <2>5, <2>7
      <3>. QED
        BY <2>1, <2>2, <3>1, TaintedWhen
    <2>. QED
      BY <2>6, <2>7
  <1>3. v = Foreign => Tainted(v)
    BY TaintedWhen
  <1>. QED
    BY <1>1, <1>2, <1>3

(* All of this is about the function, which no step changes.               *)
LEMMA SameFunction ==
  ASSUME UNCHANGED function
  PROVE  /\ \A v : Origins(v)' = Origins(v)
         /\ \A v : OriginValues(v)' = OriginValues(v)
         /\ \A v : Tainted(v)' <=> Tainted(v)
         /\ \A p, n : StoresTo(p, n)' = StoresTo(p, n)
         /\ source' = source /\ stores' = stores /\ exposed' = exposed
  BY DEF function, Origins, OriginValues, Tainted, StoresTo, Closed

-----------------------------------------------------------------------------
(* The walk is exact.                                                      *)

(* Something foreign is among the stores that are still to be looked at.   *)
Ahead == \E n \in 1 .. Len(calls) : \E i \in StoresTo(calls[n].target, calls[n].at) :
           Tainted(stores[i].value)

(* Only variables the source can come from are looked at; while no answer  *)
(* is given, what would change it is ahead.                                *)
WalkInv ==
  /\ \A n \in 1 .. Len(calls) : calls[n].target \in Origins(source)
  /\ answer = "unsafe" => Tainted(source)
  /\ answer \in {"walking", "safe"} /\ Tainted(source) => Ahead

(* A call of isSafeSrcValue for a value the source can come from, below    *)
(* which everything is in order.                                           *)
LEMMA WalkAsks ==
  ASSUME Typed, NEW v \in Values, NEW below \in Seq(Calls),
         isSafeSrcValue(v, below), UNCHANGED function,
         \A n \in 1 .. Len(below) : below[n].target \in Origins(source),
         Loaded(v) => v.of \in Origins(source),
         v = Foreign => Tainted(source),
         Tainted(source) =>
           \/ Tainted(v)
           \/ \E n \in 1 .. Len(below) :
                \E i \in StoresTo(below[n].target, below[n].at) : Tainted(stores[i].value)
  PROVE  WalkInv'
  <1>0. SUFFICES /\ \A n \in 1 .. Len(calls') : calls'[n].target \in Origins(source)
                 /\ answer' = "unsafe" => Tainted(source)
                 /\ answer' \in {"walking", "safe"} /\ Tainted(source) =>
                      \E n \in 1 .. Len(calls') :
                        \E i \in StoresTo(calls'[n].target, calls'[n].at) :
                          Tainted(stores[i].value)
    <2>1. /\ Origins(source)' = Origins(source)
          /\ Tainted(source)' <=> Tainted(source)
          /\ stores' = stores
          /\ \A i : Tainted(stores[i].value)' <=> Tainted(stores[i].value)
          /\ \A n : StoresTo(calls[n].target, calls[n].at)'
                      = StoresTo(calls'[n].target, calls'[n].at)
      BY SameFunction DEF Origins, OriginValues, Tainted, StoresTo, Closed
    <2>. QED
      BY <2>1 DEF WalkInv, Ahead
  <1>1. CASE v \in Known \cup {Element} /\ calls' = below /\ answer' = "walking"
    <2>1. ~Tainted(v)
      BY <1>1, Kinds, TaintedStore
    <2>. QED
      BY <1>1, <2>1
  <1>2. CASE v = Foreign /\ calls' = <<>> /\ answer' = "unsafe"
    BY <1>2
  <1>3. CASE calls' = <<>> /\ answer' = "overflow"
    BY <1>3
  <1>4. CASE /\ Loaded(v) /\ answer' = "walking"
             /\ calls' \in Seq(Calls) /\ Len(calls') = Len(below) + 1
             /\ \A n \in 1 .. Len(below) : calls'[n] = below[n]
             /\ calls'[Len(below) + 1].target = v.of
             /\ calls'[Len(below) + 1].at = 1
    <2>1. \A n \in 1 .. Len(calls') : n \in 1 .. Len(below) \/ n = Len(below) + 1
      BY <1>4
    <2>2. Len(below) \in Nat
      OBVIOUS
    <2>3. ASSUME Tainted(v)
          PROVE  \E n \in 1 .. Len(calls') :
                   \E i \in StoresTo(calls'[n].target, calls'[n].at) :
                     Tainted(stores[i].value)
      <3>1. PICK i \in DOMAIN stores : stores[i].to = v.of /\ Tainted(stores[i].value)
        BY <1>4, <2>3, Kinds, TaintedStore
      <3>2. i \in StoresTo(v.of, 1)
        BY <3>1, TypedStores DEF StoresTo
      <3>3. Len(below) + 1 \in 1 .. Len(calls')
        BY <1>4, <2>2
      <3>. QED
        BY <1>4, <3>1, <3>2, <3>3
    <2>4. \A n \in 1 .. Len(below) : n \in 1 .. Len(calls')
      BY <1>4, <2>2
    <2>. QED
      BY <1>4, <2>1, <2>3, <2>4
  <1>. QED
    BY <1>1, <1>2, <1>3, <1>4, Answers

LEMMA WalkStep == Typed /\ WalkInv /\ [Next]_vars => WalkInv'
  <1> SUFFICES ASSUME Typed, WalkInv, [Next]_vars
               PROVE  WalkInv'
    OBVIOUS
  <1>1. UNCHANGED function /\ source \in Values /\ calls \in Seq(Calls)
    BY Steps DEF Typed, TypeOK
  <1>2. ASSUME answer = "asked", isSafeSrcValue(source, <<>>)
        PROVE  WalkInv'
    <2> DEFINE below == <<>>
    <2>1. /\ below \in Seq(Calls) /\ \A n \in 1 .. Len(below) : FALSE
          /\ isSafeSrcValue(source, below)
      BY <1>2
    <2> HIDE DEF below
    <2>2. Loaded(source) => source.of \in Origins(source)
      BY <1>1, OriginsClosed
    <2>3. source = Foreign => Tainted(source)
      BY TaintedWhen
    <2>. QED
      BY <1>1, <1>2, <2>1, <2>2, <2>3, WalkAsks
  <1>3. ASSUME answer = "walking", NEW i \in DOMAIN stores, Reaches(i)
        PROVE  WalkInv'
    <2> DEFINE v == stores[i].value
               below == Resumed(calls, i)
               last == Len(calls)
    <2>1. /\ calls # <<>> /\ isSafeSrcValue(v, below)
          /\ i \in StoresTo(calls[last].target, calls[last].at)
          /\ \A k \in StoresTo(calls[last].target, calls[last].at) : i <= k
      BY <1>1, <1>3, FrontCalls DEF Reaches
    <2>2. /\ below \in Seq(Calls) /\ Len(below) = last
          /\ \A n \in 1 .. last : below[n].target = calls[n].target
          /\ \A n \in 1 .. last - 1 : below[n] = calls[n]
          /\ below[last].at = i + 1
      BY <1>1, <2>1, TypedStores, ResumedCalls
    <2>3. v \in Values /\ last \in Nat /\ last \in 1 .. last
      BY <1>1, <2>1, TypedStores, FrontCalls
    <2>4. stores[i].to \in Origins(source)
      BY <2>1, <2>3 DEF WalkInv, StoresTo
    <2>5. Loaded(v) => v.of \in Origins(source)
      BY <1>1, <2>4, OriginsOfStored, OriginsClosed DEF Closed, Loaded
    <2>6. v = Foreign => Tainted(source)
      BY <2>4, TaintedWhen
    <2>7. ASSUME Tainted(source), ~Tainted(v)
          PROVE  \E n \in 1 .. Len(below) :
                   \E j \in StoresTo(below[n].target, below[n].at) :
                     Tainted(stores[j].value)
      <3>0. PICK n \in 1 .. last :
              \E j \in StoresTo(calls[n].target, calls[n].at) : Tainted(stores[j].value)
        BY <1>3, <2>7 DEF WalkInv, Ahead
      <3>1. PICK j \in StoresTo(calls[n].target, calls[n].at) : Tainted(stores[j].value)
        BY <3>0
      <3>2. CASE n = last
        <4>1. j # i /\ i <= j
          BY <2>1, <2>7, <3>1, <3>2
        <4>2. j \in DOMAIN stores /\ stores[j].to = calls[last].target
          BY <3>2 DEF StoresTo
        <4>3. i \in Int /\ j \in Int
          BY <4>2, TypedStores
        <4>4. j \in StoresTo(below[last].target, below[last].at)
          BY <2>2, <2>3, <4>1, <4>2, <4>3 DEF StoresTo
        <4>. QED
          BY <2>2, <2>3, <3>1, <4>4
      <3>3. CASE n # last
        <4>1. n \in 1 .. last - 1
          BY <2>3, <3>3
        <4>. QED
          BY <2>2, <3>1, <4>1
      <3>. QED
        BY <3>2, <3>3
    <2> HIDE DEF v, below
    <2>. QED
      BY <1>1, <2>1, <2>2, <2>3, <2>5, <2>6, <2>7, WalkAsks DEF WalkInv
  <1>4. ASSUME calls # <<>>, StoresTo(Last(calls).target, Last(calls).at) = {},
               calls' = Front(calls), answer' = answer
        PROVE  WalkInv'
    <2> DEFINE last == Len(calls)
    <2>1. /\ Last(calls) = calls[last] /\ last \in Nat /\ Len(calls') = last - 1
          /\ \A n \in 1 .. last - 1 : calls'[n] = calls[n]
      BY <1>1, <1>4, FrontCalls
    <2>2. Ahead => Ahead'
      <3> SUFFICES ASSUME Ahead PROVE Ahead'
        OBVIOUS
      <3>0. PICK n \in 1 .. last :
              \E j \in StoresTo(calls[n].target, calls[n].at) : Tainted(stores[j].value)
        BY DEF Ahead
      <3>1. PICK j \in StoresTo(calls[n].target, calls[n].at) : Tainted(stores[j].value)
        BY <3>0
      <3>2. n # last
        BY <1>4, <2>1, <3>1
      <3>3. n \in 1 .. Len(calls') /\ calls'[n] = calls[n]
        BY <2>1, <3>2
      <3>4. j \in StoresTo(calls[n].target, calls[n].at)'
        BY <1>1, <3>3 DEF StoresTo, function
      <3>5. Tainted(stores[j].value)'
        BY <1>1, <3>1 DEF Tainted, OriginValues, Origins, Closed, function
      <3>. QED
        BY <3>3, <3>4, <3>5 DEF Ahead
    <2>3. Origins(source)' = Origins(source) /\ (Tainted(source)' <=> Tainted(source))
      BY <1>1 DEF Tainted, OriginValues, Origins, Closed, function
    <2>. QED
      BY <1>4, <2>1, <2>2, <2>3 DEF WalkInv
  <1>5. ASSUME answer = "walking", calls = <<>>, answer' = "safe", calls' = <<>>
        PROVE  WalkInv'
    <2>1. Ahead' <=> Ahead
      BY <1>1, <1>5 DEF Ahead, StoresTo, Tainted, OriginValues, Origins, Closed, function
    <2>2. Tainted(source)' <=> Tainted(source)
      BY <1>1 DEF Tainted, OriginValues, Origins, Closed, function
    <2>. QED
      BY <1>5, <2>1, <2>2 DEF WalkInv
  <1>6. ASSUME UNCHANGED walk
        PROVE  WalkInv'
    <2>1. Ahead' <=> Ahead
      BY <1>1, <1>6
         DEF Ahead, StoresTo, Tainted, OriginValues, Origins, Closed, function, walk
    <2>2. Origins(source)' = Origins(source) /\ (Tainted(source)' <=> Tainted(source))
      BY <1>1 DEF Tainted, OriginValues, Origins, Closed, function
    <2>. QED
      BY <1>6, <2>1, <2>2 DEF WalkInv, walk
  <1>. QED
    BY <1>2, <1>3, <1>4, <1>5, <1>6, Steps

LEMMA WalkExactWhen == Typed /\ WalkInv => WalkExact
  <1> SUFFICES ASSUME Typed, WalkInv
               PROVE  WalkExact
    OBVIOUS
  <1>1. ~(answer = "safe" /\ Ahead)
    <2>1. calls = <<>> => ~Ahead
      BY DEF Ahead
    <2>. QED
      BY <2>1 DEF Typed, TypeOK
  <1>. QED
    BY <1>1 DEF WalkInv, WalkExact, Tainted

(* The check is removed just if no value the source can come from is       *)
(* foreign to the function, in whatever circles its variables are stored   *)
(* to each other (isSafePointer, isSafeSrcValue).                          *)
THEOREM WalkExactHolds == Spec => []WalkExact
  <1>1. Init => WalkInv
    BY DEF Init, WalkInv
  <1>2. Typed /\ WalkInv /\ [Next]_vars => Typed' /\ WalkInv'
    BY TypedStep, WalkStep
  <1>. QED
    BY <1>1, <1>2, InitTyped, WalkExactWhen, PTL DEF Spec


-----------------------------------------------------------------------------
(* The function runs.                                                      *)

(* What a variable the source can come from, and the cast, may have when   *)
(* the check is removed.                                                   *)
Explained(x) ==
  \/ x \in Known \cup {Undefined}
  \/ Origins(source) \cap exposed # {}
  \/ x \in (Address \cup {Element}) \cap OriginValues(source)

RunInv ==
  /\ ~Compiled => casted = Undefined /\ \A p \in Pointer : content[p] = Undefined
  /\ answer = "safe" => Explained(casted) /\ \A p \in Origins(source) : Explained(content[p])

LEMMA ExplainedValue ==
  ASSUME Typed, RunInv, answer = "safe", ~Tainted(source),
         NEW v \in Values, v \in OriginValues(source),
         Loaded(v) => v.of \in Origins(source)
  PROVE  Explained(Evaluate(v))
  <1>1. CASE v \in Load
    <2>1. v.of \in Origins(source) /\ Evaluate(v) = content[v.of]
      BY <1>1 DEF Loaded, Evaluate
    <2>. QED
      BY <2>1 DEF RunInv
  <1>2. CASE v \in Address
    BY <1>2, Kinds DEF Evaluate, Explained
  <1>3. CASE v \in Known \cup {Element}
    BY <1>3, Kinds DEF Evaluate, Explained, Loaded
  <1>4. v # Foreign
    BY DEF Tainted
  <1>. QED
    BY <1>1, <1>2, <1>3, <1>4, Kinds DEF Loaded

LEMMA RunStep ==
  ASSUME Typed, WalkInv, RunInv, [Next]_vars
  PROVE  RunInv'
  <1>1. /\ UNCHANGED function /\ source \in Values
        /\ content \in [Pointer -> Values \cup {Foreign, Undefined}]
        /\ Origins(source) \subseteq Pointer
    <2>1. source \in Values
      BY DEF Typed, TypeOK
    <2>2. Origins(source) \subseteq Pointer
      BY <2>1, OriginsClosed DEF Origins, Loaded
    <2>. QED
      BY <2>1, <2>2, Steps DEF Typed, TypeOK
  <1>2. /\ \A x : Explained(x)' <=> Explained(x)
        /\ Origins(source)' = Origins(source)
    BY <1>1 DEF Explained, OriginValues, Origins, Closed, function
  <1>3. answer = "safe" => ~Tainted(source)
    BY WalkExactWhen DEF WalkExact, Tainted
  <1>4. CASE ~Compiled
    <2>1. UNCHANGED run
      <3>1. ~RunStore /\ ~StoreUnseen /\ ~Cast
        BY <1>4 DEF RunStore, StoreUnseen, Cast
      <3>. QED
        BY <3>1, Steps
    <2>2. casted' = Undefined /\ \A p \in Pointer : content'[p] = Undefined
      BY <1>4, <2>1 DEF RunInv, run
    <2>3. Explained(Undefined)
      BY DEF Explained
    <2>4. answer' = "safe" =>
            Explained(casted') /\ \A p \in Origins(source) : Explained(content'[p])
      BY <1>1, <2>2, <2>3
    <2>. QED
      BY <1>1, <1>2, <2>2, <2>4 DEF RunInv, Explained, OriginValues, Origins, Closed, function
  <1>5. CASE Compiled
    <2>1. UNCHANGED walk
      <3>1. calls = <<>> /\ answer \notin {"asked", "walking"}
        BY <1>5 DEF Compiled, Typed, TypeOK
      <3>. QED
        BY <3>1, Steps
    <2>2. Compiled'
      BY <1>5, <2>1 DEF Compiled, walk
    <2>3. SUFFICES ASSUME answer = "safe"
                   PROVE  /\ Explained(casted')
                          /\ \A p \in Origins(source) : Explained(content'[p])
      BY <1>1, <1>2, <2>1, <2>2
         DEF RunInv, walk, Explained, OriginValues, Origins, Closed, function
    <2>4. Explained(casted) /\ \A p \in Origins(source) : Explained(content[p])
      BY <2>3 DEF RunInv
    <2>5. CASE UNCHANGED run
      BY <2>4, <2>5 DEF run
    <2>6. CASE RunStore
      <3>1. PICK i \in DOMAIN stores :
              content' = [content EXCEPT ![stores[i].to] = Evaluate(stores[i].value)]
        BY <2>6 DEF RunStore
      <3>2. casted' = casted
        BY <2>6 DEF RunStore
      <3>3. ASSUME stores[i].to \in Origins(source)
            PROVE  Explained(Evaluate(stores[i].value))
        <4> DEFINE v == stores[i].value
        <4>1. v \in Values /\ v \in OriginValues(source)
          BY <3>3, TypedStores DEF OriginValues, ToSet
        <4>2. Loaded(v) => v.of \in Origins(source)
          BY <1>1, <3>3, OriginsOfStored, OriginsClosed DEF Closed, Loaded
        <4> HIDE DEF v
        <4>3. Explained(Evaluate(v))
          BY <1>3, <2>3, <4>1, <4>2, ExplainedValue
        <4>. QED
          BY <4>3 DEF v
      <3>4. ASSUME NEW p \in Origins(source)
            PROVE  Explained(content'[p])
        BY <1>1, <2>4, <3>1, <3>3
      <3>. QED
        BY <2>4, <3>2, <3>4
    <2>7. CASE StoreUnseen
      <3>1. PICK e \in exposed, v \in Values \cup {Foreign} :
              content' = [content EXCEPT ![e] = Evaluate(v)]
        BY <2>7 DEF StoreUnseen
      <3>2. casted' = casted
        BY <2>7 DEF StoreUnseen
      <3>3. e \in Origins(source) => Explained(Evaluate(v))
        BY DEF Explained
      <3>4. ASSUME NEW p \in Origins(source)
            PROVE  Explained(content'[p])
        BY <1>1, <2>4, <3>1, <3>3
      <3>. QED
        BY <2>4, <3>2, <3>4
    <2>8. CASE Cast
      <3>1. casted' = Evaluate(source) /\ content' = content
        BY <2>8 DEF Cast
      <3>2. source \in OriginValues(source)
        BY DEF OriginValues
      <3>3. Loaded(source) => source.of \in Origins(source)
        BY <1>1, OriginsClosed
      <3>4. Explained(Evaluate(source))
        BY <1>1, <1>3, <2>3, <3>2, <3>3, ExplainedValue
      <3>. QED
        BY <2>4, <3>1, <3>4
    <2>. QED
      BY <2>1, <2>5, <2>6, <2>7, <2>8, Steps
  <1>. QED
    BY <1>4, <1>5

(* A cast whose check is removed has an object of the function or a global *)
(* whenever it is run, unless one of the variables it can come from has    *)
(* stores the pass does not see, the address of a variable was taken for   *)
(* the variable, or the value is an element of an unknown object.          *)
THEOREM RemovedSourceKnownHolds == Spec => []RemovedSourceKnown
  <1>1. Init => Typed /\ WalkInv /\ RunInv
    <2> SUFFICES ASSUME Init
                 PROVE  WalkInv /\ RunInv
      BY InitTyped
    <2>1. answer = "asked" /\ calls = <<>> /\ casted = Undefined
          /\ \A p \in Pointer : content[p] = Undefined
      BY DEF Init
    <2>2. WalkInv
      BY <2>1 DEF WalkInv
    <2>. QED
      BY <2>1, <2>2 DEF RunInv, Compiled
  <1>2. Typed /\ WalkInv /\ RunInv /\ [Next]_vars => Typed' /\ WalkInv' /\ RunInv'
    BY TypedStep, WalkStep, RunStep
  <1>3. RunInv => RemovedSourceKnown
    BY DEF RunInv, RemovedSourceKnown, Explained
  <1>. QED
    BY <1>1, <1>2, <1>3, PTL DEF Spec

-----------------------------------------------------------------------------
(* Circles.                                                                *)

(* A variable the contents of which can come from itself.                  *)
Circular(p) ==
  \E i \in DOMAIN stores : stores[i].to = p /\ p \in Origins(stores[i].value)

(* Every open call was made for a variable its callers' variables can come *)
(* from.                                                                   *)
Linked(q) ==
  /\ \A n \in 1 .. Len(q) : q[n].target \in Origins(source)
  /\ \A m, n \in 1 .. Len(q) : m < n =>
       \E i \in DOMAIN stores :
         stores[i].to = q[m].target /\ q[n].target \in Origins(stores[i].value)

LinkedInv ==
  /\ Linked(calls)
  /\ Cardinality(Pointer) <= StackLimit /\ answer = "overflow"
       => \E p \in Origins(source) : Circular(p)

(* With more open calls than variables two are for the same one.           *)
LEMMA LinkedTooLong ==
  ASSUME NEW q \in Seq(Calls), Linked(q), Cardinality(Pointer) < Len(q)
  PROVE  \E p \in Origins(source) : Circular(p)
  <1> DEFINE f == [n \in 1 .. Len(q) |-> q[n].target]
  <1>1. Len(q) \in Nat /\ \A n \in 1 .. Len(q) : q[n].target \in Pointer
    <2>1. Len(q) \in Nat /\ \A n \in 1 .. Len(q) : q[n] \in Calls
      OBVIOUS
    <2>. QED
      BY <2>1 DEF Calls
  <1>2. f \in [1 .. Len(q) -> Pointer]
    BY <1>1
  <1>3. /\ IsFiniteSet(1 .. Len(q)) /\ Cardinality(1 .. Len(q)) = Len(q)
        /\ IsFiniteSet(Pointer)
    <2>1. Len(q) > 0 \/ Len(q) = 0
      BY <1>1
    <2>2. 1 \in Int /\ Len(q) \in Int
      BY <1>1
    <2>3. /\ IsFiniteSet(1 .. Len(q))
          /\ Cardinality(1 .. Len(q)) = IF 1 > Len(q) THEN 0 ELSE Len(q) - 1 + 1
      BY <2>2, FS_Interval
    <2>. QED
      BY <1>1, <2>1, <2>3, BoundsAssumption
  <1>4. \E m, n \in 1 .. Len(q) : m # n /\ f[m] = f[n]
    <2> HIDE DEF f
    <2>. QED
      BY <1>2, <1>3, FS_PigeonHole
  <1>5. \E m, n \in 1 .. Len(q) : m < n /\ q[m].target = q[n].target
    <2>1. PICK m \in 1 .. Len(q), n \in 1 .. Len(q) : m # n /\ f[m] = f[n]
      BY <1>4
    <2>2. m < n \/ n < m
      BY <1>1, <2>1
    <2>. QED
      BY <2>1, <2>2
  <1>6. PICK m \in 1 .. Len(q), n \in 1 .. Len(q) : m < n /\ q[m].target = q[n].target
    BY <1>5
  <1>7. Circular(q[m].target) /\ q[m].target \in Origins(source)
    BY <1>6 DEF Linked, Circular
  <1>. QED
    BY <1>7

(* One more call.                                                          *)
LEMMA LinkedPush ==
  ASSUME Typed, NEW below \in Seq(Calls), Linked(below),
         NEW v \in Values, Loaded(v), v.of \in Origins(source),
         Len(below) > 0 => \E i \in DOMAIN stores : /\ stores[i].to = below[Len(below)].target
                                                    /\ stores[i].value = v
  PROVE  Linked(Append(below, [target |-> v.of, at |-> 1]))
  <1> DEFINE r == Append(below, [target |-> v.of, at |-> 1])
             k == Len(below)
  <1>1. k \in Nat /\ v.of \in Pointer
    BY Kinds
  <1>2. /\ r \in Seq(Calls) /\ Len(r) = k + 1
        /\ \A n \in 1 .. k : r[n] = below[n]
        /\ r[k + 1].target = v.of
    BY <1>1, PushedCalls
  <1> HIDE DEF r
  <1>3. \A n \in 1 .. Len(r) : n \in 1 .. k \/ n = k + 1
    BY <1>1, <1>2
  <1>4. \A n \in 1 .. Len(r) : r[n].target \in Origins(source)
    BY <1>2, <1>3 DEF Linked
  <1>5. ASSUME NEW m \in 1 .. Len(r), NEW n \in 1 .. Len(r), m < n
        PROVE  \E i \in DOMAIN stores :
                 stores[i].to = r[m].target /\ r[n].target \in Origins(stores[i].value)
    <2>1. m \in 1 .. k
      BY <1>1, <1>2, <1>5
    <2>2. CASE n \in 1 .. k
      BY <1>2, <1>5, <2>1, <2>2 DEF Linked
    <2>3. CASE n = k + 1 /\ m = k
      <3>1. PICK i \in DOMAIN stores : stores[i].to = below[k].target /\ stores[i].value = v
        BY <1>1, <2>1, <2>3
      <3>2. v.of \in Origins(v)
        BY OriginsClosed
      <3>. QED
        BY <1>2, <2>1, <2>3, <3>1, <3>2
    <2>4. CASE n = k + 1 /\ m # k
      <3>1. k \in 1 .. k /\ m < k
        BY <1>1, <2>1, <2>4
      <3>2. PICK i \in DOMAIN stores :
              stores[i].to = below[m].target /\ below[k].target \in Origins(stores[i].value)
        BY <2>1, <3>1 DEF Linked
      <3>3. PICK j \in DOMAIN stores : stores[j].to = below[k].target /\ stores[j].value = v
        BY <3>1
      <3>4. stores[i].value \in Values /\ Loaded(stores[i].value)
        BY <3>2, TypedStores DEF Origins, Loaded
      <3>5. v.of \in Origins(stores[i].value)
        BY <3>2, <3>3, <3>4, OriginsClosed DEF Closed, Loaded
      <3>. QED
        BY <1>2, <2>1, <2>4, <3>2, <3>5
    <2>. QED
      BY <1>3, <1>5, <2>1, <2>2, <2>3, <2>4
  <1>. QED
    BY <1>4, <1>5 DEF Linked, r


LEMMA LinkedAsks ==
  ASSUME Typed, NEW v \in Values, NEW below \in Seq(Calls),
         isSafeSrcValue(v, below), UNCHANGED function, Linked(below),
         Loaded(v) => v.of \in Origins(source),
         Len(below) > 0 => \E i \in DOMAIN stores : /\ stores[i].to = below[Len(below)].target
                                                    /\ stores[i].value = v
  PROVE  LinkedInv'
  <1>0. SUFFICES /\ Linked(calls')
                 /\ Cardinality(Pointer) <= StackLimit /\ answer' = "overflow"
                      => \E p \in Origins(source) : Circular(p)
    BY ZenonT(60) DEF LinkedInv, Linked, Circular, Origins, Closed, function
  <1>1. Loaded(v) => Linked(Append(below, [target |-> v.of, at |-> 1]))
    BY LinkedPush
  <1>2. Linked(<<>>)
    BY DEF Linked
  <1>3. Linked(calls')
    BY <1>1, <1>2, Answers
  <1>4. ASSUME Cardinality(Pointer) <= StackLimit, answer' = "overflow"
        PROVE  \E p \in Origins(source) : Circular(p)
    <2> DEFINE r == Append(below, [target |-> v.of, at |-> 1])
    <2>1. Loaded(v) /\ Len(below) = StackLimit
      BY <1>4, Answers
    <2>2. v.of \in Pointer
      BY <2>1, Kinds
    <2>3. r \in Seq(Calls) /\ Len(r) = Len(below) + 1
      BY <2>2, PushedCalls
    <2>4. Linked(r)
      BY <1>1, <2>1
    <2> HIDE DEF r
    <2>5. Cardinality(Pointer) \in Nat
      BY FS_CardinalityType, BoundsAssumption
    <2>6. Cardinality(Pointer) < Len(r)
      BY <1>4, <2>1, <2>3, <2>5, BoundsAssumption
    <2>. QED
      BY <2>3, <2>4, <2>6, LinkedTooLong
  <1>. QED
    BY <1>3, <1>4

LEMMA LinkedStep == Typed /\ LinkedInv /\ [Next]_vars => LinkedInv'
  <1> SUFFICES ASSUME Typed, LinkedInv, [Next]_vars
               PROVE  LinkedInv'
    OBVIOUS
  <1>1. UNCHANGED function /\ source \in Values /\ calls \in Seq(Calls) /\ Linked(calls)
    BY Steps DEF Typed, TypeOK, LinkedInv
  <1>2. ASSUME answer = "asked", isSafeSrcValue(source, <<>>)
        PROVE  LinkedInv'
    <2> DEFINE below == <<>>
    <2>1. /\ below \in Seq(Calls) /\ ~(Len(below) > 0) /\ Linked(below)
          /\ isSafeSrcValue(source, below)
      BY <1>2 DEF Linked
    <2> HIDE DEF below
    <2>2. Loaded(source) => source.of \in Origins(source)
      BY <1>1, OriginsClosed
    <2>. QED
      BY <1>1, <2>1, <2>2, LinkedAsks
  <1>3. ASSUME NEW i \in DOMAIN stores, Reaches(i)
        PROVE  LinkedInv'
    <2> DEFINE v == stores[i].value
               below == Resumed(calls, i)
               last == Len(calls)
    <2>1. /\ calls # <<>> /\ isSafeSrcValue(v, below)
          /\ stores[i].to = calls[last].target
      BY <1>1, <1>3, FrontCalls DEF Reaches, StoresTo
    <2>2. /\ below \in Seq(Calls) /\ Len(below) = last
          /\ \A n \in 1 .. last : below[n].target = calls[n].target
      BY <1>1, <2>1, TypedStores, ResumedCalls
    <2>3. v \in Values /\ last \in Nat /\ last \in 1 .. last
      BY <1>1, <2>1, TypedStores, FrontCalls
    <2>4. stores[i].to \in Origins(source)
      BY <1>1, <2>1, <2>3 DEF Linked
    <2>5. Loaded(v) => v.of \in Origins(source)
      BY <1>1, <2>4, OriginsOfStored, OriginsClosed DEF Closed, Loaded
    <2>6. \E j \in DOMAIN stores : /\ stores[j].to = below[Len(below)].target
                                   /\ stores[j].value = v
      BY <2>1, <2>2, <2>3
    <2> HIDE DEF v, below
    <2>7. Linked(below)
      BY <1>1, <2>2 DEF Linked
    <2>. QED
      BY <1>1, <2>1, <2>2, <2>3, <2>5, <2>6, <2>7, LinkedAsks
  <1>4. ASSUME calls # <<>>, calls' = Front(calls), answer' = answer
        PROVE  LinkedInv'
    <2>1. answer' # "overflow"
      BY <1>4 DEF Typed, TypeOK
    <2>2. /\ Len(calls) \in Nat /\ Len(calls') = Len(calls) - 1
          /\ \A n \in 1 .. Len(calls) - 1 : calls'[n] = calls[n]
      BY <1>1, <1>4, FrontCalls
    <2>3. Linked(calls')
      BY SMTT(30), <1>1, <2>2 DEF Linked
    <2>4. Linked(calls)'
      BY <1>1, <2>3 DEF Linked, Origins, Closed, function
    <2>. QED
      BY <2>1, <2>4 DEF LinkedInv
  <1>5. ASSUME answer' = "safe", calls' = <<>>
        PROVE  LinkedInv'
    <2>1. Len(calls') = 0
      BY <1>5
    <2>2. Linked(calls)'
      BY <2>1 DEF Linked
    <2>. QED
      BY <1>5, <2>2 DEF LinkedInv
  <1>6. ASSUME UNCHANGED walk
        PROVE  LinkedInv'
    <2>1. calls' = calls /\ answer' = answer
      BY <1>6 DEF walk
    <2>2. Linked(calls)'
      <3>1. Linked(calls')
        BY <1>1, <2>1
      <3>. QED
        BY <1>1, <3>1 DEF Linked, Origins, Closed, function
    <2>3. (\E p \in Origins(source) : Circular(p))
            => (\E p \in Origins(source) : Circular(p))'
      BY <1>1 DEF Circular, Origins, Closed, function
    <2>. QED
      BY <1>1, <2>1, <2>2, <2>3 DEF LinkedInv
  <1>. QED
    BY <1>2, <1>3, <1>4, <1>5, <1>6, Steps

LEMMA CircularVariables ==
  ASSUME Typed
  PROVE  \A p \in Pointer :
           (\E s \in ToSet(stores) : s.to = p /\ p \in Origins(s.value)) <=> Circular(p)
  BY DEF ToSet, Circular

(* The stack of the compiler holds a call for every variable.              *)
RoomForVariables == Cardinality(Pointer) <= StackLimit

(* Where there is room for a call per variable, the compiler runs out of   *)
(* stack only on variables assigned to each other in a circle, the case    *)
(* isSafePointer does not look for; without one it has at most a call per  *)
(* variable open.                                                          *)
THEOREM OverflowNeedsCircleHolds == RoomForVariables /\ Spec => []OverflowNeedsCircle
  <1>1. Init => Typed /\ LinkedInv
    <2> SUFFICES ASSUME Init
                 PROVE  LinkedInv
      BY InitTyped
    <2>. QED
      BY DEF Init, LinkedInv, Linked
  <1>2. Typed /\ LinkedInv /\ [Next]_vars => Typed' /\ LinkedInv'
    BY TypedStep, LinkedStep
  <1> DEFINE Inv == RoomForVariables /\ Typed /\ LinkedInv
  <1>3. Inv => OverflowNeedsCircle
    <2> SUFFICES ASSUME Inv
                 PROVE  OverflowNeedsCircle
      OBVIOUS
    <2> DEFINE circular == {p \in Pointer : \E s \in ToSet(stores) :
                              /\ s.to = p
                              /\ p \in Origins(s.value)}
    <2>1. circular = {p \in Pointer : Circular(p)}
      BY CircularVariables
    <2>2. Origins(source) \subseteq Pointer /\ calls \in Seq(Calls)
      BY DEF Typed, TypeOK, Origins
    <2>3. answer = "overflow" => Origins(source) \cap circular # {}
      BY <2>1, <2>2 DEF LinkedInv, RoomForVariables
    <2>4. ASSUME circular = {}
          PROVE  Len(calls) <= Cardinality(Pointer)
      <3>1. ~(Cardinality(Pointer) < Len(calls))
        BY <2>1, <2>2, <2>4, LinkedTooLong DEF LinkedInv
      <3>2. Cardinality(Pointer) \in Nat /\ Len(calls) \in Nat
        BY <2>2, FS_CardinalityType, BoundsAssumption
      <3>. QED
        BY <3>1, <3>2
    <2>. QED
      BY <2>3, <2>4 DEF OverflowNeedsCircle
  <1>4. RoomForVariables /\ Init => Inv
    BY <1>1
  <1>5. Inv /\ [Next]_vars => Inv'
    BY <1>2 DEF RoomForVariables
  <1>. QED
    BY <1>3, <1>4, <1>5, PTL DEF Spec
=============================================================================

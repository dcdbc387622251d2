--------------------------- MODULE MCStackTracing ----------------------------
(***************************************************************************)
(* A stack of five words and functions of every kind the pass tells apart. *)
(*   main    one variable to the end of the function; catches exceptions   *)
(*   scopes  optimised: a loop over two scopes, the variables of which     *)
(*           share a word, with cleanups that end them a second time       *)
(*   twice   a scope copied by the optimiser: two start and end markers    *)
(*   plain   not optimised: no markers, two returns                        *)
(*   some    an alloca on one of the paths, and a return of all of them    *)
(*   away    returns the address of its variable                           *)
(*   raw     two words the pass does not track                             *)
(* Module first has main and plain, an initialiser, and declares the       *)
(* globals of the other one; second has the rest, an array of pairs, and   *)
(* declares extern, which no instrumented module defines.                  *)
(***************************************************************************)
EXTENDS GlobalTracing

CONSTANTS scopes, twice, plain, some, away, raw,
          m, a, b, t, p, s, g, r, codesA, codesB,
          first, second, pairs, extern

Do(op, var, next) == [op |-> op, var |-> var, next |-> next, pad |-> 0]
Calls(next, pad)  == [op |-> "call", var |-> NULL, next |-> next, pad |-> pad]

MCCode ==
  [f \in Functions |->
    CASE f = main -> << Do("alloca", m, {2}), Calls({2, 4}, 3),
                        Do("other", NULL, {2, 4}), Do("ret", NULL, {}) >>
      [] f = scopes -> << Do("alloca", a, {2}), Do("alloca", b, {3}),
                          Do("start", a, {4}), Calls({5}, 10), Do("end", a, {6}),
                          Do("start", b, {7}), Calls({8}, 12), Do("end", b, {3, 9}),
                          Do("ret", NULL, {}),
                          Do("end", a, {11}), Do("resume", NULL, {}),
                          Do("end", b, {11}) >>
      [] f = twice -> << Do("alloca", t, {2}),
                         Do("start", t, {3}), Calls({4}, 0), Do("end", t, {5}),
                         Do("start", t, {6}), Calls({7}, 0), Do("end", t, {8}),
                         Do("ret", NULL, {}) >>
      [] f = plain -> << Do("alloca", p, {2}), Calls({3}, 0),
                         Do("other", NULL, {4, 5}), Do("ret", NULL, {}),
                         Do("ret", NULL, {}) >>
      [] f = some -> << Do("other", NULL, {2, 5}), Do("alloca", s, {3}),
                        Calls({4, 5}, 0), Do("ret", NULL, {}), Do("ret", NULL, {}) >>
      [] f = away -> << Do("alloca", g, {2}), Do("ret", g, {}) >>
      [] f = raw -> << Do("alloca", r, {2}), Calls({3}, 0), Do("ret", NULL, {}) >>]

MCVariables ==
  [f \in Functions |->
    CASE f = main -> {m} [] f = scopes -> {a, b} [] f = twice -> {t}
      [] f = plain -> {p} [] f = some -> {s} [] f = away -> {g} [] f = raw -> {r}]

MCSlot  == [v \in Locals |-> IF v = b THEN 1 ELSE 0]
MCWidth == [v \in Locals |-> IF v \in {a, r} THEN 2 ELSE 1]
MCRoom  == [f \in Functions |-> IF f \in {scopes, raw} THEN 2 ELSE 1]

MCElements ==
  [v \in Locals |->
    CASE v = a -> [k \in {0, 1} |-> IF k = 0 THEN codesA ELSE codesB]
      [] v = b -> [k \in {0} |-> codesA]
      [] v = r -> <<>>
      [] OTHER -> [k \in {0} |-> codesB]]

MCModules  == <<first, second>>
MCMentions == [u \in {first, second} |-> IF u = first THEN {pairs} ELSE {pairs, extern}]
MCDefines  == [u \in {first, second} |-> IF u = first THEN {} ELSE {pairs}]
MCModuleOf == [f \in Functions |-> IF f \in {main, plain} THEN first ELSE second]
MCInitialiser == [u \in {first, second} |-> IF u = first THEN {plain} ELSE {}]
MCGlobalSlot  == [o \in {pairs, extern} |-> IF o = pairs THEN 0 ELSE 4]
MCLength      == [o \in {pairs, extern} |-> IF o = pairs THEN 2 ELSE 1]
MCTypeWidth   == [o \in {pairs, extern} |-> IF o = pairs THEN 2 ELSE 1]
MCGlobalElements ==
  [o \in {pairs, extern} |->
    IF o = pairs THEN [k \in {0, 1} |-> IF k = 0 THEN codesA ELSE codesB]
    ELSE [k \in {0} |-> codesB]]

Followed(f, S) ==
  S \cup UNION {{<<k, After(f, q[1], q[2])>> : k \in Successors(f, q[1])} : q \in S}

(* What may be alive at the instructions of f, found along its edges.      *)
TableOf(f) ==
  LET found[n \in 0 .. 2 * Len(Code[f])] ==
        IF n = 0 THEN {<<1, {}>>} ELSE Followed(f, found[n - 1])
  IN  found[2 * Len(Code[f])]

ASSUME FunctionsScoped == \A f \in Functions : Scoped(f, TableOf(f))
=============================================================================

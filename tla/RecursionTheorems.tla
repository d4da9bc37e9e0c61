------------------------- MODULE RecursionTheorems -------------------------
(* Facts the proofs share about recursive functions on an interval of the   *)
(* naturals, such as a loop over a sequence: that they exist, what they     *)
(* return, and how they go on when the sequence grows.                      *)
EXTENDS Naturals, Sequences, FiniteSetTheorems, WellFoundedInduction, TLAPS

(* Every set of naturals has a least element: the intervals below its       *)
(* members are finite sets, ordered by strict inclusion.                    *)
LEMMA LeastNatural ==
  ASSUME NEW T, T \subseteq Nat, T # {}
  PROVE  \E m \in T : \A n \in T : m <= n
<1> DEFINE Below == { 0 .. n : n \in T }
<1>1. Below \subseteq FiniteSubsetsOf(Nat)
  <2> SUFFICES ASSUME NEW n \in T PROVE 0 .. n \in FiniteSubsetsOf(Nat)
    OBVIOUS
  <2>1. n \in Nat
    OBVIOUS
  <2>2. IsFiniteSet(0 .. n)
    BY <2>1, FS_Interval
  <2> QED BY <2>1, <2>2 DEF FiniteSubsetsOf
<1>2. Below # {}
  OBVIOUS
<1>3. IsWellFoundedOn(StrictSubsetOrdering(Nat), FiniteSubsetsOf(Nat))
  BY FS_StrictSubsetOrderingWellFounded
<1>4. PICK B \in Below : \A C \in Below : << C, B >> \notin StrictSubsetOrdering(Nat)
  <2> HIDE DEF Below
  <2> QED BY <1>1, <1>2, <1>3, WFMin
<1>5. PICK m \in T : B = 0 .. m
  OBVIOUS
<1>6. ASSUME NEW n \in T PROVE m <= n
  <2>1. m \in Nat /\ n \in Nat
    OBVIOUS
  <2>2. SUFFICES ASSUME n < m PROVE FALSE
    BY <2>1
  <2>3. 0 .. n \subseteq 0 .. m /\ 0 .. n # 0 .. m
    BY <2>1, <2>2
  <2>4. << 0 .. n, 0 .. m >> \in StrictSubsetOrdering(Nat)
    BY <2>1, <2>3 DEF StrictSubsetOrdering
  <2> QED BY <1>4, <1>5, <2>4
<1> QED BY <1>6

(* Induction up to a bound, over a set.                                     *)
LEMMA IntervalInduction ==
  ASSUME NEW n \in Nat, NEW T, 0 \in T,
         \A k \in 0 .. n : k \in T /\ k # n => k + 1 \in T
  PROVE  0 .. n \subseteq T
<1> DEFINE Bad == { k \in 0 .. n : k \notin T }
<1> SUFFICES ASSUME Bad # {} PROVE FALSE
  OBVIOUS
<1>1. PICK m \in Bad : \A k \in Bad : m <= k
  <2>1. Bad \subseteq Nat
    OBVIOUS
  <2> HIDE DEF Bad
  <2> QED BY <2>1, LeastNatural
<1>2. m \in 0 .. n /\ m \notin T /\ m # 0
  OBVIOUS
<1>3. m - 1 \in 0 .. n /\ m - 1 # n /\ (m - 1) + 1 = m /\ ~(m <= m - 1)
  BY <1>2
<1>4. m - 1 \in T
  BY <1>1, <1>3
<1> QED BY <1>2, <1>3, <1>4

(* A step takes a state of S and an item of X to the next state.            *)
IsStep(step, S, X) == step \in [S \X X -> S]

(* A loop over ls that starts with base and takes a state of S and an item  *)
(* to the next state: f[k] is the state behind the first k items.           *)
IsLoop(f, S, X, base, step, ls) ==
  /\ f = [ k \in 0 .. Len(ls) |-> f[k] ]
  /\ f[0] = base
  /\ \A k \in 1 .. Len(ls) : f[k - 1] \in S => f[k] = step[<<f[k - 1], ls[k]>>]

(* There is such a loop: the loops over the first items are continued.      *)
IsLoopTo(f, base, step, ls, n) ==
  /\ f[0] = base
  /\ \A k \in 1 .. n : f[k] = step[<<f[k - 1], ls[k]>>]

(* A loop over the first n items goes on with the next one.                 *)
LEMMA LoopContinues ==
  ASSUME NEW S, NEW X, NEW base \in S, NEW step, IsStep(step, S, X), NEW ls \in Seq(X),
         NEW n \in Nat, n + 1 \in 1 .. Len(ls),
         NEW f \in [0 .. n -> S], IsLoopTo(f, base, step, ls, n)
  PROVE  \E g \in [0 .. n + 1 -> S] : IsLoopTo(g, base, step, ls, n + 1)
<1> DEFINE next == step[<<f[n], ls[n + 1]>>]
           g == [ k \in 0 .. n + 1 |-> IF k = n + 1 THEN next ELSE f[k] ]
<1>1. next \in S
  <2>1. ls[n + 1] \in X
    OBVIOUS
  <2>2. f[n] \in S
    <3>1. n \in 0 .. n
      OBVIOUS
    <3> QED BY <3>1
  <2> QED BY <2>1, <2>2
<1> HIDE DEF next
<1>2. g \in [0 .. n + 1 -> S]
  <2>1. ASSUME NEW k \in 0 .. n + 1, k # n + 1 PROVE f[k] \in S
    <3>1. k \in 0 .. n
      BY <2>1
    <3> QED BY <3>1
  <2> QED BY <1>1, <2>1
<1>3. g[0] = base
  <2>1. 0 \in 0 .. n + 1 /\ 0 # n + 1
    OBVIOUS
  <2> QED BY <2>1 DEF IsLoopTo
<1>4. ASSUME NEW k \in 1 .. n + 1 PROVE g[k] = step[<<g[k - 1], ls[k]>>]
  <2>1. k \in 0 .. n + 1 /\ k - 1 \in 0 .. n + 1 /\ k - 1 # n + 1
    OBVIOUS
  <2>2. g[k - 1] = f[k - 1]
    BY <2>1
  <2>3. CASE k = n + 1
    <3>1. g[k] = next /\ k - 1 = n
      BY <2>1, <2>3
    <3> QED BY <2>2, <2>3, <3>1 DEF next
  <2>4. CASE k # n + 1
    <3>1. k \in 1 .. n
      BY <2>4
    <3>2. g[k] = f[k]
      BY <2>1, <2>4
    <3> QED BY <2>2, <3>1, <3>2 DEF IsLoopTo
  <2> QED BY <2>3, <2>4
<1> HIDE DEF g
<1> QED BY <1>2, <1>3, <1>4 DEF IsLoopTo

(* So there is a loop over all of them.                                     *)
LEMMA LoopExists ==
  ASSUME NEW S, NEW X, NEW base \in S, NEW step, IsStep(step, S, X), NEW ls \in Seq(X)
  PROVE  \E f \in [0 .. Len(ls) -> S] : IsLoopTo(f, base, step, ls, Len(ls))
<1> DEFINE Good(n) == \E f \in [0 .. n -> S] : IsLoopTo(f, base, step, ls, n)
           Bad == { n \in 0 .. Len(ls) : ~Good(n) }
<1>1. Len(ls) \in Nat
  OBVIOUS
<1>2. Good(0)
  <2>1. [ k \in 0 .. 0 |-> base ] \in [0 .. 0 -> S]
    OBVIOUS
  <2>2. IsLoopTo([ k \in 0 .. 0 |-> base ], base, step, ls, 0)
    BY DEF IsLoopTo
  <2> QED BY <2>1, <2>2
<1>3. ASSUME NEW n \in Nat, n + 1 \in 1 .. Len(ls), Good(n) PROVE Good(n + 1)
  BY <1>3, LoopContinues
<1> HIDE DEF Good
<1>4. Bad = {}
  <2> SUFFICES ASSUME Bad # {} PROVE FALSE
    OBVIOUS
  <2>1. PICK m \in Bad : \A k \in Bad : m <= k
    <3>1. Bad \subseteq Nat
      BY <1>1
    <3> HIDE DEF Bad
    <3> QED BY <3>1, LeastNatural
  <2>2. m \in 0 .. Len(ls) /\ ~Good(m)
    OBVIOUS
  <2>3. m # 0
    BY <1>2, <2>2
  <2>4. m - 1 \in Nat /\ (m - 1) + 1 = m /\ m \in 1 .. Len(ls) /\ m - 1 \in 0 .. Len(ls) /\ ~(m <= m - 1)
    BY <1>1, <2>2, <2>3
  <2>5. Good(m - 1)
    BY <2>1, <2>4
  <2>6. Good((m - 1) + 1)
    BY <1>3, <2>4, <2>5
  <2> QED BY <2>2, <2>4, <2>6
<1>5. Len(ls) \in 0 .. Len(ls)
  BY <1>1
<1>6. Good(Len(ls))
  BY <1>4, <1>5
<1> QED BY <1>6 DEF Good

(* A loop to the end of a list is a loop over it.                           *)
LEMMA LoopToIsLoop ==
  ASSUME NEW S, NEW X, NEW base, NEW step, NEW ls,
         NEW f \in [0 .. Len(ls) -> S], IsLoopTo(f, base, step, ls, Len(ls))
  PROVE  IsLoop(f, S, X, base, step, ls)
BY DEF IsLoop, IsLoopTo

(* Its states are in S, and it is the only one over its list.               *)
TheLoop(S, X, base, step, ls) == CHOOSE f : IsLoop(f, S, X, base, step, ls)

(* It stays in S, and there is no other over its list.                      *)
LEMMA LoopIsTheLoop ==
  ASSUME NEW S, NEW X, NEW base \in S, NEW step, IsStep(step, S, X), NEW ls \in Seq(X),
         NEW f, IsLoop(f, S, X, base, step, ls)
  PROVE  f \in [0 .. Len(ls) -> S] /\ f = TheLoop(S, X, base, step, ls)
<1> DEFINE g == TheLoop(S, X, base, step, ls)
<1>0. IsLoop(g, S, X, base, step, ls)
  BY DEF TheLoop
<1> HIDE DEF g
<1> DEFINE Bad == { k \in 0 .. Len(ls) : ~(f[k] \in S /\ f[k] = g[k]) }
<1>1. Len(ls) \in Nat
  OBVIOUS
<1> SUFFICES ASSUME Bad # {} PROVE FALSE
  <2>1. ASSUME Bad = {} PROVE f \in [0 .. Len(ls) -> S] /\ f = g
    <3>1. \A k \in 0 .. Len(ls) : f[k] \in S /\ f[k] = g[k]
      BY <2>1
    <3>2. f = [ k \in 0 .. Len(ls) |-> f[k] ] /\ g = [ k \in 0 .. Len(ls) |-> g[k] ]
      BY <1>0 DEF IsLoop
    <3>3. [ k \in 0 .. Len(ls) |-> f[k] ] = [ k \in 0 .. Len(ls) |-> g[k] ]
      BY <3>1
    <3>4. [ k \in 0 .. Len(ls) |-> f[k] ] \in [0 .. Len(ls) -> S]
      BY <3>1
    <3> QED BY <3>2, <3>3, <3>4
  <2> HIDE DEF Bad
  <2> QED BY <2>1 DEF g
<1>2. PICK m \in Bad : \A k \in Bad : m <= k
  <2>1. Bad \subseteq Nat
    BY <1>1
  <2> HIDE DEF Bad
  <2> QED BY <2>1, LeastNatural
<1>3. m # 0
  BY <1>0, <1>2 DEF IsLoop
<1>4. m \in 1 .. Len(ls) /\ m - 1 \in 0 .. Len(ls) /\ m - 1 < m
  BY <1>1, <1>2, <1>3
<1>5. f[m - 1] \in S /\ f[m - 1] = g[m - 1]
  BY <1>2, <1>4
<1>6. ls[m] \in X
  BY <1>4
<1>7. f[m] = step[<<f[m - 1], ls[m]>>] /\ g[m] = step[<<g[m - 1], ls[m]>>]
  BY <1>0, <1>4, <1>5 DEF IsLoop
<1>8. step[<<f[m - 1], ls[m]>>] \in S
  BY <1>5, <1>6 DEF IsStep
<1> QED BY <1>2, <1>5, <1>7, <1>8

(* The loop is one: there is one to choose.                                 *)
LEMMA TheLoopIsALoop ==
  ASSUME NEW S, NEW X, NEW base \in S, NEW step, IsStep(step, S, X), NEW ls \in Seq(X)
  PROVE  IsLoop(TheLoop(S, X, base, step, ls), S, X, base, step, ls)
<1>1. \E f : IsLoop(f, S, X, base, step, ls)
  <2>1. PICK f \in [0 .. Len(ls) -> S] : IsLoopTo(f, base, step, ls, Len(ls))
    BY LoopExists
  <2> QED BY <2>1, LoopToIsLoop
<1> QED BY <1>1 DEF TheLoop

(* What a loop returns, and a step on it: a state of S, over no item its    *)
(* base, and over one more item one more step.                              *)
Looped(S, X, base, step, ls) == TheLoop(S, X, base, step, ls)[Len(ls)]
Stepped(step, s, x) == step[<<s, x>>]

(* Every loop returns what the loop returns.                                *)
LEMMA LoopReturns ==
  ASSUME NEW S, NEW X, NEW base \in S, NEW step, IsStep(step, S, X), NEW ls \in Seq(X),
         NEW f, IsLoop(f, S, X, base, step, ls)
  PROVE  f[Len(ls)] = Looped(S, X, base, step, ls)
<1>1. f = TheLoop(S, X, base, step, ls)
  BY LoopIsTheLoop
<1> QED BY <1>1 DEF Looped

(* That is a state of S.                                                    *)
LEMMA LoopEnds ==
  ASSUME NEW S, NEW X, NEW base \in S, NEW step, IsStep(step, S, X), NEW ls \in Seq(X)
  PROVE  Looped(S, X, base, step, ls) \in S
<1>1. Len(ls) \in 0 .. Len(ls)
  OBVIOUS
<1>2. TheLoop(S, X, base, step, ls) \in [0 .. Len(ls) -> S]
  BY TheLoopIsALoop, LoopIsTheLoop
<1> QED BY <1>1, <1>2 DEF Looped

(* Over no item, it is the base.                                            *)
LEMMA LoopStarts ==
  ASSUME NEW S, NEW X, NEW base \in S, NEW step, IsStep(step, S, X)
  PROVE  Looped(S, X, base, step, <<>>) = base
<1>1. <<>> \in Seq(X) /\ Len(<<>>) = 0
  OBVIOUS
<1>2. IsLoop(TheLoop(S, X, base, step, <<>>), S, X, base, step, <<>>)
  BY <1>1, TheLoopIsALoop
<1>3. TheLoop(S, X, base, step, <<>>)[0] = base
  BY <1>2, Zenon DEF IsLoop
<1> QED BY <1>1, <1>3 DEF Looped

(* Over one more item, it is one more step.                                 *)
LEMMA LoopAppend ==
  ASSUME NEW S, NEW X, NEW base \in S, NEW step, IsStep(step, S, X),
         NEW ls \in Seq(X), NEW x \in X
  PROVE  Looped(S, X, base, step, Append(ls, x))
           = Stepped(step, Looped(S, X, base, step, ls), x)
<1> SUFFICES ASSUME NEW n, n = Len(ls), NEW ms, ms = Append(ls, x),
                    NEW f, f = TheLoop(S, X, base, step, ls),
                    NEW g, g = TheLoop(S, X, base, step, ms)
             PROVE  g[Len(ms)] = step[<<f[n], x>>]
  BY DEF Looped, Stepped
<1>0. ms \in Seq(X) /\ IsLoop(f, S, X, base, step, ls) /\ IsLoop(g, S, X, base, step, ms)
  <2>1. ms \in Seq(X)
    OBVIOUS
  <2> QED BY <2>1, TheLoopIsALoop
<1>1. /\ n \in Nat /\ n \in 0 .. Len(ls) /\ Len(ms) = n + 1 /\ ms[n + 1] = x
      /\ \A k \in 1 .. Len(ls) : k \in 1 .. Len(ms) /\ ls[k] = ms[k]
  OBVIOUS
<1> DEFINE h == [ k \in 0 .. Len(ls) |-> g[k] ]
<1>2. IsLoop(h, S, X, base, step, ls)
  <2>1. h[0] = base
    <3>1. g[0] = base
      BY <1>0, Zenon DEF IsLoop
    <3>2. 0 \in 0 .. Len(ls)
      BY <1>1
    <3> QED BY <3>1, <3>2
  <2>2. ASSUME NEW k \in 1 .. Len(ls), h[k - 1] \in S PROVE h[k] = step[<<h[k - 1], ls[k]>>]
    <3>1. k \in 0 .. Len(ls) /\ k - 1 \in 0 .. Len(ls)
      BY <1>1
    <3>2. h[k] = g[k] /\ h[k - 1] = g[k - 1]
      BY <3>1
    <3>3. k \in 1 .. Len(ms) /\ ls[k] = ms[k]
      BY <1>1
    <3>4. g[k] = step[<<g[k - 1], ms[k]>>]
      BY <1>0, <2>2, <3>2, <3>3 DEF IsLoop
    <3> QED BY <3>2, <3>3, <3>4
  <2>3. h = [ k \in 0 .. Len(ls) |-> h[k] ]
    OBVIOUS
  <2> HIDE DEF h
  <2> QED BY <2>1, <2>2, <2>3 DEF IsLoop
<1>3. f = h /\ f \in [0 .. Len(ls) -> S]
  <2> HIDE DEF h
  <2>1. f = TheLoop(S, X, base, step, ls) /\ f \in [0 .. Len(ls) -> S]
    BY <1>0, LoopIsTheLoop
  <2>2. h = TheLoop(S, X, base, step, ls)
    BY <1>2, LoopIsTheLoop
  <2> QED BY <2>1, <2>2
<1>4. f[n] = g[n] /\ f[n] \in S
  BY <1>1, <1>3
<1>5. n + 1 \in 1 .. Len(ms) /\ (n + 1) - 1 = n
  BY <1>1
<1>6. g[n + 1] = step[<<g[n], ms[n + 1]>>]
  <2>1. \A k \in 1 .. Len(ms) : g[k - 1] \in S => g[k] = step[<<g[k - 1], ms[k]>>]
    BY <1>0, Zenon DEF IsLoop
  <2> QED BY <1>4, <1>5, <2>1
<1> QED BY <1>1, <1>4, <1>6
=============================================================================

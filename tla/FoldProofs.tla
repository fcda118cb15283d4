------------------------------ MODULE FoldProofs ------------------------------
(***************************************************************************)
(* Proofs about layers whose properties count, add up or collect over      *)
(* sequences.  Each section is about one of them; the first has the        *)
(* induction they need.                                                    *)
(***************************************************************************)
EXTENDS SubPub, ProtobufCodec, AsyncLogger, MemDB, FiniteSetTheorems, SequenceTheorems,
        WellFoundedInduction, TLAPS

(***************************************************************************)
(* Induction, for a set in place of a predicate: of the numbers that are   *)
(* not in it none is the least.                                            *)
(***************************************************************************)
LEMMA Least ==
  ASSUME NEW S, S \subseteq Nat, S # {}
  PROVE  \E n \in S : \A m \in S : n <= m
<1> DEFINE R == {ss \in Nat \X Nat : ss[1] < ss[2]}
<1>1. IsWellFoundedOn(R, Nat)
  BY NatLessThanWellFounded DEF OpToRel
<1>2. PICK x \in S : \A y \in S : ~(<<y, x>> \in R)
  <2> HIDE DEF R
  <2> QED  BY <1>1, WFMin
<1>3. ASSUME NEW y \in S
      PROVE  x <= y
  <2>1. ~(y < x)
    BY <1>2, <<y, x>> \in Nat \X Nat
  <2> QED  BY <2>1
<1> QED
  BY <1>3

LEMMA Induction ==
  ASSUME NEW S, 0 \in S, \A n \in Nat : n \in S => n + 1 \in S
  PROVE  \A n \in Nat : n \in S
<1> DEFINE T == {n \in Nat : n \notin S}
<1> SUFFICES ASSUME T # {} PROVE FALSE
  OBVIOUS
<1>1. PICK x \in T : \A y \in T : x <= y
  <2>1. T \subseteq Nat
    OBVIOUS
  <2> HIDE DEF T
  <2> QED  BY <2>1, Least
<1>2. x # 0 /\ x - 1 \in Nat /\ ~(x <= x - 1)
  BY <1>1
<1>3. x - 1 \in S
  BY <1>1, <1>2
<1> QED
  BY <1>1, <1>2, <1>3

IsStep(step, T) == step \in [T \X Nat -> T]
Iterates(f, T, b, step) ==
  /\ f \in [Nat -> T] /\ f[0] = b
  /\ \A n \in Nat : f[n + 1] = step[<<f[n], n + 1>>]
LEMMA Recursion ==
  ASSUME NEW T, NEW b, b \in T, NEW step, IsStep(step, T)
  PROVE  \E f : Iterates(f, T, b, step)
<1>z. step \in [T \X Nat -> T]
  BY DEF IsStep
<1> DEFINE Next(x, n) == step[<<x, n>>]
           Good(n, f) == /\ f[0] = b
                         /\ \A m \in Nat : m < n => f[m + 1] = Next(f[m], m + 1)
           S == {n \in Nat : \E f \in [Nat -> T] : Good(n, f)}
<1>a. \A x \in T, n \in Nat : Next(x, n) \in T
  BY <1>z
<1> HIDE DEF Next
<1>1. 0 \in S
  <2>1. [m \in Nat |-> b] \in [Nat -> T] /\ Good(0, [m \in Nat |-> b])
    OBVIOUS
  <2> QED  BY <2>1
<1>2. ASSUME NEW n \in Nat, n \in S
      PROVE  n + 1 \in S
  <2>1. PICK f \in [Nat -> T] : Good(n, f)
    BY <1>2
  <2> DEFINE g == [f EXCEPT ![n + 1] = Next(f[n], n + 1)]
  <2>2. g \in [Nat -> T]
    BY <1>a
  <2>3. g[0] = b
    BY <2>1
  <2>4. ASSUME NEW m \in Nat, m < n + 1
        PROVE  g[m + 1] = Next(g[m], m + 1)
    <3>1. g[m] = f[m] /\ m + 1 \in Nat
      BY <2>4
    <3>2. CASE m = n
      BY <3>1, <3>2
    <3>3. CASE m < n
      BY <3>1, <3>3, <2>1
    <3> QED  BY <3>2, <3>3, <2>4
  <2>5. Good(n + 1, g)
    <3> HIDE DEF g
    <3> QED  BY <2>3, <2>4
  <2> HIDE DEF g, Good
  <2> QED  BY <2>2, <2>5
<1>3. \A n \in Nat : n \in S
  <2> HIDE DEF S
  <2> QED  BY <1>1, <1>2, Induction
<1>4. ASSUME NEW n \in Nat, NEW m \in Nat, NEW f \in [Nat -> T], NEW g \in [Nat -> T],
             Good(n, f), Good(m, g)
      PROVE  \A k \in Nat : k <= n /\ k <= m => f[k] = g[k]
  <2> DEFINE Q == {k \in Nat : k <= n /\ k <= m => f[k] = g[k]}
  <2>1. 0 \in Q
    BY <1>4
  <2>2. ASSUME NEW k \in Nat, k \in Q PROVE k + 1 \in Q
    <3> SUFFICES ASSUME k + 1 <= n, k + 1 <= m PROVE f[k + 1] = g[k + 1]
      OBVIOUS
    <3>1. f[k] = g[k] /\ k < n /\ k < m
      BY <2>2
    <3> QED  BY <3>1, <1>4
  <2>3. \A k \in Nat : k \in Q
    <3> HIDE DEF Q
    <3> QED BY <2>1, <2>2, Induction
  <2> QED BY <2>3
<1> DEFINE F(n) == CHOOSE f \in [Nat -> T] : Good(n, f)
           h == [n \in Nat |-> F(n)[n]]
<1>5. \A n \in Nat : F(n) \in [Nat -> T] /\ Good(n, F(n))
  <2> TAKE n \in Nat
  <2>1. \E f \in [Nat -> T] : Good(n, f)
    BY <1>3
  <2> HIDE DEF Good
  <2> QED BY <2>1
<1>6. h \in [Nat -> T] /\ \A n \in Nat : h[n] = F(n)[n]
  <2> HIDE DEF F, Good
  <2> QED BY <1>5
<1> HIDE DEF F, h
<1>7. h[0] = b
  BY <1>5, <1>6
<1>8. ASSUME NEW n \in Nat PROVE h[n + 1] = step[<<h[n], n + 1>>]
  <2>1. F(n + 1)[n] = F(n)[n]
    <3> HIDE DEF Good
    <3>1. n + 1 \in Nat /\ n <= n /\ n <= n + 1
      OBVIOUS
    <3> QED BY <3>1, <1>4, <1>5
  <2>2. F(n + 1)[n + 1] = Next(F(n + 1)[n], n + 1)
    <3>1. n + 1 \in Nat /\ n < n + 1
      OBVIOUS
    <3> QED BY <3>1, <1>5
  <2> QED BY <1>6, <2>1, <2>2 DEF Next
<1> QED
  BY <1>6, <1>7, <1>8 DEF Iterates



LEMMA InductionUpTo ==
  ASSUME NEW N \in Nat, NEW S, 0 \in S,
         \A n \in Nat : n < N /\ n \in S => n + 1 \in S
  PROVE  \A n \in 0 .. N : n \in S
<1> DEFINE T == {n \in Nat : n <= N => n \in S}
<1>1. 0 \in T
  OBVIOUS
<1>2. \A n \in Nat : n \in T => n + 1 \in T
  OBVIOUS
<1>3. \A n \in Nat : n \in T
  <2> HIDE DEF T
  <2> QED  BY <1>1, <1>2, Induction
<1> QED
  BY <1>3

\* The same up to a bound.
Builds(g, N, T, b, step) ==
  /\ g \in [0 .. N -> T] /\ g[0] = b
  /\ \A i \in 1 .. N : g[i] = step[<<g[i - 1], i>>]

LEMMA RecursionUpTo ==
  ASSUME NEW N \in Nat, NEW T, NEW b, b \in T, NEW step, IsStep(step, T)
  PROVE  \E g : Builds(g, N, T, b, step)
<1>1. PICK f : Iterates(f, T, b, step)
  BY Recursion
<1> DEFINE g == [i \in 0 .. N |-> f[i]]
<1>2. g \in [0 .. N -> T] /\ g[0] = b
  BY <1>1 DEF Iterates
<1>3. ASSUME NEW i \in 1 .. N
      PROVE  g[i] = step[<<g[i - 1], i>>]
  <2>1. i - 1 \in Nat /\ (i - 1) + 1 = i
    OBVIOUS
  <2>2. f[i] = step[<<f[i - 1], i>>]
    BY <1>1, <2>1 DEF Iterates
  <2> QED
    BY <2>1, <2>2
<1>4. Builds(g, N, T, b, step)
  <2> HIDE DEF g
  <2> QED  BY <1>2, <1>3 DEF Builds
<1> QED
  BY <1>4

(***************************************************************************)
(* FlattenSeq, as a function of the sequences so far.                      *)
(***************************************************************************)
Flattens(h, ss, T) ==
  /\ h \in [0 .. Len(ss) -> Seq(T)] /\ h[0] = <<>>
  /\ \A i \in 1 .. Len(ss) : h[i] = h[i - 1] \o ss[i]
  /\ FlattenSeq(ss) = h[Len(ss)]

LEMMA Flattened ==
  ASSUME NEW T, NEW ss \in Seq(Seq(T))
  PROVE  \E h : Flattens(h, ss, T)
<1> DEFINE N == Len(ss)
           step == [x \in Seq(T) \X Nat |-> IF x[2] \in 1 .. N THEN x[1] \o ss[x[2]] ELSE x[1]]
           eq(g) == g = [i \in 1 .. N |-> IF i = 1 THEN ss[i] ELSE g[i - 1] \o ss[i]]
           F == CHOOSE g : eq(g)
<1>0. N \in Nat /\ \A i \in 1 .. N : ss[i] \in Seq(T)
  OBVIOUS
<1>1. /\ <<>> \in Seq(T)
      /\ \A x \in Seq(T), y \in Seq(T) : x \o y \in Seq(T)
      /\ \A x \in Seq(T) : <<>> \o x = x
  OBVIOUS
<1>2. IsStep(step, Seq(T))
  BY <1>0, <1>1 DEF IsStep
<1>3. PICK h : Builds(h, N, Seq(T), <<>>, step)
  <2> HIDE DEF step
  <2> QED  BY <1>0, <1>1, <1>2, RecursionUpTo
<1>4. h \in [0 .. N -> Seq(T)] /\ h[0] = <<>>
  BY <1>3 DEF Builds
<1>5. ASSUME NEW i \in 1 .. N
      PROVE  h[i] = h[i - 1] \o ss[i]
  <2>1. h[i] = step[<<h[i - 1], i>>]
    <3> HIDE DEF step
    <3> QED  BY <1>3 DEF Builds
  <2>2. <<h[i - 1], i>> \in Seq(T) \X Nat
    <3> HIDE DEF N, step
    <3>1. i - 1 \in 0 .. N /\ i \in Nat
      BY <1>0
    <3> QED  BY <1>4, <3>1
  <2> QED
    BY <2>1, <2>2
<1>6. CASE N = 0
  <2>1. ss = <<>>
    BY <1>6
  <2>2. FlattenSeq(ss) = h[N]
    BY <1>4, <1>6, <2>1 DEF FlattenSeq
  <2> QED  BY <1>4, <1>5, <2>2 DEF Flattens
<1>7. CASE N # 0
  <2> DEFINE g == [i \in 1 .. N |-> h[i]]
  <2>1. eq(g)
    <3>1. ASSUME NEW i \in 1 .. N
          PROVE  g[i] = IF i = 1 THEN ss[i] ELSE g[i - 1] \o ss[i]
      <4>0. h[i] = h[i - 1] \o ss[i]
        BY <1>5
      <4>1. CASE i = 1
        <5>1. h[i] = <<>> \o ss[i]
          <6>1. h[i - 1] = <<>>
            BY <1>4, <4>1
          <6> QED  BY <4>0, <6>1, Zenon
        <5>2. h[i] = ss[i]
          BY <1>0, <1>1, <5>1
        <5> QED  BY <4>1, <5>2
      <4>2. CASE i # 1
        <5>1. g[i - 1] = h[i - 1]
          BY <1>0, <4>2
        <5>2. g[i] = h[i]
          OBVIOUS
        <5>3. g[i] = g[i - 1] \o ss[i]
          BY <4>0, <5>1, <5>2, Zenon
        <5> QED  BY <4>2, <5>3, Zenon
      <4> QED  BY <4>1, <4>2
    <3>2. g = [i \in 1 .. N |-> g[i]]
      OBVIOUS
    <3> DEFINE e == [i \in 1 .. N |-> IF i = 1 THEN ss[i] ELSE g[i - 1] \o ss[i]]
    <3>3. \A i \in 1 .. N : e[i] = g[i]
      <4> TAKE i \in 1 .. N
      <4>1. e[i] = IF i = 1 THEN ss[i] ELSE g[i - 1] \o ss[i]
        OBVIOUS
      <4> QED  BY <3>1, <4>1, Zenon
    <3>4. e = [i \in 1 .. N |-> e[i]]
      OBVIOUS
    <3> HIDE DEF g, e
    <3>5. g = e
      BY <3>2, <3>3, <3>4, Zenon
    <3> QED  BY <3>5 DEF e
  <2>2. eq(F)
    <3> HIDE DEF eq, g
    <3> QED  BY <2>1
  <2>3. FlattenSeq(ss) = F[N]
    BY <1>7 DEF FlattenSeq
  <2> HIDE DEF F
  <2>4. /\ F[1] = ss[1]
        /\ \A i \in 1 .. N : i # 1 => F[i] = F[i - 1] \o ss[i]
    <3>1. ASSUME NEW i \in 1 .. N
          PROVE  F[i] = IF i = 1 THEN ss[i] ELSE F[i - 1] \o ss[i]
      <4> DEFINE e == [j \in 1 .. N |-> IF j = 1 THEN ss[j] ELSE F[j - 1] \o ss[j]]
      <4>1. F = e
        BY <2>2
      <4>2. e[i] = IF i = 1 THEN ss[i] ELSE F[i - 1] \o ss[i]
        OBVIOUS
      <4> HIDE DEF e
      <4> QED  BY <4>1, <4>2, Zenon
    <3>2. 1 \in 1 .. N
      BY <1>0, <1>7
    <3> QED  BY <3>1, <3>2, Zenon
  <2> DEFINE S == {i \in 0 .. N : i = 0 \/ F[i] = h[i]}
  <2>5. 0 \in S
    BY <1>0
  <2>6. ASSUME NEW n \in Nat, n < N, n \in S
        PROVE  n + 1 \in S
    <3>1. n + 1 \in 1 .. N /\ (n + 1) - 1 = n
      <4> HIDE DEF N, S
      <4> QED  BY <1>0, <2>6
    <3>2. h[n + 1] = h[n] \o ss[n + 1]
      BY <3>1, <1>5
    <3>3. CASE n = 0
      <4>1. h[n + 1] = <<>> \o ss[n + 1]
        BY <1>4, <3>2, <3>3, Zenon
      <4>2. h[n + 1] = ss[n + 1]
        BY <1>0, <1>1, <3>1, <4>1
      <4> QED  BY <2>4, <3>1, <3>3, <4>2
    <3>4. CASE n # 0
      <4>1. F[n + 1] = F[n] \o ss[n + 1]
        <5>1. n + 1 # 1
          BY <3>4
        <5> QED  BY <2>4, <3>1, <5>1, Zenon
      <4>2. F[n] = h[n]
        BY <2>6, <3>4
      <4>3. F[n + 1] = h[n + 1]
        BY <3>2, <4>1, <4>2, Zenon
      <4> QED  BY <3>1, <4>3
    <3> QED  BY <3>3, <3>4
  <2>7. \A n \in 0 .. N : n \in S
    <3> HIDE DEF S
    <3> QED  BY <1>0, <2>5, <2>6, InductionUpTo
  <2>8. F[N] = h[N]
    BY <1>0, <1>7, <2>7
  <2> QED  BY <1>4, <1>5, <2>3, <2>8 DEF Flattens
<1> QED  BY <1>6, <1>7

LEMMA FlattenTyped ==
  ASSUME NEW T, NEW ss \in Seq(Seq(T))
  PROVE  FlattenSeq(ss) \in Seq(T)
<1>1. PICK h : Flattens(h, ss, T)
  BY Flattened
<1>2. Len(ss) \in 0 .. Len(ss)
  OBVIOUS
<1> QED
  BY <1>1, <1>2 DEF Flattens

LEMMA FlattenEmpty == FlattenSeq(<<>>) = <<>>
BY DEF FlattenSeq

LEMMA FlattenAppend ==
  ASSUME NEW T, NEW ss \in Seq(Seq(T)), NEW x \in Seq(T)
  PROVE  FlattenSeq(Append(ss, x)) = FlattenSeq(ss) \o x
<1> DEFINE N == Len(ss)
           tt == Append(ss, x)
<1>0. /\ N \in Nat /\ tt \in Seq(Seq(T)) /\ Len(tt) = N + 1 /\ tt[N + 1] = x
      /\ \A i \in 1 .. N : tt[i] = ss[i]
  OBVIOUS
<1> HIDE DEF tt
<1>1. PICK h : Flattens(h, ss, T)
  BY Flattened
<1>2. PICK g : Flattens(g, tt, T)
  BY <1>0, Flattened
<1> DEFINE S == {i \in 0 .. N : g[i] = h[i]}
<1>3. 0 \in S
  BY <1>0, <1>1, <1>2 DEF Flattens
<1>4. ASSUME NEW n \in Nat, n < N, n \in S
      PROVE  n + 1 \in S
  <2>1. n + 1 \in 1 .. N /\ n + 1 \in 1 .. N + 1 /\ (n + 1) - 1 = n
    BY <1>0, <1>4
  <2>2. h[n + 1] = h[n] \o ss[n + 1]
    BY <1>1, <2>1 DEF Flattens
  <2>3. g[n + 1] = g[n] \o tt[n + 1]
    BY <1>0, <1>2, <2>1 DEF Flattens
  <2>4. g[n] = h[n] /\ tt[n + 1] = ss[n + 1]
    BY <1>0, <1>4, <2>1
  <2>5. g[n + 1] = h[n + 1]
    BY <2>2, <2>3, <2>4, Zenon
  <2> QED
    BY <1>4, <2>5
<1>5. \A n \in 0 .. N : n \in S
  <2> HIDE DEF S
  <2> QED  BY <1>0, <1>3, <1>4, InductionUpTo
<1>6. g[N] = h[N]
  <2>1. N \in 0 .. N
    BY <1>0
  <2> QED  BY <1>0, <1>5, <2>1
<1>7. g[N + 1] = g[N] \o x
  <2>1. N + 1 \in 1 .. Len(tt) /\ (N + 1) - 1 = N
    BY <1>0
  <2>2. \A i \in 1 .. Len(tt) : g[i] = g[i - 1] \o tt[i]
    BY <1>2 DEF Flattens
  <2>3. g[N + 1] = g[(N + 1) - 1] \o tt[N + 1]
    BY <2>1, <2>2
  <2> QED
    BY <1>0, <2>1, <2>3
<1> QED
  <2>1. FlattenSeq(tt) = g[N + 1] /\ FlattenSeq(ss) = h[N]
    BY <1>0, <1>1, <1>2 DEF Flattens
  <2> QED
    BY <1>6, <1>7, <2>1 DEF tt

LEMMA FlattenConcat ==
  ASSUME NEW T, NEW ss \in Seq(Seq(T)), NEW tt \in Seq(Seq(T))
  PROVE  FlattenSeq(ss \o tt) = FlattenSeq(ss) \o FlattenSeq(tt)
<1> DEFINE N == Len(tt)
           U(n) == SubSeq(tt, 1, n)
           S == {n \in 0 .. N : FlattenSeq(ss \o U(n)) = FlattenSeq(ss) \o FlattenSeq(U(n))}
<1>0. N \in Nat /\ \A i \in 1 .. N : tt[i] \in Seq(T)
  OBVIOUS
<1>1. \A n \in 0 .. N : U(n) \in Seq(Seq(T))
  BY <1>0
<1>2. FlattenSeq(ss) \in Seq(T)
  BY FlattenTyped
<1>3. 0 \in S
  <2>1. U(0) = <<>>
    OBVIOUS
  <2>2. ss \o <<>> = ss
    OBVIOUS
  <2>3. FlattenSeq(ss) \o <<>> = FlattenSeq(ss)
    BY <1>2
  <2>4. FlattenSeq(ss \o U(0)) = FlattenSeq(ss) \o FlattenSeq(U(0))
    BY <2>1, <2>2, <2>3, FlattenEmpty, Zenon
  <2> HIDE DEF U
  <2> QED  BY <1>0, <2>4
<1>4. ASSUME NEW n \in Nat, n < N, n \in S
      PROVE  n + 1 \in S
  <2> DEFINE u == U(n)
             x == tt[n + 1]
  <2>1. n + 1 \in 1 .. N /\ n \in 0 .. N
    BY <1>0, <1>4
  <2>2. U(n + 1) = Append(u, x)
    BY <1>0, <2>1
  <2>3. u \in Seq(Seq(T)) /\ x \in Seq(T)
    BY <1>0, <1>1, <2>1
  <2>4. FlattenSeq(ss \o u) = FlattenSeq(ss) \o FlattenSeq(u)
    BY <1>4
  <2> HIDE DEF U, u, x
  <2>5. ss \o Append(u, x) = Append(ss \o u, x) /\ ss \o u \in Seq(Seq(T))
    BY <2>3
  <2>6. FlattenSeq(Append(ss \o u, x)) = FlattenSeq(ss \o u) \o x
    BY <2>3, <2>5, FlattenAppend
  <2>7. FlattenSeq(Append(u, x)) = FlattenSeq(u) \o x
    BY <2>3, FlattenAppend
  <2>8. FlattenSeq(u) \in Seq(T)
    BY <2>3, FlattenTyped
  <2>9. (FlattenSeq(ss) \o FlattenSeq(u)) \o x = FlattenSeq(ss) \o (FlattenSeq(u) \o x)
    BY <1>2, <2>3, <2>8, ConcatAssociative
  <2>10. FlattenSeq(ss \o U(n + 1)) = FlattenSeq(ss) \o FlattenSeq(U(n + 1))
    BY <2>2, <2>4, <2>5, <2>6, <2>7, <2>9, Zenon
  <2> QED
    BY <2>1, <2>10
<1>5. \A n \in 0 .. N : n \in S
  <2> HIDE DEF S
  <2> QED  BY <1>0, <1>3, <1>4, InductionUpTo
<1>6. U(N) = tt /\ N \in 0 .. N
  BY <1>0
<1>7. FlattenSeq(ss \o U(N)) = FlattenSeq(ss) \o FlattenSeq(U(N))
  <2> HIDE DEF U
  <2> QED  BY <1>5, <1>6
<1> HIDE DEF U
<1> QED  BY <1>6, <1>7, Zenon

LEMMA FlattenOne ==
  ASSUME NEW T, NEW x \in Seq(T)
  PROVE  FlattenSeq(<<x>>) = x
<1>1. Append(<<>>, x) = <<x>> /\ <<>> \in Seq(Seq(T))
  OBVIOUS
<1>2. FlattenSeq(Append(<<>>, x)) = FlattenSeq(<<>>) \o x
  BY <1>1, FlattenAppend
<1>3. <<>> \o x = x
  OBVIOUS
<1> QED
  BY <1>1, <1>2, <1>3, FlattenEmpty, Zenon

LEMMA FlattenHead ==
  ASSUME NEW T, NEW ss \in Seq(Seq(T)), ss # <<>>
  PROVE  FlattenSeq(ss) = Head(ss) \o FlattenSeq(Tail(ss))
<1>1. /\ Head(ss) \in Seq(T) /\ Tail(ss) \in Seq(Seq(T))
      /\ <<Head(ss)>> \in Seq(Seq(T)) /\ ss = <<Head(ss)>> \o Tail(ss)
  OBVIOUS
<1>2. FlattenSeq(<<Head(ss)>> \o Tail(ss)) = FlattenSeq(<<Head(ss)>>) \o FlattenSeq(Tail(ss))
  BY <1>1, FlattenConcat
<1>3. FlattenSeq(<<Head(ss)>>) = Head(ss)
  BY <1>1, FlattenOne
<1> QED
  BY <1>1, <1>2, <1>3, Zenon

LEMMA SetOfSeq ==
  ASSUME NEW T, NEW s \in Seq(T)
  PROVE  ToSet(s) \subseteq T
BY DEF ToSet

LEMMA SetOfConcat ==
  ASSUME NEW T, NEW s \in Seq(T), NEW t \in Seq(T)
  PROVE  ToSet(s \o t) = ToSet(s) \cup ToSet(t)
<1>1. ASSUME NEW x \in ToSet(s \o t)
      PROVE  x \in ToSet(s) \cup ToSet(t)
  <2>1. PICK i \in DOMAIN (s \o t) : x = (s \o t)[i]
    BY DEF ToSet
  <2>2. CASE i <= Len(s)
    BY <2>1, <2>2 DEF ToSet
  <2>3. CASE i > Len(s)
    <3>1. i - Len(s) \in DOMAIN t /\ x = t[i - Len(s)]
      BY <2>1, <2>3
    <3> QED  BY <3>1 DEF ToSet
  <2> QED  BY <2>1, <2>2, <2>3
<1>2. ASSUME NEW i \in DOMAIN s
      PROVE  s[i] \in ToSet(s \o t)
  <2>1. i \in DOMAIN (s \o t) /\ (s \o t)[i] = s[i]
    OBVIOUS
  <2> QED  BY <2>1 DEF ToSet
<1>3. ASSUME NEW i \in DOMAIN t
      PROVE  t[i] \in ToSet(s \o t)
  <2>1. i + Len(s) \in DOMAIN (s \o t) /\ (s \o t)[i + Len(s)] = t[i]
    OBVIOUS
  <2> QED  BY <2>1 DEF ToSet
<1>4. ToSet(s) \subseteq ToSet(s \o t) /\ ToSet(t) \subseteq ToSet(s \o t)
  BY <1>2, <1>3 DEF ToSet
<1> QED
  BY <1>1, <1>4

LEMMA SetOfFlatten ==
  ASSUME NEW T, NEW ss \in Seq(Seq(T))
  PROVE  ToSet(FlattenSeq(ss)) = UNION {ToSet(ss[i]) : i \in 1 .. Len(ss)}
<1> DEFINE N == Len(ss)
<1>0. N \in Nat /\ \A i \in 1 .. N : ss[i] \in Seq(T)
  OBVIOUS
<1>1. PICK h : Flattens(h, ss, T)
  BY Flattened
<1> DEFINE S == {n \in 0 .. N : ToSet(h[n]) = UNION {ToSet(ss[i]) : i \in 1 .. n}}
<1>2. 0 \in S
  <2>1. h[0] = <<>>
    BY <1>1 DEF Flattens
  <2>2. ToSet(h[0]) = {}
    BY <2>1 DEF ToSet
  <2> QED  BY <1>0, <2>2
<1>3. ASSUME NEW n \in Nat, n < N, n \in S
      PROVE  n + 1 \in S
  <2>1. n + 1 \in 1 .. N /\ (n + 1) - 1 = n /\ n \in 0 .. N
    BY <1>0, <1>3
  <2>2. h[n] \in Seq(T) /\ h[n + 1] = h[n] \o ss[n + 1]
    BY <1>1, <2>1 DEF Flattens
  <2>3. ss[n + 1] \in Seq(T)
    BY <1>0, <2>1
  <2>4. ToSet(h[n + 1]) = ToSet(h[n]) \cup ToSet(ss[n + 1])
    BY <2>2, <2>3, SetOfConcat
  <2>5. ToSet(h[n]) = UNION {ToSet(ss[i]) : i \in 1 .. n}
    BY <1>3
  <2>6. 1 .. n + 1 = (1 .. n) \cup {n + 1}
    BY <1>0
  <2>7. UNION {ToSet(ss[i]) : i \in 1 .. n + 1}
          = (UNION {ToSet(ss[i]) : i \in 1 .. n}) \cup ToSet(ss[n + 1])
    BY <2>6, Zenon
  <2>8. ToSet(h[n + 1]) = UNION {ToSet(ss[i]) : i \in 1 .. n + 1}
    BY <2>4, <2>5, <2>7, Zenon
  <2> QED
    BY <2>1, <2>8
<1>4. \A n \in 0 .. N : n \in S
  <2> HIDE DEF S
  <2> QED  BY <1>0, <1>2, <1>3, InductionUpTo
<1>5. FlattenSeq(ss) = h[N]
  BY <1>1 DEF Flattens
<1>6. ToSet(h[N]) = UNION {ToSet(ss[i]) : i \in 1 .. N}
  <2>1. N \in 0 .. N
    BY <1>0
  <2> QED  BY <1>4, <2>1
<1> QED
  BY <1>5, <1>6, Zenon

(***************************************************************************)
(* SubPub.                                                                 *)
(***************************************************************************)
SubTask == {"send", "close", "destroy"} \X Conn

\* Pub adds to a queue, and only sends to subscribers of that loop.
LEMMA AfterSendsAppends ==
  ASSUME NEW l, tasks[l] \in Seq(SubTask), NEW s \in Seq(Conn)
  PROVE  /\ AfterSends(l, s) \in Seq(SubTask)
         /\ Len(tasks[l]) <= Len(AfterSends(l, s))
         /\ \A i \in 1 .. Len(tasks[l]) : AfterSends(l, s)[i] = tasks[l][i]
         /\ \A i \in Len(tasks[l]) + 1 .. Len(AfterSends(l, s)) :
              \E d \in ToSet(s) : LoopOf[d] = l /\ AfterSends(l, s)[i] = <<"send", d>>
<1> DEFINE old == tasks[l]
           N == Len(s)
           More(x, i) == IF LoopOf[s[i]] = l THEN Append(x, <<"send", s[i]>>) ELSE x
           step == [x \in Seq(SubTask) \X Nat |-> IF x[2] \in 1 .. N THEN More(x[1], x[2]) ELSE x[1]]
           eq(g) == g = [i \in 0 .. N |-> IF i = 0 THEN old ELSE More(g[i - 1], i)]
           F == CHOOSE g : eq(g)
<1>0. N \in Nat /\ \A i \in 1 .. N : s[i] \in Conn
  OBVIOUS
<1>1. \A x \in Seq(SubTask), i \in 1 .. N : More(x, i) \in Seq(SubTask)
  BY DEF SubTask
<1>2. IsStep(step, Seq(SubTask))
  <2> HIDE DEF More
  <2> QED  BY <1>1 DEF IsStep
<1>3. PICK g : Builds(g, N, Seq(SubTask), old, step)
  <2> HIDE DEF step
  <2> QED  BY <1>0, <1>2, RecursionUpTo
<1>4. eq(g)
  <2>1. ASSUME NEW i \in 1 .. N
        PROVE  g[i] = More(g[i - 1], i)
    <3>1. g[i] = step[<<g[i - 1], i>>] /\ g[i - 1] \in Seq(SubTask)
      <4> HIDE DEF step
      <4>1. i - 1 \in 0 .. N
        BY <1>0
      <4>2. /\ g \in [0 .. N -> Seq(SubTask)]
            /\ \A j \in 1 .. N : g[j] = step[<<g[j - 1], j>>]
        BY <1>3 DEF Builds
      <4> QED  BY <4>1, <4>2
    <3> HIDE DEF More
    <3>2. <<g[i - 1], i>> \in Seq(SubTask) \X Nat
      BY <3>1, <1>0
    <3> QED
      BY <3>1, <3>2
  <2> HIDE DEF More, step
  <2> QED
    BY <1>0, <1>3, <2>1 DEF Builds
<1>5. eq(F)
  <2> HIDE DEF eq
  <2> QED  BY <1>4
<1>6. AfterSends(l, s) = F[N]
  BY DEF AfterSends
<1> DEFINE Good(q) == /\ q \in Seq(SubTask)
                      /\ Len(old) <= Len(q)
                      /\ \A i \in 1 .. Len(old) : q[i] = old[i]
                      /\ \A i \in Len(old) + 1 .. Len(q) :
                            \E d \in ToSet(s) : LoopOf[d] = l /\ q[i] = <<"send", d>>
           S == {i \in 0 .. N : Good(F[i])}
<1>7. 0 \in S
  <2> HIDE DEF F
  <2>1. F[0] = old
    BY <1>0, <1>5
  <2> QED  BY <2>1, <1>0
<1>8. ASSUME NEW n \in Nat, n < N, n \in S
      PROVE  n + 1 \in S
  <2> HIDE DEF F
  <2>1. n + 1 \in 1 .. N /\ (n + 1) - 1 = n
    BY <1>0, <1>8
  <2>2. F[n + 1] = More(F[n], n + 1)
    <3> HIDE DEF More
    <3> QED  BY <2>1, <1>0, <1>5
  <2>3. Good(F[n])
    BY <1>8
  <2>4. s[n + 1] \in ToSet(s) /\ s[n + 1] \in Conn
    BY <2>1 DEF ToSet
  <2>5. Good(More(F[n], n + 1))
    <3>1. CASE LoopOf[s[n + 1]] # l
      BY <2>3, <3>1
    <3>2. CASE LoopOf[s[n + 1]] = l
      <4> DEFINE q == F[n]
                 p == Append(q, <<"send", s[n + 1]>>)
      <4> HIDE DEF q
      <4>1. Good(q)
        BY <2>3 DEF q
      <4>2. <<"send", s[n + 1]>> \in SubTask
        BY <2>4 DEF SubTask
      <4>3. /\ p \in Seq(SubTask) /\ Len(p) = Len(q) + 1
            /\ \A i \in 1 .. Len(q) : p[i] = q[i]
            /\ p[Len(q) + 1] = <<"send", s[n + 1]>>
        BY <4>1, <4>2
      <4> HIDE DEF p
      <4>4. Len(old) \in Nat /\ Len(q) \in Nat
        BY <4>1
      <4>a. \A i \in 1 .. Len(old) : p[i] = old[i]
        BY <4>1, <4>3, <4>4
      <4>b. ASSUME NEW i \in Len(old) + 1 .. Len(p)
            PROVE  \E d \in ToSet(s) : LoopOf[d] = l /\ p[i] = <<"send", d>>
        <5>1. CASE i = Len(q) + 1
          <6>1. p[i] = <<"send", s[n + 1]>>
            BY <5>1, <4>3
          <6> QED  BY <6>1, <2>4, <3>2, Zenon
        <5>2. CASE i # Len(q) + 1
          <6>1. i \in Len(old) + 1 .. Len(q) /\ p[i] = q[i]
            BY <5>2, <4>3, <4>4
          <6>2. \E d \in ToSet(s) : LoopOf[d] = l /\ q[i] = <<"send", d>>
            BY <6>1, <4>1
          <6> QED  BY <6>1, <6>2
        <5> QED  BY <5>1, <5>2
      <4>5. Good(p)
        BY <4>1, <4>3, <4>4, <4>a, <4>b
      <4>6. More(F[n], n + 1) = p
        BY <3>2 DEF p, q
      <4> QED
        <5> HIDE DEF Good, More
        <5> QED  BY <4>5, <4>6
    <3> QED  BY <3>1, <3>2
  <2> HIDE DEF Good
  <2> QED  BY <2>1, <2>2, <2>5
<1>9. \A n \in 0 .. N : n \in S
  <2> HIDE DEF S
  <2> QED  BY <1>0, <1>7, <1>8, InductionUpTo
<1>10. Good(F[N])
  <2> HIDE DEF Good, F
  <2> QED  BY <1>9, <1>0
<1> HIDE DEF F
<1> QED
  BY <1>6, <1>10

InQueue(l, x) == x \in ToSet(tasks[l])

\* A queued close() is the only one of a connection that waits for it; destruction is
\* queued when the connection has left its topics.
QueueInv ==
  \A l \in SubLoop, c \in Conn :
    /\ InQueue(l, <<"send", c>>) => l = LoopOf[c]
    /\ InQueue(l, <<"close", c>>) =>
         l = LoopOf[c] /\ connState[c] = "disconnected" /\ handler[c] # "down"
    /\ InQueue(l, <<"destroy", c>>) =>
         l = LoopOf[c] /\ connState[c] \in {"left", "destroyed"}
CloseOnce ==
  \A l \in SubLoop, c \in Conn : \A i, j \in DOMAIN tasks[l] :
    tasks[l][i] = <<"close", c>> /\ tasks[l][j] = <<"close", c>> => i = j

\* A handler runs for a connection that has not left, and unsub is about one topic
\* that the context does not have any more.
HandlerInv ==
  \A c \in Conn :
    /\ handler[c] # "none" => connState[c] \in {"connected", "disconnected"}
    /\ handler[c] = "unsub" => \E t \in Topic : dropping[c] = {t} /\ t \notin topics[c]

SubInv == SubTypeOK /\ QueueInv /\ CloseOnce /\ HandlerInv

LEMMA SubscribersTyped ==
  ASSUME SubTypeOK, NEW t
  PROVE  Subscribers(t) \in Seq(Conn)
BY DEF SubTypeOK, Subscribers, Has

\* What Put does to the table.
LEMMA PutTyped ==
  ASSUME SubTypeOK, NEW t \in Topic, NEW s \in Seq(Conn), Put(t, s)
  PROVE  /\ DOMAIN subscribers' \subseteq Topic
         /\ \A u \in DOMAIN subscribers' : subscribers'[u] \in Seq(Conn)
         /\ Subscribers(t)' = s
         /\ \A u : u # t => Subscribers(u)' = Subscribers(u)
BY DEF SubTypeOK, Put, Subscribers, Has

LEMMA Removed ==
  ASSUME NEW T, NEW s \in Seq(T), NEW i \in 1 .. Len(s)
  PROVE  /\ RemoveAt(s, i) \in Seq(T)
         /\ Len(RemoveAt(s, i)) = Len(s) - 1
         /\ \A j \in 1 .. Len(s) - 1 : RemoveAt(s, i)[j] = IF j < i THEN s[j] ELSE s[j + 1]
<1> DEFINE p == SubSeq(s, 1, i - 1)
           q == SubSeq(s, i + 1, Len(s))
<1>1. p \in Seq(T) /\ Len(p) = i - 1 /\ \A j \in 1 .. i - 1 : p[j] = s[j]
  OBVIOUS
<1>2. q \in Seq(T) /\ Len(q) = Len(s) - i /\ \A j \in 1 .. Len(s) - i : q[j] = s[j + i]
  <2>1. i + 1 \in 1 .. Len(s) + 1 /\ Len(s) \in i + 1 - 1 .. Len(s)
    OBVIOUS
  <2>2. /\ q \in Seq(T) /\ Len(q) = Len(s) - (i + 1) + 1
        /\ \A j \in 1 .. Len(s) - (i + 1) + 1 : q[j] = s[i + 1 + j - 1]
    BY <2>1, SubSeqProperties
  <2> HIDE DEF q
  <2> QED  BY <2>2
<1>3. RemoveAt(s, i) = p \o q
  BY DEF RemoveAt
<1> HIDE DEF p, q
<1>4. p \o q \in Seq(T) /\ Len(p \o q) = Len(s) - 1
  <2>1. p \o q \in Seq(T) /\ Len(p \o q) = Len(p) + Len(q)
    BY <1>1, <1>2, ConcatProperties
  <2> QED  BY <2>1, <1>1, <1>2
<1>5. ASSUME NEW j \in 1 .. Len(s) - 1
      PROVE  (p \o q)[j] = IF j < i THEN s[j] ELSE s[j + 1]
  <2>1. CASE j < i
    BY <2>1, <1>1, <1>2
  <2>2. CASE ~(j < i)
    <3>1. (p \o q)[j] = q[j - (i - 1)]
      BY <2>2, <1>1, <1>2
    <3>2. j - (i - 1) \in 1 .. Len(s) - i /\ j - (i - 1) + i = j + 1
      BY <2>2
    <3> QED  BY <3>1, <3>2, <1>2, <2>2
  <2> QED  BY <2>1, <2>2
<1> QED
  BY <1>3, <1>4, <1>5

\* erase() takes away one entry of c, the only one of a list without repetitions.
LEMMA Erased ==
  ASSUME SubTypeOK, NEW c \in Conn, NEW t \in Topic, Erase(c, t)
  PROVE  /\ DOMAIN subscribers' \subseteq Topic
         /\ \A u \in DOMAIN subscribers' : subscribers'[u] \in Seq(Conn)
         /\ \A u : u # t => Subscribers(u)' = Subscribers(u)
         /\ \A d \in Conn \ {c} : Subscribed(d, t)' <=> Subscribed(d, t)
         /\ undefined' \in BOOLEAN
         /\ Subscribed(c, t) => undefined' = undefined
         /\ IsInjective(Subscribers(t)) => IsInjective(Subscribers(t)') /\ ~Subscribed(c, t)'
<1> DEFINE s == Subscribers(t)
           i == CHOOSE j \in DOMAIN s : s[j] = c /\ \A k \in 1..j - 1 : s[k] # c
           r == RemoveAt(s, i)
<1>1. s \in Seq(Conn)
  BY SubscribersTyped
<1>2. CASE ~Subscribed(c, t)
  <2>1. c \notin ToSet(s)
    BY <1>2 DEF Subscribed
  <2>2. undefined' = TRUE /\ subscribers' = subscribers
    BY <2>1 DEF Erase
  <2>3. \A u : Subscribers(u)' = Subscribers(u)
    BY <2>2 DEF Subscribers, Has
  <2> QED
    BY <1>2, <2>2, <2>3 DEF Subscribed, SubTypeOK
<1>3. CASE Subscribed(c, t)
  <2>1. c \in ToSet(s)
    BY <1>3 DEF Subscribed
  <2>2. Put(t, r) /\ undefined' = undefined
    BY <2>1 DEF Erase
  <2>3. \E j \in DOMAIN s : s[j] = c /\ \A k \in 1..j - 1 : s[k] # c
    <3> DEFINE M == {j \in Nat : j \in DOMAIN s /\ s[j] = c}
    <3>1. M # {} /\ M \subseteq Nat
      BY <2>1, <1>1 DEF ToSet
    <3>2. PICK m \in M : \A j \in M : m <= j
      <4> HIDE DEF M
      <4> QED  BY <3>1, Least
    <3>3. \A k \in 1..m - 1 : s[k] # c
      BY <3>2, <1>1
    <3> QED  BY <3>2, <3>3
  <2>4. i \in 1 .. Len(s) /\ s[i] = c
    <3> HIDE DEF s
    <3> QED  BY <1>1, <2>3
  <2> HIDE DEF s, i
  <2>5. /\ r \in Seq(Conn) /\ Len(r) = Len(s) - 1
        /\ \A j \in 1 .. Len(s) - 1 : r[j] = IF j < i THEN s[j] ELSE s[j + 1]
    BY <1>1, <2>4, Removed
  <2> HIDE DEF r
  <2>6. /\ DOMAIN subscribers' \subseteq Topic
        /\ \A u \in DOMAIN subscribers' : subscribers'[u] \in Seq(Conn)
        /\ Subscribers(t)' = r
        /\ \A u : u # t => Subscribers(u)' = Subscribers(u)
    BY <2>2, <2>5, PutTyped
  <2>7. ASSUME NEW d \in Conn \ {c}
        PROVE  d \in ToSet(r) <=> d \in ToSet(s)
    <3>1. ASSUME d \in ToSet(r) PROVE d \in ToSet(s)
      <4>1. PICK j \in 1 .. Len(s) - 1 : r[j] = d
        BY <3>1, <2>5, <1>1 DEF ToSet
      <4>2. \E k \in 1 .. Len(s) : s[k] = d
        <5>1. CASE j < i
          <6>1. s[j] = d /\ j \in 1 .. Len(s)
            BY <5>1, <4>1, <2>5, <1>1
          <6> QED  BY <6>1
        <5>2. CASE ~(j < i)
          <6>1. s[j + 1] = d /\ j + 1 \in 1 .. Len(s)
            BY <5>2, <4>1, <2>5, <1>1
          <6> QED  BY <6>1
        <5> QED  BY <5>1, <5>2
      <4> QED  BY <4>2, <1>1 DEF ToSet
    <3>2. ASSUME d \in ToSet(s) PROVE d \in ToSet(r)
      <4>1. PICK k \in 1 .. Len(s) : s[k] = d
        BY <3>2, <1>1 DEF ToSet
      <4>2. k # i
        BY <4>1, <2>4
      <4>3. \E j \in 1 .. Len(r) : r[j] = d
        <5>1. CASE k < i
          <6>1. k \in 1 .. Len(s) - 1 /\ r[k] = d
            BY <5>1, <4>1, <2>4, <2>5, <1>1
          <6> QED  BY <6>1, <2>5
        <5>2. CASE k > i
          <6>1. k - 1 \in 1 .. Len(s) - 1 /\ ~(k - 1 < i) /\ (k - 1) + 1 = k
            BY <5>2, <4>1, <2>4, <1>1
          <6>2. r[k - 1] = d
            BY <6>1, <2>5, <4>1
          <6> QED  BY <6>1, <6>2, <2>5
        <5> QED  BY <5>1, <5>2, <4>2, <2>4, <1>1
      <4> QED  BY <4>3, <2>5 DEF ToSet
    <3> QED  BY <3>1, <3>2
  <2>8. ASSUME IsInjective(s)
        PROVE  IsInjective(r) /\ c \notin ToSet(r)
    <3> DEFINE At(j) == IF j < i THEN j ELSE j + 1
    <3>1. \A j \in 1 .. Len(r) : r[j] = s[At(j)] /\ At(j) \in 1 .. Len(s) /\ At(j) # i
      BY <2>5, <2>4, <1>1
    <3>2. \A j, k \in 1 .. Len(r) : At(j) = At(k) => j = k
      BY <2>5, <2>4, <1>1
    <3>3. \A j, k \in 1 .. Len(s) : s[j] = s[k] => j = k
      BY <2>8, <1>1 DEF IsInjective
    <3> HIDE DEF At
    <3>4. \A j \in 1 .. Len(r) : r[j] # c
      BY <3>1, <3>3, <2>4
    <3>5. \A j, k \in 1 .. Len(r) : r[j] = r[k] => j = k
      BY <3>1, <3>2, <3>3
    <3>6. DOMAIN r = 1 .. Len(r)
      BY <2>5
    <3> QED  BY <3>4, <3>5, <3>6 DEF IsInjective, ToSet
  <2> QED
    BY <1>3, <2>2, <2>6, <2>7, <2>8 DEF Subscribed, SubTypeOK, s
<1> QED
  BY <1>2, <1>3

LEMMA LoopsTyped ==
  ASSUME NEW c \in Conn
  PROVE  LoopOf[c] \in SubLoop
BY DEF SubLoop

\* One more task behind the others.
Pushed(c, kind) == tasks' = [tasks EXCEPT ![LoopOf[c]] = Append(@, <<kind, c>>)]

LEMMA PushedTyped ==
  ASSUME SubTypeOK, NEW c \in Conn, NEW kind \in {"send", "close", "destroy"}, Pushed(c, kind)
  PROVE  /\ tasks' \in [SubLoop -> Seq(SubTask)]
         /\ \A l \in SubLoop \ {LoopOf[c]} : tasks'[l] = tasks[l]
         /\ LET q == tasks[LoopOf[c]]
                r == tasks'[LoopOf[c]]
            IN  /\ q \in Seq(SubTask) /\ r \in Seq(SubTask) /\ Len(r) = Len(q) + 1
                /\ \A i \in 1 .. Len(q) : r[i] = q[i]
                /\ r[Len(q) + 1] = <<kind, c>>
<1>1. LoopOf[c] \in SubLoop
  BY LoopsTyped
<1>2. tasks \in [SubLoop -> Seq(SubTask)] /\ <<kind, c>> \in SubTask
  BY DEF SubTypeOK, SubTask
<1> HIDE DEF SubTask
<1> QED
  BY <1>1, <1>2 DEF Pushed

LEMMA PushedInQueue ==
  ASSUME SubTypeOK, NEW c \in Conn, NEW kind \in {"send", "close", "destroy"}, Pushed(c, kind)
  PROVE  \A l \in SubLoop : \A x :
           InQueue(l, x)' <=> InQueue(l, x) \/ (l = LoopOf[c] /\ x = <<kind, c>>)
<1> SUFFICES ASSUME NEW l \in SubLoop, NEW x
             PROVE  InQueue(l, x)' <=> InQueue(l, x) \/ (l = LoopOf[c] /\ x = <<kind, c>>)
  OBVIOUS
<1>1. CASE l # LoopOf[c]
  BY <1>1, PushedTyped DEF InQueue
<1>2. CASE l = LoopOf[c]
  <2> DEFINE q == tasks[l]
             r == tasks'[l]
  <2>1. /\ q \in Seq(SubTask) /\ r \in Seq(SubTask) /\ Len(r) = Len(q) + 1
        /\ \A i \in 1 .. Len(q) : r[i] = q[i]
        /\ r[Len(q) + 1] = <<kind, c>>
    BY <1>2, PushedTyped
  <2>2. InQueue(l, x) <=> x \in ToSet(q)
    BY DEF InQueue
  <2>3. InQueue(l, x)' <=> x \in ToSet(r)
    BY DEF InQueue
  <2> HIDE DEF q, r
  <2>4. DOMAIN q = 1 .. Len(q) /\ DOMAIN r = 1 .. Len(q) + 1 /\ Len(q) \in Nat
    BY <2>1
  <2>5. x \in ToSet(r) <=> x \in ToSet(q) \/ x = <<kind, c>>
    <3>1. 1 .. Len(q) + 1 = (1 .. Len(q)) \cup {Len(q) + 1}
      BY <2>4
    <3> QED  BY <2>1, <2>4, <3>1 DEF ToSet
  <2> QED  BY <1>2, <2>2, <2>3, <2>5
<1> QED
  BY <1>1, <1>2

\* The first task leaves the queue.
LEMMA TakenTyped ==
  ASSUME SubTypeOK, NEW l \in SubLoop, tasks[l] # <<>>,
         tasks' = [tasks EXCEPT ![l] = Tail(@)]
  PROVE  /\ tasks' \in [SubLoop -> Seq(SubTask)]
         /\ \A k \in SubLoop \ {l} : tasks'[k] = tasks[k]
         /\ LET q == tasks[l]
                r == tasks'[l]
            IN  /\ q \in Seq(SubTask) /\ r \in Seq(SubTask) /\ Len(q) = Len(r) + 1
                /\ \A i \in 1 .. Len(r) : r[i] = q[i + 1]
         /\ Head(tasks[l]) = tasks[l][1]
         /\ \E kind \in {"send", "close", "destroy"}, c \in Conn : tasks[l][1] = <<kind, c>>
<1>1. tasks \in [SubLoop -> Seq(SubTask)]
  BY DEF SubTypeOK, SubTask
<1> DEFINE q == tasks[l]
<1>2. q \in Seq(SubTask) /\ q # <<>>
  BY <1>1
<1>3. tasks'[l] = Tail(q) /\ \A k \in SubLoop \ {l} : tasks'[k] = tasks[k]
  BY <1>1
<1>4. tasks' \in [SubLoop -> Seq(SubTask)]
  <2>1. Tail(q) \in Seq(SubTask)
    BY <1>2
  <2> QED  BY <1>1, <2>1
<1> HIDE DEF q
<1>5. /\ Tail(q) \in Seq(SubTask) /\ Len(q) = Len(Tail(q)) + 1 /\ Head(q) = q[1]
      /\ q[1] \in SubTask /\ \A i \in 1 .. Len(Tail(q)) : Tail(q)[i] = q[i + 1]
  BY <1>2
<1>6. \E kind \in {"send", "close", "destroy"}, c \in Conn : q[1] = <<kind, c>>
  BY <1>5 DEF SubTask
<1> QED
  BY <1>2, <1>3, <1>4, <1>5, <1>6 DEF q

LEMMA TakenInQueue ==
  ASSUME SubTypeOK, NEW l \in SubLoop, tasks[l] # <<>>,
         tasks' = [tasks EXCEPT ![l] = Tail(@)]
  PROVE  \A k \in SubLoop : \A x : InQueue(k, x)' => InQueue(k, x)
<1> SUFFICES ASSUME NEW k \in SubLoop, NEW x, InQueue(k, x)'
             PROVE  InQueue(k, x)
  OBVIOUS
<1>1. CASE k # l
  BY <1>1, TakenTyped DEF InQueue
<1>2. CASE k = l
  <2> DEFINE q == tasks[l]
             r == tasks'[l]
  <2>1. /\ q \in Seq(SubTask) /\ r \in Seq(SubTask) /\ Len(q) = Len(r) + 1
        /\ \A i \in 1 .. Len(r) : r[i] = q[i + 1]
    BY TakenTyped
  <2>2. x \in ToSet(r)
    BY <1>2 DEF InQueue
  <2> HIDE DEF q, r
  <2>3. PICK i \in 1 .. Len(r) : r[i] = x
    BY <2>1, <2>2 DEF ToSet
  <2>4. i + 1 \in 1 .. Len(q) /\ q[i + 1] = x
    BY <2>1, <2>3
  <2>5. x \in ToSet(q)
    BY <2>1, <2>4 DEF ToSet
  <2> QED  BY <1>2, <2>5 DEF InQueue, q
<1> QED
  BY <1>1, <1>2

\* Pub leaves every queue as it is, but for sends behind it.
SendsBehind ==
  \A l \in SubLoop :
    LET q == tasks[l]
        r == tasks'[l]
    IN  /\ q \in Seq(SubTask) /\ r \in Seq(SubTask) /\ Len(q) <= Len(r)
        /\ \A i \in 1 .. Len(q) : r[i] = q[i]
        /\ \A i \in Len(q) + 1 .. Len(r) :
             \E d \in Conn : /\ LoopOf[d] = l /\ r[i] = <<"send", d>>
                             /\ \E t \in DOMAIN subscribers : d \in ToSet(subscribers[t])

LEMMA PubSends ==
  ASSUME SubTypeOK, NEW c \in Conn, Pub(c)
  PROVE  SendsBehind /\ tasks' \in [SubLoop -> Seq(SubTask)]
<1> DEFINE s == Subscribers(Given(c))
<1>1. s \in Seq(Conn)
  BY SubscribersTyped
<1>2. tasks \in [SubLoop -> Seq(SubTask)]
  BY DEF SubTypeOK, SubTask
<1>3. tasks' = [l \in SubLoop |-> IF l = LoopOf[c] THEN tasks[l] ELSE AfterSends(l, s)]
  BY DEF Pub
<1>4. \A d \in ToSet(s) : d \in Conn /\ \E t \in DOMAIN subscribers : d \in ToSet(subscribers[t])
  <2>1. CASE Has(Given(c))
    <3>1. s = subscribers[Given(c)] /\ Given(c) \in DOMAIN subscribers
      BY <2>1 DEF Subscribers, Has
    <3>2. ToSet(s) \subseteq Conn
      BY <1>1 DEF ToSet
    <3> HIDE DEF s
    <3> QED  BY <3>1, <3>2
  <2>2. CASE ~Has(Given(c))
    <3>1. s = <<>>
      BY <2>2 DEF Subscribers
    <3> QED  BY <3>1 DEF ToSet
  <2> QED  BY <2>1, <2>2
<1> HIDE DEF s
<1>5. ASSUME NEW l \in SubLoop
      PROVE  /\ tasks'[l] \in Seq(SubTask)
             /\ LET q == tasks[l]
                    r == tasks'[l]
                IN  /\ q \in Seq(SubTask) /\ r \in Seq(SubTask) /\ Len(q) <= Len(r)
                    /\ \A i \in 1 .. Len(q) : r[i] = q[i]
                    /\ \A i \in Len(q) + 1 .. Len(r) :
                         \E d \in Conn : /\ LoopOf[d] = l /\ r[i] = <<"send", d>>
                                         /\ \E t \in DOMAIN subscribers : d \in ToSet(subscribers[t])
  <2>1. tasks[l] \in Seq(SubTask)
    BY <1>2
  <2>2. CASE l = LoopOf[c]
    <3>1. tasks'[l] = tasks[l]
      BY <1>3, <2>2
    <3> QED  BY <3>1, <2>1
  <2>3. CASE l # LoopOf[c]
    <3>1. tasks'[l] = AfterSends(l, s)
      BY <1>3, <2>3
    <3>2. /\ AfterSends(l, s) \in Seq(SubTask)
          /\ Len(tasks[l]) <= Len(AfterSends(l, s))
          /\ \A i \in 1 .. Len(tasks[l]) : AfterSends(l, s)[i] = tasks[l][i]
          /\ \A i \in Len(tasks[l]) + 1 .. Len(AfterSends(l, s)) :
               \E d \in ToSet(s) : LoopOf[d] = l /\ AfterSends(l, s)[i] = <<"send", d>>
      BY <1>1, <2>1, AfterSendsAppends
    <3> QED  BY <3>1, <3>2, <2>1, <1>4
  <2> QED  BY <2>2, <2>3
<1> QED
  BY <1>3, <1>5 DEF SendsBehind

\* Types, one action after the other.
LEMMA SubTypesStep ==
  ASSUME SubTypeOK, [SubNext]_subVars
  PROVE  SubTypeOK'
<1>0. /\ MaxLines \in Nat
      /\ \A line \in Line : line.do \in {"sub", "unsub", "pub"} => line.topic \in Topic
  BY SubAssumption
<1>a. ASSUME NEW c \in Conn, handler[c] = "message", inbox[c] # <<>>
      PROVE  /\ Head(inbox[c]) \in Line /\ Tail(inbox[c]) \in Seq(Line)
             /\ Head(inbox[c]).do \in {"sub", "unsub", "pub"} => Given(c) \in Topic
  <2>1. inbox[c] \in Seq(Line)
    BY DEF SubTypeOK
  <2>2. Head(inbox[c]) \in Line /\ Tail(inbox[c]) \in Seq(Line)
    BY <1>a, <2>1
  <2> QED  BY <1>0, <2>2 DEF Given
<1>b. ASSUME NEW c \in Conn, NEW do, Take(c, do)
      PROVE  inbox' \in [Conn -> Seq(Line)]
  BY <1>b, <1>a DEF Take, SubTypeOK
<1>c. \A c \in Conn, h \in {"none", "message", "unsub", "down"} :
         Run(c, h) => handler' \in [Conn -> {"none", "message", "unsub", "down"}]
  BY DEF Run, SubTypeOK
<1>d. \A c \in Conn, kind \in {"send", "close", "destroy"} :
         Pushed(c, kind) => tasks' \in [SubLoop -> Seq(SubTask)]
  BY PushedTyped
<1>e. \A c \in Conn : HandleClose(c) =>
         /\ handler' \in [Conn -> {"none", "message", "unsub", "down"}]
         /\ connState' \in [Conn -> {"connected", "disconnected", "left", "destroyed"}]
         /\ dropping' \in [Conn -> SUBSET Topic]
  BY DEF HandleClose, Run, SubTypeOK
<1> USE DEF SubTask
<1>1. ASSUME NEW c \in Conn, ServerMessage(c) PROVE SubTypeOK'
  <2>0. PICK n \in 1..MaxLines - sentCount[c] : \E lines \in [1..n -> Line] :
          /\ inbox' = [inbox EXCEPT ![c] = @ \o lines]
          /\ sentCount' = [sentCount EXCEPT ![c] = @ + Len(lines)]
    BY <1>1 DEF ServerMessage
  <2>1. PICK lines \in [1..n -> Line] :
          /\ inbox' = [inbox EXCEPT ![c] = @ \o lines]
          /\ sentCount' = [sentCount EXCEPT ![c] = @ + Len(lines)]
    BY <2>0
  <2>2. n \in Nat /\ lines \in Seq(Line) /\ Len(lines) = n
    BY <1>0, <2>1 DEF SubTypeOK
  <2>3. inbox' \in [Conn -> Seq(Line)]
    BY <2>1, <2>2 DEF SubTypeOK
  <2>4. sentCount' \in [Conn -> 0..MaxLines]
    BY <2>1, <2>2, <1>0 DEF SubTypeOK
  <2> QED
    BY <1>1, <1>c, <2>3, <2>4 DEF ServerMessage, SubTypeOK
<1>2. ASSUME NEW c \in Conn, Skip(c) PROVE SubTypeOK'
  BY <1>2, <1>b DEF Skip, SubTypeOK
<1>3. ASSUME NEW c \in Conn, Sub(c) PROVE SubTypeOK'
  <2>1. Given(c) \in Topic
    BY <1>3, <1>a DEF Sub, Take
  <2>2. Append(Subscribers(Given(c)), c) \in Seq(Conn)
    BY SubscribersTyped
  <2>3. /\ DOMAIN subscribers' \subseteq Topic
        /\ \A u \in DOMAIN subscribers' : subscribers'[u] \in Seq(Conn)
    BY <1>3, <2>1, <2>2, PutTyped DEF Sub
  <2>4. topics' \in [Conn -> SUBSET Topic]
    BY <1>3, <2>1 DEF Sub, SubTypeOK
  <2>5. tidy' \in BOOLEAN /\ inbox' \in [Conn -> Seq(Line)]
    BY <1>3, <1>b DEF Sub
  <2> QED
    BY <1>3, <2>3, <2>4, <2>5 DEF Sub, SubTypeOK
<1>4. ASSUME NEW c \in Conn, Pub(c) PROVE SubTypeOK'
  <2>1. inbox' \in [Conn -> Seq(Line)]
    BY <1>4, <1>b DEF Pub
  <2>2. handler' \in [Conn -> {"none", "message", "unsub", "down"}]
    BY <1>4, <1>c DEF Pub
  <2>3. tasks' \in [SubLoop -> Seq(SubTask)]
    BY <1>4, PubSends
  <2> QED
    BY <1>4, <2>1, <2>2, <2>3 DEF Pub, SubTypeOK
<1>5. ASSUME NEW c \in Conn, Unsub(c) PROVE SubTypeOK'
  <2>1. inbox' \in [Conn -> Seq(Line)]
    BY <1>5, <1>b DEF Unsub
  <2>2. Given(c) \in Topic
    BY <1>5, <1>a DEF Unsub, Take
  <2>3. /\ handler' \in [Conn -> {"none", "message", "unsub", "down"}]
        /\ dropping' \in [Conn -> SUBSET Topic]
    BY <1>5, <1>c, <2>2 DEF Unsub, SubTypeOK
  <2>4. topics' \in [Conn -> SUBSET Topic] /\ tidy' \in BOOLEAN
    BY <1>5 DEF Unsub, SubTypeOK
  <2> QED
    BY <1>5, <2>1, <2>3, <2>4 DEF Unsub, SubTypeOK
<1>6. ASSUME NEW c \in Conn, UnsubLocked(c) PROVE SubTypeOK'
  <2>1. PICK t \in dropping[c] : Erase(c, t)
    BY <1>6 DEF UnsubLocked
  <2>2. t \in Topic
    BY DEF SubTypeOK
  <2>3. /\ DOMAIN subscribers' \subseteq Topic
        /\ \A u \in DOMAIN subscribers' : subscribers'[u] \in Seq(Conn)
        /\ undefined' \in BOOLEAN
    BY <2>1, <2>2, Erased
  <2>4. handler' \in [Conn -> {"none", "message", "unsub", "down"}]
    BY <1>6, <1>c DEF UnsubLocked
  <2> QED
    BY <1>6, <2>3, <2>4 DEF UnsubLocked, SubTypeOK
<1>7. ASSUME NEW c \in Conn, Junk(c) PROVE SubTypeOK'
  <2>1. inbox' \in [Conn -> Seq(Line)]
    BY <1>7, <1>b DEF Junk
  <2>2. tasks' \in [SubLoop -> Seq(SubTask)]
    BY <1>7, <1>d DEF Junk, Pushed, SubTypeOK
  <2> QED
    BY <1>7, <2>1, <2>2 DEF Junk, SubTypeOK
<1>8. ASSUME NEW c \in Conn, NoMoreLines(c) PROVE SubTypeOK'
  BY <1>8, <1>c DEF NoMoreLines, SubTypeOK
<1>9. ASSUME NEW c \in Conn, PeerCloses(c) PROVE SubTypeOK'
  BY <1>9, <1>e DEF PeerCloses, SubTypeOK
<1>10. ASSUME NEW c \in Conn, DropTopic(c) PROVE SubTypeOK'
  <2>1. PICK t \in dropping[c] : Erase(c, t) /\ dropping' = [dropping EXCEPT ![c] = @ \ {t}]
    BY <1>10 DEF DropTopic
  <2>2. t \in Topic /\ dropping' \in [Conn -> SUBSET Topic]
    BY <2>1 DEF SubTypeOK
  <2>3. /\ DOMAIN subscribers' \subseteq Topic
        /\ \A u \in DOMAIN subscribers' : subscribers'[u] \in Seq(Conn)
        /\ undefined' \in BOOLEAN
    BY <2>1, <2>2, Erased
  <2> QED
    BY <1>10, <2>2, <2>3 DEF DropTopic, SubTypeOK
<1>11. ASSUME NEW c \in Conn, Left(c) PROVE SubTypeOK'
  BY <1>11, <1>c DEF Left, SubTypeOK
<1>12. ASSUME NEW c \in Conn, RemoveInLoop(c) PROVE SubTypeOK'
  BY <1>12, <1>d DEF RemoveInLoop, Pushed, SubTypeOK
<1>13. ASSUME NEW l \in SubLoop, RunNext(l) PROVE SubTypeOK'
  <2>1. tasks' \in [SubLoop -> Seq(SubTask)]
    BY <1>13, TakenTyped DEF RunNext
  <2>2. Head(tasks[l])[2] \in Conn
    <3>1. /\ Head(tasks[l]) = tasks[l][1]
          /\ \E kind \in {"send", "close", "destroy"}, d \in Conn : tasks[l][1] = <<kind, d>>
      BY <1>13, TakenTyped DEF RunNext
    <3> QED  BY <3>1
  <2>3. /\ connState' \in [Conn -> {"connected", "disconnected", "left", "destroyed"}]
        /\ handler' \in [Conn -> {"none", "message", "unsub", "down"}]
        /\ dropping' \in [Conn -> SUBSET Topic]
    <3> DEFINE c == Head(tasks[l])[2]
    <3>1. c \in Conn
      BY <2>2
    <3>2. \/ UNCHANGED <<connState, dropping, handler>>
          \/ HandleClose(c)
          \/ connState' = [connState EXCEPT ![c] = "destroyed"] /\ UNCHANGED <<dropping, handler>>
      BY <1>13 DEF RunNext
    <3> HIDE DEF c
    <3> QED
      BY <3>1, <3>2, <1>e DEF SubTypeOK
  <2> QED
    BY <1>13, <2>1, <2>3 DEF RunNext, SubTypeOK
<1>14. CASE UNCHANGED subVars
  BY <1>14 DEF subVars, SubTypeOK
<1> QED
  BY <1>1, <1>2, <1>3, <1>4, <1>5, <1>6, <1>7, <1>8, <1>9, <1>10, <1>11, <1>12, <1>13, <1>14
  DEF SubNext, OnServerMessage

InTable(d) == \E t \in DOMAIN subscribers : d \in ToSet(subscribers[t])

\* A connection that has not left has no destruction queued.
LEMMA NotBefore ==
  ASSUME SubInv, NEW d \in Conn, connState[d] \in {"connected", "disconnected"}, NEW l \in SubLoop
  PROVE  \A j \in DOMAIN tasks[l] : tasks[l][j] # <<"destroy", d>>
<1>1. ~InQueue(l, <<"destroy", d>>)
  BY DEF SubInv, QueueInv
<1> QED
  BY <1>1 DEF InQueue, ToSet

\* While the queues stay as they are, sends stay safe if nobody is destroyed and who
\* leaves the table has not left yet.
LEMMA SendsKept ==
  ASSUME SubInv, SendsReachTheLiving, UNCHANGED tasks,
         \A d \in Conn : connState'[d] = "destroyed" => connState[d] = "destroyed",
         \A d \in Conn : InTable(d) => InTable(d)' \/ ( /\ connState[d] \in {"connected", "disconnected"}
                                                        /\ connState'[d] # "destroyed" )
  PROVE  SendsReachTheLiving'
<1> SUFFICES ASSUME NEW l \in SubLoop, NEW i \in DOMAIN tasks[l], tasks[l][i][1] = "send"
             PROVE  LET c == tasks[l][i][2]
                    IN  InTable(c)' \/ ( /\ connState'[c] # "destroyed"
                                         /\ \A j \in 1..i - 1 : tasks[l][j] # <<"destroy", c>> )
  BY DEF SendsReachTheLiving, InTable
<1>1. tasks[l] \in Seq(SubTask)
  BY DEF SubInv, SubTypeOK, SubTask
<1>2. PICK d \in Conn : tasks[l][i][2] = d
  BY <1>1 DEF SubTask
<1>3. \/ InTable(d)
      \/ connState[d] # "destroyed" /\ \A j \in 1..i - 1 : tasks[l][j] # <<"destroy", d>>
  BY <1>2 DEF SendsReachTheLiving, InTable
<1>4. 1..i - 1 \subseteq DOMAIN tasks[l]
  BY <1>1
<1>5. connState[d] \in {"connected", "disconnected"} =>
        \A j \in 1..i - 1 : tasks[l][j] # <<"destroy", d>>
  BY <1>4, NotBefore
<1> QED
  BY <1>2, <1>3, <1>5

\* ... and so do the queues.
LEMMA QueuesKept ==
  ASSUME SubInv, UNCHANGED tasks,
         \A d \in Conn : connState'[d] = connState[d] \/ \A l \in SubLoop :
            ~InQueue(l, <<"close", d>>) /\ ~InQueue(l, <<"destroy", d>>),
         \A d \in Conn : handler'[d] = "down" => handler[d] = "down" \/ \A l \in SubLoop :
            ~InQueue(l, <<"close", d>>)
  PROVE  QueueInv' /\ CloseOnce'
<1>1. \A l, x : InQueue(l, x)' <=> InQueue(l, x)
  BY DEF InQueue
<1> QED
  BY <1>1 DEF SubInv, QueueInv, CloseOnce

LEMMA TableKept ==
  ASSUME UNCHANGED subscribers
  PROVE  \A d : InTable(d)' <=> InTable(d)
BY DEF InTable

LEMMA TableErased ==
  ASSUME SubTypeOK, NEW c \in Conn, NEW t \in Topic, Erase(c, t)
  PROVE  \A d \in Conn \ {c} : InTable(d) => InTable(d)'
<1> TAKE d \in Conn \ {c}
<1> HAVE InTable(d)
<1>0. /\ \A u : u # t => Subscribers(u)' = Subscribers(u)
      /\ Subscribed(d, t)' <=> Subscribed(d, t)
  BY Erased
<1>1. PICK u \in DOMAIN subscribers : d \in ToSet(subscribers[u])
  BY DEF InTable
<1>2. d \in ToSet(Subscribers(u))
  BY <1>1 DEF Subscribers, Has
<1>3. d \in ToSet(Subscribers(u)')
  BY <1>0, <1>2 DEF Subscribed
<1>4. u \in DOMAIN subscribers'
  BY <1>3 DEF Subscribers, Has, ToSet
<1> QED
  BY <1>3, <1>4 DEF Subscribers, Has, InTable

LEMMA SubQueuesStep ==
  ASSUME SubInv, SubTypeOK', SendsReachTheLiving, [SubNext]_subVars
  PROVE  QueueInv' /\ CloseOnce' /\ HandlerInv' /\ SendsReachTheLiving'
<1>0. SubTypeOK /\ QueueInv /\ CloseOnce /\ HandlerInv
  BY DEF SubInv
<1>a. /\ handler \in [Conn -> {"none", "message", "unsub", "down"}]
      /\ connState \in [Conn -> {"connected", "disconnected", "left", "destroyed"}]
      /\ tasks \in [SubLoop -> Seq(SubTask)]
      /\ topics \in [Conn -> SUBSET Topic] /\ dropping \in [Conn -> SUBSET Topic]
  BY DEF SubInv, SubTypeOK, SubTask
<1>1. ASSUME NEW c \in Conn, ServerMessage(c)
      PROVE  QueueInv' /\ CloseOnce' /\ HandlerInv' /\ SendsReachTheLiving'
  <2>1. UNCHANGED <<tasks, connState, subscribers, dropping, topics>>
        /\ handler' = [handler EXCEPT ![c] = "message"] /\ connState[c] = "connected"
    BY <1>1 DEF ServerMessage, Run
  <2>2. QueueInv' /\ CloseOnce'
    BY <2>1, <1>a, QueuesKept
  <2>3. HandlerInv'
    BY <2>1, <1>0, <1>a DEF HandlerInv
  <2> QED
    BY <2>1, <2>2, <2>3, TableKept, SendsKept
<1>2. ASSUME NEW c \in Conn, Skip(c) \/ NoMoreLines(c)
      PROVE  QueueInv' /\ CloseOnce' /\ HandlerInv' /\ SendsReachTheLiving'
  <2>1. /\ UNCHANGED <<tasks, connState, subscribers, dropping, topics>>
        /\ handler' = handler \/ handler' = [handler EXCEPT ![c] = "none"]
    BY <1>2 DEF Skip, NoMoreLines, Run
  <2>2. QueueInv' /\ CloseOnce'
    BY <2>1, <1>a, QueuesKept
  <2>3. HandlerInv'
    BY <2>1, <1>0, <1>a DEF HandlerInv
  <2> QED
    BY <2>1, <2>2, <2>3, TableKept, SendsKept
<1>3. ASSUME NEW c \in Conn, Sub(c)
      PROVE  QueueInv' /\ CloseOnce' /\ HandlerInv' /\ SendsReachTheLiving'
  <2>1. /\ UNCHANGED <<tasks, connState, dropping, handler>> /\ handler[c] = "message"
        /\ topics' = [topics EXCEPT ![c] = @ \cup {Given(c)}]
        /\ Put(Given(c), Append(Subscribers(Given(c)), c))
    BY <1>3 DEF Sub, Take
  <2>2. QueueInv' /\ CloseOnce'
    BY <2>1, <1>a, QueuesKept
  <2>3. HandlerInv'
    BY <2>1, <1>0, <1>a DEF HandlerInv
  <2>4. ASSUME NEW d \in Conn, InTable(d) PROVE InTable(d)'
    <3>1. PICK u \in DOMAIN subscribers : d \in ToSet(subscribers[u])
      BY <2>4 DEF InTable
    <3>2. u \in DOMAIN subscribers'
      BY <2>1 DEF Put
    <3>3. CASE u # Given(c)
      BY <2>1, <3>1, <3>2, <3>3 DEF Put, InTable
    <3>4. CASE u = Given(c)
      <4> DEFINE s == Subscribers(u)
      <4>1. s \in Seq(Conn) /\ d \in ToSet(s)
        BY <1>0, <3>1, SubscribersTyped DEF Subscribers, Has
      <4>2. subscribers'[u] = Append(s, c)
        BY <2>1, <3>2, <3>4 DEF Put
      <4> HIDE DEF s
      <4>3. d \in ToSet(Append(s, c))
        <5>1. PICK j \in 1 .. Len(s) : s[j] = d
          BY <4>1 DEF ToSet
        <5>2. Append(s, c)[j] = d /\ j \in DOMAIN Append(s, c)
          BY <4>1, <5>1
        <5> QED  BY <5>2 DEF ToSet
      <4> QED  BY <3>2, <4>2, <4>3 DEF InTable
    <3> QED  BY <3>3, <3>4
  <2> QED
    BY <2>1, <2>2, <2>3, <2>4, SendsKept
<1>4. ASSUME NEW c \in Conn, Pub(c)
      PROVE  QueueInv' /\ CloseOnce' /\ HandlerInv' /\ SendsReachTheLiving'
  <2>1. /\ UNCHANGED <<subscribers, connState, dropping, topics>>
        /\ handler[c] = "message"
        /\ \E h \in {"message", "none"} : handler' = [handler EXCEPT ![c] = h]
    BY <1>4 DEF Pub, Take, Run
  <2>2. SendsBehind
    BY <1>0, <1>4, PubSends
  <2>3. ASSUME NEW l \in SubLoop, NEW x, InQueue(l, x)'
        PROVE  InQueue(l, x) \/ \E d \in Conn : LoopOf[d] = l /\ x = <<"send", d>>
    <3> DEFINE q == tasks[l]
               r == tasks'[l]
    <3>1. /\ q \in Seq(SubTask) /\ r \in Seq(SubTask) /\ Len(q) <= Len(r)
          /\ \A i \in 1 .. Len(q) : r[i] = q[i]
          /\ \A i \in Len(q) + 1 .. Len(r) : \E d \in Conn : LoopOf[d] = l /\ r[i] = <<"send", d>>
      BY <2>2 DEF SendsBehind
    <3>2. x \in ToSet(r) /\ (InQueue(l, x) <=> x \in ToSet(q))
      BY <2>3 DEF InQueue
    <3> HIDE DEF q, r
    <3>3. PICK i \in 1 .. Len(r) : r[i] = x
      BY <3>1, <3>2 DEF ToSet
    <3>4. CASE i \in 1 .. Len(q)
      <4>1. x \in ToSet(q)
        BY <3>1, <3>3, <3>4 DEF ToSet
      <4> QED  BY <3>2, <4>1
    <3>5. CASE i \notin 1 .. Len(q)
      <4>1. i \in Len(q) + 1 .. Len(r)
        BY <3>1, <3>3, <3>5
      <4> QED  BY <4>1, <3>1, <3>3
    <3> QED  BY <3>4, <3>5
  <2>4. QueueInv'
    <3> SUFFICES ASSUME NEW l \in SubLoop, NEW d \in Conn
                 PROVE  /\ InQueue(l, <<"send", d>>)' => l = LoopOf[d]
                        /\ InQueue(l, <<"close", d>>)' => /\ l = LoopOf[d]
                                                         /\ connState[d] = "disconnected"
                                                         /\ handler'[d] # "down"
                        /\ InQueue(l, <<"destroy", d>>)' =>
                             l = LoopOf[d] /\ connState[d] \in {"left", "destroyed"}
      BY <2>1 DEF QueueInv
    <3>1. InQueue(l, <<"send", d>>)' => l = LoopOf[d]
      <4>1. InQueue(l, <<"send", d>>) => l = LoopOf[d]
        BY <1>0 DEF QueueInv
      <4>2. \A e \in Conn : <<"send", d>> = <<"send", e>> => d = e
        OBVIOUS
      <4> HIDE DEF InQueue
      <4> QED  BY <4>1, <4>2, <2>3
    <3>2. InQueue(l, <<"close", d>>)' => InQueue(l, <<"close", d>>)
      BY <2>3
    <3>3. InQueue(l, <<"destroy", d>>)' => InQueue(l, <<"destroy", d>>)
      BY <2>3
    <3>4. handler'[d] = "down" => handler[d] = "down"
      BY <1>a, <2>1
    <3> QED  BY <1>0, <3>1, <3>2, <3>3, <3>4 DEF QueueInv
  <2>5. HandlerInv'
    BY <1>0, <1>a, <2>1 DEF HandlerInv
  <2>6. CloseOnce'
    <3> SUFFICES ASSUME NEW l \in SubLoop, NEW d \in Conn, NEW i \in DOMAIN tasks'[l],
                        NEW j \in DOMAIN tasks'[l],
                        tasks'[l][i] = <<"close", d>>, tasks'[l][j] = <<"close", d>>
                 PROVE  i = j
      BY DEF CloseOnce
    <3> DEFINE q == tasks[l]
               r == tasks'[l]
    <3>1. /\ q \in Seq(SubTask) /\ r \in Seq(SubTask) /\ Len(q) <= Len(r)
          /\ \A k \in 1 .. Len(q) : r[k] = q[k]
          /\ \A k \in Len(q) + 1 .. Len(r) : \E e \in Conn : r[k] = <<"send", e>>
      BY <2>2 DEF SendsBehind
    <3>2. \A k, m \in DOMAIN q : q[k] = <<"close", d>> /\ q[m] = <<"close", d>> => k = m
      BY <1>0 DEF CloseOnce
    <3>3. i \in DOMAIN r /\ j \in DOMAIN r /\ r[i] = <<"close", d>> /\ r[j] = <<"close", d>>
      OBVIOUS
    <3> HIDE DEF q, r
    <3>4. \A k \in DOMAIN r : r[k] = <<"close", d>> => k \in 1 .. Len(q)
      <4> SUFFICES ASSUME NEW k \in DOMAIN r, k \notin 1 .. Len(q)
                   PROVE  r[k] # <<"close", d>>
        OBVIOUS
      <4>1. k \in Len(q) + 1 .. Len(r)
        BY <3>1
      <4> QED  BY <3>1, <4>1
    <3> QED  BY <3>1, <3>2, <3>3, <3>4
  <2>7. SendsReachTheLiving'
    <3> SUFFICES ASSUME NEW l \in SubLoop, NEW i \in DOMAIN tasks'[l], tasks'[l][i][1] = "send"
                 PROVE  LET d == tasks'[l][i][2]
                        IN  InTable(d) \/ ( /\ connState[d] # "destroyed"
                                            /\ \A j \in 1..i - 1 : tasks'[l][j] # <<"destroy", d>> )
      BY <2>1 DEF SendsReachTheLiving, InTable
    <3> DEFINE q == tasks[l]
               r == tasks'[l]
               d == r[i][2]
    <3>1. /\ q \in Seq(SubTask) /\ r \in Seq(SubTask) /\ Len(q) <= Len(r)
          /\ \A k \in 1 .. Len(q) : r[k] = q[k]
          /\ \A k \in Len(q) + 1 .. Len(r) : \E e \in Conn : r[k] = <<"send", e>> /\ InTable(e)
      BY <2>2 DEF SendsBehind, InTable
    <3>2. \A k \in DOMAIN q : q[k][1] = "send" =>
            LET e == q[k][2]
            IN  InTable(e) \/ ( /\ connState[e] # "destroyed"
                                /\ \A j \in 1..k - 1 : q[j] # <<"destroy", e>> )
      BY DEF SendsReachTheLiving, InTable
    <3>3. i \in DOMAIN r /\ r[i][1] = "send"
      OBVIOUS
    <3>4. InTable(d) \/ (connState[d] # "destroyed" /\ \A j \in 1..i - 1 : r[j] # <<"destroy", d>>)
      <4> HIDE DEF q, r
      <4>1. CASE i \in 1 .. Len(q)
        <5>1. i \in DOMAIN q /\ q[i] = r[i] /\ 1..i - 1 \subseteq 1 .. Len(q)
          BY <4>1, <3>1
        <5> QED  BY <5>1, <3>1, <3>2, <3>3
      <4>2. CASE i \notin 1 .. Len(q)
        <5>1. i \in Len(q) + 1 .. Len(r)
          BY <4>2, <3>1, <3>3
        <5> QED  BY <5>1, <3>1
      <4> QED  BY <4>1, <4>2
    <3> QED  BY <3>4
  <2> QED
    BY <2>4, <2>5, <2>6, <2>7
<1>5. ASSUME NEW c \in Conn, Unsub(c)
      PROVE  QueueInv' /\ CloseOnce' /\ HandlerInv' /\ SendsReachTheLiving'
  <2>1. /\ UNCHANGED <<tasks, connState, subscribers>> /\ handler[c] = "message"
        /\ topics' = [topics EXCEPT ![c] = @ \ {Given(c)}]
        /\ \/ /\ handler' = [handler EXCEPT ![c] = "unsub"]
              /\ dropping' = [dropping EXCEPT ![c] = {Given(c)}]
           \/ /\ handler' = [handler EXCEPT ![c] = "none"]
              /\ dropping' = [dropping EXCEPT ![c] = {}]
    BY <1>5 DEF Unsub, Take, Run
  <2>2. QueueInv' /\ CloseOnce'
    BY <2>1, <1>a, QueuesKept
  <2>3. HandlerInv'
    <3>1. Given(c) \in Topic
      <4>1. inbox[c] \in Seq(Line) /\ inbox[c] # <<>> /\ Head(inbox[c]).do = "unsub"
        BY <1>5, <1>0 DEF Unsub, Take, SubTypeOK
      <4>2. Head(inbox[c]) \in Line
        BY <4>1
      <4> QED  BY <4>1, <4>2, SubAssumption DEF Given
    <3> QED
      BY <2>1, <3>1, <1>0, <1>a DEF HandlerInv
  <2> QED
    BY <2>1, <2>2, <2>3, TableKept, SendsKept
<1>6. ASSUME NEW c \in Conn, UnsubLocked(c) \/ DropTopic(c)
      PROVE  QueueInv' /\ CloseOnce' /\ HandlerInv' /\ SendsReachTheLiving'
  <2>1. PICK t \in dropping[c] : Erase(c, t)
    BY <1>6 DEF UnsubLocked, DropTopic
  <2>2. /\ UNCHANGED <<tasks, connState, topics>> /\ handler[c] \in {"unsub", "down"}
        /\ \/ handler' = [handler EXCEPT ![c] = "message"] /\ dropping' = [dropping EXCEPT ![c] = {}]
           \/ /\ handler[c] = "down" /\ handler' = handler
              /\ \E u \in dropping[c] : dropping' = [dropping EXCEPT ![c] = @ \ {u}]
    BY <1>6 DEF UnsubLocked, DropTopic, Run
  <2>3. QueueInv' /\ CloseOnce'
    BY <2>2, <1>a, QueuesKept
  <2>4. HandlerInv'
    BY <2>2, <1>0, <1>a DEF HandlerInv
  <2>5. t \in Topic /\ connState[c] \in {"connected", "disconnected"}
    BY <1>0, <1>a, <2>2 DEF HandlerInv
  <2>6. \A d \in Conn \ {c} : InTable(d) => InTable(d)'
    BY <1>0, <2>1, <2>5, TableErased
  <2> QED
    BY <2>2, <2>3, <2>4, <2>5, <2>6, SendsKept
<1>7. ASSUME NEW c \in Conn, PeerCloses(c)
      PROVE  QueueInv' /\ CloseOnce' /\ HandlerInv' /\ SendsReachTheLiving'
  <2>1. /\ UNCHANGED <<tasks, subscribers, topics>> /\ connState[c] = "connected"
        /\ connState' = [connState EXCEPT ![c] = "disconnected"]
        /\ handler' = [handler EXCEPT ![c] = "down"]
    BY <1>7 DEF PeerCloses, HandleClose, Run
  <2>2. \A l \in SubLoop : ~InQueue(l, <<"close", c>>) /\ ~InQueue(l, <<"destroy", c>>)
    BY <1>0, <2>1 DEF QueueInv
  <2>3. QueueInv' /\ CloseOnce'
    BY <2>1, <2>2, <1>a, QueuesKept
  <2>4. HandlerInv'
    BY <1>7, <2>1, <1>0, <1>a DEF HandlerInv, PeerCloses, HandleClose
  <2> QED
    BY <2>1, <2>3, <2>4, <1>a, TableKept, SendsKept
<1>8. ASSUME NEW c \in Conn, Left(c)
      PROVE  QueueInv' /\ CloseOnce' /\ HandlerInv' /\ SendsReachTheLiving'
  <2>1. /\ UNCHANGED <<tasks, subscribers, topics, dropping>> /\ handler[c] = "down"
        /\ connState' = [connState EXCEPT ![c] = "left"]
        /\ handler' = [handler EXCEPT ![c] = "none"]
    BY <1>8 DEF Left, Run
  <2>2. \A l \in SubLoop : ~InQueue(l, <<"close", c>>) /\ ~InQueue(l, <<"destroy", c>>)
    BY <1>0, <2>1 DEF QueueInv, HandlerInv
  <2>3. QueueInv' /\ CloseOnce'
    BY <2>1, <2>2, <1>a, QueuesKept
  <2>4. HandlerInv'
    BY <2>1, <1>0, <1>a DEF HandlerInv
  <2> QED
    BY <2>1, <2>3, <2>4, <1>a, TableKept, SendsKept
\* A task joins the queue behind all sends.
<1>b. ASSUME NEW c \in Conn, NEW kind \in {"close", "destroy"}, Pushed(c, kind),
             UNCHANGED subscribers,
             \A d \in Conn : connState'[d] = "destroyed" => connState[d] = "destroyed"
      PROVE  SendsReachTheLiving'
  <2> SUFFICES ASSUME NEW l \in SubLoop, NEW i \in DOMAIN tasks'[l], tasks'[l][i][1] = "send"
               PROVE  LET d == tasks'[l][i][2]
                      IN  InTable(d) \/ ( /\ connState'[d] # "destroyed"
                                          /\ \A j \in 1..i - 1 : tasks'[l][j] # <<"destroy", d>> )
    BY <1>b DEF SendsReachTheLiving, InTable
  <2> DEFINE q == tasks[l]
             r == tasks'[l]
  <2>1. \A k \in DOMAIN q : q[k][1] = "send" =>
          LET e == q[k][2]
          IN  InTable(e) \/ ( /\ connState[e] # "destroyed"
                              /\ \A j \in 1..k - 1 : q[j] # <<"destroy", e>> )
    BY DEF SendsReachTheLiving, InTable
  <2>2. /\ q \in Seq(SubTask)
        /\ \/ r = q
           \/ /\ r \in Seq(SubTask) /\ Len(r) = Len(q) + 1
              /\ \A k \in 1 .. Len(q) : r[k] = q[k]
              /\ r[Len(q) + 1] = <<kind, c>>
    <3>1. kind \in {"send", "close", "destroy"}
      OBVIOUS
    <3>2. CASE l = LoopOf[c]
      BY <1>0, <1>b, <3>1, <3>2, PushedTyped
    <3>3. CASE l # LoopOf[c]
      BY <1>0, <1>a, <1>b, <3>1, <3>3, PushedTyped
    <3> QED  BY <3>2, <3>3
  <2>3. i \in DOMAIN r /\ r[i][1] = "send"
    OBVIOUS
  <2> HIDE DEF q, r
  <2>4. i \in DOMAIN q /\ r[i] = q[i] /\ \A j \in 1..i - 1 : r[j] = q[j]
    <3>1. CASE r = q
      BY <3>1, <2>3
    <3>2. CASE r # q
      <4>1. i # Len(q) + 1
        BY <3>2, <2>2, <2>3
      <4>2. i \in 1 .. Len(q) /\ 1..i - 1 \subseteq 1 .. Len(q)
        BY <3>2, <4>1, <2>2, <2>3
      <4> QED  BY <4>2, <3>2, <2>2
    <3> QED  BY <3>1, <3>2
  <2>5. q[i][2] \in Conn
    BY <2>2, <2>4 DEF SubTask
  <2>6. InTable(r[i][2]) \/ ( /\ connState'[r[i][2]] # "destroyed"
                              /\ \A j \in 1..i - 1 : r[j] # <<"destroy", r[i][2]>> )
    <3>1. PICK d \in Conn : q[i][2] = d /\ r[i][2] = d
      BY <2>4, <2>5
    <3>2. q[i][1] = "send"
      BY <2>3, <2>4
    <3>3. InTable(d) \/ (connState[d] # "destroyed" /\ \A j \in 1..i - 1 : q[j] # <<"destroy", d>>)
      BY <2>1, <2>4, <3>1, <3>2
    <3>4. connState[d] # "destroyed" => connState'[d] # "destroyed"
      BY <1>b
    <3> QED  BY <2>4, <3>1, <3>3, <3>4
  <2> QED
    BY <2>6 DEF r
<1>9. ASSUME NEW c \in Conn, Junk(c)
      PROVE  QueueInv' /\ CloseOnce' /\ HandlerInv' /\ SendsReachTheLiving'
  <2>1. /\ UNCHANGED <<subscribers, topics, dropping, handler>> /\ handler[c] = "message"
        /\ connState' = [connState EXCEPT ![c] = "disconnected"]
        /\ tasks' = IF connState[c] = "connected"
                    THEN [tasks EXCEPT ![LoopOf[c]] = Append(@, <<"close", c>>)] ELSE tasks
    BY <1>9 DEF Junk, Take
  <2>2. connState[c] \in {"connected", "disconnected"}
    BY <1>0, <2>1 DEF HandlerInv
  <2>3. HandlerInv'
    BY <2>1, <2>2, <1>0, <1>a DEF HandlerInv
  <2>4. CASE connState[c] = "disconnected"
    <3>1. connState' = connState /\ UNCHANGED tasks
      BY <2>1, <2>4, <1>a
    <3>2. QueueInv' /\ CloseOnce'
      BY <2>1, <3>1, <1>a, QueuesKept
    <3> QED
      BY <2>1, <2>3, <3>1, <3>2, TableKept, SendsKept
  <2>5. CASE connState[c] = "connected"
    <3>1. Pushed(c, "close")
      BY <2>1, <2>5 DEF Pushed
    <3>2. \A l \in SubLoop : ~InQueue(l, <<"close", c>>) /\ ~InQueue(l, <<"destroy", c>>)
      BY <1>0, <2>5 DEF QueueInv
    <3>3. \A l \in SubLoop : \A x :
            InQueue(l, x)' <=> InQueue(l, x) \/ (l = LoopOf[c] /\ x = <<"close", c>>)
      BY <1>0, <3>1, PushedInQueue
    <3>4. QueueInv'
      <4> SUFFICES ASSUME NEW l \in SubLoop, NEW d \in Conn
                   PROVE  /\ InQueue(l, <<"send", d>>)' => l = LoopOf[d]
                          /\ InQueue(l, <<"close", d>>)' => /\ l = LoopOf[d]
                                                           /\ connState'[d] = "disconnected"
                                                           /\ handler'[d] # "down"
                          /\ InQueue(l, <<"destroy", d>>)' =>
                               l = LoopOf[d] /\ connState'[d] \in {"left", "destroyed"}
        BY DEF QueueInv
      <4>1. /\ InQueue(l, <<"send", d>>)' <=> InQueue(l, <<"send", d>>)
            /\ InQueue(l, <<"destroy", d>>)' <=> InQueue(l, <<"destroy", d>>)
            /\ d # c => (InQueue(l, <<"close", d>>)' <=> InQueue(l, <<"close", d>>))
            /\ d = c => (InQueue(l, <<"close", d>>)' <=> l = LoopOf[c])
        BY <3>2, <3>3
      <4> QED  BY <4>1, <3>2, <2>1, <1>0, <1>a DEF QueueInv
    <3>5. CloseOnce'
      <4> SUFFICES ASSUME NEW l \in SubLoop, NEW d \in Conn, NEW i \in DOMAIN tasks'[l],
                          NEW j \in DOMAIN tasks'[l],
                          tasks'[l][i] = <<"close", d>>, tasks'[l][j] = <<"close", d>>
                   PROVE  i = j
        BY DEF CloseOnce
      <4> DEFINE q == tasks[l]
                 r == tasks'[l]
      <4>1. /\ q \in Seq(SubTask)
            /\ \/ r = q
               \/ /\ r \in Seq(SubTask) /\ Len(r) = Len(q) + 1
                  /\ \A k \in 1 .. Len(q) : r[k] = q[k]
                  /\ r[Len(q) + 1] = <<"close", c>>
        BY <1>0, <1>a, <3>1, PushedTyped
      <4>2. \A k, m \in DOMAIN q : q[k] = <<"close", d>> /\ q[m] = <<"close", d>> => k = m
        BY <1>0 DEF CloseOnce
      <4>3. \A k \in DOMAIN q : q[k] # <<"close", c>>
        BY <3>2 DEF InQueue, ToSet
      <4>4. i \in DOMAIN r /\ j \in DOMAIN r /\ r[i] = <<"close", d>> /\ r[j] = <<"close", d>>
        OBVIOUS
      <4> HIDE DEF q, r
      <4>5. CASE r = q
        BY <4>2, <4>4, <4>5
      <4>6. CASE r # q
        <5>1. \A k \in DOMAIN r : k = Len(q) + 1 \/ k \in DOMAIN q
          BY <4>1, <4>6
        <5>2. ASSUME d = c PROVE i = j
          <6>1. i = Len(q) + 1 /\ j = Len(q) + 1
            BY <5>1, <5>2, <4>1, <4>3, <4>4, <4>6
          <6> QED  BY <6>1
        <5>3. ASSUME d # c PROVE i = j
          <6>1. i \in DOMAIN q /\ j \in DOMAIN q
            BY <5>1, <5>3, <4>1, <4>4, <4>6
          <6> QED  BY <6>1, <4>1, <4>2, <4>4, <4>6
        <5> QED  BY <5>2, <5>3
      <4> QED  BY <4>5, <4>6
    <3>6. SendsReachTheLiving'
      BY <1>b, <3>1, <2>1, <1>a
    <3> QED  BY <2>3, <3>4, <3>5, <3>6
  <2> QED  BY <2>2, <2>4, <2>5
<1>10. ASSUME NEW c \in Conn, RemoveInLoop(c)
       PROVE  QueueInv' /\ CloseOnce' /\ HandlerInv' /\ SendsReachTheLiving'
  <2>1. /\ UNCHANGED <<subscribers, topics, dropping, handler, connState>>
        /\ connState[c] = "left" /\ Pushed(c, "destroy")
    BY <1>10 DEF RemoveInLoop, Pushed
  <2>2. HandlerInv'
    BY <2>1, <1>0 DEF HandlerInv
  <2>3. \A l \in SubLoop : \A x :
          InQueue(l, x)' <=> InQueue(l, x) \/ (l = LoopOf[c] /\ x = <<"destroy", c>>)
    BY <1>0, <2>1, PushedInQueue
  <2>4. QueueInv'
    <3> SUFFICES ASSUME NEW l \in SubLoop, NEW d \in Conn
                 PROVE  /\ InQueue(l, <<"send", d>>)' => l = LoopOf[d]
                        /\ InQueue(l, <<"close", d>>)' => /\ l = LoopOf[d]
                                                         /\ connState[d] = "disconnected"
                                                         /\ handler[d] # "down"
                        /\ InQueue(l, <<"destroy", d>>)' =>
                             l = LoopOf[d] /\ connState[d] \in {"left", "destroyed"}
      BY <2>1 DEF QueueInv
    <3>1. /\ InQueue(l, <<"send", d>>)' <=> InQueue(l, <<"send", d>>)
          /\ InQueue(l, <<"close", d>>)' <=> InQueue(l, <<"close", d>>)
          /\ d # c => (InQueue(l, <<"destroy", d>>)' <=> InQueue(l, <<"destroy", d>>))
          /\ d = c => (InQueue(l, <<"destroy", d>>)' => InQueue(l, <<"destroy", d>>) \/ l = LoopOf[c])
      BY <2>3
    <3> QED  BY <3>1, <2>1, <1>0 DEF QueueInv
  <2>5. CloseOnce'
    <3> SUFFICES ASSUME NEW l \in SubLoop, NEW d \in Conn, NEW i \in DOMAIN tasks'[l],
                        NEW j \in DOMAIN tasks'[l],
                        tasks'[l][i] = <<"close", d>>, tasks'[l][j] = <<"close", d>>
                 PROVE  i = j
      BY DEF CloseOnce
    <3> DEFINE q == tasks[l]
               r == tasks'[l]
    <3>1. /\ q \in Seq(SubTask)
          /\ \/ r = q
             \/ /\ r \in Seq(SubTask) /\ Len(r) = Len(q) + 1
                /\ \A k \in 1 .. Len(q) : r[k] = q[k]
                /\ r[Len(q) + 1] = <<"destroy", c>>
      BY <1>0, <1>a, <2>1, PushedTyped
    <3>2. \A k, m \in DOMAIN q : q[k] = <<"close", d>> /\ q[m] = <<"close", d>> => k = m
      BY <1>0 DEF CloseOnce
    <3>3. i \in DOMAIN r /\ j \in DOMAIN r /\ r[i] = <<"close", d>> /\ r[j] = <<"close", d>>
      OBVIOUS
    <3> HIDE DEF q, r
    <3>4. CASE r = q
      BY <3>2, <3>3, <3>4
    <3>5. CASE r # q
      <4>1. \A k \in DOMAIN r : k = Len(q) + 1 \/ k \in DOMAIN q
        BY <3>1, <3>5
      <4>2. r[Len(q) + 1] # <<"close", d>>
        BY <3>1, <3>5
      <4>3. i \in DOMAIN q /\ j \in DOMAIN q
        BY <4>1, <4>2, <3>3
      <4>4. q[i] = r[i] /\ q[j] = r[j]
        BY <4>3, <3>1, <3>5
      <4> QED  BY <4>3, <4>4, <3>2, <3>3
    <3> QED  BY <3>4, <3>5
  <2>6. SendsReachTheLiving'
    BY <1>b, <2>1
  <2> QED
    BY <2>2, <2>4, <2>5, <2>6
<1>11. ASSUME NEW l \in SubLoop, RunNext(l)
       PROVE  QueueInv' /\ CloseOnce' /\ HandlerInv' /\ SendsReachTheLiving'
  <2>0. /\ tasks[l] # <<>> /\ tasks' = [tasks EXCEPT ![l] = Tail(@)]
        /\ \A d \in Conn : LoopOf[d] = l => handler[d] = "none"
        /\ UNCHANGED <<subscribers, topics>>
    BY <1>11 DEF RunNext, Idle
  <2> DEFINE q == tasks[l]
             r == tasks'[l]
  <2>1. /\ q \in Seq(SubTask) /\ r \in Seq(SubTask) /\ Len(q) = Len(r) + 1
        /\ \A i \in 1 .. Len(r) : r[i] = q[i + 1]
        /\ Head(q) = q[1]
        /\ \A k \in SubLoop \ {l} : tasks'[k] = tasks[k]
    BY <1>0, <2>0, TakenTyped
  <2>2. PICK kind \in {"send", "close", "destroy"}, c \in Conn : q[1] = <<kind, c>>
    BY <1>0, <2>0, TakenTyped
  <2>3. \A k \in SubLoop : \A x : InQueue(k, x)' => InQueue(k, x)
    BY <1>0, <2>0, TakenInQueue
  <2>4. InQueue(l, <<kind, c>>)
    <3>1. <<kind, c>> \in ToSet(q)
      <4>1. 1 \in DOMAIN q
        BY <2>1
      <4> QED  BY <4>1, <2>2 DEF ToSet
    <3> QED  BY <3>1 DEF InQueue
  <2>5. CloseOnce'
    <3> SUFFICES ASSUME NEW k \in SubLoop, NEW d \in Conn, NEW i \in DOMAIN tasks'[k],
                        NEW j \in DOMAIN tasks'[k],
                        tasks'[k][i] = <<"close", d>>, tasks'[k][j] = <<"close", d>>
                 PROVE  i = j
      BY DEF CloseOnce
    <3>1. CASE k # l
      BY <3>1, <2>1, <1>0 DEF CloseOnce
    <3>2. CASE k = l
      <4>1. \A m, n \in DOMAIN q : q[m] = <<"close", d>> /\ q[n] = <<"close", d>> => m = n
        BY <1>0 DEF CloseOnce
      <4>2. i \in DOMAIN r /\ j \in DOMAIN r /\ r[i] = <<"close", d>> /\ r[j] = <<"close", d>>
        BY <3>2
      <4> HIDE DEF q, r
      <4>0. /\ DOMAIN q = 1 .. Len(r) + 1 /\ DOMAIN r = 1 .. Len(r) /\ Len(r) \in Nat
            /\ \A m \in 1 .. Len(r) : r[m] = q[m + 1]
        BY <2>1
      <4>3. /\ i + 1 \in DOMAIN q /\ j + 1 \in DOMAIN q
            /\ q[i + 1] = <<"close", d>> /\ q[j + 1] = <<"close", d>>
            /\ i \in Nat /\ j \in Nat
        BY <4>0, <4>2
      <4>4. i + 1 = j + 1
        BY <4>1, <4>3
      <4> QED  BY <4>3, <4>4
    <3> QED  BY <3>1, <3>2
  \* Sends stay safe unless a connection is destroyed, whose sends came before.
  <2>6. ASSUME \A d \in Conn : connState'[d] = "destroyed" =>
                 connState[d] = "destroyed" \/ (kind = "destroy" /\ d = c /\ l = LoopOf[c])
        PROVE  SendsReachTheLiving'
    <3> SUFFICES ASSUME NEW k \in SubLoop, NEW i \in DOMAIN tasks'[k], tasks'[k][i][1] = "send"
                 PROVE  LET d == tasks'[k][i][2]
                        IN  InTable(d) \/ ( /\ connState'[d] # "destroyed"
                                            /\ \A j \in 1..i - 1 : tasks'[k][j] # <<"destroy", d>> )
      BY <2>0 DEF SendsReachTheLiving, InTable
    <3>1. PICK d \in Conn : tasks'[k][i] = <<"send", d>>
      <4>1. tasks'[k] \in Seq(SubTask)
        BY <1>a, <2>1
      <4> QED  BY <4>1 DEF SubTask
    <3>2. k = LoopOf[d]
      <4>1. InQueue(k, <<"send", d>>)'
        BY <3>1 DEF InQueue, ToSet
      <4> QED  BY <4>1, <2>3, <1>0 DEF QueueInv
    <3>3. \A m \in DOMAIN tasks[k] : tasks[k][m] = <<"send", d>> =>
            InTable(d) \/ ( /\ connState[d] # "destroyed"
                            /\ \A j \in 1..m - 1 : tasks[k][j] # <<"destroy", d>> )
      <4> SUFFICES ASSUME NEW m \in DOMAIN tasks[k], tasks[k][m] = <<"send", d>>
                   PROVE  InTable(d) \/ ( /\ connState[d] # "destroyed"
                                          /\ \A j \in 1..m - 1 : tasks[k][j] # <<"destroy", d>> )
        OBVIOUS
      <4>1. tasks[k][m][1] = "send" /\ tasks[k][m][2] = d
        OBVIOUS
      <4> QED  BY <4>1 DEF SendsReachTheLiving, InTable
    <3>4. CASE k # l
      <4>1. tasks'[k] = tasks[k] /\ tasks'[k][i][2] = d
        BY <3>1, <3>4, <2>1
      <4>2. InTable(d) \/ ( /\ connState[d] # "destroyed"
                            /\ \A j \in 1..i - 1 : tasks[k][j] # <<"destroy", d>> )
        BY <4>1, <3>1, <3>3
      <4>3. connState[d] # "destroyed" => connState'[d] # "destroyed"
        BY <2>6, <3>2, <3>4
      <4> QED  BY <4>1, <4>2, <4>3
    <3>5. CASE k = l
      <4>1. i \in DOMAIN r /\ r[i] = <<"send", d>> /\ r[i][2] = d
        BY <3>1, <3>5
      <4> HIDE DEF r
      <4>0. /\ DOMAIN q = 1 .. Len(r) + 1 /\ DOMAIN r = 1 .. Len(r) /\ Len(r) \in Nat
            /\ \A m \in 1 .. Len(r) : r[m] = q[m + 1]
        BY <2>1
      <4>2. i + 1 \in DOMAIN q /\ q[i + 1] = <<"send", d>> /\ i \in Nat /\ (i + 1) - 1 = i
        BY <4>0, <4>1
      <4>3. InTable(d) \/ (connState[d] # "destroyed" /\ \A j \in 1..i : q[j] # <<"destroy", d>>)
        BY <3>3, <3>5, <4>2
      <4>4. CASE InTable(d)
        BY <4>1, <4>4, <3>5 DEF r
      <4>5. CASE connState[d] # "destroyed" /\ \A j \in 1..i : q[j] # <<"destroy", d>>
        <5>1. 1 \in 1..i
          BY <4>1, <2>1
        <5>2. connState'[d] # "destroyed"
          BY <5>1, <4>5, <2>2, <2>6
        <5>3. \A j \in 1..i - 1 : r[j] # <<"destroy", d>>
          <6> TAKE j \in 1..i - 1
          <6>1. j + 1 \in 1..i /\ j \in 1 .. Len(r)
            BY <4>1, <4>2, <2>1
          <6> QED  BY <6>1, <4>5, <2>1
        <5> QED  BY <4>1, <5>2, <5>3, <3>5 DEF r
      <4> QED  BY <4>3, <4>4, <4>5
    <3> QED  BY <3>4, <3>5
  <2>7. CASE kind = "send"
    <3>1. UNCHANGED <<connState, dropping, handler>>
      BY <1>11, <2>1, <2>2, <2>7 DEF RunNext
    <3>2. QueueInv' /\ HandlerInv'
      BY <3>1, <2>0, <2>3, <1>0 DEF QueueInv, HandlerInv
    <3> QED
      BY <3>1, <3>2, <2>5, <2>6
  <2>8. CASE kind = "close"
    <3>1. HandleClose(c)
      BY <1>11, <2>1, <2>2, <2>8 DEF RunNext
    <3>2. l = LoopOf[c] /\ connState[c] = "disconnected" /\ handler[c] = "none"
      BY <2>0, <2>4, <2>8, <1>0 DEF QueueInv
    <3>3. /\ connState' = connState
          /\ handler' = [handler EXCEPT ![c] = "down"]
      BY <3>1, <3>2, <1>a DEF HandleClose, Run
    <3>4. ~InQueue(l, <<"close", c>>)'
      <4> SUFFICES ASSUME NEW i \in DOMAIN r, r[i] = <<"close", c>> PROVE FALSE
        BY DEF InQueue, ToSet
      <4>1. \A m, n \in DOMAIN q : q[m] = <<"close", c>> /\ q[n] = <<"close", c>> => m = n
        BY <1>0 DEF CloseOnce
      <4> HIDE DEF q, r
      <4>2. i + 1 \in DOMAIN q /\ 1 \in DOMAIN q /\ q[i + 1] = <<"close", c>> /\ i + 1 # 1
        BY <2>1
      <4> QED  BY <4>1, <4>2, <2>2, <2>8
    <3>5. QueueInv'
      <4> SUFFICES ASSUME NEW k \in SubLoop, NEW d \in Conn
                   PROVE  /\ InQueue(k, <<"send", d>>)' => k = LoopOf[d]
                          /\ InQueue(k, <<"close", d>>)' => /\ k = LoopOf[d]
                                                           /\ connState[d] = "disconnected"
                                                           /\ handler'[d] # "down"
                          /\ InQueue(k, <<"destroy", d>>)' =>
                               k = LoopOf[d] /\ connState[d] \in {"left", "destroyed"}
        BY <3>3 DEF QueueInv
      <4>1. d # c => handler'[d] = handler[d]
        BY <3>3, <1>a
      <4>2. InQueue(k, <<"close", d>>)' => d # c
        BY <3>2, <3>4, <2>3, <1>0 DEF QueueInv
      <4> QED  BY <4>1, <4>2, <2>3, <1>0 DEF QueueInv
    <3>6. HandlerInv'
      BY <3>1, <3>2, <3>3, <2>0, <1>0, <1>a DEF HandlerInv, HandleClose
    <3> QED
      BY <3>3, <3>5, <3>6, <2>5, <2>6
  <2>9. CASE kind = "destroy"
    <3>1. connState' = [connState EXCEPT ![c] = "destroyed"] /\ UNCHANGED <<dropping, handler>>
      BY <1>11, <2>1, <2>2, <2>9 DEF RunNext
    <3>2. l = LoopOf[c] /\ connState[c] \in {"left", "destroyed"}
      BY <2>4, <2>9, <1>0 DEF QueueInv
    <3>3. \A d \in Conn : connState'[d] = IF d = c THEN "destroyed" ELSE connState[d]
      BY <3>1, <1>a
    <3>4. QueueInv'
      <4> SUFFICES ASSUME NEW k \in SubLoop, NEW d \in Conn
                   PROVE  /\ InQueue(k, <<"send", d>>)' => k = LoopOf[d]
                          /\ InQueue(k, <<"close", d>>)' => /\ k = LoopOf[d]
                                                           /\ connState'[d] = "disconnected"
                                                           /\ handler[d] # "down"
                          /\ InQueue(k, <<"destroy", d>>)' =>
                               k = LoopOf[d] /\ connState'[d] \in {"left", "destroyed"}
        BY <3>1 DEF QueueInv
      <4> QED  BY <3>2, <3>3, <2>3, <1>0 DEF QueueInv
    <3>5. HandlerInv'
      BY <3>1, <3>2, <3>3, <2>0, <1>0 DEF HandlerInv
    <3> QED
      BY <3>2, <3>3, <3>4, <3>5, <2>5, <2>6, <2>9
  <2> QED  BY <2>2, <2>7, <2>8, <2>9
<1>12. CASE UNCHANGED subVars
  <2>1. UNCHANGED <<tasks, connState, subscribers, dropping, topics, handler>>
    BY <1>12 DEF subVars
  <2>2. QueueInv' /\ CloseOnce' /\ HandlerInv'
    BY <2>1, <1>0, QueuesKept DEF HandlerInv
  <2> QED
    BY <2>1, <2>2, TableKept, SendsKept
<1> QED
  BY <1>1, <1>2, <1>3, <1>4, <1>5, <1>6, <1>7, <1>8, <1>9, <1>10, <1>11, <1>12
  DEF SubNext, OnServerMessage

\* Where a connection that is in a topic stands.
Belongs(c, t) ==
  \/ handler[c] = "unsub" /\ t \in dropping[c] \cup topics[c]
  \/ handler[c] = "down" /\ t \in dropping[c]
  \/ /\ handler[c] \in {"none", "message"}
     /\ connState[c] \in {"connected", "disconnected"}
     /\ t \in topics[c]
Agrees ==
  /\ ~undefined
  /\ \A c \in Conn, t \in Topic : Subscribed(c, t) <=> Belongs(c, t)
  /\ \A t \in Topic : IsInjective(Subscribers(t))

LEMMA TablesAgree == SubscriptionsAgree <=> (tidy => Agrees)
BY DEF SubscriptionsAgree, Agrees, Belongs

\* A step that leaves the table alone, and every connection where it belongs.
LEMMA AgreesKept ==
  ASSUME Agrees, UNCHANGED <<subscribers, undefined>>,
         \A c \in Conn, t \in Topic : Belongs(c, t)' <=> Belongs(c, t)
  PROVE  Agrees'
BY DEF Agrees, Subscribed, Subscribers, Has

LEMMA AppendedOnce ==
  ASSUME NEW s \in Seq(Conn), NEW c \in Conn
  PROVE  /\ \A d : d \in ToSet(Append(s, c)) <=> d \in ToSet(s) \/ d = c
         /\ IsInjective(s) /\ c \notin ToSet(s) => IsInjective(Append(s, c))
<1> DEFINE p == Append(s, c)
<1>1. /\ DOMAIN s = 1 .. Len(s) /\ DOMAIN p = 1 .. Len(s) + 1 /\ Len(s) \in Nat
      /\ \A j \in 1 .. Len(s) : p[j] = s[j]
      /\ p[Len(s) + 1] = c
  OBVIOUS
<1> HIDE DEF p
<1>2. 1 .. Len(s) + 1 = (1 .. Len(s)) \cup {Len(s) + 1}
  BY <1>1
<1>3. \A d : d \in ToSet(p) <=> d \in ToSet(s) \/ d = c
  BY <1>1, <1>2 DEF ToSet
<1>4. ASSUME IsInjective(s), c \notin ToSet(s)
      PROVE  IsInjective(p)
  BY <1>1, <1>2, <1>4 DEF IsInjective, ToSet
<1> QED
  BY <1>3, <1>4 DEF p

LEMMA AgreesStep ==
  ASSUME SubInv, SubTypeOK', SubscriptionsAgree, [SubNext]_subVars
  PROVE  SubscriptionsAgree'
<1> SUFFICES ASSUME tidy' PROVE Agrees'
  BY TablesAgree, TablesAgree' DEF SubscriptionsAgree, Agrees, Belongs
<1>0. SubTypeOK /\ QueueInv /\ CloseOnce /\ HandlerInv
  BY DEF SubInv
<1>a. /\ handler \in [Conn -> {"none", "message", "unsub", "down"}]
      /\ connState \in [Conn -> {"connected", "disconnected", "left", "destroyed"}]
      /\ topics \in [Conn -> SUBSET Topic] /\ dropping \in [Conn -> SUBSET Topic]
  BY DEF SubInv, SubTypeOK
<1>b. tidy => Agrees
  BY TablesAgree
<1>c. ASSUME NEW c \in Conn, NEW do \in {"sub", "unsub", "pub"}, Take(c, do)
      PROVE  Given(c) \in Topic
  <2>1. inbox[c] \in Seq(Line) /\ inbox[c] # <<>> /\ Head(inbox[c]).do = do
    BY <1>0, <1>c DEF Take, SubTypeOK
  <2>2. Head(inbox[c]) \in Line
    BY <2>1
  <2> QED  BY <2>1, <2>2, SubAssumption DEF Given
<1>1. ASSUME NEW c \in Conn, ServerMessage(c) PROVE Agrees'
  <2>1. /\ UNCHANGED <<tidy, undefined, connState, subscribers, dropping, topics>>
        /\ handler' = [handler EXCEPT ![c] = "message"] /\ handler[c] = "none"
    BY <1>1 DEF ServerMessage, Run, Idle
  <2>2. \A d \in Conn, t \in Topic : Belongs(d, t)' <=> Belongs(d, t)
    BY <2>1, <1>a DEF Belongs
  <2> QED
    BY <2>1, <2>2, <1>b, AgreesKept
<1>2. ASSUME NEW c \in Conn, Skip(c) \/ NoMoreLines(c) \/ Pub(c) PROVE Agrees'
  <2>1. /\ UNCHANGED <<tidy, undefined, connState, subscribers, dropping, topics>>
        /\ handler[c] = "message"
        /\ \E h \in {"message", "none"} : handler' = [handler EXCEPT ![c] = h]
    BY <1>2, <1>a DEF Skip, NoMoreLines, Pub, Run, Take
  <2>2. \A d \in Conn, t \in Topic : Belongs(d, t)' <=> Belongs(d, t)
    BY <2>1, <1>a DEF Belongs
  <2> QED
    BY <2>1, <2>2, <1>b, AgreesKept
<1>3. ASSUME NEW c \in Conn, Sub(c) PROVE Agrees'
  <2>0. PICK u \in Topic : u = Given(c)
    BY <1>3, <1>c DEF Sub
  <2> DEFINE s == Subscribers(u)
  <2>1. /\ UNCHANGED <<undefined, connState, dropping, handler>>
        /\ handler[c] = "message" /\ topics' = [topics EXCEPT ![c] = @ \cup {u}]
        /\ Put(u, Append(s, c))
        /\ tidy /\ u \notin topics[c]
    BY <1>3, <2>0 DEF Sub, Take
  <2>2. s \in Seq(Conn)
    BY <1>0, SubscribersTyped
  <2>3. connState[c] \in {"connected", "disconnected"}
    BY <1>0, <2>1 DEF HandlerInv
  <2>4. ~Subscribed(c, u) /\ IsInjective(s)
    BY <1>b, <2>1, <2>2 DEF Agrees, Belongs
  <2>5. /\ Subscribers(u)' = Append(s, c)
        /\ \A t : t # u => Subscribers(t)' = Subscribers(t)
    <3>1. /\ DOMAIN subscribers' = DOMAIN subscribers \cup {u}
          /\ \A t \in DOMAIN subscribers' :
               subscribers'[t] = IF t = u THEN Append(s, c) ELSE subscribers[t]
      BY <2>1 DEF Put
    <3> QED  BY <3>1 DEF Subscribers, Has
  <2>6. \A t \in Topic : IsInjective(Subscribers(t)')
    <3>1. IsInjective(Append(s, c))
      BY <2>2, <2>4, AppendedOnce DEF Subscribed
    <3>2. \A t \in Topic : IsInjective(Subscribers(t))
      BY <1>b, <2>1 DEF Agrees
    <3> HIDE DEF s
    <3>3. ASSUME NEW t \in Topic PROVE IsInjective(Subscribers(t)')
      <4>1. CASE t = u
        <5>1. Subscribers(t)' = Append(s, c)
          BY <2>5, <4>1
        <5> QED  BY <3>1, <5>1
      <4>2. CASE t # u
        <5>1. Subscribers(t)' = Subscribers(t)
          BY <2>5, <4>2
        <5> QED  BY <3>2, <5>1
      <4> QED  BY <4>1, <4>2
    <3> QED  BY <3>3
  <2>7. ASSUME NEW d \in Conn, NEW t \in Topic
        PROVE  Subscribed(d, t)' <=> Belongs(d, t)'
    <3>1. Subscribed(d, t) <=> Belongs(d, t)
      BY <1>b, <2>1 DEF Agrees
    <3>2. CASE t = u
      <4>1. Subscribed(d, t)' <=> Subscribed(d, t) \/ d = c
        <5>1. d \in ToSet(Append(s, c)) <=> d \in ToSet(s) \/ d = c
          BY <2>2, AppendedOnce
        <5>2. Subscribed(d, t)' <=> d \in ToSet(Subscribers(u)')
          BY <3>2 DEF Subscribed
        <5>3. Subscribed(d, t) <=> d \in ToSet(s)
          BY <3>2 DEF Subscribed
        <5> HIDE DEF s
        <5> QED  BY <2>5, <5>1, <5>2, <5>3
      <4>2. Belongs(d, t)' <=> Belongs(d, t) \/ d = c
        BY <2>1, <2>3, <3>2, <1>a DEF Belongs
      <4> QED  BY <3>1, <4>1, <4>2
    <3>3. CASE t # u
      <4>1. Subscribed(d, t)' <=> Subscribed(d, t)
        BY <3>3, <2>5 DEF Subscribed
      <4>2. Belongs(d, t)' <=> Belongs(d, t)
        BY <2>1, <3>3, <1>a DEF Belongs
      <4> QED  BY <3>1, <4>1, <4>2
    <3> QED  BY <3>2, <3>3
  <2>8. ~undefined'
    BY <1>b, <2>1 DEF Agrees
  <2> QED  BY <2>6, <2>7, <2>8 DEF Agrees
<1>4. ASSUME NEW c \in Conn, Unsub(c) PROVE Agrees'
  <2> DEFINE u == Given(c)
  <2>1. /\ UNCHANGED <<subscribers, undefined, connState>>
        /\ handler[c] = "message" /\ topics' = [topics EXCEPT ![c] = @ \ {u}]
        /\ tidy /\ u \in topics[c] /\ ~Racing(c)
    BY <1>4 DEF Unsub, Take
  <2>2. u \in Topic
    BY <1>4, <1>c DEF Unsub
  <2>3. connState[c] \in {"connected", "disconnected"}
    BY <1>0, <2>1 DEF HandlerInv
  <2>4. Has(u)
    <3>1. Subscribed(c, u)
      BY <1>b, <2>1, <2>2, <2>3 DEF Agrees, Belongs
    <3> QED  BY <3>1 DEF Subscribed, Subscribers, ToSet
  <2>5. /\ handler' = [handler EXCEPT ![c] = "unsub"]
        /\ dropping' = [dropping EXCEPT ![c] = {u}]
    BY <1>4, <2>1, <2>4 DEF Unsub, Run
  <2>6. \A d \in Conn, t \in Topic : Belongs(d, t)' <=> Belongs(d, t)
    BY <2>1, <2>3, <2>5, <1>a DEF Belongs
  <2> QED
    BY <2>1, <2>6, <1>b, AgreesKept
\* Under the lock what is erased is there, and c belongs no more to the topic.
<1>d. ASSUME NEW c \in Conn, NEW u \in Topic, Erase(c, u), tidy, Belongs(c, u),
             \A d \in Conn, t \in Topic :
               Belongs(d, t)' <=> Belongs(d, t) /\ ~(d = c /\ t = u)
      PROVE  Agrees'
  <2>1. Agrees
    BY <1>b, <1>d
  <2>2. Subscribed(c, u) /\ IsInjective(Subscribers(u))
    BY <2>1, <1>d DEF Agrees
  <2>3. /\ \A t : t # u => Subscribers(t)' = Subscribers(t)
        /\ \A d \in Conn \ {c} : Subscribed(d, u)' <=> Subscribed(d, u)
        /\ undefined' = undefined
        /\ IsInjective(Subscribers(u)') /\ ~Subscribed(c, u)'
    BY <1>0, <1>d, <2>2, Erased
  <2>4. ASSUME NEW d \in Conn, NEW t \in Topic
        PROVE  Subscribed(d, t)' <=> Belongs(d, t)'
    <3>1. Subscribed(d, t) <=> Belongs(d, t)
      BY <2>1 DEF Agrees
    <3>2. CASE t # u
      BY <3>1, <3>2, <2>3, <1>d DEF Subscribed
    <3>3. CASE t = u /\ d # c
      BY <3>1, <3>3, <2>3, <1>d
    <3>4. CASE t = u /\ d = c
      BY <3>4, <2>3, <1>d
    <3> QED  BY <3>2, <3>3, <3>4
  <2>5. \A t \in Topic : IsInjective(Subscribers(t)')
    BY <2>1, <2>3 DEF Agrees
  <2> QED
    BY <2>1, <2>3, <2>4, <2>5 DEF Agrees
<1>5. ASSUME NEW c \in Conn, UnsubLocked(c) PROVE Agrees'
  <2>1. PICK u \in dropping[c] : Erase(c, u)
    BY <1>5 DEF UnsubLocked
  <2>2. /\ UNCHANGED <<connState, topics, tidy>> /\ handler[c] = "unsub"
        /\ handler' = [handler EXCEPT ![c] = "message"]
        /\ dropping' = [dropping EXCEPT ![c] = {}]
    BY <1>5 DEF UnsubLocked, Run
  <2>3. /\ connState[c] \in {"connected", "disconnected"}
        /\ \E t \in Topic : dropping[c] = {t} /\ t \notin topics[c]
    BY <1>0, <2>2 DEF HandlerInv
  <2>4. u \in Topic /\ dropping[c] = {u} /\ u \notin topics[c]
    BY <2>1, <2>3
  <2>5. Belongs(c, u)
    BY <2>2, <2>4 DEF Belongs
  <2>6. \A d \in Conn, t \in Topic : Belongs(d, t)' <=> Belongs(d, t) /\ ~(d = c /\ t = u)
    BY <2>2, <2>3, <2>4, <1>a DEF Belongs
  <2> QED
    BY <2>1, <2>2, <2>4, <2>5, <2>6, <1>d
<1>6. ASSUME NEW c \in Conn, DropTopic(c) PROVE Agrees'
  <2>1. PICK u \in dropping[c] : Erase(c, u) /\ dropping' = [dropping EXCEPT ![c] = @ \ {u}]
    BY <1>6 DEF DropTopic
  <2>2. UNCHANGED <<connState, topics, tidy, handler>> /\ handler[c] = "down"
    BY <1>6 DEF DropTopic
  <2>3. u \in Topic /\ Belongs(c, u)
    BY <2>1, <2>2, <1>a DEF Belongs
  <2>4. \A d \in Conn, t \in Topic : Belongs(d, t)' <=> Belongs(d, t) /\ ~(d = c /\ t = u)
    BY <2>1, <2>2, <1>a DEF Belongs
  <2> QED
    BY <2>1, <2>2, <2>3, <2>4, <1>d
<1>7. ASSUME NEW c \in Conn, Junk(c) PROVE Agrees'
  <2>1. /\ UNCHANGED <<tidy, undefined, subscribers, dropping, topics, handler>>
        /\ handler[c] = "message" /\ connState' = [connState EXCEPT ![c] = "disconnected"]
    BY <1>7 DEF Junk, Take
  <2>2. connState[c] \in {"connected", "disconnected"}
    BY <1>0, <2>1 DEF HandlerInv
  <2>3. \A d \in Conn, t \in Topic : Belongs(d, t)' <=> Belongs(d, t)
    BY <2>1, <2>2, <1>a DEF Belongs
  <2> QED
    BY <2>1, <2>3, <1>b, AgreesKept
\* The DOWN callback begins with the topics of the context.
<1>e. ASSUME NEW c \in Conn, HandleClose(c), handler[c] = "none",
             connState[c] \in {"connected", "disconnected"},
             UNCHANGED <<tidy, undefined, subscribers, topics>>
      PROVE  Agrees'
  <2>1. \A d \in Conn, t \in Topic : Belongs(d, t)' <=> Belongs(d, t)
    BY <1>e, <1>a DEF Belongs, HandleClose, Run
  <2> QED
    BY <1>e, <2>1, <1>b, AgreesKept
<1>8. ASSUME NEW c \in Conn, PeerCloses(c) PROVE Agrees'
  BY <1>8, <1>e DEF PeerCloses, Idle
<1>9. ASSUME NEW c \in Conn, Left(c) PROVE Agrees'
  <2>1. /\ UNCHANGED <<tidy, undefined, subscribers, dropping, topics>>
        /\ handler[c] = "down" /\ dropping[c] = {}
        /\ handler' = [handler EXCEPT ![c] = "none"]
        /\ connState' = [connState EXCEPT ![c] = "left"]
    BY <1>9 DEF Left, Run
  <2>2. \A d \in Conn, t \in Topic : Belongs(d, t)' <=> Belongs(d, t)
    BY <2>1, <1>a DEF Belongs
  <2> QED
    BY <2>1, <2>2, <1>b, AgreesKept
<1>10. ASSUME NEW c \in Conn, RemoveInLoop(c) PROVE Agrees'
  <2>1. UNCHANGED <<tidy, undefined, subscribers, dropping, topics, handler, connState>>
    BY <1>10 DEF RemoveInLoop
  <2>2. \A d \in Conn, t \in Topic : Belongs(d, t)' <=> Belongs(d, t)
    BY <2>1 DEF Belongs
  <2> QED
    BY <2>1, <2>2, <1>b, AgreesKept
<1>11. ASSUME NEW l \in SubLoop, RunNext(l) PROVE Agrees'
  <2>0. /\ tasks[l] # <<>> /\ tasks' = [tasks EXCEPT ![l] = Tail(@)]
        /\ \A d \in Conn : LoopOf[d] = l => handler[d] = "none"
        /\ UNCHANGED <<subscribers, topics, undefined, tidy>>
    BY <1>11 DEF RunNext, Idle
  <2>1. /\ tasks[l] \in Seq(SubTask) /\ Head(tasks[l]) = tasks[l][1]
        /\ \E kind \in {"send", "close", "destroy"}, c \in Conn : tasks[l][1] = <<kind, c>>
    BY <1>0, <2>0, TakenTyped
  <2>2. PICK kind \in {"send", "close", "destroy"}, c \in Conn : tasks[l][1] = <<kind, c>>
    BY <2>1
  <2>3. InQueue(l, <<kind, c>>)
    <3>1. 1 \in DOMAIN tasks[l]
      BY <2>0, <2>1
    <3> QED  BY <3>1, <2>2 DEF InQueue, ToSet
  <2>4. CASE kind = "send"
    <3>1. UNCHANGED <<connState, dropping, handler>>
      BY <1>11, <2>1, <2>2, <2>4 DEF RunNext
    <3>2. \A d \in Conn, t \in Topic : Belongs(d, t)' <=> Belongs(d, t)
      BY <2>0, <3>1 DEF Belongs
    <3> QED  BY <2>0, <3>2, <1>b, AgreesKept
  <2>5. CASE kind = "close"
    <3>1. HandleClose(c)
      BY <1>11, <2>1, <2>2, <2>5 DEF RunNext
    <3>2. l = LoopOf[c] /\ connState[c] = "disconnected" /\ handler[c] = "none"
      BY <2>0, <2>3, <2>5, <1>0 DEF QueueInv
    <3> QED  BY <2>0, <3>1, <3>2, <1>e
  <2>6. CASE kind = "destroy"
    <3>1. connState' = [connState EXCEPT ![c] = "destroyed"] /\ UNCHANGED <<dropping, handler>>
      BY <1>11, <2>1, <2>2, <2>6 DEF RunNext
    <3>2. l = LoopOf[c] /\ connState[c] \in {"left", "destroyed"}
      BY <2>3, <2>6, <1>0 DEF QueueInv
    <3>3. \A d \in Conn, t \in Topic : Belongs(d, t)' <=> Belongs(d, t)
      BY <2>0, <3>1, <3>2, <1>a DEF Belongs
    <3> QED  BY <2>0, <3>3, <1>b, AgreesKept
  <2> QED  BY <2>2, <2>4, <2>5, <2>6
<1>12. CASE UNCHANGED subVars
  <2>1. UNCHANGED <<tidy, undefined, subscribers, dropping, topics, handler, connState>>
    BY <1>12 DEF subVars
  <2>2. \A d \in Conn, t \in Topic : Belongs(d, t)' <=> Belongs(d, t)
    BY <2>1 DEF Belongs
  <2> QED
    BY <2>1, <2>2, <1>b, AgreesKept
<1> QED
  BY <1>1, <1>2, <1>3, <1>4, <1>5, <1>6, <1>7, <1>8, <1>9, <1>10, <1>11, <1>12
  DEF SubNext, OnServerMessage

LEMMA SubInitially ==
  ASSUME SubInit
  PROVE  SubInv /\ SendsReachTheLiving /\ SubscriptionsAgree
<1>1. SubTypeOK
  <2>1. DOMAIN subscribers = {}
    BY DEF SubInit
  <2>2. /\ 0 \in 0 .. MaxLines /\ <<>> \in Seq(Line)
        /\ <<>> \in Seq({"send", "close", "destroy"} \X Conn)
    BY SubAssumption
  <2>3. inbox \in [Conn -> Seq(Line)] /\ sentCount \in [Conn -> 0 .. MaxLines]
    BY <2>2 DEF SubInit
  <2>4. tasks \in [SubLoop -> Seq({"send", "close", "destroy"} \X Conn)]
    BY <2>2 DEF SubInit
  <2>5. /\ topics \in [Conn -> SUBSET Topic] /\ dropping \in [Conn -> SUBSET Topic]
        /\ handler \in [Conn -> {"none", "message", "unsub", "down"}]
        /\ connState \in [Conn -> {"connected", "disconnected", "left", "destroyed"}]
        /\ undefined \in BOOLEAN /\ tidy \in BOOLEAN
    BY DEF SubInit
  <2> QED  BY <2>1, <2>3, <2>4, <2>5 DEF SubTypeOK
<1>2. \A l \in SubLoop : tasks[l] = <<>>
  BY DEF SubInit
<1>3. QueueInv /\ CloseOnce
  BY <1>2 DEF QueueInv, CloseOnce, InQueue, ToSet
<1>4. HandlerInv
  BY DEF SubInit, HandlerInv
<1>5. SendsReachTheLiving
  BY <1>2 DEF SendsReachTheLiving
<1>6. \A t : Subscribers(t) = <<>>
  BY DEF SubInit, Subscribers, Has
<1>7. SubscriptionsAgree
  BY <1>6 DEF SubInit, SubscriptionsAgree, Subscribed, ToSet, IsInjective
<1> QED
  BY <1>1, <1>3, <1>4, <1>5, <1>7 DEF SubInv

LEMMA SubAlways == SubSpec => [](SubInv /\ SendsReachTheLiving /\ SubscriptionsAgree)
<1>1. SubInit => SubInv /\ SendsReachTheLiving /\ SubscriptionsAgree
  BY SubInitially
<1>2. SubInv /\ SendsReachTheLiving /\ SubscriptionsAgree /\ [SubNext]_subVars =>
        (SubInv /\ SendsReachTheLiving /\ SubscriptionsAgree)'
  <2> SUFFICES ASSUME SubInv, SendsReachTheLiving, SubscriptionsAgree, [SubNext]_subVars
               PROVE  (SubInv /\ SendsReachTheLiving /\ SubscriptionsAgree)'
    OBVIOUS
  <2>1. SubTypeOK'
    BY SubTypesStep DEF SubInv
  <2> QED
    BY <2>1, SubQueuesStep, AgreesStep DEF SubInv
<1> QED
  BY <1>1, <1>2, PTL DEF SubSpec

\* The variables of the publish-subscribe server keep their types.
THEOREM SubTypesCorrect == SubSpec => []SubTypeOK
<1>1. SubInv => SubTypeOK
  BY DEF SubInv
<1> QED
  BY <1>1, SubAlways, PTL

\* While clients are tidy the table conns and the contexts agree for any number of
\* connections, loops and topics (subpub.cc:92, 121, 139).
THEOREM TablesAlwaysAgree == SubSpec => []SubscriptionsAgree
BY SubAlways, PTL

\* No sendInLoop() that waits in a queue outlives its connection, whatever clients
\* send and whenever they leave (subpub.cc:108).
THEOREM SendsAlwaysReach == SubSpec => []SendsReachTheLiving
BY SubAlways, PTL

(***************************************************************************)
(* ProtobufCodec.                                                          *)
(***************************************************************************)
LEMMA EndsAdd ==
  ASSUME NEW c, NEW w, Len(w) \in Nat, \A i \in 1 .. Len(w) : Width(c, w[i]) \in Nat
  PROVE  /\ Ends(c, w) \in [0 .. Len(w) -> Nat]
         /\ Ends(c, w)[0] = 0
         /\ \A i \in 1 .. Len(w) : Ends(c, w)[i] = Ends(c, w)[i - 1] + Width(c, w[i])
<1> DEFINE N == Len(w)
           step == [x \in Nat \X Nat |-> IF x[2] \in 1 .. N THEN x[1] + Width(c, w[x[2]]) ELSE 0]
           eq(g) == g = [i \in 0 .. N |-> IF i = 0 THEN 0 ELSE g[i - 1] + Width(c, w[i])]
           F == CHOOSE g : eq(g)
<1>1. IsStep(step, Nat)
  BY DEF IsStep
<1>2. PICK g : Builds(g, N, Nat, 0, step)
  <2> HIDE DEF step
  <2> QED  BY <1>1, RecursionUpTo
<1>3. eq(g)
  <2>1. ASSUME NEW i \in 1 .. N
        PROVE  g[i] = g[i - 1] + Width(c, w[i])
    <3>1. g[i] = step[<<g[i - 1], i>>] /\ g[i - 1] \in Nat
      <4> HIDE DEF step, eq, F
      <4>1. i - 1 \in 0 .. N
        OBVIOUS
      <4>2. g \in [0 .. N -> Nat]
        BY <1>2 DEF Builds
      <4>3. g[i] = step[<<g[i - 1], i>>]
        BY <1>2 DEF Builds
      <4> QED  BY <4>1, <4>2, <4>3
    <3>2. <<g[i - 1], i>> \in Nat \X Nat
      BY <3>1
    <3> QED
      BY <3>1, <3>2
  <2> HIDE DEF step
  <2> QED
    BY <1>2, <2>1 DEF Builds
<1>4. eq(F)
  <2> HIDE DEF eq
  <2> QED  BY <1>3
<1>5. Ends(c, w) = F
  BY DEF Ends
<1> HIDE DEF F
<1>6. /\ F[0] = 0 /\ F = [i \in 0 .. N |-> F[i]]
      /\ \A i \in 1 .. N : F[i] = F[i - 1] + Width(c, w[i])
  <2>1. DOMAIN F = 0 .. N
    BY <1>4
  <2>2. F[0] = 0
    BY <1>4
  <2>3. ASSUME NEW i \in 1 .. N PROVE F[i] = F[i - 1] + Width(c, w[i])
    BY <1>4
  <2>4. F = [i \in 0 .. N |-> F[i]]
    BY <1>4, <2>1, Zenon
  <2> QED  BY <2>2, <2>3, <2>4
<1> DEFINE S == {i \in 0 .. N : F[i] \in Nat}
<1>7. 0 \in S
  BY <1>6
<1>8. ASSUME NEW n \in Nat, n < N, n \in S
      PROVE  n + 1 \in S
  <2>1. n + 1 \in 1 .. N /\ (n + 1) - 1 = n
    BY <1>8
  <2>2. F[n + 1] = F[n] + Width(c, w[n + 1])
    BY <1>6, <2>1
  <2>3. Width(c, w[n + 1]) \in Nat
    BY <2>1
  <2> QED
    BY <1>8, <2>1, <2>2, <2>3
<1>9. \A n \in 0 .. N : n \in S
  <2> HIDE DEF S
  <2> QED  BY <1>7, <1>8, InductionUpTo
<1>10. F \in [0 .. N -> Nat]
  BY <1>6, <1>9
<1> QED
  BY <1>5, <1>6, <1>10

LEMMA EndsGrow ==
  ASSUME NEW c, NEW w, Len(w) \in Nat,
         \A i \in 1 .. Len(w) : Width(c, w[i]) \in Nat /\ Width(c, w[i]) > 0
  PROVE  \A i, j \in 0 .. Len(w) : i < j => Ends(c, w)[i] < Ends(c, w)[j]
<1> DEFINE N == Len(w)
           E == Ends(c, w)
           S == {j \in 0 .. N : \A i \in 0 .. N : i < j => E[i] < E[j]}
<1>1. /\ \A i \in 0 .. N : E[i] \in Nat
      /\ \A i \in 1 .. N : E[i] = E[i - 1] + Width(c, w[i])
  <2>1. \A i \in 1 .. Len(w) : Width(c, w[i]) \in Nat
    OBVIOUS
  <2>2. /\ Ends(c, w) \in [0 .. Len(w) -> Nat]
        /\ \A i \in 1 .. Len(w) : Ends(c, w)[i] = Ends(c, w)[i - 1] + Width(c, w[i])
    BY <2>1, EndsAdd
  <2> QED  BY <2>2
<1> HIDE DEF E
<1>2. 0 \in S
  OBVIOUS
<1>3. ASSUME NEW n \in Nat, n < N, n \in S
      PROVE  n + 1 \in S
  <2>1. n + 1 \in 1 .. N /\ (n + 1) - 1 = n
    BY <1>3
  <2>2. E[n] < E[n + 1] /\ E[n] \in Nat /\ E[n + 1] \in Nat
    BY <1>1, <2>1
  <2>3. ASSUME NEW i \in 0 .. N, i < n + 1
        PROVE  E[i] < E[n + 1]
    <3>1. i = n \/ i < n
      BY <2>3
    <3>2. E[i] \in Nat
      BY <1>1
    <3> QED
      BY <3>1, <3>2, <2>2, <1>3
  <2> QED
    BY <2>1, <2>3
<1>4. \A n \in 0 .. N : n \in S
  <2> HIDE DEF S
  <2> QED  BY <1>2, <1>3, InductionUpTo
<1> QED
  BY <1>4 DEF E

\* What has been made of a frame: its length is looked at first.
Verdict(c, f) == IF ~LengthIn(c, f) THEN "kInvalidLength"
                 ELSE IF c.lite THEN ParseLite(f) ELSE Parse(f)
Sendable(c) == MessageOf(c) \cup Damaged(c)
RawFor(c, f) == c.lite /\ f.payload \in RawTaken

FrameOf(len, nameLen, name, payload, sum) ==
  [len |-> len, nameLen |-> nameLen, name |-> name, payload |-> payload, sum |-> sum]

LEMMA Fields ==
  ASSUME NEW l, NEW n, NEW a, NEW p, NEW s
  PROVE  /\ FrameOf(l, n, a, p, s).len = l
         /\ FrameOf(l, n, a, p, s).nameLen = n
         /\ FrameOf(l, n, a, p, s).name = a
         /\ FrameOf(l, n, a, p, s).payload = p
         /\ FrameOf(l, n, a, p, s).sum = s
BY DEF FrameOf

LEMMA WithField ==
  ASSUME NEW l, NEW n, NEW a, NEW p, NEW s, NEW x
  PROVE  /\ [FrameOf(l, n, a, p, s) EXCEPT !.sum = x] = FrameOf(l, n, a, p, x)
         /\ [FrameOf(l, n, a, p, s) EXCEPT !.len = x] = FrameOf(x, n, a, p, s)
         /\ [FrameOf(l, n, a, p, s) EXCEPT !.name = x] = FrameOf(l, n, x, p, s)
BY DEF FrameOf

LEMMA Sealed ==
  ASSUME NEW l, NEW n, NEW a, NEW p, NEW s
  PROVE  Summed(FrameOf(l, n, a, p, s)) = FrameOf(l, n, a, p, <<n, a, p>>)
<1>1. CheckSum(FrameOf(l, n, a, p, s)) = <<n, a, p>>
  BY Fields DEF CheckSum
<1>2. [FrameOf(l, n, a, p, s) EXCEPT !.sum = <<n, a, p>>] = FrameOf(l, n, a, p, <<n, a, p>>)
  BY WithField
<1> QED
  BY <1>1, <1>2 DEF Summed

LEMMA Encoded ==
  ASSUME NEW t, NEW p
  PROVE  /\ EncodeLite(p) =
              FrameOf(TagSize + PayloadSize[p] + ChecksumLen, 0, Tag, p, <<0, Tag, p>>)
         /\ Encode(t, p) =
              FrameOf(HeaderLen + NameSize[t] + PayloadSize[p] + ChecksumLen, NameSize[t], t, p,
                      <<NameSize[t], t, p>>)
BY Sealed DEF EncodeLite, Encode, FrameOf

\* A frame that the encoder makes, with its checksum.
Made(c, l, n, a, p) ==
  /\ l \in Nat /\ n \in Nat /\ l >= MinMessageLen(c)
  /\ IF c.lite THEN n = 0 /\ a = Tag ELSE 2 <= n /\ n <= l - 2 * HeaderLen
  /\ FrameOf(l, n, a, p, <<n, a, p>>) \in MessageOf(c)

LEMMA MessagesMade ==
  ASSUME NEW c \in Codec, NEW f \in MessageOf(c)
  PROVE  \E l, n, a, p : Made(c, l, n, a, p) /\ f = FrameOf(l, n, a, p, <<n, a, p>>)
<1>1. CASE c.lite
  <2>1. PICK p \in DOMAIN PayloadSize : f = EncodeLite(p)
    BY <1>1 DEF MessageOf
  <2>2. PayloadSize[p] \in Nat
    BY CodecAssumption
  <2> DEFINE l == TagSize + PayloadSize[p] + ChecksumLen
  <2>3. f = FrameOf(l, 0, Tag, p, <<0, Tag, p>>)
    BY <2>1, Encoded
  <2>4. Made(c, l, 0, Tag, p)
    BY <1>1, <2>2, <2>3 DEF Made, MinMessageLen, TagSize, ChecksumLen
  <2> QED
    BY <2>3, <2>4
<1>2. CASE ~c.lite
  <2>1. PICK t \in DOMAIN NameSize, p \in DOMAIN PayloadSize : f = Encode(t, p)
    BY <1>2 DEF MessageOf
  <2>2. PayloadSize[p] \in Nat /\ NameSize[t] \in Nat /\ NameSize[t] >= 2
    BY CodecAssumption
  <2> DEFINE l == HeaderLen + NameSize[t] + PayloadSize[p] + ChecksumLen
             n == NameSize[t]
  <2>3. f = FrameOf(l, n, t, p, <<n, t, p>>)
    BY <2>1, Encoded
  <2>4. Made(c, l, n, t, p)
    BY <1>2, <2>2, <2>3 DEF Made, MinMessageLen, HeaderLen, ChecksumLen
  <2> QED
    BY <2>3, <2>4
<1> QED  BY <1>1, <1>2

LEMMA DamagedMade ==
  ASSUME NEW c \in Codec, NEW f \in Damaged(c)
  PROVE  \E l, n, a, p :
           /\ Made(c, l, n, a, p)
           /\ \/ f = FrameOf(MaxMessageLen + 1, n, a, p, <<n, a, p>>)
              \/ f = FrameOf(MinMessageLen(c) - 1, n, a, p, <<n, a, p>>)
              \/ f = FrameOf(l, n, a, p, <<>>)
              \/ f = FrameOf(l, n, "RPC1", p, <<n, "RPC1", p>>)
              \/ ~c.lite /\ \E k \in {1, l} : f = FrameOf(l, k, a, p, <<k, a, p>>)
<1> DEFINE Ordinary(m) == m.payload \notin {"malformed", "tagged"} \cup RawTaken
           m == CHOOSE x \in MessageOf(c) : Ordinary(x)
<1>1. \E x \in MessageOf(c) : Ordinary(x)
  <2>1. PICK p \in DOMAIN PayloadSize : p \notin {"malformed", "tagged"} \cup RawTaken
    BY CodecAssumption
  <2>2. CASE c.lite
    <3>1. EncodeLite(p) \in MessageOf(c)
      BY <2>2 DEF MessageOf
    <3>2. EncodeLite(p).payload = p
      <4>1. EncodeLite(p) =
              FrameOf(TagSize + PayloadSize[p] + ChecksumLen, 0, Tag, p, <<0, Tag, p>>)
        BY Encoded
      <4> QED  BY <4>1, Fields
    <3> QED  BY <2>1, <3>1, <3>2
  <2>3. CASE ~c.lite
    <3>1. PICK t \in DOMAIN NameSize : TRUE
      BY CodecAssumption
    <3>2. Encode(t, p) \in MessageOf(c)
      BY <2>3 DEF MessageOf
    <3>3. Encode(t, p).payload = p
      <4>1. Encode(t, p) =
              FrameOf(HeaderLen + NameSize[t] + PayloadSize[p] + ChecksumLen, NameSize[t], t, p,
                      <<NameSize[t], t, p>>)
        BY Encoded
      <4> QED  BY <4>1, Fields
    <3> QED  BY <2>1, <3>2, <3>3
  <2> QED  BY <2>2, <2>3
<1>2. m \in MessageOf(c)
  <2> HIDE DEF Ordinary
  <2> QED  BY <1>1
<1>3. f \in { [m EXCEPT !.len = MaxMessageLen + 1], [m EXCEPT !.len = MinMessageLen(c) - 1],
              [m EXCEPT !.sum = <<>>], Summed([m EXCEPT !.name = "RPC1"]) }
        \cup IF c.lite THEN {} ELSE {Summed([m EXCEPT !.nameLen = k]) : k \in {1, m.len}}
  BY DEF Damaged
<1> HIDE DEF m
<1>4. PICK l, n, a, p : Made(c, l, n, a, p) /\ m = FrameOf(l, n, a, p, <<n, a, p>>)
  BY <1>2, MessagesMade
<1>5. m.len = l
  BY <1>4, Fields
<1>6. /\ [m EXCEPT !.len = MaxMessageLen + 1] = FrameOf(MaxMessageLen + 1, n, a, p, <<n, a, p>>)
      /\ [m EXCEPT !.len = MinMessageLen(c) - 1] = FrameOf(MinMessageLen(c) - 1, n, a, p, <<n, a, p>>)
      /\ [m EXCEPT !.sum = <<>>] = FrameOf(l, n, a, p, <<>>)
  BY <1>4 DEF FrameOf
<1>7. Summed([m EXCEPT !.name = "RPC1"]) = FrameOf(l, n, "RPC1", p, <<n, "RPC1", p>>)
  <2>1. [m EXCEPT !.name = "RPC1"] = FrameOf(l, n, "RPC1", p, <<n, a, p>>)
    BY <1>4 DEF FrameOf
  <2> QED  BY <2>1, Sealed
<1>8. ASSUME NEW k
      PROVE  Summed([m EXCEPT !.nameLen = k]) = FrameOf(l, k, a, p, <<k, a, p>>)
  <2>1. [m EXCEPT !.nameLen = k] = FrameOf(l, k, a, p, <<n, a, p>>)
    BY <1>4 DEF FrameOf
  <2> QED  BY <2>1, Sealed
<1>9. \/ f = [m EXCEPT !.len = MaxMessageLen + 1]
      \/ f = [m EXCEPT !.len = MinMessageLen(c) - 1]
      \/ f = [m EXCEPT !.sum = <<>>]
      \/ f = Summed([m EXCEPT !.name = "RPC1"])
      \/ ~c.lite /\ \E k \in {1, m.len} : f = Summed([m EXCEPT !.nameLen = k])
  BY <1>3, Zenon
<1>10. \/ f = FrameOf(MaxMessageLen + 1, n, a, p, <<n, a, p>>)
       \/ f = FrameOf(MinMessageLen(c) - 1, n, a, p, <<n, a, p>>)
       \/ f = FrameOf(l, n, a, p, <<>>)
       \/ f = FrameOf(l, n, "RPC1", p, <<n, "RPC1", p>>)
       \/ ~c.lite /\ \E k \in {1, l} : f = FrameOf(l, k, a, p, <<k, a, p>>)
  BY <1>5, <1>6, <1>7, <1>8, <1>9, Zenon
<1> QED
  BY <1>4, <1>10

LEMMA SendableWidth ==
  ASSUME NEW c \in Codec, NEW f \in Sendable(c)
  PROVE  /\ Width(c, f) \in Nat /\ Width(c, f) >= MinMessageLen(c) + HeaderLen
         /\ MinMessageLen(c) \in Nat /\ MinMessageLen(c) > 0
         /\ LengthIn(c, f) => Width(c, f) = f.len + HeaderLen
<1>1. f.len \in Nat
  <2>1. CASE f \in MessageOf(c)
    <3>1. PICK l, n, a, p : Made(c, l, n, a, p) /\ f = FrameOf(l, n, a, p, <<n, a, p>>)
      BY <2>1, MessagesMade
    <3> QED  BY <3>1, Fields DEF Made
  <2>2. CASE f \in Damaged(c)
    <3>1. MaxMessageLen + 1 \in Nat /\ MinMessageLen(c) - 1 \in Nat
      BY CodecAssumption DEF MinMessageLen, TagSize, ChecksumLen, HeaderLen
    <3>2. PICK l, n, a, p :
           /\ Made(c, l, n, a, p)
           /\ \/ f = FrameOf(MaxMessageLen + 1, n, a, p, <<n, a, p>>)
              \/ f = FrameOf(MinMessageLen(c) - 1, n, a, p, <<n, a, p>>)
              \/ f = FrameOf(l, n, a, p, <<>>)
              \/ f = FrameOf(l, n, "RPC1", p, <<n, "RPC1", p>>)
              \/ ~c.lite /\ \E k \in {1, l} : f = FrameOf(l, k, a, p, <<k, a, p>>)
      BY <2>2, DamagedMade
    <3> QED  BY <3>1, <3>2, Fields DEF Made
  <2> QED  BY <2>1, <2>2 DEF Sendable
<1> QED
  BY <1>1 DEF Width, LengthIn, MinMessageLen, TagSize, ChecksumLen, HeaderLen

LEMMA Unequal ==
  ASSUME NEW n, NEW a, NEW p, NEW m, NEW b, NEW q
  PROVE  /\ <<>> # <<n, a, p>>
         /\ <<n, a, p>> = <<m, b, q>> => n = m /\ a = b /\ p = q
OBVIOUS

\* What the encoder makes can be told from what it does not make.
LEMMA NotMade ==
  ASSUME NEW c \in Codec, NEW l, NEW n, NEW a, NEW p, NEW s,
         FrameOf(l, n, a, p, s) \in MessageOf(c)
  PROVE  s = <<n, a, p>> /\ Made(c, l, n, a, p)
<1>1. PICK l2, n2, a2, p2 :
        /\ Made(c, l2, n2, a2, p2)
        /\ FrameOf(l, n, a, p, s) = FrameOf(l2, n2, a2, p2, <<n2, a2, p2>>)
  BY MessagesMade
<1>2. l = l2 /\ n = n2 /\ a = a2 /\ p = p2 /\ s = <<n2, a2, p2>>
  BY <1>1, Fields
<1> QED
  BY <1>1, <1>2

LEMMA OwnFrame ==
  ASSUME NEW l, NEW n, NEW a, NEW p
  PROVE  Summed([FrameOf(l, n, a, p, <<n, a, p>>) EXCEPT !.name = Tag]) =
           FrameOf(l, n, Tag, p, <<n, Tag, p>>)
<1>1. [FrameOf(l, n, a, p, <<n, a, p>>) EXCEPT !.name = Tag] = FrameOf(l, n, Tag, p, <<n, a, p>>)
  BY DEF FrameOf
<1> QED
  BY <1>1, Sealed

\* A frame is taken if and only if it is usable.
Taken(c, f) == LengthIn(c, f) /\ (RawFor(c, f) \/ Verdict(c, f) = "kNoError")

LEMMA UsableTaken ==
  ASSUME codec \in Codec, NEW f \in Sendable(codec)
  PROVE  Usable(f) <=> Taken(codec, f)
<1> DEFINE c == codec
<1>0. c \in Codec
  OBVIOUS
<1>1. PICK l, n, a, p :
       /\ Made(c, l, n, a, p)
       /\ \/ f = FrameOf(l, n, a, p, <<n, a, p>>)
          \/ f = FrameOf(MaxMessageLen + 1, n, a, p, <<n, a, p>>)
          \/ f = FrameOf(MinMessageLen(c) - 1, n, a, p, <<n, a, p>>)
          \/ f = FrameOf(l, n, a, p, <<>>)
          \/ f = FrameOf(l, n, "RPC1", p, <<n, "RPC1", p>>)
          \/ ~c.lite /\ \E k \in {1, l} : f = FrameOf(l, k, a, p, <<k, a, p>>)
  <2> HIDE DEF c
  <2>1. CASE f \in MessageOf(c)
    <3>1. PICK l, n, a, p : Made(c, l, n, a, p) /\ f = FrameOf(l, n, a, p, <<n, a, p>>)
      BY <1>0, <2>1, MessagesMade, SMTT(30)
    <3> QED  BY <3>1, Zenon
  <2>2. CASE f \in Damaged(c)
    BY <1>0, <2>2, DamagedMade
  <2>3. f \in MessageOf(c) \/ f \in Damaged(c)
    BY DEF Sendable, c
  <2> QED  BY <2>1, <2>2, <2>3, Zenon
<1>2. MinMessageLen(c) \in Nat /\ MaxMessageLen \in Nat
  BY CodecAssumption DEF MinMessageLen, TagSize, ChecksumLen, HeaderLen
<1>3. CASE f = FrameOf(MaxMessageLen + 1, n, a, p, <<n, a, p>>) \/ f = FrameOf(MinMessageLen(c) - 1, n, a, p, <<n, a, p>>)
  <2>1. ~LengthIn(c, f)
    BY <1>2, <1>3, Fields DEF LengthIn
  <2> QED  BY <2>1 DEF Usable, Taken
<1>4. ASSUME NEW b, NEW s, f = FrameOf(l, n, b, p, s), c.lite,
             s = <<n, b, p>> \/ s = <<>>
      PROVE  Usable(f) <=> Taken(c, f)
  <2>1. /\ f.len = l /\ f.nameLen = n /\ f.name = b /\ f.payload = p /\ f.sum = s
        /\ n = 0 /\ a = Tag
    BY <1>1, <1>4, Fields DEF Made
  <2>2. CASE s = <<n, b, p>>
    <3>1. Summed([f EXCEPT !.name = Tag]) \in MessageOf(c)
      <4>1. Summed([f EXCEPT !.name = Tag]) = FrameOf(l, n, Tag, p, <<n, Tag, p>>)
        BY <1>4, <2>2, OwnFrame
      <4> QED  BY <4>1, <2>1, <1>1 DEF Made
    <3>2. f.sum = CheckSum(f)
      BY <2>1, <2>2 DEF CheckSum
    <3>3. Usable(f) <=> LengthIn(c, f) /\ (p \in RawTaken \/ (p # "malformed" /\ p # "tagged"))
      <4> DEFINE own == IF c.lite /\ f.sum = CheckSum(f) THEN Summed([f EXCEPT !.name = Tag]) ELSE f
      <4>1. own \in MessageOf(c)
        BY <1>4, <3>1, <3>2
      <4>2. Usable(f) <=> /\ LengthIn(c, f)
                          /\ \/ c.lite /\ f.payload \in RawTaken
                             \/ /\ own \in MessageOf(c) /\ f.payload # "malformed"
                                /\ IF c.lite THEN f.payload # "tagged" ELSE Known(f.name)
        BY DEF Usable
      <4> HIDE DEF own
      <4> QED  BY <1>4, <4>1, <4>2, <2>1
    <3>4. Taken(c, f) <=> LengthIn(c, f) /\ (p \in RawTaken \/ (p # "malformed" /\ p # "tagged"))
      <4>1. LengthIn(c, f) => Verdict(c, f) = (IF p = "tagged" THEN "kInvalidNameLen"
                                    ELSE IF p = "malformed" THEN "kParseError" ELSE "kNoError")
        BY <1>4, <3>2, <2>1 DEF Verdict, ParseLite
      <4> QED  BY <1>4, <4>1, <2>1 DEF Taken, RawFor
    <3> QED
      BY <3>3, <3>4
  <2>3. CASE s = <<>>
    <3>1. f.sum # CheckSum(f)
      BY <2>1, <2>3, Unequal DEF CheckSum
    <3>2. f \notin MessageOf(c)
      BY <1>0, <1>4, <2>3, NotMade, Unequal
    <3> QED
      BY <1>4, <3>1, <3>2, <2>1 DEF Usable, Taken, RawFor, Verdict, ParseLite
  <2> QED  BY <1>4, <2>2, <2>3
<1>5. ASSUME NEW b, NEW k, NEW s, f = FrameOf(l, k, b, p, s), ~c.lite,
             \/ k = n /\ (b = "RPC1" \/ b = a) /\ s = <<k, b, p>>
             \/ k = n /\ b = a /\ s = <<>>
             \/ k \in {1, l} /\ b = a /\ s = <<k, b, p>>
      PROVE  Usable(f) <=> Taken(c, f)
  <2>1. /\ f.len = l /\ f.nameLen = k /\ f.name = b /\ f.payload = p /\ f.sum = s
        /\ l \in Nat /\ n \in Nat /\ 2 <= n /\ n <= l - 2 * HeaderLen
        /\ FrameOf(l, n, a, p, <<n, a, p>>) \in MessageOf(c)
    BY <1>1, <1>5, Fields DEF Made
  <2>2. f.sum = CheckSum(f) <=> s = <<k, b, p>>
    BY <2>1 DEF CheckSum
  <2>3. CASE s = <<>>
    <3>1. f.sum # CheckSum(f)
      BY <2>2, <2>3, Unequal
    <3>2. f \notin MessageOf(c)
      BY <1>0, <1>5, <2>3, NotMade, Unequal
    <3> QED
      BY <1>5, <3>1, <3>2, <2>1 DEF Usable, Taken, RawFor, Verdict, Parse
  <2>4. CASE k = n /\ b = "RPC1" /\ s = <<k, b, p>>
    <3>1. ~Known(b)
      BY <2>4, CodecAssumption DEF Known
    <3> QED
      BY <1>5, <3>1, <2>1 DEF Usable, Taken, RawFor, Verdict, Parse
  <2>5. CASE k = n /\ b = a /\ s = <<k, b, p>>
    <3>1. f \in MessageOf(c)
      BY <1>5, <2>1, <2>5
    <3>2. f.sum = CheckSum(f) /\ ~(f.nameLen < 2) /\ ~(f.nameLen > f.len - 2 * HeaderLen)
      BY <2>1, <2>2, <2>5 DEF HeaderLen
    <3> QED
      BY <1>5, <3>1, <3>2, <2>1 DEF Usable, Taken, RawFor, Verdict, Parse
  <2>6. CASE k \in {1, l} /\ b = a /\ s = <<k, b, p>>
    <3>1. f.nameLen < 2 \/ f.nameLen > f.len - 2 * HeaderLen
      BY <2>1, <2>6 DEF HeaderLen
    <3>2. f \notin MessageOf(c)
      <4>1. ASSUME Made(c, l, k, b, p) PROVE FALSE
        BY <4>1, <1>5, <2>1, <2>6 DEF Made, HeaderLen
      <4> QED  BY <4>1, <1>0, <1>5, NotMade
    <3> QED
      BY <1>5, <3>1, <3>2, <2>1 DEF Usable, Taken, RawFor, Verdict, Parse
  <2> QED  BY <1>5, <2>3, <2>4, <2>5, <2>6
<1> HIDE DEF c
<1>6. CASE c.lite
  BY <1>1, <1>3, <1>4, <1>6 DEF c
<1>7. CASE ~c.lite
  BY <1>1, <1>3, <1>5, <1>7 DEF c
<1> QED
  BY <1>6, <1>7

\* What holds in every state: onMessage() has given the frames up to `scan`, and ends
\* where one is incomplete or cannot be used.
CallbackOf(i) == IF codec.lite /\ wire[i].payload \in RawTaken THEN "raw"
                 ELSE Dispatch(wire[i])
FirstBad(b) == ~Usable(wire[b]) /\ UsableUpTo(b - 1)
Stream == /\ codec \in Codec /\ Len(wire) \in Nat /\ DOMAIN wire = 1 .. Len(wire)
          /\ \A i \in 1 .. Len(wire) : wire[i] \in Sendable(codec)
Position == /\ scan \in 0 .. Len(wire) /\ taken = (IF codec.byValue THEN 0 ELSE scan)
            /\ came \in 0 .. Offset(Len(wire)) /\ Offset(scan) <= came
            /\ calling \in BOOLEAN /\ connected \in BOOLEAN
Outcome == /\ given = [i \in 1 .. scan |-> <<i, CallbackOf(i)>>]
           /\ UsableUpTo(scan)
           /\ connected => reported = {}
           /\ ~connected => \E b \in 1 .. Len(wire) :
                              FirstBad(b) /\ Offset(b) <= came /\ reported = {Verdict(codec, wire[b])}
Stopped == ~calling => \/ scan = Len(wire)
                       \/ came < Offset(scan + 1)
                       \/ ~Usable(wire[scan + 1]) /\ ~connected
CodecInv == Stream /\ Position /\ Outcome /\ Stopped

LEMMA OffsetsGrow ==
  ASSUME Stream
  PROVE  /\ Offset(0) = 0
         /\ \A i \in 0 .. Len(wire) : Offset(i) \in Nat
         /\ \A i \in 1 .. Len(wire) : Offset(i) = Offset(i - 1) + Width(codec, wire[i])
         /\ \A i, j \in 0 .. Len(wire) : i < j => Offset(i) < Offset(j)
<1>1. \A i \in 1 .. Len(wire) : Width(codec, wire[i]) \in Nat /\ Width(codec, wire[i]) > 0
  <2> TAKE i \in 1 .. Len(wire)
  <2>1. /\ Width(codec, wire[i]) \in Nat
        /\ Width(codec, wire[i]) >= MinMessageLen(codec) + HeaderLen
        /\ MinMessageLen(codec) \in Nat
    BY SendableWidth DEF Stream
  <2> QED  BY <2>1 DEF HeaderLen
<1>2. Len(wire) \in Nat /\ \A i \in 1 .. Len(wire) : Width(codec, wire[i]) \in Nat
  BY <1>1 DEF Stream
<1>3. /\ Ends(codec, wire) \in [0 .. Len(wire) -> Nat]
      /\ Ends(codec, wire)[0] = 0
      /\ \A i \in 1 .. Len(wire) :
           Ends(codec, wire)[i] = Ends(codec, wire)[i - 1] + Width(codec, wire[i])
  BY <1>2, EndsAdd
<1>4. \A i, j \in 0 .. Len(wire) : i < j => Ends(codec, wire)[i] < Ends(codec, wire)[j]
  BY <1>1, <1>2, EndsGrow
<1> QED
  BY <1>3, <1>4 DEF Offset

LEMMA CodecInitially == ASSUME CodecInit PROVE CodecInv
<1>1. Stream
  <2>1. PICK n \in 1 .. MaxFrames : wire \in [1 .. n -> MessageOf(codec) \cup Damaged(codec)]
    BY DEF CodecInit
  <2>2. n \in Nat
    BY CodecAssumption
  <2>3. Len(wire) = n
    BY <2>1, <2>2
  <2> QED  BY <2>1, <2>2, <2>3 DEF CodecInit, Stream, Sendable
<1>2. /\ scan = 0 /\ taken = 0 /\ came = 0 /\ calling = FALSE /\ connected = TRUE
      /\ given = <<>> /\ reported = {}
  BY DEF CodecInit
<1>3. Offset(0) = 0 /\ Offset(Len(wire)) \in Nat /\ Len(wire) \in Nat
  BY <1>1, OffsetsGrow DEF Stream
<1>4. Position
  <2>1. 0 \in 0 .. Len(wire) /\ 0 \in 0 .. Offset(Len(wire))
    BY <1>3
  <2>2. taken = (IF codec.byValue THEN 0 ELSE scan)
    BY <1>2
  <2>3. Offset(scan) <= came
    BY <1>2, <1>3
  <2> QED  BY <1>2, <2>1, <2>2, <2>3 DEF Position
<1>5. Outcome
  BY <1>2 DEF Outcome, UsableUpTo
<1>6. Stopped
  <2>1. CASE Len(wire) = 0
    BY <1>2, <2>1 DEF Stopped
  <2>2. CASE Len(wire) # 0
    <3>1. 0 \in 0 .. Len(wire) /\ 1 \in 0 .. Len(wire)
      BY <1>3, <2>2
    <3>2. Offset(0) < Offset(1)
      BY <3>1, <1>1, OffsetsGrow
    <3> QED  BY <1>2, <1>3, <3>2 DEF Stopped
  <2> QED  BY <2>1, <2>2
<1> QED
  BY <1>1, <1>4, <1>5, <1>6 DEF CodecInv

\* A step changes neither the class nor the frames.
LEMMA StreamKept ==
  ASSUME codec' = codec, wire' = wire
  PROVE  /\ \A i : Offset(i)' = Offset(i)
         /\ \A f : Usable(f)' <=> Usable(f)
         /\ \A i : UsableUpTo(i)' <=> UsableUpTo(i)
         /\ \A b : FirstBad(b)' <=> FirstBad(b)
         /\ \A i : CallbackOf(i)' = CallbackOf(i)
<1>1. \A i : Offset(i)' = Offset(i)
  BY DEF Offset
<1>2. \A f : Usable(f)' <=> Usable(f)
  BY DEF Usable
<1>3. \A i : UsableUpTo(i)' <=> UsableUpTo(i)
  BY DEF UsableUpTo, Usable
<1>4. \A b : FirstBad(b)' <=> FirstBad(b)
  BY <1>3 DEF FirstBad, Usable
<1>5. \A i : CallbackOf(i)' = CallbackOf(i)
  BY DEF CallbackOf, Dispatch
<1> QED
  BY <1>1, <1>2, <1>3, <1>4, <1>5

LEMMA CodecInvStep ==
  ASSUME CodecInv, [CodecNext]_codecVars
  PROVE  CodecInv'
<1>0. Stream /\ Position /\ Outcome /\ Stopped
  BY DEF CodecInv
<1>a. codec' = codec /\ wire' = wire
  BY DEF CodecNext, CodecOnMessage, Bytes, GiveRaw, GiveMessage, Give, BadLength, BadFrame, Raise,
         NeedMore, codecVars
<1>b. /\ \A i : Offset(i)' = Offset(i)
      /\ \A f : Usable(f)' <=> Usable(f)
      /\ \A i : UsableUpTo(i)' <=> UsableUpTo(i)
      /\ \A b : FirstBad(b)' <=> FirstBad(b)
      /\ \A i : CallbackOf(i)' = CallbackOf(i)
  BY <1>a, StreamKept
<1>c. Stream'
  BY <1>0, <1>a DEF Stream
<1>d. /\ Offset(0) = 0
      /\ \A i \in 0 .. Len(wire) : Offset(i) \in Nat
      /\ \A i \in 1 .. Len(wire) : Offset(i) = Offset(i - 1) + Width(codec, wire[i])
      /\ \A i, j \in 0 .. Len(wire) : i < j => Offset(i) < Offset(j)
  BY <1>0, OffsetsGrow
<1>e. Len(wire) \in Nat
  BY <1>0 DEF Stream
\* Where onMessage() finds a header the frame behind `scan` has begun to arrive.
<1>f. ASSUME Header
      PROVE  /\ scan + 1 \in 1 .. Len(wire) /\ First \in Sendable(codec)
             /\ Offset(scan + 1) = Offset(scan) + Width(codec, First)
             /\ Width(codec, First) \in Nat /\ MinMessageLen(codec) \in Nat
             /\ LengthOK => Width(codec, First) = First.len + HeaderLen
             /\ ~LengthOK => Width(codec, First) = MinMessageLen(codec) + HeaderLen
             /\ codec \in Codec
  <2>1. codec \in Codec /\ MinMessageLen(codec) \in Nat
    BY <1>0 DEF Stream, MinMessageLen, TagSize, ChecksumLen, HeaderLen
  <2>2. came > Offset(scan)
    BY <1>f, <1>0, <1>d, <2>1 DEF Header, BufSize, HeaderLen, Position
  <2>3. scan # Len(wire)
    BY <2>2, <1>0, <1>d, <1>e DEF Position
  <2>4. scan + 1 \in 1 .. Len(wire) /\ (scan + 1) - 1 = scan
    BY <2>3, <1>0, <1>e DEF Position
  <2>5. First \in Sendable(codec)
    BY <2>4, <1>0 DEF First, Stream
  <2>6. Offset(scan + 1) = Offset(scan) + Width(codec, First)
    BY <2>4, <1>d DEF First
  <2>7. /\ Width(codec, First) \in Nat
        /\ LengthOK => Width(codec, First) = First.len + HeaderLen
    BY <2>1, <2>5, SendableWidth DEF LengthOK
  <2>8. ~LengthOK => Width(codec, First) = MinMessageLen(codec) + HeaderLen
    BY <2>1 DEF LengthOK, Width, HeaderLen
  <2> QED  BY <2>1, <2>4, <2>5, <2>6, <2>7, <2>8
\* A frame that is taken off is complete and usable, one that is refused is the first
\* that is not.
<1>g. ASSUME Frame
      PROVE  Offset(scan + 1) <= came
  <2>1. Header /\ LengthOK /\ BufSize >= First.len + HeaderLen
    BY <1>g DEF Frame
  <2>2. came - Offset(scan) >= Width(codec, First)
    BY <2>1, <1>f DEF BufSize
  <2>3. Offset(scan) \in Nat /\ came \in Nat
    BY <1>0, <1>d, <1>e DEF Position
  <2> QED  BY <2>1, <2>2, <2>3, <1>f
<1>h. ASSUME Header
      PROVE  Usable(First) <=> LengthOK /\ (Raw \/ Code = "kNoError")
  <2>1. Usable(First) <=> Taken(codec, First)
    BY <1>f, <1>h, UsableTaken
  <2>2. Raw <=> RawFor(codec, First)
    BY DEF Raw, RawFor
  <2>3. LengthOK => Verdict(codec, First) = Code
    BY DEF LengthOK, Verdict, Code
  <2> QED  BY <2>1, <2>2, <2>3 DEF Taken, LengthOK
\* There is one first unusable frame.
<1>i. ASSUME NEW b \in 1 .. Len(wire), FirstBad(b), UsableUpTo(scan), ~Usable(wire[scan + 1]),
             scan \in 0 .. Len(wire)
      PROVE  b = scan + 1
  <2>1. ~(b <= scan)
    BY <1>i DEF FirstBad, UsableUpTo
  <2>2. ~(scan + 1 <= b - 1)
    BY <1>i, <1>e DEF FirstBad, UsableUpTo
  <2> QED  BY <2>1, <2>2, <1>i, <1>e
<1>1. ASSUME NEW n \in 1 .. Offset(Len(wire)) - came, Bytes(n) PROVE CodecInv'
  <2>1. /\ calling' = TRUE /\ came' = came + n /\ scan' = taken /\ taken' = taken
        /\ given' = (IF codec.byValue THEN <<>> ELSE given)
        /\ reported' = reported /\ connected' = connected
    BY <1>1 DEF Bytes
  <2>2. Position /\ Outcome
    BY <1>0
  <2>3. scan' \in 0 .. scan /\ (~codec.byValue => scan' = scan) /\ (codec.byValue => scan' = 0)
        /\ scan \in 0 .. Len(wire)
    BY <2>1, <2>2, <1>e DEF Position
  <2>4. Offset(scan') <= came
    <3>1. CASE scan' = scan
      BY <3>1, <2>2 DEF Position
    <3>2. CASE scan' = 0
      BY <3>2, <2>2, <1>d, <1>e DEF Position
    <3> QED  BY <3>1, <3>2, <2>3
  <2>5. Offset(Len(wire)) \in Nat /\ Offset(scan') \in Nat /\ came \in Nat
    BY <1>d, <1>e, <2>2, <2>3 DEF Position
  <2>6. Position'
    <3>1. came' \in 0 .. Offset(Len(wire)) /\ Offset(scan') <= came'
      BY <2>1, <2>4, <2>5
    <3>2. taken' = (IF codec.byValue THEN 0 ELSE scan')
      BY <2>1, <2>2, <2>3 DEF Position
    <3>3. /\ (Offset(scan))' = Offset(scan') /\ (Offset(Len(wire)))' = Offset(Len(wire))
      BY <1>a DEF Offset
    <3>4. scan' \in 0 .. Len(wire)
      BY <2>3, <1>e
    <3> QED
      BY <3>1, <3>2, <3>3, <3>4, <2>1, <2>2, <1>a DEF Position
  <2>7. Outcome'
    <3>1. given' = [i \in 1 .. scan' |-> <<i, CallbackOf(i)>>]
      <4>1. CASE codec.byValue
        BY <4>1, <2>1, <2>3
      <4>2. CASE ~codec.byValue
        <5>1. given' = given /\ scan' = scan
          BY <4>2, <2>1, <2>3
        <5> QED  BY <5>1, <2>2 DEF Outcome
      <4> QED  BY <4>1, <4>2
    <3>2. UsableUpTo(scan')
      BY <2>2, <2>3 DEF Outcome, UsableUpTo
    <3>3. ASSUME NEW b \in 1 .. Len(wire), Offset(b) <= came PROVE Offset(b) <= came'
      <4>1. Offset(b) \in Nat
        BY <1>d, <1>e
      <4> QED  BY <4>1, <3>3, <2>1, <2>5
    <3>4. ~connected => \E b \in 1 .. Len(wire) :
             FirstBad(b) /\ Offset(b) <= came' /\ reported = {Verdict(codec, wire[b])}
      BY <3>3, <2>2 DEF Outcome
    <3> QED
      BY <3>1, <3>2, <3>4, <2>1, <2>2, <1>a, <1>b DEF Outcome
  <2>8. Stopped'
    BY <2>1 DEF Stopped
  <2> QED  BY <1>c, <2>6, <2>7, <2>8 DEF CodecInv
<1>2. ASSUME Frame, Usable(First), Give(CallbackOf(scan + 1)) PROVE CodecInv'
  <2>0. Header
    BY <1>2 DEF Frame
  <2>1. /\ given' = Append(given, <<scan + 1, CallbackOf(scan + 1)>>) /\ scan' = scan + 1
        /\ taken' = (IF codec.byValue THEN taken ELSE scan + 1)
        /\ UNCHANGED <<came, calling, reported, connected>>
    BY <1>2 DEF Give
  <2>2. Position /\ Outcome
    BY <1>0
  <2>3. scan + 1 \in 1 .. Len(wire) /\ scan \in Nat /\ Offset(scan + 1) <= came
    BY <2>0, <2>2, <1>2, <1>f, <1>g, <1>e DEF Position
  <2>4. Position'
    <3>1. (Offset(scan))' = Offset(scan + 1) /\ (Offset(Len(wire)))' = Offset(Len(wire))
      BY <2>1, <1>a DEF Offset
    <3>2. scan + 1 \in 0 .. Len(wire)
      BY <2>3
    <3>3. taken' = (IF codec.byValue THEN 0 ELSE scan + 1)
      BY <2>1, <2>2 DEF Position
    <3> QED  BY <3>1, <3>2, <3>3, <2>1, <2>2, <2>3, <1>a DEF Position
  <2>5. Outcome'
    <3>1. given' = [i \in 1 .. scan + 1 |-> <<i, CallbackOf(i)>>]
      <4>1. given = [i \in 1 .. scan |-> <<i, CallbackOf(i)>>]
        BY <2>2 DEF Outcome
      <4> QED  BY <4>1, <2>1, <2>3
    <3>2. UsableUpTo(scan + 1)
      BY <1>2, <2>2, <2>3 DEF Outcome, UsableUpTo, First
    <3> QED
      BY <3>1, <3>2, <2>1, <2>2, <1>a, <1>b DEF Outcome
  <2>6. Stopped'
    BY <2>0, <2>1 DEF Stopped, Header
  <2> QED  BY <1>c, <2>4, <2>5, <2>6 DEF CodecInv
<1>3. ASSUME Header, ~Usable(First), Offset(scan + 1) <= came, Raise(Verdict(codec, First))
      PROVE  CodecInv'
  <2>1. /\ reported' = reported \cup {Verdict(codec, First)} /\ connected' = FALSE
        /\ calling' = FALSE /\ UNCHANGED <<came, taken, scan, given>>
    BY <1>3 DEF Raise
  <2>2. Position /\ Outcome
    BY <1>0
  <2>3. scan + 1 \in 1 .. Len(wire) /\ scan \in 0 .. Len(wire) /\ (scan + 1) - 1 = scan
    BY <1>3, <1>f, <2>2, <1>e DEF Position
  <2>4. FirstBad(scan + 1)
    BY <1>3, <2>2, <2>3 DEF FirstBad, Outcome, First
  <2>5. reported' = {Verdict(codec, First)}
    <3>1. CASE connected
      BY <3>1, <2>1, <2>2 DEF Outcome
    <3>2. CASE ~connected
      <4>1. PICK b \in 1 .. Len(wire) : FirstBad(b) /\ reported = {Verdict(codec, wire[b])}
        BY <3>2, <2>2 DEF Outcome
      <4>2. b = scan + 1
        BY <4>1, <1>3, <1>i, <2>2, <2>3 DEF Outcome, First
      <4> QED  BY <4>1, <4>2, <2>1 DEF First
    <3> QED  BY <3>1, <3>2
  <2>6. Position'
    <3>1. (Offset(scan))' = Offset(scan) /\ (Offset(Len(wire)))' = Offset(Len(wire))
      BY <2>1, <1>a DEF Offset
    <3> QED  BY <3>1, <2>1, <2>2, <1>a DEF Position
  <2>7. Outcome'
    <3>1. \E b \in 1 .. Len(wire) :
             FirstBad(b) /\ Offset(b) <= came /\ reported' = {Verdict(codec, wire[b])}
      BY <2>3, <2>4, <2>5, <1>3 DEF First
    <3> QED
      BY <3>1, <2>1, <2>2, <1>a, <1>b DEF Outcome
  <2>8. Stopped'
    <3>1. ~Usable(wire[scan + 1])
      BY <1>3 DEF First
    <3> QED  BY <3>1, <2>1, <1>a, <1>b DEF Stopped
  <2> QED  BY <1>c, <2>6, <2>7, <2>8 DEF CodecInv
<1>4. ASSUME NeedMore PROVE CodecInv'
  <2>1. /\ calling /\ ~Frame /\ (Header => LengthOK)
        /\ UNCHANGED <<came, taken, scan, given, reported, connected>>
    BY <1>4 DEF NeedMore
  <2>2. Position /\ Outcome
    BY <1>0
  <2>3. scan = Len(wire) \/ came < Offset(scan + 1)
    <3> SUFFICES ASSUME scan # Len(wire) PROVE came < Offset(scan + 1)
      OBVIOUS
    <3>1. scan + 1 \in 1 .. Len(wire) /\ (scan + 1) - 1 = scan
      BY <2>2, <1>e DEF Position
    <3>2. Offset(scan + 1) = Offset(scan) + Width(codec, First)
      BY <3>1, <1>d DEF First
    <3>3. /\ Width(codec, First) \in Nat
          /\ Width(codec, First) >= MinMessageLen(codec) + HeaderLen
          /\ LengthOK => Width(codec, First) = First.len + HeaderLen
      BY <3>1, <1>0, SendableWidth DEF Stream, First, LengthOK
    <3>4. ~(BufSize >= Width(codec, First))
      <4>1. CASE Header
        BY <4>1, <2>1, <3>3 DEF Frame
      <4>2. CASE ~Header
        <5>1. ~(BufSize >= MinMessageLen(codec) + HeaderLen)
          BY <4>2, <2>1 DEF Header
        <5>2. BufSize \in Int /\ MinMessageLen(codec) + HeaderLen \in Int
          BY <2>2, <1>d, <1>e DEF BufSize, Position, MinMessageLen, TagSize, ChecksumLen, HeaderLen
        <5> QED  BY <5>1, <5>2, <3>3
      <4> QED  BY <4>1, <4>2
    <3>5. came \in Nat /\ Offset(scan) \in Nat
      BY <2>2, <1>d, <1>e DEF Position
    <3> QED  BY <3>2, <3>3, <3>4, <3>5 DEF BufSize
  <2>4. Position'
    <3>1. (Offset(scan))' = Offset(scan) /\ (Offset(Len(wire)))' = Offset(Len(wire))
      BY <2>1, <1>a DEF Offset
    <3>2. calling' \in BOOLEAN
      BY <1>4 DEF NeedMore
    <3> QED  BY <3>1, <3>2, <2>1, <2>2, <1>a DEF Position
  <2>5. Outcome'
    BY <2>1, <2>2, <1>a, <1>b DEF Outcome
  <2>6. Stopped'
    <3>1. (Offset(scan + 1))' = Offset(scan + 1)
      BY <2>1, <1>a DEF Offset
    <3> QED  BY <3>1, <2>1, <2>3, <1>a DEF Stopped
  <2> QED  BY <1>c, <2>4, <2>5, <2>6 DEF CodecInv
<1>5. CASE CodecOnMessage
  <2>1. ASSUME GiveRaw \/ GiveMessage PROVE CodecInv'
    <3>1. Frame /\ (Raw \/ Code = "kNoError")
      BY <2>1 DEF GiveRaw, GiveMessage
    <3>2. Usable(First)
      BY <3>1, <1>h DEF Frame
    <3>3. Give(CallbackOf(scan + 1))
      BY <2>1 DEF GiveRaw, GiveMessage, CallbackOf, Raw, First
    <3> QED  BY <3>1, <3>2, <3>3, <1>2
  <2>2. ASSUME BadLength PROVE CodecInv'
    <3>1. Header /\ ~LengthOK /\ Raise("kInvalidLength")
      BY <2>2 DEF BadLength
    <3>2. ~Usable(First) /\ Verdict(codec, First) = "kInvalidLength"
      BY <3>1, <1>h DEF LengthOK, Verdict
    <3>3. Offset(scan + 1) <= came
      <4>1. came - Offset(scan) >= Width(codec, First)
        BY <3>1, <1>f DEF Header, BufSize
      <4>2. came \in Nat /\ Offset(scan) \in Nat
        BY <1>0, <1>d, <1>e DEF Position
      <4> QED  BY <3>1, <4>1, <4>2, <1>f
    <3> QED  BY <3>1, <3>2, <3>3, <1>3
  <2>3. ASSUME BadFrame PROVE CodecInv'
    <3>1. Frame /\ ~Raw /\ Code # "kNoError" /\ Raise(Code)
      BY <2>3 DEF BadFrame
    <3>2. Header /\ LengthOK
      BY <3>1 DEF Frame
    <3>3. ~Usable(First) /\ Verdict(codec, First) = Code
      BY <3>1, <3>2, <1>h DEF LengthOK, Verdict, Code
    <3> QED  BY <3>1, <3>2, <3>3, <1>g, <1>3
  <2> QED  BY <1>5, <2>1, <2>2, <2>3, <1>4 DEF CodecOnMessage
<1>6. CASE UNCHANGED codecVars
  <2> USE <1>6 DEF codecVars
  <2> QED  BY <1>0, <1>a DEF CodecInv, Stream, Position, Outcome, Stopped, Offset, CallbackOf, Dispatch,
                       UsableUpTo, Usable, FirstBad
<1> QED
  BY <1>1, <1>5, <1>6 DEF CodecNext

LEMMA CodecAlways == CodecSpec => []CodecInv
<1>1. CodecInit => CodecInv
  BY CodecInitially
<1>2. CodecInv /\ [CodecNext]_codecVars => CodecInv'
  BY CodecInvStep
<1> QED
  BY <1>1, <1>2, PTL DEF CodecSpec

\* The first unusable frame: those before it can be used, those behind cannot count.
LEMMA UsableArrived ==
  ASSUME CodecInv, ~calling
  PROVE  /\ {i \in Arrived : UsableUpTo(i)} = 1 .. scan
         /\ \A b \in 1 .. Len(wire) : FirstBad(b) /\ Offset(b) <= came => ~connected
<1>0. Stream /\ Position /\ Outcome /\ Stopped
  BY DEF CodecInv
<1>1. /\ \A i \in 0 .. Len(wire) : Offset(i) \in Nat
      /\ \A i, j \in 0 .. Len(wire) : i < j => Offset(i) < Offset(j)
  BY <1>0, OffsetsGrow
<1>2. Len(wire) \in Nat /\ DOMAIN wire = 1 .. Len(wire)
  BY <1>0 DEF Stream
<1>3. scan \in 0 .. Len(wire) /\ came \in Nat /\ Offset(scan) <= came
  BY <1>0, <1>1, <1>2 DEF Position
<1>4. UsableUpTo(scan)
  BY <1>0 DEF Outcome
<1>5. ASSUME NEW i \in 1 .. Len(wire), i <= scan
      PROVE  Offset(i) <= came /\ UsableUpTo(i)
  <2>1. Offset(i) <= Offset(scan)
    <3>1. CASE i = scan
      BY <3>1, <1>1, <1>3
    <3>2. CASE i < scan
      <4>1. Offset(i) < Offset(scan)
        BY <3>2, <1>1, <1>3
      <4> QED  BY <4>1, <1>1, <1>3
    <3> QED  BY <3>1, <3>2, <1>5, <1>3
  <2>2. Offset(i) \in Nat /\ Offset(scan) \in Nat
    BY <1>1, <1>3
  <2>3. UsableUpTo(i)
    BY <1>4, <1>5, <1>3 DEF UsableUpTo
  <2> QED  BY <2>1, <2>2, <2>3, <1>3
<1>6. ASSUME NEW i \in 1 .. Len(wire), i > scan, Offset(i) <= came
      PROVE  ~Usable(wire[scan + 1]) /\ ~connected
  <2>0. scan < i /\ scan \in Nat /\ i \in 1 .. Len(wire) /\ Len(wire) \in Nat
    BY <1>6, <1>3, <1>2
  <2>1. scan # Len(wire) /\ scan + 1 \in 0 .. Len(wire)
    BY <2>0
  <2>2. Offset(scan + 1) <= Offset(i)
    <3>1. CASE i = scan + 1
      BY <3>1, <2>1, <1>1
    <3>2. CASE i > scan + 1
      <4>1. Offset(scan + 1) < Offset(i)
        BY <3>2, <2>1, <1>1
      <4> QED  BY <4>1, <2>1, <1>1
    <3> QED  BY <3>1, <3>2, <1>6, <1>3
  <2>3. ~(came < Offset(scan + 1))
    <3>1. Offset(i) \in Nat /\ Offset(scan + 1) \in Nat
      BY <2>1, <1>1
    <3> QED  BY <3>1, <2>2, <1>6, <1>3
  <2> QED  BY <2>1, <2>3, <1>0 DEF Stopped
<1>7. ASSUME NEW i \in 1 .. Len(wire)
      PROVE  Offset(i) <= came /\ UsableUpTo(i) <=> i <= scan
  <2>1. ASSUME i > scan, Offset(i) <= came, UsableUpTo(i) PROVE FALSE
    <3>1. Usable(wire[scan + 1])
      BY <2>1, <1>3 DEF UsableUpTo
    <3> QED  BY <3>1, <2>1, <1>6
  <2> QED  BY <2>1, <1>5, <1>3
<1>8. {i \in Arrived : UsableUpTo(i)} = 1 .. scan
  <2>1. {i \in Arrived : UsableUpTo(i)} = {i \in 1 .. Len(wire) : Offset(i) <= came /\ UsableUpTo(i)}
    BY <1>2 DEF Arrived
  <2>2. {i \in 1 .. Len(wire) : Offset(i) <= came /\ UsableUpTo(i)} = {i \in 1 .. Len(wire) : i <= scan}
    BY <1>7, Zenon
  <2>3. {i \in 1 .. Len(wire) : i <= scan} = 1 .. scan
    BY <1>2, <1>3
  <2> QED  BY <2>1, <2>2, <2>3
<1>9. ASSUME NEW b \in 1 .. Len(wire), FirstBad(b), Offset(b) <= came
      PROVE  ~connected
  <2>1. ~(b <= scan)
    BY <1>4, <1>9, <1>3 DEF FirstBad, UsableUpTo
  <2> QED  BY <2>1, <1>3, <1>6, <1>9
<1> QED
  BY <1>8, <1>9

\* The variables of the codec keep their types.
THEOREM CodecTypesCorrect == CodecSpec => []CodecTypeOK
<1>1. CodecInv => CodecTypeOK
  <2> SUFFICES ASSUME CodecInv PROVE CodecTypeOK
    OBVIOUS
  <2>0. Stream /\ Position /\ Outcome
    BY DEF CodecInv
  <2>1. Len(wire) \in Nat /\ scan \in 0 .. Len(wire)
    BY <2>0 DEF Stream, Position
  <2>2. taken \in 0 .. Len(wire) /\ scan \in taken .. Len(wire)
    BY <2>0, <2>1 DEF Position
  <2>3. reported \subseteq ErrorCode \ {"kNoError"}
    <3>1. CASE connected
      BY <3>1, <2>0 DEF Outcome
    <3>2. CASE ~connected
      <4>1. PICK b \in 1 .. Len(wire) : FirstBad(b) /\ reported = {Verdict(codec, wire[b])}
        BY <3>2, <2>0 DEF Outcome
      <4>2. codec \in Codec /\ wire[b] \in Sendable(codec) /\ ~Usable(wire[b])
        BY <4>1, <2>0 DEF Stream, FirstBad
      <4>3. Verdict(codec, wire[b]) # "kNoError"
        BY <4>2, UsableTaken DEF Taken, Verdict
      <4>4. Verdict(codec, wire[b]) \in ErrorCode
        BY DEF Verdict, ParseLite, Parse, ErrorCode
      <4> QED  BY <4>1, <4>3, <4>4
    <3> QED  BY <3>1, <3>2
  <2>4. \A n \in DOMAIN given : given[n][1] \in 1 .. Len(wire)
    BY <2>0, <2>1 DEF Outcome
  <2> QED
    BY <2>0, <2>2, <2>3, <2>4 DEF CodecTypeOK, Stream, Position
<1> QED
  BY <1>1, CodecAlways, PTL

\* Whatever pieces the frames come in, the callbacks get each usable one once and in
\* order, up to the first that is not (ProtobufCodec.cc:138, ProtobufCodecLite.cc:138).
THEOREM FramesAlwaysDelivered == CodecSpec => []FramesDelivered
<1>1. CodecInv => FramesDelivered
  <2> SUFFICES ASSUME CodecInv, ~calling
               PROVE  given = [i \in 1 .. Cardinality({i \in Arrived : UsableUpTo(i)}) |->
                                 <<i, CallbackOf(i)>>]
    BY DEF FramesDelivered, CallbackOf
  <2>1. scan \in Nat /\ given = [i \in 1 .. scan |-> <<i, CallbackOf(i)>>]
    BY DEF CodecInv, Stream, Position, Outcome
  <2>2. {i \in Arrived : UsableUpTo(i)} = 1 .. scan
    BY UsableArrived
  <2>3. Cardinality(1 .. scan) = scan
    BY <2>1, FS_Interval
  <2> QED  BY <2>1, <2>2, <2>3
<1> QED
  BY <1>1, CodecAlways, PTL

\* The first unusable frame, and nothing else, ends the connection, with one error
\* code (ProtobufCodec.cc:147, 119).
THEOREM BadFramesAlwaysRefused == CodecSpec => []BadFramesRefused
<1>1. CodecInv => BadFramesRefused
  <2> SUFFICES ASSUME CodecInv, ~calling PROVE BadFramesRefused
    BY DEF BadFramesRefused
  <2> DEFINE bad == {i \in DOMAIN wire : ~Usable(wire[i]) /\ UsableUpTo(i - 1)}
  <2>0. Stream /\ Position /\ Outcome
    BY DEF CodecInv
  <2>1. /\ bad = {b \in 1 .. Len(wire) : FirstBad(b)}
        /\ bad \cap Arrived = {b \in 1 .. Len(wire) : FirstBad(b) /\ Offset(b) <= came}
    BY <2>0 DEF Stream, FirstBad, Arrived
  <2>2. \A b \in 1 .. Len(wire) : FirstBad(b) /\ Offset(b) <= came => ~connected
    BY UsableArrived
  <2>3. \A b, d \in 1 .. Len(wire) : FirstBad(b) /\ FirstBad(d) => b = d
    <3> SUFFICES ASSUME NEW b \in 1 .. Len(wire), NEW d \in 1 .. Len(wire),
                        FirstBad(b), FirstBad(d), b < d
                 PROVE  FALSE
      <4>1. Len(wire) \in Nat
        BY <2>0 DEF Stream
      <4> QED  BY <4>1
    <3>1. b \in 1 .. d - 1
      BY <2>0 DEF Stream
    <3> QED  BY <3>1 DEF FirstBad, UsableUpTo
  <2> HIDE DEF bad
  <2>4. CASE connected
    <3>1. bad \cap Arrived = {} /\ reported = {}
      BY <2>0, <2>1, <2>2, <2>4 DEF Outcome
    <3>2. Cardinality(reported) <= 1
      BY <3>1, FS_EmptySet
    <3> QED  BY <3>1, <3>2, <2>4 DEF BadFramesRefused, bad
  <2>5. CASE ~connected
    <3>1. PICK b \in 1 .. Len(wire) :
            FirstBad(b) /\ Offset(b) <= came /\ reported = {Verdict(codec, wire[b])}
      BY <2>0, <2>5 DEF Outcome
    <3>2. bad \cap Arrived = {b}
      BY <2>1, <2>3, <3>1
    <3>3. Cardinality(reported) <= 1
      <4>1. Cardinality({Verdict(codec, wire[b])}) = 1
        BY FS_Singleton, Zenon
      <4> QED  BY <3>1, <4>1
    <3>4. "kInvalidLength" \in reported <=> ~LengthIn(codec, wire[b])
      <4>1. ParseLite(wire[b]) # "kInvalidLength" /\ Parse(wire[b]) # "kInvalidLength"
        BY DEF ParseLite, Parse
      <4>2. Verdict(codec, wire[b]) = "kInvalidLength" <=> ~LengthIn(codec, wire[b])
        BY <4>1 DEF Verdict
      <4> QED  BY <3>1, <4>2
    <3> QED  BY <3>1, <3>2, <3>3, <3>4, <2>5 DEF BadFramesRefused, bad
  <2>6. connected \in BOOLEAN
    BY <2>0 DEF Position
  <2> QED  BY <2>4, <2>5
<1> QED
  BY <1>1, CodecAlways, PTL


(***************************************************************************)
(* Logging.  Its member functions keep what was written and add to it what *)
(* they are given.                                                         *)
(***************************************************************************)
LogFields == {"files", "stdio", "writtenBytes", "count", "lastRoll", "lastFlush",
              "startOfPeriod"}
LogFile == [name : Nat, data : Seq(Nat)]
IsLog(l) ==
  /\ DOMAIN l = LogFields
  /\ l.files \in Seq(LogFile) /\ l.stdio \in Seq(Nat) /\ l.lastRoll \in Nat
  /\ l.writtenBytes \in Nat
  /\ l.stdio # <<>> => l.files # <<>>

LEMMA ThreeParts ==
  ASSUME NEW a \in Seq(Nat), NEW b \in Seq(Nat), NEW c \in Seq(Nat)
  PROVE  (a \o b) \o c = a \o (b \o c)
<1> DEFINE T == Nat
<1> HIDE DEF T
<1>1. a \in Seq(T) /\ b \in Seq(T) /\ c \in Seq(T)
  BY DEF T
<1> QED  BY <1>1, ConcatAssociative, SMTT(30)

DataOf(files) == [i \in DOMAIN files |-> files[i].data]
LastName(l) == l.files # <<>> /\ l.files[Len(l.files)].name = l.lastRoll

LEMMA DataTyped ==
  ASSUME NEW files \in Seq(LogFile)
  PROVE  DataOf(files) \in Seq(Seq(Nat)) /\ Len(DataOf(files)) = Len(files)
<1>1. Len(files) \in Nat /\ DOMAIN files = 1 .. Len(files)
  OBVIOUS
<1>2. ASSUME NEW i \in 1 .. Len(files)
      PROVE  files[i].data \in Seq(Nat)
  <2>1. files[i] \in LogFile
    OBVIOUS
  <2> QED  BY <2>1 DEF LogFile
<1>3. DataOf(files) \in [1 .. Len(files) -> Seq(Nat)]
  BY <1>1, <1>2 DEF DataOf
<1> QED
  BY <1>1, <1>3

LEMMA WrittenTyped ==
  ASSUME NEW l, IsLog(l)
  PROVE  /\ OnDisk(l) = FlattenSeq(DataOf(l.files))
         /\ OnDisk(l) \in Seq(Nat) /\ Written(l) \in Seq(Nat)
<1>1. OnDisk(l) = FlattenSeq(DataOf(l.files))
  BY DEF OnDisk, DataOf
<1>2. OnDisk(l) \in Seq(Nat)
  BY <1>1, DataTyped, FlattenTyped DEF IsLog
<1>3. l.stdio \in Seq(Nat)
  BY DEF IsLog
<1> QED
  BY <1>1, <1>2, <1>3, ConcatProperties DEF Written

\* What goes to the last file comes after everything else.
LEMMA LastFileGrows ==
  ASSUME NEW files \in Seq(LogFile), files # <<>>, NEW more \in Seq(Nat), NEW gs,
         gs = [files EXCEPT ![Len(files)] = [files[Len(files)] EXCEPT !.data = @ \o more]]
  PROVE  /\ gs \in Seq(LogFile) /\ Len(gs) = Len(files)
         /\ gs[Len(gs)].name = files[Len(files)].name
         /\ FlattenSeq(DataOf(gs)) = FlattenSeq(DataOf(files)) \o more
<1> DEFINE n == Len(files)
           d == DataOf(files)
           front == SubSeq(d, 1, n - 1)
           last == files[n].data
<1>1. n \in Nat \ {0} /\ d \in Seq(Seq(Nat)) /\ Len(d) = n /\ last \in Seq(Nat)
      /\ d[n] = last /\ files[n] \in LogFile
  <2>1. n \in Nat \ {0} /\ files[n] \in LogFile /\ n \in DOMAIN files
    OBVIOUS
  <2>2. last \in Seq(Nat)
    BY <2>1 DEF LogFile
  <2>3. d[n] = last
    BY <2>1 DEF DataOf
  <2> HIDE DEF d, last
  <2>4. d \in Seq(Seq(Nat)) /\ Len(d) = n
    BY DataTyped DEF d
  <2> QED  BY <2>1, <2>2, <2>3, <2>4
<1>2. /\ gs \in Seq(LogFile) /\ Len(gs) = n
      /\ gs[n].name = files[n].name /\ gs[n].data = last \o more
      /\ \A i \in 1 .. n - 1 : gs[i] = files[i]
  <2>1. last \o more \in Seq(Nat)
    BY <1>1, ConcatProperties
  <2>2. [files[n] EXCEPT !.data = @ \o more] \in LogFile
    BY <1>1, <2>1 DEF LogFile
  <2>3. [files[n] EXCEPT !.data = @ \o more].name = files[n].name
    BY <1>1 DEF LogFile
  <2>4. [files[n] EXCEPT !.data = @ \o more].data = last \o more
    BY <1>1 DEF LogFile
  <2> DEFINE new == [files[n] EXCEPT !.data = @ \o more]
  <2> HIDE DEF new
  <2>5. gs = [files EXCEPT ![n] = new]
    BY DEF new
  <2>6. new \in LogFile /\ new.name = files[n].name /\ new.data = last \o more
    BY <2>2, <2>3, <2>4 DEF new
  <2> HIDE DEF last
  <2>7. n \in Nat \ {0} /\ n = Len(files)
    BY <1>1
  <2> HIDE DEF n
  <2>8. /\ gs \in Seq(LogFile) /\ Len(gs) = n /\ gs[n] = new
        /\ \A i \in 1 .. n - 1 : gs[i] = files[i]
    <3>1. n \in 1 .. Len(files)
      BY <2>7
    <3> DEFINE e == [files EXCEPT ![n] = new]
    <3>2. /\ e \in Seq(LogFile) /\ Len(e) = Len(files)
          /\ \A i \in 1 .. Len(files) : e[i] = IF i = n THEN new ELSE files[i]
      BY <2>6, <3>1, ExceptSeq
    <3>3. gs = e
      BY <2>5
    <3> HIDE DEF e
    <3>4. \A i \in 1 .. Len(files) : gs[i] = IF i = n THEN new ELSE files[i]
      BY <3>2, <3>3, Zenon
    <3>5. gs \in Seq(LogFile) /\ Len(gs) = n
      BY <2>7, <3>2, <3>3, Zenon
    <3>6. \A i \in 1 .. n - 1 : i \in 1 .. Len(files) /\ i # n
      BY <2>7
    <3> QED  BY <3>1, <3>4, <3>5, <3>6, Zenon
  <2> QED
    BY <2>6, <2>8
<1>3. d = Append(front, last) /\ front \in Seq(Seq(Nat))
  BY <1>1
<1>4. last \o more \in Seq(Nat)
  BY <1>1
<1>5. DataOf(gs) = Append(front, last \o more)
  <2> DEFINE x == last \o more
             e == DataOf(gs)
  <2>1. x \in Seq(Nat) /\ gs[n].data = x
    BY <1>2, <1>4
  <2>2. e \in Seq(Seq(Nat)) /\ Len(e) = n
    BY <1>2, DataTyped
  <2>3. e[n] = x /\ \A i \in 1 .. n - 1 : e[i] = d[i]
    BY <1>1, <1>2, <2>1 DEF DataOf
  <2> HIDE DEF d, e, x, last
  <2> QED
    <3>1. front \in Seq(Seq(Nat)) /\ Len(front) = n - 1 /\ \A i \in 1 .. n - 1 : front[i] = d[i]
      BY <1>1, <1>3
    <3> HIDE DEF front
    <3> DEFINE a == Append(front, x)
    <3>2. /\ a \in Seq(Seq(Nat)) /\ Len(a) = n /\ a[n] = x
          /\ \A i \in 1 .. n - 1 : a[i] = d[i]
      BY <1>1, <2>1, <3>1
    <3> HIDE DEF a
    <3>3. \A i \in 1 .. Len(e) : e[i] = a[i]
      <4> TAKE i \in 1 .. Len(e)
      <4>1. CASE i = n
        BY <4>1, <2>3, <3>2, Zenon
      <4>2. CASE i # n
        <5>1. i \in 1 .. n - 1
          BY <1>1, <2>2, <4>2
        <5> QED  BY <5>1, <2>3, <3>2, Zenon
      <4> QED  BY <4>1, <4>2
    <3>4. e = a
      BY <2>2, <3>2, <3>3, SeqEqual
    <3> QED  BY <3>4 DEF a, e, x
<1> HIDE DEF d, front, last
<1>6. FlattenSeq(Append(front, last)) = FlattenSeq(front) \o last
  BY <1>1, <1>3, FlattenAppend
<1>7. FlattenSeq(Append(front, last \o more)) = FlattenSeq(front) \o (last \o more)
  BY <1>3, <1>4, FlattenAppend
<1>8. (FlattenSeq(front) \o last) \o more = FlattenSeq(front) \o (last \o more)
  <2>1. FlattenSeq(front) \in Seq(Nat)
    BY <1>3, FlattenTyped
  <2> QED  BY <1>1, <2>1, ThreeParts
<1>9. FlattenSeq(DataOf(gs)) = FlattenSeq(DataOf(files)) \o more
  BY <1>3, <1>5, <1>6, <1>7, <1>8, Zenon DEF d
<1> QED
  BY <1>2, <1>9

LEMMA FlushKeeps ==
  ASSUME NEW l, IsLog(l)
  PROVE  /\ IsLog(Flushed(l)) /\ Flushed(l).stdio = <<>>
         /\ Written(Flushed(l)) = Written(l)
         /\ Flushed(l).lastRoll = l.lastRoll /\ Flushed(l).writtenBytes = l.writtenBytes
         /\ Flushed(l).files = <<>> <=> l.files = <<>>
         /\ LastName(l) => LastName(Flushed(l))
<1>1. CASE l.stdio = <<>>
  BY <1>1 DEF Flushed
<1>2. CASE l.stdio # <<>>
  <2> DEFINE gs == [l.files EXCEPT ![Len(l.files)]
                       = [l.files[Len(l.files)] EXCEPT !.data = @ \o l.stdio]]
             r == Flushed(l)
  <2>1. /\ l.files \in Seq(LogFile) /\ l.files # <<>> /\ l.stdio \in Seq(Nat)
        /\ l.lastRoll \in Nat /\ l.writtenBytes \in Nat
    BY <1>2 DEF IsLog
  <2>2. /\ DOMAIN r = LogFields /\ r.files = gs /\ r.stdio = <<>>
        /\ r.lastRoll = l.lastRoll /\ r.writtenBytes = l.writtenBytes
    BY <1>2 DEF Flushed, IsLog, LogFields
  <2>3. /\ gs \in Seq(LogFile) /\ Len(gs) = Len(l.files)
        /\ gs[Len(gs)].name = l.files[Len(l.files)].name
        /\ FlattenSeq(DataOf(gs)) = FlattenSeq(DataOf(l.files)) \o l.stdio
    <3> HIDE DEF gs
    <3> QED  BY <2>1, LastFileGrows DEF gs
  <2>4. gs # <<>>
    BY <2>1, <2>3
  <2> HIDE DEF gs, r
  <2>5. IsLog(r)
    BY <2>1, <2>2, <2>3 DEF IsLog
  <2>6. Written(r) = Written(l)
    <3>1. OnDisk(r) = OnDisk(l) \o l.stdio
      BY <2>2, <2>3, <2>5, WrittenTyped
    <3>2. OnDisk(r) \o <<>> = OnDisk(r)
      BY <2>5, WrittenTyped, ConcatEmptySeq
    <3> QED  BY <2>2, <3>1, <3>2, Zenon DEF Written
  <2>7. LastName(l) => LastName(r)
    BY <2>2, <2>3, <2>4 DEF LastName
  <2> QED
    BY <2>1, <2>2, <2>4, <2>5, <2>6, <2>7 DEF r
<1> QED
  BY <1>1, <1>2

LEMMA OpenedKeeps ==
  ASSUME NEW files \in Seq(LogFile), NEW now \in Nat
  PROVE  /\ Opened(files, now) \in Seq(LogFile) /\ Opened(files, now) # <<>>
         /\ Opened(files, now)[Len(Opened(files, now))].name = now
         /\ FlattenSeq(DataOf(Opened(files, now))) = FlattenSeq(DataOf(files))
<1>1. CASE files # <<>> /\ Last(files).name = now
  BY <1>1 DEF Opened, Last
<1>2. CASE ~(files # <<>> /\ Last(files).name = now)
  <2> DEFINE new == [name |-> now, data |-> <<>>]
             gs == Append(files, new)
  <2>1. new \in LogFile /\ new.name = now /\ new.data = <<>>
    BY DEF LogFile
  <2>2. Opened(files, now) = gs
    BY <1>2 DEF Opened
  <2> HIDE DEF new
  <2>3. /\ gs \in Seq(LogFile) /\ gs # <<>> /\ Len(gs) = Len(files) + 1
        /\ gs[Len(files) + 1] = new /\ \A i \in 1 .. Len(files) : gs[i] = files[i]
    BY <2>1, AppendProperties
  <2> HIDE DEF gs
  <2> DEFINE d == DataOf(files)
             e == DataOf(gs)
             a == Append(d, <<>>)
  <2>4. d \in Seq(Seq(Nat)) /\ Len(d) = Len(files) /\ e \in Seq(Seq(Nat)) /\ Len(e) = Len(gs)
    BY <2>3, DataTyped
  <2>5. <<>> \in Seq(Nat)
    OBVIOUS
  <2>6. /\ a \in Seq(Seq(Nat)) /\ Len(a) = Len(d) + 1 /\ a[Len(d) + 1] = <<>>
        /\ \A i \in 1 .. Len(d) : a[i] = d[i]
    <3> HIDE DEF d
    <3> QED  BY <2>4, <2>5, AppendProperties
  <2>7. /\ e[Len(files) + 1] = <<>> /\ \A i \in 1 .. Len(files) : e[i] = d[i]
    <3>1. Len(files) \in Nat /\ DOMAIN gs = 1 .. Len(files) + 1 /\ DOMAIN files = 1 .. Len(files)
      BY <2>3
    <3> QED  BY <2>1, <2>3, <3>1 DEF DataOf
  <2> HIDE DEF d, e, a
  <2>8. \A i \in 1 .. Len(e) : e[i] = a[i]
    <3> TAKE i \in 1 .. Len(e)
    <3>1. Len(files) \in Nat
      OBVIOUS
    <3>2. CASE i = Len(files) + 1
      <4>1. e[i] = <<>> /\ a[i] = <<>>
        BY <2>4, <2>6, <2>7, <3>2, Zenon
      <4> QED  BY <4>1, Zenon
    <3>3. CASE i # Len(files) + 1
      <4>1. i \in 1 .. Len(files)
        BY <2>3, <2>4, <3>1, <3>3
      <4> QED  BY <2>4, <2>6, <2>7, <4>1, Zenon
    <3> QED  BY <3>2, <3>3
  <2>9. e = a
    BY <2>3, <2>4, <2>6, <2>8, SeqEqual
  <2>10. FlattenSeq(e) = FlattenSeq(d)
    <3>1. FlattenSeq(a) = FlattenSeq(d) \o <<>>
      BY <2>4, <2>5, FlattenAppend DEF a
    <3>2. FlattenSeq(d) \o <<>> = FlattenSeq(d)
      BY <2>4, FlattenTyped, ConcatEmptySeq
    <3> QED  BY <2>9, <3>1, <3>2, Zenon
  <2>11. gs[Len(gs)].name = now
    BY <2>1, <2>3
  <2> QED
    BY <2>2, <2>3, <2>10, <2>11 DEF d, e
<1> QED
  BY <1>1, <1>2

LEMMA RollKeeps ==
  ASSUME NEW l, IsLog(l), NEW now \in Nat
  PROVE  /\ IsLog(RollFile(l, now)) /\ Written(RollFile(l, now)) = Written(l)
         /\ IF now > l.lastRoll
            THEN /\ LastName(RollFile(l, now)) /\ RollFile(l, now).lastRoll = now
                 /\ RollFile(l, now).stdio = <<>> /\ RollFile(l, now).writtenBytes = 0
            ELSE RollFile(l, now) = l
<1>1. CASE ~(now > l.lastRoll)
  BY <1>1 DEF RollFile
<1>2. CASE now > l.lastRoll
  <2> DEFINE m == Flushed(l)
             gs == Opened(m.files, now)
             r == RollFile(l, now)
  <2>1. /\ IsLog(m) /\ m.stdio = <<>> /\ Written(m) = Written(l)
    BY FlushKeeps
  <2>2. m.files \in Seq(LogFile) /\ DOMAIN m = LogFields
    BY <2>1 DEF IsLog
  <2> HIDE DEF m
  <2>3. /\ gs \in Seq(LogFile) /\ gs # <<>> /\ gs[Len(gs)].name = now
        /\ FlattenSeq(DataOf(gs)) = FlattenSeq(DataOf(m.files))
    BY <2>2, OpenedKeeps
  <2>4. /\ DOMAIN r = LogFields /\ r.files = gs /\ r.stdio = <<>>
        /\ r.lastRoll = now /\ r.writtenBytes = 0
    BY <1>2, <2>1, <2>2 DEF RollFile, m, LogFields
  <2> HIDE DEF gs, r
  <2>5. IsLog(r) /\ LastName(r)
    BY <2>3, <2>4 DEF IsLog, LastName
  <2>6. Written(r) = Written(m)
    <3>1. OnDisk(r) = OnDisk(m)
      BY <2>1, <2>3, <2>4, <2>5, WrittenTyped
    <3> QED  BY <2>1, <2>4, <3>1, Zenon DEF Written
  <2> QED
    BY <1>2, <2>1, <2>4, <2>5, <2>6 DEF r
<1> QED
  BY <1>1, <1>2

\* The length of a sequence of records, as a function of the records so far.
LEMMA TotalTyped ==
  ASSUME NEW R, NEW records \in Seq(R), \A x \in R : SizeOf(x) \in Nat
  PROVE  TotalSize(records) \in Nat
<1> DEFINE N == Len(records)
           step == [x \in Nat \X Nat |->
                      IF x[2] \in 1 .. N THEN x[1] + SizeOf(records[x[2]]) ELSE x[1]]
           eq(g) == g = [n \in 0 .. N |-> IF n = 0 THEN 0 ELSE g[n - 1] + SizeOf(records[n])]
           F == CHOOSE g : eq(g)
<1>0. N \in Nat /\ \A i \in 1 .. N : SizeOf(records[i]) \in Nat
  OBVIOUS
<1>1. IsStep(step, Nat)
  BY <1>0 DEF IsStep
<1>2. PICK h : Builds(h, N, Nat, 0, step)
  <2> HIDE DEF step
  <2> QED  BY <1>0, <1>1, RecursionUpTo
<1>3. h \in [0 .. N -> Nat] /\ h[0] = 0
  BY <1>2 DEF Builds
<1>4. ASSUME NEW i \in 1 .. N
      PROVE  h[i] = h[i - 1] + SizeOf(records[i])
  <2>1. h[i] = step[<<h[i - 1], i>>]
    <3> HIDE DEF step
    <3> QED  BY <1>2 DEF Builds
  <2>2. <<h[i - 1], i>> \in Nat \X Nat
    <3> HIDE DEF N, step
    <3>1. i - 1 \in 0 .. N /\ i \in Nat
      BY <1>0
    <3> QED  BY <1>3, <3>1
  <2> QED
    BY <2>1, <2>2
<1>5. eq(h)
  <2>1. ASSUME NEW n \in 0 .. N
        PROVE  h[n] = IF n = 0 THEN 0 ELSE h[n - 1] + SizeOf(records[n])
    <3>1. CASE n = 0
      BY <1>3, <3>1
    <3>2. CASE n # 0
      <4>1. n \in 1 .. N
        BY <1>0, <3>2
      <4> QED  BY <1>4, <3>2, <4>1, Zenon
    <3> QED  BY <3>1, <3>2
  <2> DEFINE e == [n \in 0 .. N |-> IF n = 0 THEN 0 ELSE h[n - 1] + SizeOf(records[n])]
  <2>2. \A n \in 0 .. N : e[n] = h[n]
    <3> TAKE n \in 0 .. N
    <3>1. e[n] = IF n = 0 THEN 0 ELSE h[n - 1] + SizeOf(records[n])
      OBVIOUS
    <3> QED  BY <2>1, <3>1, Zenon
  <2>3. e = [n \in 0 .. N |-> e[n]] /\ h = [n \in 0 .. N |-> h[n]]
    BY <1>3
  <2> HIDE DEF e
  <2>4. h = e
    BY <2>2, <2>3, Zenon
  <2> QED  BY <2>4 DEF e
<1>6. eq(F)
  <2> HIDE DEF eq
  <2> QED  BY <1>5
<1>7. TotalSize(records) = F[N]
  BY DEF TotalSize
<1> HIDE DEF F
<1>8. ASSUME NEW n \in 0 .. N
      PROVE  F[n] = IF n = 0 THEN 0 ELSE F[n - 1] + SizeOf(records[n])
  <2> DEFINE e == [j \in 0 .. N |-> IF j = 0 THEN 0 ELSE F[j - 1] + SizeOf(records[j])]
  <2>1. F = e
    BY <1>6
  <2>2. e[n] = IF n = 0 THEN 0 ELSE F[n - 1] + SizeOf(records[n])
    OBVIOUS
  <2> HIDE DEF e
  <2> QED  BY <2>1, <2>2, Zenon
<1> DEFINE S == {n \in 0 .. N : F[n] \in Nat}
<1>9. 0 \in S
  BY <1>0, <1>8
<1>10. ASSUME NEW n \in Nat, n < N, n \in S
       PROVE  n + 1 \in S
  <2>1. n + 1 \in 1 .. N /\ n + 1 \in 0 .. N /\ (n + 1) - 1 = n /\ n + 1 # 0
    <3> HIDE DEF N, S
    <3> QED  BY <1>0, <1>10
  <2>2. F[n + 1] = F[n] + SizeOf(records[n + 1])
    BY <1>8, <2>1, Zenon
  <2>3. F[n] \in Nat /\ SizeOf(records[n + 1]) \in Nat
    BY <1>0, <1>10, <2>1
  <2>4. F[n + 1] \in Nat
    BY <2>2, <2>3
  <2> QED  BY <2>1, <2>4
<1>11. \A n \in 0 .. N : n \in S
  <2> HIDE DEF S
  <2> QED  BY <1>0, <1>9, <1>10, InductionUpTo
<1> QED
  BY <1>0, <1>7, <1>11

LEMMA WriteKeeps ==
  ASSUME NEW l, IsLog(l), LastName(l), NEW records \in Seq(Nat), TotalSize(records) \in Nat
  PROVE  /\ IsLog(WriteToFile(l, records)) /\ LastName(WriteToFile(l, records))
         /\ WriteToFile(l, records).lastRoll = l.lastRoll
         /\ WriteToFile(l, records).writtenBytes = l.writtenBytes + TotalSize(records)
         /\ Written(WriteToFile(l, records)) = Written(l) \o records
<1> DEFINE w == WriteToFile(l, records)
<1>1. l.stdio \in Seq(Nat) /\ l.files # <<>>
  BY DEF IsLog, LastName
<1>2. l.stdio \o records \in Seq(Nat)
  BY <1>1, ConcatProperties
<1>3. /\ DOMAIN w = LogFields /\ w.files = l.files /\ w.lastRoll = l.lastRoll
      /\ w.stdio = l.stdio \o records
      /\ w.writtenBytes = l.writtenBytes + TotalSize(records)
  BY DEF WriteToFile, IsLog, LogFields
<1> HIDE DEF w
<1>4. IsLog(w) /\ LastName(w)
  <2>1. w.writtenBytes \in Nat
    BY <1>3 DEF IsLog
  <2> QED  BY <1>1, <1>2, <1>3, <2>1 DEF IsLog, LastName
<1>5. Written(w) = Written(l) \o records
  <2>1. OnDisk(w) = OnDisk(l) /\ OnDisk(l) \in Seq(Nat)
    BY <1>3, <1>4, WrittenTyped
  <2>2. OnDisk(l) \o (l.stdio \o records) = (OnDisk(l) \o l.stdio) \o records
    BY <1>1, <2>1, ThreeParts
  <2> QED
    BY <1>3, <2>1, <2>2, Zenon DEF Written
<1> QED
  BY <1>3, <1>4, <1>5 DEF w

\* Fields that no record passes through.
LEMMA Renewed ==
  ASSUME NEW l, IsLog(l), NEW m, DOMAIN m = DOMAIN l, m.files = l.files, m.stdio = l.stdio,
         m.lastRoll = l.lastRoll, m.writtenBytes = l.writtenBytes
  PROVE  IsLog(m) /\ Written(m) = Written(l) /\ (LastName(l) => LastName(m))
<1>1. IsLog(m) /\ (LastName(l) => LastName(m))
  BY DEF IsLog, LastName
<1>2. OnDisk(m) = OnDisk(l)
  BY <1>1, WrittenTyped
<1> QED
  BY <1>1, <1>2 DEF Written

LEMMA CheckedKeeps ==
  ASSUME NEW l, IsLog(l), LastName(l), NEW now \in Nat, l.lastRoll <= now
  PROVE  LET r == Checked(l, now)
         IN  /\ IsLog(r) /\ LastName(r) /\ Written(r) = Written(l)
             /\ r.lastRoll <= now /\ r.writtenBytes \in {0, l.writtenBytes}
<1> DEFINE r == Checked(l, now)
<1> SUFFICES /\ IsLog(r) /\ LastName(r) /\ Written(r) = Written(l)
             /\ r.lastRoll <= now /\ r.writtenBytes \in {0, l.writtenBytes}
  OBVIOUS
<1>1. CASE DayOf(now) # l.startOfPeriod
  <2>1. r = RollFile(l, now)
    BY <1>1 DEF Checked
  <2> HIDE DEF r
  <2> QED  BY <2>1, RollKeeps
<1>2. CASE DayOf(now) = l.startOfPeriod /\ now - l.lastFlush > FlushInterval
  <2> DEFINE m == Flushed(l)
  <2>1. /\ IsLog(m) /\ Written(m) = Written(l) /\ LastName(m)
        /\ m.lastRoll = l.lastRoll /\ m.writtenBytes = l.writtenBytes
    BY FlushKeeps
  <2>2. r = [m EXCEPT !.lastFlush = now]
    BY <1>2 DEF Checked
  <2> HIDE DEF m, r
  <2>3. /\ DOMAIN r = DOMAIN m /\ r.files = m.files /\ r.stdio = m.stdio
        /\ r.lastRoll = m.lastRoll /\ r.writtenBytes = m.writtenBytes
    BY <2>1, <2>2 DEF IsLog, LogFields
  <2>4. IsLog(r) /\ Written(r) = Written(m) /\ LastName(r)
    BY <2>1, <2>3, Renewed
  <2> QED  BY <2>1, <2>3, <2>4
<1>3. CASE DayOf(now) = l.startOfPeriod /\ ~(now - l.lastFlush > FlushInterval)
  <2>1. r = l
    BY <1>3 DEF Checked
  <2> QED  BY <2>1
<1> QED
  BY <1>1, <1>2, <1>3

\* append_unlocked(): the last file has the name of the last roll, and where the file was
\* or became too long that is a file of this second.
LEMMA AppendKeeps ==
  ASSUME NEW l, IsLog(l), LastName(l), NEW now \in Nat, l.lastRoll <= now,
         NEW records \in Seq(Nat), TotalSize(records) \in Nat
  PROVE  LET r == AppendUnlocked(l, records, now)
         IN  /\ IsLog(r) /\ LastName(r) /\ Written(r) = Written(l) \o records
             /\ r.lastRoll <= now
             /\ l.writtenBytes > RollSize \/ r.writtenBytes > RollSize => r.lastRoll = now
<1> DEFINE r == AppendUnlocked(l, records, now)
           w == WriteToFile(l, records)
           v == [w EXCEPT !.count = 0]
<1> SUFFICES /\ IsLog(r) /\ LastName(r) /\ Written(r) = Written(l) \o records
             /\ r.lastRoll <= now
             /\ l.writtenBytes > RollSize \/ r.writtenBytes > RollSize => r.lastRoll = now
  OBVIOUS
<1>1. l.lastRoll \in Nat /\ l.writtenBytes \in Nat
  BY DEF IsLog
<1>2. /\ IsLog(w) /\ LastName(w) /\ w.lastRoll = l.lastRoll
      /\ Written(w) = Written(l) \o records
      /\ w.writtenBytes = l.writtenBytes + TotalSize(records)
  BY WriteKeeps
<1>7. l.writtenBytes > RollSize => w.writtenBytes > RollSize
  <2> HIDE DEF w
  <2> QED  BY <1>1, <1>2, LoggingAssumption DEF LoggingAssumption
<1> HIDE DEF w
<1>3. /\ IsLog(v) /\ LastName(v) /\ v.lastRoll = l.lastRoll /\ v.writtenBytes = w.writtenBytes
      /\ Written(v) = Written(l) \o records
  <2>1. /\ DOMAIN v = DOMAIN w /\ v.files = w.files /\ v.stdio = w.stdio
        /\ v.lastRoll = w.lastRoll /\ v.writtenBytes = w.writtenBytes
    BY <1>2 DEF IsLog, LogFields
  <2> HIDE DEF v
  <2> QED  BY <1>2, <2>1, Renewed
<1>4. CASE w.writtenBytes > RollSize
  <2>1. r = RollFile(w, now)
    BY <1>4 DEF AppendUnlocked, w
  <2> HIDE DEF r, v
  <2>2. IsLog(r) /\ Written(r) = Written(w)
    BY <1>2, <2>1, RollKeeps
  <2>3. CASE now > w.lastRoll
    <3>1. LastName(r) /\ r.lastRoll = now
      BY <1>2, <2>1, <2>3, RollKeeps
    <3> QED  BY <1>2, <2>2, <3>1
  <2>4. CASE ~(now > w.lastRoll)
    <3>1. r = w
      BY <2>1, <2>4, Zenon DEF RollFile
    <3>2. w.lastRoll <= now /\ w.lastRoll = now
      BY <1>1, <1>2, <2>4
    <3> QED  BY <1>2, <3>1, <3>2, Zenon
  <2> QED  BY <2>3, <2>4
<1>5. CASE ~(w.writtenBytes > RollSize) /\ w.count + 1 >= CheckEveryN
  <2>1. r = Checked(v, now)
    BY <1>5 DEF AppendUnlocked, w
  <2> HIDE DEF r, v
  <2>2. /\ IsLog(r) /\ LastName(r) /\ Written(r) = Written(v)
        /\ r.lastRoll <= now /\ r.writtenBytes \in {0, v.writtenBytes}
    BY <1>3, <2>1, CheckedKeeps
  <2>3. ~(0 > RollSize)
    BY LoggingAssumption DEF LoggingAssumption
  <2>4. ~(r.writtenBytes > RollSize)
    BY <1>3, <1>5, <2>2, <2>3, Zenon
  <2> QED  BY <1>3, <1>5, <1>7, <2>2, <2>4
<1>6. CASE ~(w.writtenBytes > RollSize) /\ ~(w.count + 1 >= CheckEveryN)
  <2>1. r = [w EXCEPT !.count = @ + 1]
    BY <1>6 DEF AppendUnlocked, w
  <2> HIDE DEF r, v
  <2>2. /\ DOMAIN r = DOMAIN w /\ r.files = w.files /\ r.stdio = w.stdio
        /\ r.lastRoll = w.lastRoll /\ r.writtenBytes = w.writtenBytes
    BY <1>2, <2>1 DEF IsLog, LogFields
  <2>3. IsLog(r) /\ Written(r) = Written(w) /\ LastName(r)
    BY <1>2, <2>2, Renewed
  <2> QED  BY <1>2, <1>6, <1>7, <2>2, <2>3
<1> QED
  BY <1>4, <1>5, <1>6

(***************************************************************************)
(* AsyncLogger.  The order of the records, part by part.                   *)
(***************************************************************************)
Below(s, t) == \A x \in ToSet(s) \ {Notice}, y \in ToSet(t) \ {Notice} : x < y

LEMMA OrderedConcat ==
  ASSUME NEW s \in Seq(Nat), NEW t \in Seq(Nat)
  PROVE  Ordered(s \o t) <=> Ordered(s) /\ Ordered(t) /\ Below(s, t)
<1> DEFINE u == s \o t
           m == Len(s)
           n == Len(t)
<1>1. /\ m \in Nat /\ n \in Nat /\ u \in Seq(Nat)
      /\ DOMAIN s = 1 .. m /\ DOMAIN t = 1 .. n /\ DOMAIN u = 1 .. m + n
      /\ \A i \in 1 .. m : u[i] = s[i] /\ s[i] \in Nat
      /\ \A i \in 1 .. n : u[i + m] = t[i] /\ t[i] \in Nat
  OBVIOUS
<1>2. ASSUME Ordered(u)
      PROVE  Ordered(s) /\ Ordered(t) /\ Below(s, t)
  <2> HIDE DEF u, m, n
  <2>1. Ordered(s)
    <3> SUFFICES ASSUME NEW i \in 1 .. m, NEW j \in 1 .. m, i < j,
                        s[i] # Notice, s[j] # Notice
                 PROVE  s[i] < s[j]
      BY <1>1 DEF Ordered
    <3>1. i \in 1 .. m + n /\ j \in 1 .. m + n
      BY <1>1
    <3>2. u[i] < u[j]
      BY <1>1, <1>2, <3>1 DEF Ordered
    <3> QED  BY <1>1, <3>2
  <2>2. Ordered(t)
    <3> SUFFICES ASSUME NEW i \in 1 .. n, NEW j \in 1 .. n, i < j,
                        t[i] # Notice, t[j] # Notice
                 PROVE  t[i] < t[j]
      BY <1>1 DEF Ordered
    <3>1. i + m \in 1 .. m + n /\ j + m \in 1 .. m + n /\ i + m < j + m
      BY <1>1
    <3>2. u[i + m] < u[j + m]
      BY <1>1, <1>2, <3>1 DEF Ordered
    <3> QED  BY <1>1, <3>2
  <2>3. Below(s, t)
    <3> SUFFICES ASSUME NEW i \in 1 .. m, NEW j \in 1 .. n, s[i] # Notice, t[j] # Notice
                 PROVE  s[i] < t[j]
      BY <1>1 DEF Below, ToSet
    <3>1. i \in 1 .. m + n /\ j + m \in 1 .. m + n /\ i < j + m
      BY <1>1
    <3>2. u[i] < u[j + m]
      BY <1>1, <1>2, <3>1 DEF Ordered
    <3> QED  BY <1>1, <3>2
  <2> QED  BY <2>1, <2>2, <2>3
<1>3. ASSUME Ordered(s), Ordered(t), Below(s, t)
      PROVE  Ordered(u)
  <2> HIDE DEF u, m, n
  <2> SUFFICES ASSUME NEW i \in 1 .. m + n, NEW j \in 1 .. m + n, i < j,
                      u[i] # Notice, u[j] # Notice
               PROVE  u[i] < u[j]
    BY <1>1 DEF Ordered
  <2>1. CASE j <= m
    <3>1. i \in 1 .. m /\ j \in 1 .. m
      BY <1>1, <2>1
    <3> QED  BY <1>1, <1>3, <3>1 DEF Ordered
  <2>2. CASE i > m
    <3>1. i - m \in 1 .. n /\ j - m \in 1 .. n /\ i - m < j - m
      BY <1>1, <2>2
    <3>2. u[i] = t[i - m] /\ u[j] = t[j - m]
      <4>1. (i - m) + m = i /\ (j - m) + m = j
        BY <1>1
      <4> QED  BY <1>1, <3>1, <4>1
    <3> QED  BY <1>1, <1>3, <3>1, <3>2 DEF Ordered
  <2>3. CASE i <= m /\ j > m
    <3>1. i \in 1 .. m /\ j - m \in 1 .. n /\ (j - m) + m = j
      BY <1>1, <2>3
    <3>2. u[i] = s[i] /\ u[j] = t[j - m]
      BY <1>1, <3>1
    <3>3. s[i] \in ToSet(s) /\ t[j - m] \in ToSet(t)
      BY <1>1, <3>1 DEF ToSet
    <3> QED  BY <1>3, <3>2, <3>3 DEF Below
  <2> QED  BY <1>1, <2>1, <2>2, <2>3
<1> QED
  BY <1>2, <1>3

Conserved(s, a, d) ==
  /\ Ordered(s) /\ (ToSet(s) \ {Notice}) \cup d = 1 .. a /\ ToSet(s) \cap d = {}

LEMMA AppendConserved ==
  ASSUME NEW s \in Seq(Nat), NEW a \in Nat, NEW d, Conserved(s, a, d)
  PROVE  Conserved(s \o <<a + 1>>, a + 1, d)
<1> DEFINE t == <<a + 1>>
<1>1. t \in Seq(Nat) /\ ToSet(t) = {a + 1} /\ Ordered(t)
  BY DEF ToSet, Ordered
<1> HIDE DEF t
<1>2. ToSet(s \o t) = ToSet(s) \cup {a + 1}
  BY <1>1, SetOfConcat
<1>3. \A x \in ToSet(s) \ {Notice} : x \in 1 .. a
  BY DEF Conserved
<1>4. Below(s, t)
  BY <1>1, <1>3 DEF Below
<1>5. Ordered(s \o t)
  BY <1>1, <1>4, OrderedConcat DEF Conserved
<1>6. d \subseteq 1 .. a /\ 1 .. a + 1 = (1 .. a) \cup {a + 1} /\ a + 1 # Notice
  BY DEF Conserved, Notice
<1>7. (ToSet(s \o t) \ {Notice}) \cup d = 1 .. a + 1
  BY <1>2, <1>6 DEF Conserved
<1>8. ToSet(s \o t) \cap d = {}
  <2>1. a + 1 \notin d
    BY <1>6
  <2> QED  BY <1>2, <2>1 DEF Conserved
<1> QED
  BY <1>5, <1>7, <1>8 DEF Conserved, t

\* What is dropped comes before what is kept behind it, and the notice has no place.
LEMMA DropConserved ==
  ASSUME NEW w \in Seq(Nat), NEW p \in Seq(Nat), NEW q \in Seq(Nat), NEW r \in Seq(Nat),
         NEW a \in Nat, NEW d, Notice \notin ToSet(q), Conserved((w \o (p \o q)) \o r, a, d)
  PROVE  Conserved(((w \o <<Notice>>) \o p) \o r, a, d \cup ToSet(q))
<1> DEFINE e == <<Notice>>
           old == (w \o (p \o q)) \o r
           new == ((w \o e) \o p) \o r
<1>1. e \in Seq(Nat) /\ ToSet(e) = {Notice} /\ Ordered(e)
  BY DEF ToSet, Ordered, Notice
<1> HIDE DEF e
<1>2. /\ p \o q \in Seq(Nat) /\ w \o (p \o q) \in Seq(Nat)
      /\ w \o e \in Seq(Nat) /\ (w \o e) \o p \in Seq(Nat)
  BY <1>1, ConcatProperties
<1>3. ASSUME NEW s \in Seq(Nat), NEW t \in Seq(Nat)
      PROVE  ToSet(s \o t) = ToSet(s) \cup ToSet(t)
  BY SetOfConcat
<1>4. /\ ToSet(p \o q) = ToSet(p) \cup ToSet(q)
      /\ ToSet(w \o (p \o q)) = ToSet(w) \cup ToSet(p \o q)
      /\ ToSet(old) = ToSet(w \o (p \o q)) \cup ToSet(r)
  BY <1>2, <1>3, Zenon
<1>5. /\ ToSet(w \o e) = ToSet(w) \cup {Notice}
      /\ ToSet((w \o e) \o p) = ToSet(w \o e) \cup ToSet(p)
      /\ ToSet(new) = ToSet((w \o e) \o p) \cup ToSet(r)
  <2>1. ToSet(w \o e) = ToSet(w) \cup ToSet(e)
    BY <1>1, <1>3, Zenon
  <2>2. /\ ToSet((w \o e) \o p) = ToSet(w \o e) \cup ToSet(p)
        /\ ToSet(new) = ToSet((w \o e) \o p) \cup ToSet(r)
    BY <1>2, <1>3, Zenon
  <2> QED  BY <1>1, <2>1, <2>2
<1>6. ASSUME NEW s \in Seq(Nat), NEW t \in Seq(Nat)
      PROVE  Ordered(s \o t) <=> Ordered(s) /\ Ordered(t) /\ Below(s, t)
  BY OrderedConcat
<1>7. /\ Ordered(old) <=> Ordered(w \o (p \o q)) /\ Ordered(r) /\ Below(w \o (p \o q), r)
      /\ Ordered(w \o (p \o q)) <=> Ordered(w) /\ Ordered(p \o q) /\ Below(w, p \o q)
      /\ Ordered(p \o q) <=> Ordered(p) /\ Ordered(q) /\ Below(p, q)
  BY <1>2, <1>6, Zenon
<1>8. /\ Ordered(new) <=> Ordered((w \o e) \o p) /\ Ordered(r) /\ Below((w \o e) \o p, r)
      /\ Ordered((w \o e) \o p) <=> Ordered(w \o e) /\ Ordered(p) /\ Below(w \o e, p)
      /\ Ordered(w \o e) <=> Ordered(w) /\ Ordered(e) /\ Below(w, e)
  BY <1>1, <1>2, <1>6, Zenon
<1> HIDE DEF old, new
<1>9. Ordered(old) /\ (ToSet(old) \ {Notice}) \cup d = 1 .. a /\ ToSet(old) \cap d = {}
  BY DEF Conserved, old, e
<1>10. Ordered(new)
  <2>1. /\ Ordered(w) /\ Ordered(p) /\ Ordered(r)
        /\ Below(w \o (p \o q), r) /\ Below(w, p \o q)
    BY <1>7, <1>9
  <2>2. Below((w \o e) \o p, r)
    BY <1>4, <1>5, <2>1 DEF Below
  <2>3. Below(w \o e, p) /\ Below(w, e)
    BY <1>1, <1>4, <1>5, <2>1 DEF Below
  <2> QED  BY <1>1, <1>8, <2>1, <2>2, <2>3
<1>11. (ToSet(new) \ {Notice}) \cup (d \cup ToSet(q)) = 1 .. a
  BY <1>4, <1>5, <1>9, Zenon
<1>12. ToSet(new) \cap (d \cup ToSet(q)) = {}
  <2>1. Notice \notin d
    BY <1>9 DEF Notice
  <2>2. ASSUME NEW x \in ToSet(q)
        PROVE  x \notin ToSet(w) /\ x \notin ToSet(p) /\ x \notin ToSet(r)
    <3>1. x # Notice /\ x \in Nat
      BY DEF ToSet
    <3>2. ~(x < x)
      BY <3>1
    <3>3. Below(w \o (p \o q), r) /\ Below(w, p \o q) /\ Below(p, q)
      BY <1>7, <1>9
    <3>4. x \in ToSet(w \o (p \o q)) /\ x \in ToSet(p \o q)
      BY <1>4
    <3>5. x \notin ToSet(w)
      <4>1. \A y \in ToSet(w) \ {Notice}, z \in ToSet(p \o q) \ {Notice} : y < z
        BY <3>3 DEF Below
      <4> QED  BY <3>1, <3>2, <3>4, <4>1, Zenon
    <3>6. x \notin ToSet(p)
      BY <3>1, <3>2, <3>3, Zenon DEF Below
    <3>7. x \notin ToSet(r)
      BY <3>1, <3>2, <3>3, <3>4, Zenon DEF Below
    <3> QED  BY <3>5, <3>6, <3>7
  <2>3. \A x \in ToSet(new) : x \notin d
    BY <1>4, <1>5, <1>9, <2>1, Zenon
  <2>4. \A x \in ToSet(new) : x \notin ToSet(q)
    BY <1>5, <2>2, Zenon
  <2> QED  BY <2>3, <2>4
<1> QED
  BY <1>10, <1>11, <1>12 DEF Conserved, new, e

\* Where the two threads are: the owner has stopped the backend before it joins it, and
\* a round has ended when its buffers are written.
ThreadsInv ==
  /\ toWrite # <<>> => bpc \in {"trim", "write"}
  /\ opc = "idle" => (running <=> bpc # "none")
  /\ opc # "idle" => ~running

\* The Logging of the backend, which holds something back only within a round.
LogInv ==
  /\ IsLog(logging) /\ logging.lastRoll <= clock
  /\ bpc # "none" => LastName(logging)
  /\ bpc # "write" => logging.stdio = <<>>

LoggerInv == LoggerTypeOK /\ ThreadsInv /\ LogInv

LEMMA LoggerInitially == LoggerInit => LoggerInv /\ RecordsConserved
<1> SUFFICES ASSUME LoggerInit PROVE LoggerInv /\ RecordsConserved
  OBVIOUS
<1> USE DEF LoggerInit
<1>1. /\ DOMAIN logging = LogFields /\ logging.files = <<>> /\ logging.stdio = <<>>
      /\ logging.lastRoll = 0 /\ logging.writtenBytes = 0
  BY DEF Unopened, LogFields
<1>2. IsLog(logging)
  BY <1>1 DEF IsLog
<1>3. OnDisk(logging) = <<>> /\ Written(logging) = <<>>
  <2>1. DataOf(logging.files) = <<>>
    BY <1>1 DEF DataOf
  <2>2. OnDisk(logging) = <<>>
    BY <1>2, <2>1, WrittenTyped, FlattenEmpty, Zenon
  <2>3. Written(logging) = <<>> \o <<>>
    BY <1>1, <2>2, Zenon DEF Written
  <2> QED  BY <2>2, <2>3
<1>4. LoggerTypeOK
  <2>1. \A S : <<>> \in Seq(S)
    OBVIOUS
  <2>2. 0 \in 0 .. MaxRecords /\ 0 \in 0 .. MaxStarts /\ 1 \in 1 .. MaxTime
    BY LoggerAssumption DEF LoggerAssumption
  <2>3. /\ buffer \in Seq(1 .. accepted) /\ Written(logging) \in Seq(0 .. accepted)
        /\ buffers \in Seq(Seq(1 .. accepted)) /\ toWrite \in Seq(Seq(1 .. accepted))
    BY <1>3, <2>1, Zenon
  <2> QED  BY <2>2, <2>3 DEF LoggerTypeOK
<1>5. ThreadsInv /\ LogInv
  BY <1>1, <1>2 DEF ThreadsInv, LogInv
<1>6. RecordsConserved
  <2>1. FlattenSeq(toWrite) = <<>> /\ FlattenSeq(buffers) = <<>> /\ buffer = <<>>
    BY FlattenEmpty
  <2>2. InFlight = ((<<>> \o <<>>) \o <<>>) \o <<>>
    BY <1>3, <2>1, Zenon DEF InFlight
  <2>3. InFlight = <<>>
    BY <2>2
  <2>4. ToSet(InFlight) = {} /\ Ordered(InFlight) /\ Ordered(OnDisk(logging))
    BY <1>3, <2>3 DEF ToSet, Ordered
  <2>5. accepted = 0 /\ dropped = {} /\ 1 .. 0 = {}
    OBVIOUS
  <2> QED  BY <2>4, <2>5 DEF RecordsConserved
<1> QED
  BY <1>4, <1>5, <1>6 DEF LoggerInv

LEMMA ThreadsStep ==
  ASSUME LoggerTypeOK, ThreadsInv, [LoggerNext]_loggerVars
  PROVE  ThreadsInv'
<1> USE DEF ThreadsInv
<1>1. ASSUME NEW isFatal \in BOOLEAN, LogRecord(isFatal)
      PROVE  ThreadsInv'
  <2>1. /\ UNCHANGED <<running, toWrite, opc>>
        /\ bpc' \in {bpc, IF bpc = "wait" THEN "lock" ELSE bpc}
    BY <1>1 DEF LogRecord, FrontAppend, Wake
  <2> QED  BY <2>1
<1>2. CASE Abort
  BY <1>2 DEF Abort
<1>3. CASE Start
  BY <1>3 DEF Start
<1>4. CASE StopStores
  BY <1>4 DEF StopStores
<1>5. CASE Owner
  BY <1>5 DEF Owner, StopNotifies, StopJoins, Wake
<1>6. CASE Check \/ Lock \/ Block \/ TimeOut
  BY <1>6 DEF Check, Lock, Block, TimeOut
<1>7. CASE Test \/ LateSwap
  BY <1>7 DEF Test, LateSwap, SwapBuffers
<1>8. CASE Trim
  BY <1>8 DEF Trim
<1>9. CASE WriteBuffer \/ EndRound \/ Exit
  BY <1>9 DEF WriteBuffer, EndRound, Exit
<1>10. CASE Tick \/ UNCHANGED loggerVars
  BY <1>10 DEF Tick, loggerVars
<1> QED
  BY <1>1, <1>2, <1>3, <1>4, <1>5, <1>6, <1>7, <1>8, <1>9, <1>10 DEF LoggerNext, Backend

Begins(s, t) == \E rest \in Seq(Nat) : t = s \o rest

LEMMA AbortLog ==
  ASSUME NEW l, IsLog(l), NEW n \in 0 .. Len(l.stdio),
         NEW k, DOMAIN k = LogFields, k.files = l.files, k.lastRoll = l.lastRoll,
         k.writtenBytes = l.writtenBytes, k.stdio = SubSeq(l.stdio, 1, n),
         NEW m, m = [Flushed(k) EXCEPT !.stdio = <<>>]
  PROVE  /\ IsLog(m) /\ m.stdio = <<>> /\ m.lastRoll = l.lastRoll
         /\ LastName(l) => LastName(m)
         /\ Begins(Written(m), Written(l))
<1> DEFINE kept == SubSeq(l.stdio, 1, n)
           rest == SubSeq(l.stdio, n + 1, Len(l.stdio))
<1>1. l.stdio \in Seq(Nat) /\ OnDisk(l) \in Seq(Nat)
  BY WrittenTyped DEF IsLog
<1>2. kept \in Seq(Nat) /\ rest \in Seq(Nat) /\ l.stdio = kept \o rest
  <2> DEFINE T == Nat
             s == l.stdio
  <2>1. s \in Seq(T) /\ n \in 0 .. Len(s) /\ Len(s) \in Nat
    BY <1>1
  <2> HIDE DEF T, s
  <2>2. /\ SubSeq(s, 1, n) \in Seq(T) /\ SubSeq(s, n + 1, Len(s)) \in Seq(T)
        /\ s = SubSeq(s, 1, n) \o SubSeq(s, n + 1, Len(s))
    <3>1. \A i \in 1 .. Len(s) : s[i] \in T
      BY <2>1
    <3>2. SubSeq(s, 1, n) \in Seq(T) /\ SubSeq(s, n + 1, Len(s)) \in Seq(T)
      BY <2>1, <3>1, SubSeqProperties
    <3>3. SubSeq(s, 1, n) \o SubSeq(s, n + 1, Len(s)) = SubSeq(s, 1, Len(s))
      <4>1. /\ 1 \in 1 .. Len(s) + 1 /\ n \in (1 - 1) .. Len(s) /\ Len(s) \in n .. Len(s)
        BY <2>1
      <4> QED  BY <2>1, <4>1, ConcatAdjacentSubSeq
    <3>4. SubSeq(s, 1, Len(s)) = s
      BY <2>1, SubSeqFull
    <3> QED  BY <3>2, <3>3, <3>4
  <2> QED  BY <2>2 DEF T, s
<1>3. /\ DOMAIN k = LogFields /\ k.files = l.files /\ k.lastRoll = l.lastRoll
      /\ k.writtenBytes = l.writtenBytes /\ k.stdio = kept
  OBVIOUS
<1>4. kept # <<>> => l.stdio # <<>>
  BY <1>1
<1> HIDE DEF kept, rest
<1>5. IsLog(k) /\ (LastName(l) => LastName(k))
  BY <1>2, <1>3, <1>4 DEF IsLog, LastName
<1>6. /\ IsLog(Flushed(k)) /\ Flushed(k).stdio = <<>> /\ Written(Flushed(k)) = Written(k)
      /\ Flushed(k).lastRoll = k.lastRoll
      /\ LastName(k) => LastName(Flushed(k))
  BY <1>5, FlushKeeps
<1>7. m = [Flushed(k) EXCEPT !.stdio = <<>>]
  OBVIOUS
<1> DEFINE f == Flushed(k)
<1> HIDE DEF f
<1>8. /\ DOMAIN m = DOMAIN f /\ m.files = f.files /\ m.stdio = f.stdio
      /\ m.lastRoll = f.lastRoll /\ m.writtenBytes = f.writtenBytes
  BY <1>6, <1>7 DEF f, IsLog, LogFields
<1>9. IsLog(m) /\ Written(m) = Written(f) /\ (LastName(f) => LastName(m))
  BY <1>6, <1>8, Renewed DEF f
<1>10. Written(l) = Written(m) \o rest
  <2>1. OnDisk(k) = OnDisk(l)
    BY <1>3, <1>5, WrittenTyped
  <2>2. Written(m) = OnDisk(l) \o kept
    BY <1>3, <1>6, <1>9, <2>1, Zenon DEF Written, f
  <2>3. (OnDisk(l) \o kept) \o rest = OnDisk(l) \o (kept \o rest)
    BY <1>1, <1>2, ThreeParts
  <2> QED  BY <1>2, <2>2, <2>3, Zenon DEF Written
<1>11. m.stdio = <<>> /\ m.lastRoll = l.lastRoll /\ (LastName(l) => LastName(m))
  BY <1>3, <1>5, <1>6, <1>8, <1>9 DEF f
<1>12. Begins(Written(m), Written(l))
  BY <1>2, <1>10 DEF Begins
<1> QED
  BY <1>9, <1>11, <1>12

\* Where what is written changes.
Writes ==
  \/ Abort /\ Begins(Written(logging'), Written(logging))
  \/ Trim /\ Len(toWrite) > MaxBuffers /\ Written(logging') = Written(logging) \o <<Notice>>
  \/ WriteBuffer /\ Written(logging') = Written(logging) \o Head(toWrite)

WritesNot ==
  /\ Written(logging') = Written(logging)
  /\ ~WriteBuffer /\ ~(Trim /\ Len(toWrite) > MaxBuffers)

LEMMA LogStep ==
  ASSUME LoggerInv, [LoggerNext]_loggerVars
  PROVE  /\ LogInv'
         /\ Writes \/ WritesNot
         /\ /\ Trim \/ WriteBuffer
            /\ logging.writtenBytes > RollSize \/ logging'.writtenBytes > RollSize
            => logging' = logging \/ logging'.lastRoll = clock
<1> USE DEF LogInv
<1>1. /\ clock \in Nat /\ logging.lastRoll \in Nat /\ logging.stdio \in Seq(Nat)
      /\ IsLog(logging) /\ logging.lastRoll <= clock
      /\ clock > 0
  BY DEF LoggerInv, LoggerTypeOK, IsLog
<1>2. ASSUME /\ UNCHANGED logging /\ clock' \in {clock, clock + 1}
             /\ bpc' # "none" => bpc # "none"
             /\ bpc = "write" => bpc' = "write"
      PROVE  LogInv' /\ (Writes \/ Written(logging') = Written(logging))
  BY <1>1, <1>2 DEF LoggerInv
<1>3. ASSUME NEW isFatal \in BOOLEAN, LogRecord(isFatal)
      PROVE  /\ UNCHANGED logging /\ clock' \in {clock, clock + 1}
             /\ bpc' # "none" => bpc # "none"
             /\ bpc = "write" => bpc' = "write"
  BY <1>3 DEF LogRecord, FrontAppend, Wake
<1>4. ASSUME StopStores \/ Owner \/ Check \/ Lock \/ Test \/ Block \/ TimeOut \/ LateSwap
             \/ Tick \/ UNCHANGED loggerVars
      PROVE  /\ UNCHANGED logging /\ clock' \in {clock, clock + 1}
             /\ bpc' # "none" => bpc # "none"
             /\ bpc = "write" => bpc' = "write"
  <2>1. CASE StopStores \/ Owner
    BY <2>1 DEF StopStores, Owner, StopNotifies, StopJoins, Wake
  <2>2. CASE Check \/ Lock \/ Test \/ Block \/ TimeOut \/ LateSwap
    BY <2>2 DEF Check, Lock, Test, Block, TimeOut, LateSwap, SwapBuffers
  <2>3. CASE Tick \/ UNCHANGED loggerVars
    BY <2>3 DEF Tick, loggerVars
  <2> QED  BY <1>4, <2>1, <2>2, <2>3
<1>5. ASSUME Abort
      PROVE  LogInv' /\ (Writes \/ Written(logging') = Written(logging))
  <2>1. PICK n \in 0 .. Len(logging.stdio) :
          logging' = [Flushed([logging EXCEPT !.stdio = SubSeq(@, 1, n)]) EXCEPT !.stdio = <<>>]
    BY <1>5 DEF Abort
  <2>2. /\ IsLog(logging') /\ logging'.stdio = <<>> /\ logging'.lastRoll = logging.lastRoll
        /\ LastName(logging) => LastName(logging')
        /\ Begins(Written(logging'), Written(logging))
    <3> DEFINE l == logging
               m == logging'
               k == [l EXCEPT !.stdio = SubSeq(l.stdio, 1, n)]
    <3>1. IsLog(l) /\ n \in 0 .. Len(l.stdio)
      BY <1>1
    <3>2. m = [Flushed(k) EXCEPT !.stdio = <<>>]
      BY <2>1
    <3>3. /\ DOMAIN k = LogFields /\ k.files = l.files /\ k.lastRoll = l.lastRoll
          /\ k.writtenBytes = l.writtenBytes /\ k.stdio = SubSeq(l.stdio, 1, n)
      BY <3>1 DEF IsLog, LogFields
    <3> HIDE DEF l, m, k
    <3>4. /\ IsLog(m) /\ m.stdio = <<>> /\ m.lastRoll = l.lastRoll
          /\ LastName(l) => LastName(m)
          /\ Begins(Written(m), Written(l))
      BY <3>1, <3>2, <3>3, AbortLog
    <3> QED  BY <3>4 DEF l, m
  <2>3. bpc' = bpc /\ clock' = clock
    BY <1>5 DEF Abort
  <2>4. LogInv'
    BY <1>1, <2>2, <2>3 DEF LoggerInv
  <2>5. Writes
    BY <1>5, <2>2 DEF Writes
  <2> QED  BY <2>4, <2>5
<1>6. ASSUME Start
      PROVE  LogInv' /\ (Writes \/ Written(logging') = Written(logging))
  <2> DEFINE new == [Unopened EXCEPT !.files = logging.files]
  <2>1. /\ DOMAIN new = LogFields /\ new.files = logging.files /\ new.stdio = <<>>
        /\ new.lastRoll = 0 /\ new.writtenBytes = 0
    BY DEF Unopened, LogFields
  <2>2. logging' = RollFile(new, clock) /\ bpc = "none" /\ bpc' = "check" /\ clock' = clock
    BY <1>6 DEF Start, NewLogging, LoggerInv, ThreadsInv
  <2> HIDE DEF new
  <2>3. IsLog(new)
    BY <1>1, <2>1 DEF IsLog
  <2>4. /\ IsLog(logging') /\ Written(logging') = Written(new) /\ LastName(logging')
        /\ logging'.lastRoll = clock /\ logging'.stdio = <<>>
    BY <1>1, <2>1, <2>2, <2>3, RollKeeps
  <2>5. Written(new) = Written(logging)
    <3>1. logging.stdio = <<>>
      BY <2>2 DEF LoggerInv
    <3>2. OnDisk(new) = OnDisk(logging)
      BY <1>1, <2>1, <2>3, WrittenTyped
    <3> QED  BY <2>1, <3>1, <3>2, Zenon DEF Written
  <2>6. LogInv'
    BY <1>1, <2>2, <2>4
  <2> QED  BY <2>4, <2>5, <2>6
<1>7. CASE Trim \/ WriteBuffer
  <2>1. /\ bpc \in {"trim", "write"} /\ bpc' = "write" /\ clock' = clock
        /\ LastName(logging)
    BY <1>7 DEF Trim, WriteBuffer, LoggerInv
  <2>2. ASSUME logging' = logging
        PROVE  LogInv' /\ (Writes \/ Written(logging') = Written(logging))
    BY <1>1, <2>1, <2>2
  <2>3. ASSUME NEW records \in Seq(0 .. accepted),
               logging' = AppendUnlocked(logging, records, clock)
        PROVE  /\ LogInv' /\ Written(logging') = Written(logging) \o records
               /\ logging.writtenBytes > RollSize \/ logging'.writtenBytes > RollSize
                  => logging'.lastRoll = clock
    <3>0. records \in Seq(Nat) /\ TotalSize(records) \in Nat
      <4>1. 0 .. accepted \subseteq Nat /\ accepted \in 0 .. MaxRecords
        BY DEF LoggerInv, LoggerTypeOK
      <4>2. \A x \in 0 .. accepted : SizeOf(x) \in Nat
        <5>1. MaxRecords \in Nat /\ \A x \in 0 .. MaxRecords : SizeOf(x) \in Nat
          BY LoggerAssumption DEF LoggerAssumption
        <5> QED  BY <4>1, <5>1
      <4> QED  BY <4>1, <4>2, SeqMonotonic, TotalTyped
    <3>1. /\ IsLog(logging') /\ LastName(logging')
          /\ Written(logging') = Written(logging) \o records
          /\ logging'.lastRoll <= clock
          /\ logging.writtenBytes > RollSize \/ logging'.writtenBytes > RollSize
             => logging'.lastRoll = clock
      BY <1>1, <2>1, <2>3, <3>0, AppendKeeps
    <3>2. LogInv'
      BY <2>1, <3>1
    <3> QED  BY <3>1, <3>2
  <2>4. CASE Trim /\ Len(toWrite) > MaxBuffers
    <3>1. /\ logging' = AppendUnlocked(logging, <<Notice>>, clock)
          /\ <<Notice>> \in Seq(0 .. accepted)
      <4>1. Notice \in 0 .. accepted
        BY DEF Notice, LoggerInv, LoggerTypeOK
      <4> QED  BY <2>4, <4>1 DEF Trim
    <3>2. /\ LogInv' /\ Written(logging') = Written(logging) \o <<Notice>>
          /\ logging.writtenBytes > RollSize \/ logging'.writtenBytes > RollSize
             => logging'.lastRoll = clock
      BY <2>3, <3>1
    <3> QED  BY <2>4, <3>2 DEF Writes
  <2>5. CASE Trim /\ ~(Len(toWrite) > MaxBuffers)
    <3>1. logging' = logging /\ ~WriteBuffer
      BY <2>5 DEF Trim, WriteBuffer
    <3> QED  BY <2>2, <2>5, <3>1 DEF WritesNot
  <2>6. CASE WriteBuffer
    <3>1. logging' = AppendUnlocked(logging, Head(toWrite), clock) /\ toWrite # <<>>
      BY <2>6 DEF WriteBuffer
    <3>2. Head(toWrite) \in Seq(0 .. accepted)
      <4>1. Head(toWrite) \in Seq(1 .. accepted)
        BY <3>1 DEF LoggerInv, LoggerTypeOK
      <4>2. accepted \in Nat
        BY DEF LoggerInv, LoggerTypeOK
      <4>3. 1 .. accepted \subseteq 0 .. accepted
        BY <4>2
      <4> QED  BY <4>1, <4>3, SeqMonotonic
    <3>3. /\ LogInv' /\ Written(logging') = Written(logging) \o Head(toWrite)
          /\ logging.writtenBytes > RollSize \/ logging'.writtenBytes > RollSize
             => logging'.lastRoll = clock
      BY <2>3, <3>1, <3>2
    <3> QED  BY <2>6, <3>3 DEF Writes
  <2> QED  BY <1>7, <2>4, <2>5, <2>6
<1>8. ASSUME EndRound \/ Exit
      PROVE  LogInv' /\ (Writes \/ Written(logging') = Written(logging))
  <2>1. logging' = Flushed(logging) /\ clock' = clock /\ bpc \in {"write", "exit"}
        /\ bpc' \in {"check", "done"}
    BY <1>8 DEF EndRound, Exit
  <2>2. /\ IsLog(logging') /\ logging'.stdio = <<>> /\ Written(logging') = Written(logging)
        /\ logging'.lastRoll = logging.lastRoll
        /\ LastName(logging) => LastName(logging')
    BY <1>1, <2>1, FlushKeeps
  <2>3. LogInv'
    BY <1>1, <2>1, <2>2 DEF LoggerInv
  <2> QED  BY <2>2, <2>3
<1>9. CASE ~(Trim \/ WriteBuffer)
  <2>1. LogInv' /\ (Writes \/ Written(logging') = Written(logging))
    BY <1>2, <1>3, <1>4, <1>5, <1>6, <1>8, <1>9 DEF LoggerNext, Backend
  <2> QED  BY <1>9, <2>1 DEF WritesNot
<1> QED
  BY <1>7, <1>9

LEMMA LoggerParts ==
  ASSUME LoggerTypeOK
  PROVE  /\ accepted \in Nat /\ 1 .. accepted \subseteq Nat /\ 0 .. accepted \subseteq Nat
         /\ buffer \in Seq(Nat) /\ buffers \in Seq(Seq(Nat)) /\ toWrite \in Seq(Seq(Nat))
         /\ Written(logging) \in Seq(Nat)
         /\ FlattenSeq(buffers) \in Seq(Nat) /\ FlattenSeq(toWrite) \in Seq(Nat)
<1>1. accepted \in Nat /\ 1 .. accepted \subseteq Nat /\ 0 .. accepted \subseteq Nat
  BY LoggerAssumption DEF LoggerTypeOK, LoggerAssumption
<1>2. Seq(1 .. accepted) \subseteq Seq(Nat) /\ Seq(0 .. accepted) \subseteq Seq(Nat)
  BY <1>1, SeqMonotonic
<1>3. Seq(Seq(1 .. accepted)) \subseteq Seq(Seq(Nat))
  BY <1>2, SeqMonotonic
<1>4. /\ buffer \in Seq(Nat) /\ buffers \in Seq(Seq(Nat)) /\ toWrite \in Seq(Seq(Nat))
      /\ Written(logging) \in Seq(Nat)
  BY <1>2, <1>3 DEF LoggerTypeOK
<1> QED
  BY <1>1, <1>4, FlattenTyped

LEMMA WrittenStep ==
  ASSUME LoggerInv, Writes \/ WritesNot,
         accepted' \in {accepted, accepted + 1}
  PROVE  Written(logging') \in Seq(0 .. accepted')
<1> DEFINE S == 0 .. accepted'
           w == Written(logging)
           v == Written(logging')
<1>1. accepted \in Nat /\ 0 .. accepted \subseteq S /\ 1 .. accepted \subseteq S
  BY LoggerParts DEF LoggerInv
<1>2. w \in Seq(S) /\ w \in Seq(Nat)
  <2>1. w \in Seq(0 .. accepted)
    BY DEF LoggerInv, LoggerTypeOK
  <2>2. Seq(0 .. accepted) \subseteq Seq(S)
    BY <1>1, SeqMonotonic
  <2> QED  BY <2>1, <2>2, LoggerParts DEF LoggerInv
<1>3. Notice \in S
  BY <1>1 DEF Notice
<1> HIDE DEF S
<1>4. CASE Abort /\ Begins(v, w)
  <2>1. IsLog(logging')
    BY <1>4, LogStep DEF LoggerNext, LogInv
  <2>2. v \in Seq(Nat)
    BY <2>1, WrittenTyped
  <2>3. PICK rest \in Seq(Nat) : w = v \o rest
    BY <1>4 DEF Begins
  <2> HIDE DEF w, v
  <2>4. \A i \in 1 .. Len(v) : v[i] \in S
    <3>1. \A i \in 1 .. Len(v) : i \in 1 .. Len(w) /\ w[i] = v[i]
      BY <2>2, <2>3
    <3> QED  BY <1>2, <3>1
  <2>5. v \in [1 .. Len(v) -> S] /\ Len(v) \in Nat
    BY <2>2, <2>4
  <2>6. v \in Seq(S)
    BY <2>5, SeqDef
  <2> QED  BY <2>6 DEF v, S
<1>5. CASE Trim /\ v = w \o <<Notice>>
  <2>1. <<Notice>> \in Seq(S)
    BY <1>3
  <2> QED  BY <1>2, <1>5, <2>1, ConcatProperties DEF S
<1>6. CASE WriteBuffer /\ v = w \o Head(toWrite)
  <2>1. Head(toWrite) \in Seq(1 .. accepted)
    BY <1>6 DEF WriteBuffer, LoggerInv, LoggerTypeOK
  <2>2. Head(toWrite) \in Seq(S)
    BY <1>1, <2>1, SeqMonotonic
  <2> QED  BY <1>2, <1>6, <2>2, ConcatProperties DEF S
<1> QED
  BY <1>2, <1>4, <1>5, <1>6 DEF Writes, WritesNot, S

LEMMA TypesStep ==
  ASSUME LoggerInv, [LoggerNext]_loggerVars
  PROVE  LoggerTypeOK'
<1>1. LoggerTypeOK /\ ThreadsInv
  BY DEF LoggerInv
<1>2. Writes \/ WritesNot
  BY LogStep
<1>3. ASSUME accepted' = accepted
      PROVE  Written(logging') \in Seq(0 .. accepted')
  BY <1>2, <1>3, WrittenStep
<1>4. /\ accepted \in Nat /\ starts \in Nat /\ clock \in Nat
      /\ MaxRecords \in Nat /\ MaxStarts \in Nat /\ MaxTime \in Nat
  BY <1>1, LoggerAssumption DEF LoggerTypeOK, LoggerAssumption
<1>5. ASSUME NEW isFatal \in BOOLEAN, LogRecord(isFatal)
      PROVE  LoggerTypeOK'
  <2>1. /\ accepted' = accepted + 1 /\ fatal' = isFatal /\ accepted < MaxRecords
        /\ UNCHANGED <<running, toWrite, logging, opc, dropped, up, starts, clock>>
    BY <1>5 DEF LogRecord
  <2>2. Written(logging') \in Seq(0 .. accepted')
    BY <1>2, <2>1, WrittenStep
  <2>3. 1 .. accepted \subseteq 1 .. accepted' /\ accepted' \in 0 .. MaxRecords
        /\ accepted' \in 1 .. accepted'
    BY <1>4, <2>1
  <2>4. buffer \in Seq(1 .. accepted') /\ buffers \in Seq(Seq(1 .. accepted'))
        /\ toWrite \in Seq(Seq(1 .. accepted')) /\ dropped \subseteq 1 .. accepted'
    <3>1. Seq(1 .. accepted) \subseteq Seq(1 .. accepted')
      BY <2>3, SeqMonotonic
    <3>2. Seq(Seq(1 .. accepted)) \subseteq Seq(Seq(1 .. accepted'))
      BY <3>1, SeqMonotonic
    <3> QED  BY <1>1, <2>3, <3>1, <3>2 DEF LoggerTypeOK
  <2>5. FrontAppend(accepted + 1)
    BY <1>5 DEF LogRecord
  <2>6. /\ buffer' \in Seq(1 .. accepted') /\ buffers' \in Seq(Seq(1 .. accepted'))
        /\ bpc' \in {bpc, "lock"}
    <3> DEFINE R == 1 .. accepted'
    <3>1. /\ buffer \in Seq(R) /\ buffers \in Seq(Seq(R)) /\ accepted + 1 \in R
      BY <2>1, <2>3, <2>4
    <3> HIDE DEF R
    <3>2. CASE /\ buffer' = Append(buffer, accepted + 1) /\ UNCHANGED <<buffers, bpc>>
      BY <3>1, <3>2, AppendProperties DEF R
    <3>3. CASE /\ buffer' = <<accepted + 1>> /\ buffers' = Append(buffers, buffer)
               /\ bpc' \in {bpc, "lock"}
      <4>1. <<accepted + 1>> \in Seq(R)
        BY <3>1
      <4> QED  BY <3>1, <3>3, <4>1, AppendProperties DEF R
    <3> QED
      BY <2>5, <3>2, <3>3 DEF FrontAppend, Wake
  <2> QED
    BY <1>1, <2>1, <2>2, <2>3, <2>4, <2>6 DEF LoggerTypeOK
<1>6. CASE Abort
  BY <1>1, <1>3, <1>6 DEF Abort, LoggerTypeOK
<1>7. CASE Start
  <2>1. starts' = starts + 1 /\ starts < MaxStarts
    BY <1>7 DEF Start
  <2>2. starts' \in 0 .. MaxStarts
    BY <1>4, <2>1
  <2> QED
    BY <1>1, <1>3, <1>7, <2>2 DEF Start, LoggerTypeOK
<1>8. CASE StopStores \/ Owner
  BY <1>1, <1>3, <1>8 DEF StopStores, Owner, StopNotifies, StopJoins, Wake, LoggerTypeOK
<1>9. CASE Check \/ Lock \/ Block \/ TimeOut
  BY <1>1, <1>3, <1>9 DEF Check, Lock, Block, TimeOut, LoggerTypeOK
<1>10. CASE Test \/ LateSwap
  <2>1. CASE SwapBuffers
    <3>1. toWrite' = Append(buffers, buffer) /\ buffers' = <<>> /\ buffer' = <<>> /\ bpc' = "trim"
      BY <2>1 DEF SwapBuffers
    <3>2. UNCHANGED <<running, logging, opc, accepted, dropped, fatal, up, starts, clock>>
      BY <1>10 DEF Test, LateSwap
    <3>3. /\ toWrite' \in Seq(Seq(1 .. accepted)) /\ buffers' \in Seq(Seq(1 .. accepted))
          /\ buffer' \in Seq(1 .. accepted)
      <4> DEFINE R == 1 .. accepted
      <4>1. buffer \in Seq(R) /\ buffers \in Seq(Seq(R))
        BY <1>1 DEF LoggerTypeOK
      <4> HIDE DEF R
      <4>2. Append(buffers, buffer) \in Seq(Seq(R)) /\ \A S : <<>> \in Seq(S)
        BY <4>1, AppendProperties
      <4> QED  BY <3>1, <4>2 DEF R
    <3> QED
      BY <1>1, <1>3, <3>1, <3>2, <3>3 DEF LoggerTypeOK
  <2>2. CASE ~SwapBuffers
    BY <1>1, <1>3, <1>10, <2>2 DEF Test, LateSwap, LoggerTypeOK
  <2> QED  BY <2>1, <2>2
<1>11. CASE Trim
  <2>1. /\ bpc' = "write"
        /\ UNCHANGED <<running, buffer, buffers, opc, accepted, fatal, up, starts, clock>>
    BY <1>11 DEF Trim
  <2>2. CASE Len(toWrite) > MaxBuffers
    <3>1. /\ toWrite' = SubSeq(toWrite, 1, 2)
          /\ dropped' = dropped \cup UNION {ToSet(toWrite[i]) : i \in 3 .. Len(toWrite)}
      BY <1>11, <2>2 DEF Trim
    <3>2. toWrite' \in Seq(Seq(1 .. accepted))
      <4> DEFINE R == Seq(1 .. accepted)
      <4>1. toWrite \in Seq(R) /\ Len(toWrite) \in Nat
        BY <1>1 DEF LoggerTypeOK
      <4> HIDE DEF R
      <4>2. Len(toWrite) >= 2
        BY <2>2, <4>1, LoggerAssumption DEF LoggerAssumption
      <4>3. \A i \in 1 .. 2 : toWrite[i] \in R
        BY <4>1, <4>2
      <4>4. SubSeq(toWrite, 1, 2) \in Seq(R)
        BY <4>3, SubSeqProperties
      <4> QED  BY <3>1, <4>4 DEF R
    <3>3. dropped' \subseteq 1 .. accepted
      <4>1. ASSUME NEW i \in 3 .. Len(toWrite)
            PROVE  ToSet(toWrite[i]) \subseteq 1 .. accepted
        <5>1. toWrite[i] \in Seq(1 .. accepted)
          <6>1. toWrite \in Seq(Seq(1 .. accepted)) /\ i \in 1 .. Len(toWrite)
            BY <1>1 DEF LoggerTypeOK
          <6> QED  BY <6>1, ElementOfSeq
        <5> QED  BY <5>1, SetOfSeq
      <4>2. dropped \subseteq 1 .. accepted
        BY <1>1 DEF LoggerTypeOK
      <4> QED  BY <3>1, <4>1, <4>2
    <3> QED
      BY <1>1, <1>3, <2>1, <3>2, <3>3 DEF LoggerTypeOK
  <2>3. CASE ~(Len(toWrite) > MaxBuffers)
    BY <1>1, <1>3, <1>11, <2>1, <2>3 DEF Trim, LoggerTypeOK
  <2> QED  BY <2>2, <2>3
<1>12. CASE WriteBuffer
  <2>1. toWrite # <<>> /\ toWrite' = Tail(toWrite) /\ bpc' = bpc
        /\ UNCHANGED <<running, buffer, buffers, opc, accepted, dropped, fatal, up, starts, clock>>
    BY <1>12 DEF WriteBuffer
  <2>2. toWrite' \in Seq(Seq(1 .. accepted))
    <3> DEFINE R == Seq(1 .. accepted)
    <3>1. toWrite \in Seq(R)
      BY <1>1 DEF LoggerTypeOK
    <3> HIDE DEF R
    <3>2. Tail(toWrite) \in Seq(R)
      BY <2>1, <3>1, HeadTailProperties
    <3> QED  BY <2>1, <3>2 DEF R
  <2> QED
    BY <1>1, <1>3, <2>1, <2>2 DEF LoggerTypeOK
<1>13. CASE EndRound \/ Exit
  BY <1>1, <1>3, <1>13 DEF EndRound, Exit, LoggerTypeOK
<1>14. CASE Tick
  <2>1. clock' \in 1 .. MaxTime
    BY <1>1, <1>4, <1>14 DEF Tick, LoggerTypeOK
  <2> QED
    BY <1>1, <1>3, <1>14, <2>1 DEF Tick, LoggerTypeOK
<1>15. CASE UNCHANGED loggerVars
  BY <1>1, <1>3, <1>15 DEF loggerVars, LoggerTypeOK
<1> QED
  BY <1>5, <1>6, <1>7, <1>8, <1>9, <1>10, <1>11, <1>12, <1>13, <1>14, <1>15
     DEF LoggerNext, Backend

Chain(w, x, y, b) == ((w \o x) \o y) \o b

LEMMA LineOrdered ==
  ASSUME NEW w \in Seq(Nat), NEW x \in Seq(Nat), NEW y \in Seq(Nat), NEW b \in Seq(Nat),
         Ordered(Chain(w, x, y, b))
  PROVE  Ordered(w)
<1>1. w \o x \in Seq(Nat) /\ (w \o x) \o y \in Seq(Nat)
  BY ConcatProperties
<1>2. Ordered((w \o x) \o y)
  BY <1>1, OrderedConcat DEF Chain
<1>3. Ordered(w \o x)
  BY <1>1, <1>2, OrderedConcat
<1> QED
  BY <1>3, OrderedConcat

LEMMA DiskOrdered ==
  ASSUME NEW l, IsLog(l), Ordered(Written(l))
  PROVE  Ordered(OnDisk(l))
<1>1. OnDisk(l) \in Seq(Nat) /\ l.stdio \in Seq(Nat)
  BY WrittenTyped DEF IsLog
<1>2. Ordered(OnDisk(l) \o l.stdio)
  BY DEF Written
<1> QED
  BY <1>1, <1>2, OrderedConcat

\* Where a step leaves the records.
LineKept == /\ InFlight' = InFlight /\ accepted' = accepted /\ dropped' = dropped
LineGrown == /\ InFlight' = InFlight \o <<accepted + 1>>
             /\ accepted' = accepted + 1 /\ dropped' = dropped

LEMMA InFlightLine ==
  InFlight = Chain(Written(logging), FlattenSeq(toWrite), FlattenSeq(buffers), buffer)
BY DEF InFlight, Chain

LEMMA InFlightNext ==
  InFlight' = Chain(Written(logging'), FlattenSeq(toWrite'), FlattenSeq(buffers'), buffer')
BY DEF InFlight, Chain

LEMMA RecordAppended ==
  ASSUME LoggerInv, NEW isFatal \in BOOLEAN, LogRecord(isFatal)
  PROVE  LineGrown
<1> DEFINE w == Written(logging)
           x == FlattenSeq(toWrite)
           y == FlattenSeq(buffers)
           b == buffer
           r == <<accepted + 1>>
<1>1. /\ w \in Seq(Nat) /\ x \in Seq(Nat) /\ y \in Seq(Nat) /\ b \in Seq(Nat)
      /\ r \in Seq(Nat) /\ accepted \in Nat
  BY LoggerParts DEF LoggerInv
<1>2. /\ accepted' = accepted + 1 /\ dropped' = dropped
      /\ Written(logging') = w /\ FlattenSeq(toWrite') = x
  BY DEF LogRecord
<1>3. w \o x \in Seq(Nat) /\ (w \o x) \o y \in Seq(Nat)
  <2> HIDE DEF w, x, y
  <2> QED  BY <1>1, ConcatProperties
<1>4. Chain(w, x, y, b) \o r = Chain(w, x, y, b \o r)
  <2> DEFINE v == (w \o x) \o y
  <2>1. v \in Seq(Nat)
    BY <1>3
  <2> HIDE DEF w, x, y, b, r, v
  <2>2. (v \o b) \o r = v \o (b \o r)
    BY <1>1, <2>1, ThreeParts
  <2> QED  BY <2>2, Zenon DEF Chain, v
<1>5. CASE buffer' = Append(buffer, accepted + 1) /\ buffers' = buffers
  <2>1. buffer' = b \o r
    BY <1>1, <1>5, AppendIsConcat
  <2>2. InFlight' = Chain(w, x, y, b \o r)
    BY <1>2, <1>5, <2>1, InFlightNext, Zenon
  <2> HIDE DEF w, x, y, b, r
  <2>3. InFlight' = InFlight \o r
    BY <1>4, <2>2, InFlightLine, Zenon DEF w, x, y, b
  <2> QED  BY <1>2, <2>3 DEF LineGrown, r
<1>6. CASE buffer' = <<accepted + 1>> /\ buffers' = Append(buffers, buffer)
  <2>1. FlattenSeq(buffers') = y \o b
    <3>1. buffers \in Seq(Seq(Nat)) /\ buffer \in Seq(Nat)
      BY LoggerParts DEF LoggerInv
    <3> QED  BY <1>6, <3>1, FlattenAppend
  <2>2. InFlight' = Chain(w, x, y \o b, r)
    BY <1>2, <1>6, <2>1, InFlightNext, Zenon
  <2>3. Chain(w, x, y \o b, r) = Chain(w, x, y, b) \o r
    <3> HIDE DEF w, x, y, b, r
    <3>1. ((w \o x) \o y) \o b = (w \o x) \o (y \o b)
      <4> DEFINE v == w \o x
      <4>1. v \in Seq(Nat)
        BY <1>3
      <4> HIDE DEF v
      <4>2. (v \o y) \o b = v \o (y \o b)
        BY <1>1, <4>1, ThreeParts
      <4> QED  BY <4>2 DEF v
    <3> QED  BY <3>1, Zenon DEF Chain
  <2> HIDE DEF w, x, y, b, r
  <2>4. InFlight' = InFlight \o r
    BY <2>2, <2>3, InFlightLine, Zenon DEF w, x, y, b
  <2> QED  BY <1>2, <2>4 DEF LineGrown, r
<1> QED
  BY <1>5, <1>6 DEF LogRecord, FrontAppend

LEMMA BuffersSwapped ==
  ASSUME LoggerInv, SwapBuffers, bpc \in {"test", "late"}, Written(logging') = Written(logging),
         accepted' = accepted, dropped' = dropped
  PROVE  LineKept
<1> DEFINE w == Written(logging)
           y == FlattenSeq(buffers)
           b == buffer
<1>1. w \in Seq(Nat) /\ y \in Seq(Nat) /\ b \in Seq(Nat) /\ buffers \in Seq(Seq(Nat))
  BY LoggerParts DEF LoggerInv
<1>2. toWrite = <<>>
  BY DEF LoggerInv, ThreadsInv
<1>3. FlattenSeq(toWrite') = y \o b /\ FlattenSeq(buffers') = <<>> /\ buffer' = <<>>
  <2>1. toWrite' = Append(buffers, buffer) /\ buffers' = <<>> /\ buffer' = <<>>
    BY DEF SwapBuffers
  <2>2. FlattenSeq(Append(buffers, buffer)) = y \o b
    BY <1>1, FlattenAppend
  <2> QED  BY <2>1, <2>2, FlattenEmpty, Zenon
<1>4. Chain(w, <<>>, y, b) = Chain(w, y \o b, <<>>, <<>>)
  <2> HIDE DEF w, y, b
  <2>1. w \o <<>> = w
    BY <1>1, ConcatEmptySeq
  <2>2. (w \o y) \o b = w \o (y \o b)
    BY <1>1, ThreeParts
  <2>3. w \o (y \o b) \in Seq(Nat)
    <3>1. y \o b \in Seq(Nat)
      BY <1>1, ConcatProperties
    <3> QED  BY <1>1, <3>1, ConcatProperties
  <2>4. (w \o (y \o b)) \o <<>> = w \o (y \o b)
    BY <2>3, ConcatEmptySeq
  <2> QED  BY <2>1, <2>2, <2>4, Zenon DEF Chain
<1>5. InFlight' = Chain(w, y \o b, <<>>, <<>>)
  BY <1>3, InFlightNext, Zenon
<1>6. InFlight = Chain(w, <<>>, y, b)
  BY <1>2, InFlightLine, FlattenEmpty, Zenon
<1> HIDE DEF w, y, b
<1> QED
  BY <1>4, <1>5, <1>6, Zenon DEF LineKept

LEMMA BufferWritten ==
  ASSUME LoggerInv, WriteBuffer, Written(logging') = Written(logging) \o Head(toWrite)
  PROVE  LineKept
<1> DEFINE w == Written(logging)
           h == Head(toWrite)
           z == FlattenSeq(Tail(toWrite))
           y == FlattenSeq(buffers)
           b == buffer
<1>1. toWrite # <<>> /\ toWrite \in Seq(Seq(Nat)) /\ w \in Seq(Nat)
  BY LoggerParts DEF LoggerInv, WriteBuffer
<1>2. h \in Seq(Nat) /\ Tail(toWrite) \in Seq(Seq(Nat))
  <2> DEFINE T == Seq(Nat)
  <2>1. toWrite \in Seq(T)
    BY <1>1
  <2> HIDE DEF T
  <2>2. Head(toWrite) \in T /\ Tail(toWrite) \in Seq(T)
    BY <1>1, <2>1, HeadTailProperties
  <2> QED  BY <2>2 DEF T
<1>3. z \in Seq(Nat)
  BY <1>2, FlattenTyped
<1>4. FlattenSeq(toWrite) = h \o z
  BY <1>1, FlattenHead
<1>5. /\ toWrite' = Tail(toWrite) /\ buffers' = buffers /\ buffer' = buffer
      /\ accepted' = accepted /\ dropped' = dropped
  BY DEF WriteBuffer
<1>6. InFlight' = Chain(w \o h, z, y, b)
  BY <1>5, InFlightNext, Zenon
<1>7. InFlight = Chain(w, h \o z, y, b)
  BY <1>4, InFlightLine, Zenon
<1>8. Chain(w \o h, z, y, b) = Chain(w, h \o z, y, b)
  <2> HIDE DEF w, h, z
  <2>1. (w \o h) \o z = w \o (h \o z)
    BY <1>1, <1>2, <1>3, ThreeParts
  <2> QED  BY <2>1, Zenon DEF Chain
<1> HIDE DEF w, h, z, y, b
<1> QED
  BY <1>5, <1>6, <1>7, <1>8, Zenon DEF LineKept

\* What backend() erases is what it counts as dropped.
LEMMA BuffersDropped ==
  ASSUME LoggerInv, Trim, Len(toWrite) > MaxBuffers,
         Written(logging') = Written(logging) \o <<Notice>>,
         Conserved(InFlight, accepted, dropped)
  PROVE  Conserved(InFlight', accepted', dropped')
<1> DEFINE w == Written(logging)
           n == Len(toWrite)
           kept == SubSeq(toWrite, 1, 2)
           gone == SubSeq(toWrite, 3, n)
           p == FlattenSeq(kept)
           q == FlattenSeq(gone)
           y == FlattenSeq(buffers)
           b == buffer
           r == y \o b
<1>1. /\ w \in Seq(Nat) /\ y \in Seq(Nat) /\ b \in Seq(Nat) /\ accepted \in Nat
      /\ toWrite \in Seq(Seq(Nat)) /\ toWrite \in Seq(Seq(1 .. accepted))
  BY LoggerParts DEF LoggerInv, LoggerTypeOK
<1>2. n \in Nat /\ n >= 2
  BY <1>1, LoggerAssumption DEF LoggerAssumption
<1>3. /\ kept \in Seq(Seq(Nat)) /\ gone \in Seq(Seq(1 .. accepted)) /\ gone \in Seq(Seq(Nat))
      /\ Len(gone) = n - 2 /\ \A i \in 1 .. n - 2 : gone[i] = toWrite[i + 2]
      /\ toWrite = kept \o gone
  <2> DEFINE T == Seq(Nat)
             S == Seq(1 .. accepted)
             t == toWrite
  <2>1. t \in Seq(T) /\ t \in Seq(S) /\ n = Len(t)
    BY <1>1
  <2> HIDE DEF T, S, t, n
  <2>2. /\ \A i \in 1 .. 2 : t[i] \in T
        /\ \A i \in 3 .. n : t[i] \in T /\ t[i] \in S
    BY <1>2, <2>1
  <2>3. SubSeq(t, 1, 2) \in Seq(T) /\ SubSeq(t, 3, n) \in Seq(T)
    BY <1>2, <2>2, SubSeqProperties
  <2>4. SubSeq(t, 3, n) \in Seq(S)
    BY <1>2, <2>2, SubSeqProperties
  <2>5. /\ Len(SubSeq(t, 3, n)) = n - 2
        /\ \A i \in 1 .. n - 2 : SubSeq(t, 3, n)[i] = t[i + 2]
    BY <1>2, <2>1
  <2>6. SubSeq(t, 1, 2) \o SubSeq(t, 3, n) = SubSeq(t, 1, n)
    <3> DEFINE k == 2
    <3>1. /\ 1 \in 1 .. Len(t) + 1 /\ k \in (1 - 1) .. Len(t) /\ Len(t) \in k .. Len(t)
          /\ k + 1 = 3
      BY <1>2, <2>1
    <3> HIDE DEF k
    <3>2. SubSeq(t, 1, k) \o SubSeq(t, k + 1, Len(t)) = SubSeq(t, 1, Len(t))
      BY <2>1, <3>1, ConcatAdjacentSubSeq
    <3> QED  BY <2>1, <3>1, <3>2, Zenon DEF k
  <2>7. SubSeq(t, 1, n) = t
    BY <2>1, SubSeqFull
  <2> QED  BY <2>3, <2>4, <2>5, <2>6, <2>7 DEF T, S, t, n
<1> HIDE DEF kept, gone, n
<1>4. p \in Seq(Nat) /\ q \in Seq(Nat) /\ FlattenSeq(toWrite) = p \o q
  BY <1>3, FlattenTyped, FlattenConcat
<1>5. Notice \notin ToSet(q)
  <2>1. q \in Seq(1 .. accepted)
    BY <1>3, FlattenTyped
  <2>2. ToSet(q) \subseteq 1 .. accepted
    BY <2>1, SetOfSeq
  <2> QED  BY <1>1, <2>2 DEF Notice
<1>6. dropped' = dropped \cup ToSet(q)
  <2>1. dropped' = dropped \cup UNION {ToSet(toWrite[i]) : i \in 3 .. n}
    BY DEF Trim, n
  <2>2. ToSet(q) = UNION {ToSet(gone[i]) : i \in 1 .. Len(gone)}
    BY <1>3, SetOfFlatten
  <2>3. {ToSet(gone[i]) : i \in 1 .. n - 2} = {ToSet(toWrite[i]) : i \in 3 .. n}
    <3>1. ASSUME NEW i \in 1 .. n - 2
          PROVE  ToSet(gone[i]) \in {ToSet(toWrite[j]) : j \in 3 .. n}
      <4>1. i + 2 \in 3 .. n
        BY <1>2
      <4>2. gone[i] = toWrite[i + 2]
        BY <1>3
      <4> QED  BY <4>1, <4>2
    <3>2. ASSUME NEW i \in 3 .. n
          PROVE  ToSet(toWrite[i]) \in {ToSet(gone[j]) : j \in 1 .. n - 2}
      <4>1. i - 2 \in 1 .. n - 2 /\ (i - 2) + 2 = i
        BY <1>2
      <4>2. gone[i - 2] = toWrite[i]
        BY <1>3, <4>1
      <4> QED  BY <4>1, <4>2
    <3> QED  BY <3>1, <3>2
  <2> QED  BY <1>3, <2>1, <2>2, <2>3
<1>7. /\ toWrite' = kept /\ buffers' = buffers /\ buffer' = buffer /\ accepted' = accepted
  BY DEF Trim, kept
<1>8. InFlight' = Chain(w \o <<Notice>>, p, y, b)
  BY <1>7, InFlightNext, Zenon
<1>9. InFlight = Chain(w, p \o q, y, b)
  BY <1>4, InFlightLine, Zenon
<1> DEFINE e == <<Notice>>
<1>10. e \in Seq(Nat) /\ r \in Seq(Nat)
  BY <1>1, ConcatProperties DEF Notice
<1> HIDE DEF w, p, q, y, b, e
<1>11. Chain(w, p \o q, y, b) = (w \o (p \o q)) \o r
  <2> DEFINE c == w \o (p \o q)
  <2>1. c \in Seq(Nat)
    <3>1. p \o q \in Seq(Nat)
      BY <1>4, ConcatProperties
    <3> QED  BY <1>1, <3>1, ConcatProperties
  <2> HIDE DEF c
  <2>2. (c \o y) \o b = c \o (y \o b)
    BY <1>1, <2>1, ThreeParts
  <2> QED  BY <2>2, Zenon DEF Chain, c
<1>12. Chain(w \o e, p, y, b) = ((w \o e) \o p) \o r
  <2> DEFINE c == (w \o e) \o p
  <2>1. c \in Seq(Nat)
    <3>1. w \o e \in Seq(Nat)
      BY <1>1, <1>10, ConcatProperties
    <3> QED  BY <1>4, <3>1, ConcatProperties
  <2> HIDE DEF c
  <2>2. (c \o y) \o b = c \o (y \o b)
    BY <1>1, <2>1, ThreeParts
  <2> QED  BY <2>2, Zenon DEF Chain, c
<1>13. Conserved((w \o (p \o q)) \o r, accepted, dropped)
  BY <1>9, <1>11
<1> HIDE DEF r
<1>14. Conserved(((w \o <<Notice>>) \o p) \o r, accepted, dropped \cup ToSet(q))
  BY <1>1, <1>4, <1>5, <1>10, <1>13, DropConserved
<1> QED
  BY <1>6, <1>7, <1>8, <1>12, <1>14 DEF e

\* Steps that move no record.
LEMMA LineStands ==
  ASSUME Written(logging') = Written(logging),
         UNCHANGED <<toWrite, buffers, buffer, accepted, dropped>>
  PROVE  LineKept
<1>1. InFlight' = Chain(Written(logging), FlattenSeq(toWrite), FlattenSeq(buffers), buffer)
  BY InFlightNext, Zenon
<1> QED
  BY <1>1, InFlightLine, Zenon DEF LineKept

LEMMA LineStep ==
  ASSUME LoggerInv, LoggerNext, up, Conserved(InFlight, accepted, dropped)
  PROVE  up' => Conserved(InFlight', accepted', dropped')
<1>1. Writes \/ WritesNot
  BY LogStep
<1>2. ASSUME LineKept
      PROVE  Conserved(InFlight', accepted', dropped')
  BY <1>2 DEF LineKept
<1>3. ASSUME NEW isFatal \in BOOLEAN, LogRecord(isFatal)
      PROVE  Conserved(InFlight', accepted', dropped')
  <2>1. LineGrown
    BY <1>3, RecordAppended
  <2>2. InFlight \in Seq(Nat) /\ accepted \in Nat
    <3> DEFINE w == Written(logging)
               x == FlattenSeq(toWrite)
               y == FlattenSeq(buffers)
               b == buffer
    <3>1. w \in Seq(Nat) /\ x \in Seq(Nat) /\ y \in Seq(Nat) /\ b \in Seq(Nat)
      BY LoggerParts DEF LoggerInv
    <3> HIDE DEF w, x, y, b
    <3>2. Chain(w, x, y, b) \in Seq(Nat)
      <4>1. w \o x \in Seq(Nat)
        BY <3>1, ConcatProperties
      <4>2. (w \o x) \o y \in Seq(Nat)
        BY <3>1, <4>1, ConcatProperties
      <4> QED  BY <3>1, <4>2, ConcatProperties DEF Chain
    <3> QED  BY <3>2, InFlightLine, LoggerParts DEF LoggerInv, w, x, y, b
  <2>3. Conserved(InFlight \o <<accepted + 1>>, accepted + 1, dropped)
    BY <2>2, AppendConserved
  <2> QED
    BY <2>1, <2>3 DEF LineGrown
<1>4. CASE Abort
  BY <1>4 DEF Abort
<1>5. CASE StopStores \/ Owner \/ Check \/ Lock \/ Block \/ TimeOut \/ Tick
  <2>1. UNCHANGED <<logging, toWrite, buffers, buffer, accepted, dropped>>
    <3>1. CASE StopStores \/ Owner
      BY <3>1 DEF StopStores, Owner, StopNotifies, StopJoins
    <3>2. CASE Check \/ Lock \/ Block \/ TimeOut \/ Tick
      BY <3>2 DEF Check, Lock, Block, TimeOut, Tick
    <3> QED  BY <1>5, <3>1, <3>2
  <2>2. Written(logging') = Written(logging)
    BY <2>1
  <2> QED  BY <1>2, <2>1, <2>2, LineStands
<1>6. CASE Start \/ EndRound \/ Exit
  <2>1. /\ UNCHANGED <<toWrite, buffers, buffer, accepted, dropped>>
        /\ up /\ up' /\ bpc' \in {"check", "done"}
    BY <1>6 DEF Start, EndRound, Exit
  <2>2. ~Abort /\ ~Trim
    BY <2>1 DEF Abort, Trim
  <2>3. ~WriteBuffer
    <3>1. CASE Start
      BY <3>1 DEF Start, WriteBuffer, LoggerInv, ThreadsInv
    <3>2. CASE EndRound \/ Exit
      BY <3>2 DEF EndRound, Exit, WriteBuffer
    <3> QED  BY <1>6, <3>1, <3>2
  <2>4. Written(logging') = Written(logging)
    BY <1>1, <2>2, <2>3 DEF Writes, WritesNot
  <2> QED  BY <1>2, <2>1, <2>4, LineStands
<1>7. CASE Test \/ LateSwap
  <2>1. /\ UNCHANGED <<logging, accepted, dropped>> /\ bpc \in {"test", "late"}
        /\ SwapBuffers \/ UNCHANGED <<toWrite, buffers, buffer>>
    BY <1>7 DEF Test, LateSwap
  <2>2. Written(logging') = Written(logging)
    BY <2>1
  <2> QED  BY <1>2, <2>1, <2>2, LineStands, BuffersSwapped
<1>8. CASE Trim
  <2>1. CASE Len(toWrite) > MaxBuffers
    <3>1. ~Abort /\ ~WriteBuffer
      BY <1>8 DEF Trim, Abort, WriteBuffer
    <3>2. Written(logging') = Written(logging) \o <<Notice>>
      BY <1>1, <1>8, <2>1, <3>1 DEF Writes, WritesNot
    <3> QED  BY <1>8, <2>1, <3>2, BuffersDropped
  <2>2. CASE ~(Len(toWrite) > MaxBuffers)
    <3>1. UNCHANGED <<logging, toWrite, buffers, buffer, accepted, dropped>>
      BY <1>8, <2>2 DEF Trim
    <3>2. Written(logging') = Written(logging)
      BY <3>1
    <3> QED  BY <1>2, <3>1, <3>2, LineStands
  <2> QED  BY <2>1, <2>2
<1>9. CASE WriteBuffer
  <2>1. ~Abort /\ ~Trim
    BY <1>9 DEF Trim, Abort, WriteBuffer
  <2>2. Written(logging') = Written(logging) \o Head(toWrite)
    BY <1>1, <1>9, <2>1 DEF Writes, WritesNot
  <2> QED  BY <1>2, <1>9, <2>2, BufferWritten
<1> QED
  BY <1>3, <1>4, <1>5, <1>6, <1>7, <1>8, <1>9 DEF LoggerNext, Backend

\* The files keep the order of the line, and what abort() leaves of them begins it.
LEMMA DiskStep ==
  ASSUME LoggerInv, RecordsConserved, LoggerNext, up
  PROVE  Ordered(OnDisk(logging'))
<1>1. Conserved(InFlight, accepted, dropped)
  BY DEF RecordsConserved, Conserved
<1>2. IsLog(logging) /\ IsLog(logging') /\ LoggerTypeOK' /\ LoggerTypeOK
  BY LogStep, TypesStep DEF LoggerInv, LogInv
<1>3. CASE up'
  <2>1. Ordered(InFlight')
    BY <1>1, <1>3, LineStep DEF Conserved
  <2>2. Ordered(Written(logging'))
    <3>1. /\ Written(logging') \in Seq(Nat) /\ FlattenSeq(toWrite') \in Seq(Nat)
          /\ FlattenSeq(buffers') \in Seq(Nat) /\ buffer' \in Seq(Nat)
      <4>1. accepted' \in Nat /\ 1 .. accepted' \subseteq Nat
        BY <1>2, LoggerAssumption DEF LoggerTypeOK, LoggerAssumption
      <4>2. Seq(1 .. accepted') \subseteq Seq(Nat)
        BY <4>1, SeqMonotonic
      <4>3. /\ buffer' \in Seq(1 .. accepted') /\ buffers' \in Seq(Seq(1 .. accepted'))
            /\ toWrite' \in Seq(Seq(1 .. accepted'))
        BY <1>2 DEF LoggerTypeOK
      <4>4. /\ FlattenSeq(toWrite') \in Seq(1 .. accepted')
            /\ FlattenSeq(buffers') \in Seq(1 .. accepted')
        BY <4>3, FlattenTyped
      <4> QED  BY <1>2, <4>2, <4>3, <4>4, WrittenTyped
    <3>2. Ordered(Chain(Written(logging'), FlattenSeq(toWrite'), FlattenSeq(buffers'), buffer'))
      BY <2>1, InFlightNext, Zenon
    <3> DEFINE w == Written(logging')
               x == FlattenSeq(toWrite')
               y == FlattenSeq(buffers')
               b == buffer'
    <3>3. /\ w \in Seq(Nat) /\ x \in Seq(Nat) /\ y \in Seq(Nat) /\ b \in Seq(Nat)
          /\ Ordered(Chain(w, x, y, b))
      BY <3>1, <3>2
    <3> HIDE DEF w, x, y, b
    <3> QED  BY <3>3, LineOrdered DEF w
  <2> QED  BY <1>2, <2>2, DiskOrdered
<1>4. CASE ~up'
  <2>1. Abort
    <3>1. ASSUME NEW isFatal \in BOOLEAN PROVE ~LogRecord(isFatal)
      BY <1>4 DEF LogRecord
    <3>2. ~Start /\ ~StopStores /\ ~Owner /\ ~Tick
      BY <1>4 DEF Start, StopStores, Owner, StopNotifies, StopJoins, Tick
    <3>3. ~Backend
      BY <1>4 DEF Backend, Check, Lock, Test, Block, TimeOut, LateSwap, Trim, WriteBuffer,
                  EndRound, Exit
    <3> QED  BY <3>1, <3>2, <3>3 DEF LoggerNext
  <2>2. Begins(Written(logging'), Written(logging)) \/ Written(logging') = Written(logging)
    <3>1. ~Trim /\ ~WriteBuffer
      BY <1>4 DEF Trim, WriteBuffer
    <3> QED  BY <3>1, LogStep DEF Writes, WritesNot
  <2>3. Ordered(Written(logging))
    <3> DEFINE w == Written(logging)
               x == FlattenSeq(toWrite)
               y == FlattenSeq(buffers)
               b == buffer
    <3>1. /\ w \in Seq(Nat) /\ x \in Seq(Nat) /\ y \in Seq(Nat) /\ b \in Seq(Nat)
          /\ Ordered(Chain(w, x, y, b))
      BY <1>1, <1>2, InFlightLine, LoggerParts DEF Conserved
    <3> HIDE DEF w, x, y, b
    <3> QED  BY <3>1, LineOrdered DEF w
  <2>4. Ordered(Written(logging'))
    <3>1. CASE Begins(Written(logging'), Written(logging))
      <4>1. PICK rest \in Seq(Nat) : Written(logging) = Written(logging') \o rest
        BY <3>1 DEF Begins
      <4>2. Written(logging') \in Seq(Nat)
        BY <1>2, WrittenTyped
      <4> QED  BY <2>3, <4>1, <4>2, OrderedConcat
    <3> QED  BY <2>2, <2>3, <3>1
  <2> QED  BY <1>2, <2>4, DiskOrdered
<1> QED
  BY <1>3, <1>4

LEMMA RecordsStep ==
  ASSUME LoggerInv, RecordsConserved, [LoggerNext]_loggerVars
  PROVE  RecordsConserved'
<1>1. CASE LoggerNext /\ up
  <2>1. Conserved(InFlight, accepted, dropped)
    BY <1>1 DEF RecordsConserved, Conserved
  <2>2. up' => Conserved(InFlight', accepted', dropped')
    BY <1>1, <2>1, LineStep
  <2>3. Ordered(OnDisk(logging'))
    BY <1>1, DiskStep
  <2> QED  BY <2>2, <2>3 DEF RecordsConserved, Conserved
<1>2. CASE LoggerNext /\ ~up
  <2>1. ASSUME NEW isFatal \in BOOLEAN PROVE ~LogRecord(isFatal)
    BY <1>2 DEF LogRecord
  <2>2. ~Abort /\ ~Start /\ ~StopStores /\ ~Owner /\ ~Tick
    BY <1>2 DEF Abort, Start, StopStores, Owner, StopNotifies, StopJoins, Tick
  <2>3. ~Backend
    BY <1>2 DEF Backend, Check, Lock, Test, Block, TimeOut, LateSwap, Trim, WriteBuffer,
                EndRound, Exit
  <2> QED  BY <1>2, <2>1, <2>2, <2>3 DEF LoggerNext
<1>3. CASE UNCHANGED loggerVars
  BY <1>3 DEF loggerVars, RecordsConserved, InFlight
<1> QED
  BY <1>1, <1>2, <1>3

LEMMA LoggerStep == LoggerInv /\ [LoggerNext]_loggerVars => LoggerInv'
BY ThreadsStep, TypesStep, LogStep DEF LoggerInv

LEMMA LoggerSafe == LoggerSpec => [](LoggerInv /\ RecordsConserved)
<1>1. LoggerInit => LoggerInv /\ RecordsConserved
  BY LoggerInitially
<1>2. LoggerInv /\ RecordsConserved /\ [LoggerNext]_loggerVars
      => (LoggerInv /\ RecordsConserved)'
  BY LoggerStep, RecordsStep
<1> QED
  BY <1>1, <1>2, PTL DEF LoggerSpec

\* Every variable of the logger keeps its type, for any lengths of records and buffers and
\* any period of flushing and rolling (AsyncLogger.h, Logging.h).
THEOREM LoggerTypesCorrect == LoggerSpec => []LoggerTypeOK
<1>1. LoggerInv => LoggerTypeOK
  BY DEF LoggerInv
<1> QED
  BY <1>1, LoggerSafe, PTL

\* Whatever the sizes of buffers, files and records and whenever the owner starts and
\* stops it: while the process lives each record is in the files, in the buffers or among
\* the dropped ones, once, and the files hold the records in the order of append(), also
\* after abort() (AsyncLogger.cc:42-98, Logging.cc:110-150).
THEOREM RecordsAlwaysConserved == LoggerSpec => []RecordsConserved
BY LoggerSafe, PTL

LEMMA RollsStep ==
  ASSUME LoggerInv, [LoggerNext]_loggerVars,
         logging.writtenBytes > RollSize \/ logging'.writtenBytes > RollSize,
         Len(Written(logging')) > Len(Written(logging))
  PROVE  Last(logging'.files).name = clock
<1>1. Writes
  BY LogStep DEF WritesNot
<1>2. IsLog(logging') /\ IsLog(logging) /\ LogInv'
  BY LogStep DEF LoggerInv, LogInv
<1>3. ~Begins(Written(logging'), Written(logging))
  <2> DEFINE w == Written(logging)
             v == Written(logging')
  <2>1. w \in Seq(Nat) /\ v \in Seq(Nat) /\ Len(v) > Len(w)
    BY <1>2, WrittenTyped
  <2> HIDE DEF w, v
  <2>2. ASSUME NEW rest \in Seq(Nat), w = v \o rest
        PROVE  FALSE
    BY <2>1, <2>2
  <2> QED  BY <2>2 DEF Begins, w, v
<1>4. Trim \/ WriteBuffer
  BY <1>1, <1>3 DEF Writes
<1>5. logging'.lastRoll = clock
  <2>1. logging' # logging
    BY <1>2, WrittenTyped
  <2> QED  BY <1>4, <2>1, LogStep
<1>6. LastName(logging')
  BY <1>2, <1>4 DEF LogInv, Trim, WriteBuffer
<1> QED
  BY <1>2, <1>5, <1>6 DEF LastName, IsLog, Last

\* An append that finds or leaves the file too long is followed by a file of the current
\* second, so that a file is added to at most once after it was too long and its second
\* over, for any length of files and any period of checks (Logging.cc:39-41, 127).
THEOREM FilesAlwaysRoll == LoggerSpec => RollsWhenFull
<1>1. LoggerInv /\ [LoggerNext]_loggerVars
      => [ /\ logging.writtenBytes > RollSize \/ logging'.writtenBytes > RollSize
           /\ Len(Written(logging')) > Len(Written(logging))
           => Last(logging'.files).name = clock ]_loggerVars
  BY RollsStep
<1> QED
  BY <1>1, LoggerSafe, PTL DEF LoggerSpec, RollsWhenFull

(***************************************************************************)
(* MemDB.  First the lines of a command, then the parser on them.          *)
(***************************************************************************)
LEMMA Halves ==
  ASSUME NEW i \in Nat
  PROVE  /\ (2 * i) % 2 = 0 /\ (2 * i) \div 2 = i
         /\ (2 * i + 1) % 2 = 1 /\ (2 * i + 1) \div 2 = i
OBVIOUS

ArrayLine(n) == [kind |-> "*", n |-> n]
BulkLine(word) == [kind |-> "$", n |-> IF word = NoWord THEN 0 ELSE 1]
WordLine(word) == [kind |-> "word", word |-> word]

LEMMA LinesOfCommand ==
  ASSUME NEW cmd, Len(cmd) \in Nat
  PROVE  LET l == CmdLines(cmd)
         IN  /\ l \in Seq(Range(l)) /\ Len(l) = 2 * Len(cmd) + 1
             /\ l[1] = ArrayLine(Len(cmd))
             /\ \A i \in 0 .. Len(cmd) - 1 : /\ l[2 * i + 2] = BulkLine(cmd[i + 1])
                                             /\ l[2 * i + 3] = WordLine(cmd[i + 1])
<1> DEFINE l == CmdLines(cmd)
           N == 2 * Len(cmd) + 1
<1>1. N \in Nat /\ DOMAIN l = 1 .. N /\ l = [j \in 1 .. N |-> l[j]]
  BY DEF CmdLines
<1>2. l \in Seq(Range(l)) /\ Len(l) = N
  <2> HIDE DEF l, N
  <2>1. \A j \in 1 .. N : l[j] \in Range(l)
    BY <1>1 DEF Range
  <2> QED  BY <1>1, <2>1
<1>3. l[1] = ArrayLine(Len(cmd))
  BY DEF CmdLines, ArrayLine
<1>4. ASSUME NEW i \in 0 .. Len(cmd) - 1
      PROVE  l[2 * i + 2] = BulkLine(cmd[i + 1]) /\ l[2 * i + 3] = WordLine(cmd[i + 1])
  <2> DEFINE j == i + 1
  <2>1. j \in Nat /\ 2 * i + 2 = 2 * j /\ 2 * i + 3 = 2 * j + 1
        /\ 2 * j \in 1 .. N /\ 2 * j + 1 \in 1 .. N
        /\ 2 * j # 1 /\ 2 * j + 1 # 1
    OBVIOUS
  <2>2. (2 * j) % 2 = 0 /\ (2 * j) \div 2 = j /\ (2 * j + 1) % 2 # 0 /\ (2 * j + 1) \div 2 = j
    BY <2>1, Halves
  <2> HIDE DEF j
  <2>3. l[2 * j] = BulkLine(cmd[j])
    BY <2>1, <2>2 DEF CmdLines, BulkLine
  <2>4. l[2 * j + 1] = WordLine(cmd[j])
    BY <2>1, <2>2 DEF CmdLines, WordLine
  <2> QED  BY <2>1, <2>3, <2>4 DEF j
<1> QED
  BY <1>2, <1>3, <1>4

\* The line k + 1 of command r + 1 in the stream of a client.
LEMMA LinesInStream ==
  ASSUME NEW c \in Client, NEW r \in Nat, r < Len(Commands[c])
  PROVE  LET l == CmdLines(Commands[c][r + 1])
         IN  /\ LinesUpTo(c, r) \in Nat /\ Len(l) \in Nat
             /\ LinesUpTo(c, r + 1) = LinesUpTo(c, r) + Len(l)
             /\ LinesUpTo(c, r + 1) <= Len(AllLines(c))
             /\ Len(AllLines(c)) \in Nat
             /\ \A k \in 1 .. Len(l) : AllLines(c)[LinesUpTo(c, r) + k] = l[k]
<1> DEFINE N == Len(Commands[c])
           line(i) == CmdLines(Commands[c][i])
           T == UNION {Range(line(i)) : i \in 1 .. N}
           P(n) == [i \in 1 .. n |-> line(i)]
           Q == [i \in 1 .. N - (r + 1) |-> line(r + 1 + i)]
<1>1. N \in Nat /\ DOMAIN Commands[c] = 1 .. N /\ \A i \in 1 .. N : Len(Commands[c][i]) \in Nat
  BY MemAssumption DEF MemAssumption
<1>2. \A i \in 1 .. N : line(i) \in Seq(T)
  <2>1. ASSUME NEW i \in 1 .. N
        PROVE  line(i) \in Seq(T)
    <3>1. line(i) \in Seq(Range(line(i)))
      BY <1>1, LinesOfCommand
    <3>2. Range(line(i)) \subseteq T
      OBVIOUS
    <3> HIDE DEF line, T
    <3> QED  BY <3>1, <3>2
  <2> QED  BY <2>1
<1> HIDE DEF T
<1>3. \A n \in 0 .. N : P(n) \in Seq(Seq(T)) /\ Len(P(n)) = n
  <2> HIDE DEF line
  <2> QED  BY <1>1, <1>2
<1>4. P(r + 1) = Append(P(r), line(r + 1))
  <2> HIDE DEF line
  <2>1. Len(P(r)) = r /\ DOMAIN P(r) = 1 .. r
    OBVIOUS
  <2>2. Append(P(r), line(r + 1)) = [i \in 1 .. r + 1 |-> IF i <= r THEN P(r)[i] ELSE line(r + 1)]
    BY <2>1
  <2>3. \A i \in 1 .. r + 1 : (IF i <= r THEN P(r)[i] ELSE line(r + 1)) = line(i)
    OBVIOUS
  <2> QED  BY <2>2, <2>3
<1>5. Q \in Seq(Seq(T)) /\ P(N) = P(r + 1) \o Q
  <2> HIDE DEF line
  <2>1. Q \in Seq(Seq(T)) /\ Len(Q) = N - (r + 1)
    <3> DEFINE M == N - (r + 1)
    <3>1. M \in Nat
      BY <1>1
    <3>2. \A i \in 1 .. M : line(r + 1 + i) \in Seq(T)
      <4>1. ASSUME NEW i \in 1 .. M
            PROVE  r + 1 + i \in 1 .. N
        BY <1>1
      <4> HIDE DEF M
      <4> QED  BY <1>2, <4>1
    <3> HIDE DEF M
    <3>3. ASSUME NEW f, f = [i \in 1 .. M |-> line(r + 1 + i)]
          PROVE  f \in Seq(Seq(T)) /\ Len(f) = M
      BY <3>1, <3>2, <3>3
    <3> QED  BY <3>3 DEF M
  <2>2. P(r + 1) \in Seq(Seq(T)) /\ P(N) \in Seq(Seq(T)) /\ Len(P(r + 1)) = r + 1 /\ Len(P(N)) = N
    BY <1>1, <1>3
  <2>3. \A i \in 1 .. N : P(N)[i] = (P(r + 1) \o Q)[i]
    <3>1. ASSUME NEW i \in 1 .. N PROVE P(N)[i] = (P(r + 1) \o Q)[i]
      <4>1. CASE i <= r + 1
        BY <1>1, <2>1, <2>2, <4>1
      <4>2. CASE i > r + 1
        BY <1>1, <2>1, <2>2, <4>2
      <4> QED  BY <4>1, <4>2
    <3> QED  BY <3>1
  <2>4. P(r + 1) \o Q \in Seq(Seq(T)) /\ Len(P(r + 1) \o Q) = N
    BY <1>1, <2>1, <2>2
  <2>5. ASSUME NEW S, NEW s \in Seq(S), NEW t \in Seq(S), Len(s) = N, Len(t) = N,
               \A i \in 1 .. N : s[i] = t[i]
        PROVE  s = t
    BY <2>5, SeqEqual
  <2> HIDE DEF P, Q
  <2>6. P(N) = P(r + 1) \o Q
    BY <2>2, <2>3, <2>4, <2>5
  <2> QED  BY <2>1, <2>6
<1>6. LinesUpTo(c, r) = Len(FlattenSeq(P(r))) /\ LinesUpTo(c, r + 1) = Len(FlattenSeq(P(r + 1)))
  BY DEF LinesUpTo
<1>7. AllLines(c) = FlattenSeq(P(N))
  BY <1>1 DEF AllLines
<1> HIDE DEF P, Q
<1>8. FlattenSeq(P(r + 1)) = FlattenSeq(P(r)) \o line(r + 1) /\ FlattenSeq(P(r)) \in Seq(T)
  <2> HIDE DEF line
  <2>1. P(r) \in Seq(Seq(T)) /\ line(r + 1) \in Seq(T)
    BY <1>1, <1>2, <1>3
  <2>2. FlattenSeq(Append(P(r), line(r + 1))) = FlattenSeq(P(r)) \o line(r + 1)
    BY <2>1, FlattenAppend
  <2> QED  BY <1>4, <2>1, <2>2, FlattenTyped
<1>9. AllLines(c) = FlattenSeq(P(r + 1)) \o FlattenSeq(Q) /\ FlattenSeq(Q) \in Seq(T)
  <2>1. P(r + 1) \in Seq(Seq(T))
    BY <1>1, <1>3
  <2> QED  BY <1>5, <1>7, <2>1, FlattenConcat, FlattenTyped
<1> DEFINE a == FlattenSeq(P(r))
           l == line(r + 1)
           b == FlattenSeq(Q)
<1>10. a \in Seq(T) /\ l \in Seq(T) /\ b \in Seq(T) /\ AllLines(c) = (a \o l) \o b
       /\ LinesUpTo(c, r) = Len(a) /\ LinesUpTo(c, r + 1) = Len(a \o l)
  <2> HIDE DEF line
  <2>1. line(r + 1) \in Seq(T)
    BY <1>1, <1>2
  <2> QED  BY <1>6, <1>8, <1>9, <2>1
<1> HIDE DEF a, l, b
<1>11. /\ Len(a) \in Nat /\ Len(l) \in Nat /\ Len(b) \in Nat
       /\ a \o l \in Seq(T) /\ Len(a \o l) = Len(a) + Len(l)
  BY <1>10
<1>12. Len(AllLines(c)) = Len(a \o l) + Len(b)
  BY <1>10, <1>11
<1>13. ASSUME NEW k \in 1 .. Len(l)
       PROVE  AllLines(c)[LinesUpTo(c, r) + k] = l[k]
  <2>1. Len(a) + k \in 1 .. Len(a \o l)
    BY <1>11
  <2>2. (a \o l)[Len(a) + k] = l[k]
    BY <1>10, <1>11
  <2>3. ((a \o l) \o b)[Len(a) + k] = (a \o l)[Len(a) + k]
    BY <1>10, <1>11, <2>1
  <2> QED  BY <1>10, <2>2, <2>3
<1> QED
  BY <1>10, <1>11, <1>12, <1>13 DEF l

-------------------------------------------------------------------------------
\* The context after k lines of a command.
ContextAt(cmd, k) ==
  IF k = 0 THEN NewContext
  ELSE [state |-> IF k = 2 * Len(cmd) + 1 THEN 2 ELSE 1,
        count |-> Len(cmd) - (k - 1) \div 2,
        length |-> IF k % 2 = 0 THEN 1 ELSE 0,
        cmds |-> SubSeq(cmd, 1, (k - 1) \div 2)]

\* What parse() has made of the first n lines it was given, k lines into a command.
After(cmd, k, n) == [ctx |-> ContextAt(cmd, k + n), bad |-> FALSE, used |-> n]

\* A command that an orderly client may send.
Orderly(cmd) == cmd \in Seq(Word) /\ NoWord \notin ToSet(cmd) /\ cmd \notin {<<>>, <<"GET">>}

\* A context, and a parser that has consumed n lines.
Ctx(state, count, length, cmds) ==
  [state |-> state, count |-> count, length |-> length, cmds |-> cmds]
Parser(ctx, n) == [ctx |-> ctx, bad |-> FALSE, used |-> n]

StateAfter(count) == IF count = 1 THEN 2 ELSE 1

\* What each kind of line does where it is expected.
LEMMA ArrayParsed ==
  ASSUME NEW state, NEW count \in Nat, NEW cmds, NEW n \in Nat
  PROVE  ParseLine(Parser(Ctx(state, 0, 0, cmds), n), ArrayLine(count))
           = Parser(Ctx(1, count, 0, cmds), n + 1)
BY DEF ParseLine, Parser, Ctx, ArrayLine

LEMMA BulkParsed ==
  ASSUME NEW state, NEW count \in Nat, NEW cmds, NEW n \in Nat, NEW word,
         count # 0, word # NoWord
  PROVE  ParseLine(Parser(Ctx(state, count, 0, cmds), n), BulkLine(word))
           = Parser(Ctx(1, count, 1, cmds), n + 1)
BY DEF ParseLine, Parser, Ctx, BulkLine

LEMMA WordParsed ==
  ASSUME NEW state, NEW count \in Nat, NEW cmds, NEW n \in Nat, NEW word,
         count # 0, word # NoWord
  PROVE  ParseLine(Parser(Ctx(state, count, 1, cmds), n), WordLine(word))
           = Parser(Ctx(StateAfter(count), count - 1, 0, Append(cmds, word)), n + 1)
<1> DEFINE p == Parser(Ctx(state, count, 1, cmds), n)
           ctx == Ctx(1, count, 1, cmds)
           use == Ctx(StateAfter(count), count - 1, 0, Append(cmds, word))
           line == WordLine(word)
<1>1. [p.ctx EXCEPT !.state = 1] = ctx /\ p.bad = FALSE
  BY DEF Parser, Ctx
<1>2. ctx.count = count /\ ctx.length = 1 /\ ctx.cmds = cmds
  BY DEF Ctx
<1>3. line.kind = "word" /\ line.word = word
  BY DEF WordLine
<1>4. [state |-> StateAfter(ctx.count), count |-> ctx.count - 1, length |-> 0,
       cmds |-> Append(ctx.cmds, line.word)] = use
  BY <1>2, <1>3 DEF Ctx
<1>5. [ctx |-> use, bad |-> FALSE, used |-> p.used + 1] = Parser(use, n + 1)
  BY DEF Parser
<1>6. ParseLine(p, line) = [ctx |-> use, bad |-> FALSE, used |-> p.used + 1]
  <2> HIDE DEF p, ctx, use, line
  <2>1. ~(ctx.count = 0) /\ ~(ctx.length = 0) /\ ctx.length > 0
    BY <1>2
  <2> QED  BY <1>1, <1>3, <1>4, <2>1 DEF ParseLine, StateAfter
<1> QED
  BY <1>5, <1>6

LEMMA LineParsed ==
  ASSUME NEW cmd, Orderly(cmd), NEW k \in 0 .. 2 * Len(cmd), NEW n \in Nat, NEW j \in 0 .. k,
         n = k - j
  PROVE  ParseLine(After(cmd, j, n), CmdLines(cmd)[k + 1]) = After(cmd, j, n + 1)
<1> DEFINE N == Len(cmd)
           l == CmdLines(cmd)
<1>0. /\ N \in Nat \ {0} /\ k \in Nat /\ k <= 2 * N /\ j + n = k /\ j + (n + 1) = k + 1
  BY DEF Orderly
<1>1. /\ N \in Nat \ {0} /\ DOMAIN cmd = 1 .. N
      /\ \A i \in 1 .. N : cmd[i] # NoWord /\ cmd[i] \in Word
  BY DEF Orderly, ToSet
<1>2. /\ l[1] = ArrayLine(Len(cmd))
      /\ \A i \in 0 .. N - 1 : /\ l[2 * i + 2] = BulkLine(cmd[i + 1])
                               /\ l[2 * i + 3] = WordLine(cmd[i + 1])
  BY <1>1, LinesOfCommand
<1> HIDE DEF l
<1>3. After(cmd, j, n) = Parser(ContextAt(cmd, k), n)
  BY <1>0 DEF After, Parser
<1>4. After(cmd, j, n + 1) = Parser(ContextAt(cmd, k + 1), n + 1)
  BY <1>0 DEF After, Parser
<1> DEFINE Goal == ParseLine(Parser(ContextAt(cmd, k), n), l[k + 1])
                     = Parser(ContextAt(cmd, k + 1), n + 1)
<1>5. ASSUME k = 0
      PROVE  Goal
  <2>1. ContextAt(cmd, 0) = Ctx(0, 0, 0, <<>>)
    BY DEF ContextAt, NewContext, Ctx
  <2>2. ContextAt(cmd, 1) = Ctx(1, N, 0, <<>>)
    <3>1. 1 # 2 * N + 1 /\ (1 - 1) \div 2 = 0 /\ 1 % 2 = 1 /\ SubSeq(cmd, 1, 0) = <<>> /\ N - 0 = N
      BY <1>1
    <3> QED  BY <3>1 DEF ContextAt, Ctx
  <2>3. l[1] = ArrayLine(N)
    BY <1>2
  <2>4. 0 + 1 = 1
    OBVIOUS
  <2>5. ParseLine(Parser(Ctx(0, 0, 0, <<>>), n), ArrayLine(N))
          = Parser(Ctx(1, N, 0, <<>>), n + 1)
    BY <1>1, ArrayParsed
  <2> QED  BY <1>5, <2>1, <2>2, <2>3, <2>4, <2>5
<1>6. ASSUME NEW i \in 0 .. N - 1, k = 2 * i + 1
      PROVE  Goal
  <2>1. i \in Nat /\ i + 1 \in Nat /\ k - 1 = 2 * i /\ k + 1 = 2 * (i + 1) /\ k + 1 = 2 * i + 2
    BY <1>6
  <2>2. (k - 1) \div 2 = i /\ k % 2 = 1 /\ k \div 2 = i /\ (k + 1) % 2 = 0
    BY <1>6, <2>1, Halves
  <2>3. k # 0 /\ k + 1 # 0 /\ k # 2 * N + 1 /\ k + 1 # 2 * N + 1 /\ (k + 1) - 1 = k
        /\ N - i \in Nat /\ N - i # 0
    BY <1>0, <1>6
  <2>4. ContextAt(cmd, k) = Ctx(1, N - i, 0, SubSeq(cmd, 1, i))
    BY <2>2, <2>3 DEF ContextAt, Ctx
  <2>5. ContextAt(cmd, k + 1) = Ctx(1, N - i, 1, SubSeq(cmd, 1, i))
    BY <2>2, <2>3 DEF ContextAt, Ctx
  <2>6. l[k + 1] = BulkLine(cmd[i + 1]) /\ cmd[i + 1] # NoWord
    <3>1. i + 1 \in 1 .. N
      BY <1>1
    <3> QED  BY <1>1, <1>2, <2>1, <3>1
  <2> QED  BY <2>3, <2>4, <2>5, <2>6, BulkParsed
<1>7. ASSUME NEW i \in 0 .. N - 1, k = 2 * i + 2
      PROVE  Goal
  <2>1. i \in Nat /\ i + 1 \in Nat /\ k - 1 = 2 * i + 1 /\ k = 2 * (i + 1)
        /\ k + 1 = 2 * (i + 1) + 1
        /\ k + 1 = 2 * i + 3
    BY <1>7
  <2>2. (k - 1) \div 2 = i /\ k % 2 = 0 /\ k \div 2 = i + 1 /\ (k + 1) % 2 = 1
    BY <2>1, Halves
  <2>3. k # 0 /\ k + 1 # 0 /\ k # 2 * N + 1 /\ (k + 1 = 2 * N + 1 <=> N - i = 1) /\ (k + 1) - 1 = k
        /\ N - i \in Nat /\ N - i # 0 /\ N - (i + 1) = (N - i) - 1 /\ i + 1 \in 1 .. N
    BY <1>0, <1>7
  <2>4. ContextAt(cmd, k) = Ctx(1, N - i, 1, SubSeq(cmd, 1, i))
    BY <2>2, <2>3 DEF ContextAt, Ctx
  <2>5. SubSeq(cmd, 1, i + 1) = Append(SubSeq(cmd, 1, i), cmd[i + 1])
    <3>1. cmd \in Seq(Word) /\ i + 1 \in 1 .. Len(cmd)
      BY <2>3 DEF Orderly
    <3> QED  BY <3>1
  <2>6. ContextAt(cmd, k + 1) = Ctx(StateAfter(N - i), (N - i) - 1, 0,
                                    Append(SubSeq(cmd, 1, i), cmd[i + 1]))
    BY <2>2, <2>3, <2>5 DEF ContextAt, Ctx, StateAfter
  <2>7. l[k + 1] = WordLine(cmd[i + 1]) /\ cmd[i + 1] # NoWord
    BY <1>1, <1>2, <2>1, <2>3
  <2>8. ParseLine(Parser(Ctx(1, N - i, 1, SubSeq(cmd, 1, i)), n), WordLine(cmd[i + 1]))
          = Parser(Ctx(StateAfter(N - i), (N - i) - 1, 0, Append(SubSeq(cmd, 1, i), cmd[i + 1])),
                   n + 1)
    <3> DEFINE count == N - i
               cmds == SubSeq(cmd, 1, i)
               word == cmd[i + 1]
    <3>1. count \in Nat /\ count # 0 /\ word # NoWord
      BY <2>3, <2>7
    <3> HIDE DEF count, cmds, word
    <3>2. ParseLine(Parser(Ctx(1, count, 1, cmds), n), WordLine(word))
            = Parser(Ctx(StateAfter(count), count - 1, 0, Append(cmds, word)), n + 1)
      BY <3>1, WordParsed
    <3> QED  BY <3>2 DEF count, cmds, word
  <2> QED  BY <2>4, <2>6, <2>7, <2>8
<1>8. ASSUME k # 0
      PROVE  Goal
  <2>1. \E i \in 0 .. N - 1 : k = 2 * i + 1 \/ k = 2 * i + 2
    <3>1. (k - 1) \div 2 \in 0 .. N - 1
      BY <1>0, <1>8
    <3>2. k = 2 * ((k - 1) \div 2) + 1 \/ k = 2 * ((k - 1) \div 2) + 2
      BY <1>0, <1>8
    <3> QED  BY <3>1, <3>2
  <2> HIDE DEF Goal
  <2> QED  BY <1>6, <1>7, <2>1
<1> QED
  BY <1>3, <1>4, <1>5, <1>8 DEF l

\* The lines that come, taken one after the other.
LEMMA ParsedOrderly ==
  ASSUME NEW cmd, Orderly(cmd), NEW j \in 0 .. 2 * Len(cmd) + 1, NEW lines, NEW n \in Nat,
         Len(lines) = n, j + n <= 2 * Len(cmd) + 1,
         \A i \in 1 .. n : lines[i] = CmdLines(cmd)[j + i]
  PROVE  Parsed(ContextAt(cmd, j), lines) = After(cmd, j, n)
<1> DEFINE first == [ctx |-> ContextAt(cmd, j), bad |-> FALSE, used |-> 0]
           eq(p) == p = [i \in 0 .. n |-> IF i = 0 THEN first ELSE ParseLine(p[i - 1], lines[i])]
           F == CHOOSE p : eq(p)
           g == [i \in 0 .. n |-> After(cmd, j, i)]
<1>1. first = After(cmd, j, 0)
  BY j + 0 = j DEF After
<1>2. ASSUME NEW i \in 1 .. n
      PROVE  ParseLine(After(cmd, j, i - 1), lines[i]) = After(cmd, j, i)
  <2> DEFINE k == j + (i - 1)
  <2>1. /\ Len(cmd) \in Nat /\ i - 1 \in Nat /\ k \in 0 .. 2 * Len(cmd) /\ j \in 0 .. k
        /\ i - 1 = k - j /\ (i - 1) + 1 = i /\ k + 1 = j + i
    BY DEF Orderly
  <2> HIDE DEF k
  <2>2. ParseLine(After(cmd, j, i - 1), CmdLines(cmd)[k + 1]) = After(cmd, j, (i - 1) + 1)
    BY <2>1, LineParsed
  <2> QED  BY <2>1, <2>2
<1>3. eq(g)
  <2>1. \A i \in 0 .. n : g[i] = IF i = 0 THEN first ELSE ParseLine(g[i - 1], lines[i])
    <3>1. ASSUME NEW i \in 0 .. n, i # 0
          PROVE  g[i] = ParseLine(g[i - 1], lines[i])
      <4>1. i \in 1 .. n /\ i - 1 \in 0 .. n
        BY <3>1
      <4> QED  BY <4>1, <1>2
    <3> HIDE DEF first
    <3> QED  BY <1>1, <3>1
  <2> QED  BY <2>1
<1>4. eq(F)
  <2> HIDE DEF eq
  <2> QED  BY <1>3
<1>5. Parsed(ContextAt(cmd, j), lines) = F[n]
  BY DEF Parsed
<1> HIDE DEF F
<1>6. F[0] = first /\ \A i \in 1 .. n : F[i] = ParseLine(F[i - 1], lines[i])
  <2>1. F[0] = first
    BY <1>4
  <2>2. ASSUME NEW i \in 1 .. n PROVE F[i] = ParseLine(F[i - 1], lines[i])
    <3>1. i \in 0 .. n /\ i # 0
      OBVIOUS
    <3> QED  BY <1>4, <3>1
  <2> QED  BY <2>1, <2>2
<1> DEFINE S == {i \in Nat : i <= n => F[i] = After(cmd, j, i)}
<1>7. 0 \in S
  BY <1>1, <1>6
<1>8. ASSUME NEW i \in Nat, i < n, i \in S
      PROVE  i + 1 \in S
  <2>1. i + 1 \in 1 .. n /\ (i + 1) - 1 = i
    BY <1>8
  <2>2. F[i + 1] = ParseLine(F[i], lines[i + 1]) /\ F[i] = After(cmd, j, i)
    BY <1>6, <1>8, <2>1
  <2>3. F[i + 1] = After(cmd, j, i + 1)
    BY <1>2, <2>1, <2>2
  <2> QED  BY <2>3
<1>9. \A i \in 0 .. n : i \in S
  <2> HIDE DEF S
  <2> QED  BY <1>7, <1>8, InductionUpTo
<1> QED
  BY <1>5, <1>9

-------------------------------------------------------------------------------
\* The replies: whose they are and what they answer, for an order o.
Answered(c, o) == Cardinality({j \in 1 .. Len(o) : o[j] = c})
NthIn(o, i) == Cardinality({j \in 1 .. i : o[j] = o[i]})
CommandOf(o, i) == Commands[o[i]][NthIn(o, i)]

StoresOf(o, g) ==
  g = [n \in 0 .. Len(o) |-> IF n = 0 THEN [k \in {} |-> NoWord]
                             ELSE Execute(CommandOf(o, n), g[n - 1]).db]
Served(o, rep, st) ==
  \E g : /\ StoresOf(o, g) /\ st = g[Len(o)]
         /\ \A i \in 1 .. Len(o) :
              rep[o[i]][NthIn(o, i)] = Execute(CommandOf(o, i), g[i - 1]).reply

LEMMA AppendAny ==
  ASSUME NEW s, s \in Seq(Range(s)), NEW x
  PROVE  LET t == Append(s, x)
         IN  /\ t \in Seq(Range(t)) /\ Len(s) \in Nat /\ Len(t) = Len(s) + 1
             /\ t[Len(s) + 1] = x /\ \A i \in 1 .. Len(s) : t[i] = s[i]
<1> DEFINE T == Range(s) \cup {x}
           t == Append(s, x)
<1>1. s \in Seq(T)
  <2> DEFINE R == Range(s)
  <2>1. s \in Seq(R)
    OBVIOUS
  <2> HIDE DEF R
  <2> QED  BY <2>1
<1> HIDE DEF T
<1>2. x \in T
  BY DEF T
<1>3. /\ t \in Seq(T) /\ Len(s) \in Nat /\ Len(t) = Len(s) + 1
      /\ t[Len(s) + 1] = x /\ \A i \in 1 .. Len(s) : t[i] = s[i]
  BY <1>1, <1>2
<1> HIDE DEF t
<1>4. t \in Seq(Range(t))
  <2>1. \A i \in 1 .. Len(t) : t[i] \in Range(t)
    <3>1. DOMAIN t = 1 .. Len(t)
      BY <1>3
    <3> QED  BY <3>1 DEF Range
  <2>2. t = [i \in 1 .. Len(t) |-> t[i]] /\ Len(t) \in Nat
    BY <1>3
  <2> QED  BY <2>1, <2>2
<1> QED
  BY <1>3, <1>4 DEF t

LEMMA AnsweredCount ==
  ASSUME NEW o \in Seq(Client), NEW c \in Client
  PROVE  Answered(c, o) \in Nat /\ \A i \in 1 .. Len(o) : NthIn(o, i) \in 1 .. Answered(o[i], o)
<1>1. \A n \in Nat : IsFiniteSet(1 .. n)
  BY FS_Interval
<1>2. ASSUME NEW d
      PROVE  IsFiniteSet({j \in 1 .. Len(o) : o[j] = d}) /\ Answered(d, o) \in Nat
  <2>1. IsFiniteSet({j \in 1 .. Len(o) : o[j] = d})
    BY <1>1, FS_Subset, Len(o) \in Nat
  <2> QED  BY <2>1, FS_CardinalityType DEF Answered
<1>3. ASSUME NEW i \in 1 .. Len(o)
      PROVE  NthIn(o, i) \in 1 .. Answered(o[i], o)
  <2> DEFINE A == {j \in 1 .. i : o[j] = o[i]}
             B == {j \in 1 .. Len(o) : o[j] = o[i]}
  <2>1. A \subseteq B /\ i \in A
    OBVIOUS
  <2>2. IsFiniteSet(B)
    BY <1>2
  <2> HIDE DEF A, B
  <2>3. IsFiniteSet(A) /\ Cardinality(A) <= Cardinality(B)
    BY <2>1, <2>2, FS_Subset
  <2>4. Cardinality(A) # 0 /\ Cardinality(A) \in Nat /\ Cardinality(B) \in Nat
    BY <2>1, <2>2, <2>3, FS_EmptySet, FS_CardinalityType
  <2>5. Cardinality(A) \in 1 .. Cardinality(B)
    BY <2>3, <2>4
  <2> QED  BY <2>5 DEF A, B, NthIn, Answered
<1> QED
  BY <1>2, <1>3

LEMMA AnsweredMore ==
  ASSUME NEW o \in Seq(Client), NEW c \in Client
  PROVE  LET p == Append(o, c)
         IN  /\ p \in Seq(Client) /\ Len(p) = Len(o) + 1 /\ p[Len(o) + 1] = c
             /\ Answered(c, p) = Answered(c, o) + 1
             /\ \A d \in Client \ {c} : Answered(d, p) = Answered(d, o)
             /\ NthIn(p, Len(o) + 1) = Answered(c, o) + 1
             /\ \A i \in 1 .. Len(o) : p[i] = o[i] /\ NthIn(p, i) = NthIn(o, i)
<1> DEFINE p == Append(o, c)
           N == Len(o)
<1>1. /\ N \in Nat /\ p \in Seq(Client) /\ Len(p) = N + 1 /\ p[N + 1] = c
      /\ \A i \in 1 .. N : p[i] = o[i]
  OBVIOUS
<1> HIDE DEF p
<1>2. Cardinality({j \in 1 .. N + 1 : p[j] = c}) = Answered(c, o) + 1
  <2> DEFINE A == {j \in 1 .. N : o[j] = c}
  <2>1. {j \in 1 .. N + 1 : p[j] = c} = A \cup {N + 1} /\ N + 1 \notin A
    BY <1>1
  <2>2. IsFiniteSet(A)
    <3>1. IsFiniteSet(1 .. N)
      BY FS_Interval, <1>1
    <3> QED  BY <3>1, FS_Subset
  <2> HIDE DEF A
  <2>3. Cardinality(A \cup {N + 1}) = Cardinality(A) + 1
    BY <2>1, <2>2, FS_AddElement
  <2> QED  BY <2>1, <2>3 DEF A, Answered
<1>3. Answered(c, p) = Answered(c, o) + 1 /\ NthIn(p, N + 1) = Answered(c, o) + 1
  BY <1>1, <1>2 DEF Answered, NthIn
<1>4. ASSUME NEW d \in Client \ {c}
      PROVE  Answered(d, p) = Answered(d, o)
  <2>1. {j \in 1 .. N + 1 : p[j] = d} = {j \in 1 .. N : o[j] = d}
    BY <1>1
  <2> QED  BY <1>1, <2>1 DEF Answered
<1>5. ASSUME NEW i \in 1 .. N
      PROVE  NthIn(p, i) = NthIn(o, i)
  <2>1. {j \in 1 .. i : p[j] = p[i]} = {j \in 1 .. i : o[j] = o[i]}
    BY <1>1
  <2> QED  BY <2>1 DEF NthIn
<1> QED
  BY <1>1, <1>3, <1>4, <1>5 DEF p

LEMMA ServedMore ==
  ASSUME NEW o \in Seq(Client), NEW c \in Client, NEW rep, DOMAIN rep = Client,
         \A d \in Client : rep[d] \in Seq(Range(rep[d])) /\ Len(rep[d]) = Answered(d, o),
         NEW st, Served(o, rep, st), NEW x, x = Execute(Commands[c][Answered(c, o) + 1], st)
  PROVE  Served(Append(o, c), [rep EXCEPT ![c] = Append(@, x.reply)], x.db)
<1> DEFINE p == Append(o, c)
           N == Len(o)
           rep2 == [rep EXCEPT ![c] = Append(rep[c], x.reply)]
<1>0. N \in Nat
  OBVIOUS
<1>1. PICK g : /\ StoresOf(o, g) /\ st = g[N]
               /\ \A i \in 1 .. N :
                    rep[o[i]][NthIn(o, i)] = Execute(CommandOf(o, i), g[i - 1]).reply
  BY DEF Served
<1>2. /\ N \in Nat /\ p \in Seq(Client) /\ Len(p) = N + 1 /\ p[N + 1] = c
      /\ NthIn(p, N + 1) = Answered(c, o) + 1
      /\ \A i \in 1 .. N : p[i] = o[i] /\ NthIn(p, i) = NthIn(o, i)
  BY AnsweredMore
<1>3. CommandOf(p, N + 1) = Commands[c][Answered(c, o) + 1]
      /\ \A i \in 1 .. N : CommandOf(p, i) = CommandOf(o, i)
  BY <1>2 DEF CommandOf
<1> DEFINE h == [n \in 0 .. N + 1 |-> IF n = N + 1 THEN x.db ELSE g[n]]
<1>4. /\ g[0] = [k \in {} |-> NoWord]
      /\ \A n \in 1 .. N : g[n] = Execute(CommandOf(o, n), g[n - 1]).db
  <2>1. g[0] = [k \in {} |-> NoWord]
    BY <1>1, <1>2 DEF StoresOf
  <2>2. ASSUME NEW n \in 1 .. N PROVE g[n] = Execute(CommandOf(o, n), g[n - 1]).db
    <3>1. n \in 0 .. N /\ n # 0
      BY <1>0
    <3> QED  BY <1>1, <3>1 DEF StoresOf
  <2> QED  BY <2>1, <2>2
<1> HIDE DEF p
<1>5. ASSUME NEW n \in 0 .. N + 1
      PROVE  h[n] = IF n = 0 THEN [k \in {} |-> NoWord] ELSE Execute(CommandOf(p, n), h[n - 1]).db
  <2>1. CASE n = 0
    <3>1. n # N + 1 /\ 0 \in 0 .. N + 1
      BY <1>0, <2>1
    <3> QED  BY <1>4, <2>1, <3>1
  <2>2. CASE n \in 1 .. N
    <3>1. n # N + 1 /\ n - 1 \in 0 .. N + 1 /\ n - 1 # N + 1 /\ n # 0
      BY <1>0, <2>2
    <3>2. h[n] = g[n] /\ h[n - 1] = g[n - 1]
      BY <3>1
    <3> QED  BY <1>3, <1>4, <2>2, <3>1, <3>2
  <2>3. CASE n = N + 1
    <3>1. n - 1 = N /\ N \in 0 .. N + 1 /\ N # N + 1 /\ n # 0
      BY <1>0, <2>3
    <3>2. h[n] = x.db /\ h[n - 1] = st
      BY <1>1, <2>3, <3>1
    <3> QED  BY <1>3, <2>3, <3>1, <3>2
  <2>4. n = 0 \/ n \in 1 .. N \/ n = N + 1
    BY <1>0
  <2> HIDE DEF h
  <2> QED  BY <2>1, <2>2, <2>3, <2>4
<1>6. StoresOf(p, h)
  <2>1. h = [n \in 0 .. N + 1 |-> IF n = 0 THEN [k \in {} |-> NoWord]
                                  ELSE Execute(CommandOf(p, n), h[n - 1]).db]
    <3>1. h = [n \in 0 .. N + 1 |-> h[n]]
      OBVIOUS
    <3> HIDE DEF h
    <3> QED  BY <1>5, <3>1
  <2> QED  BY <1>2, <2>1 DEF StoresOf
<1>7. h[Len(p)] = x.db
  BY <1>0, <1>2
<1>8. ASSUME NEW i \in 1 .. N + 1
      PROVE  rep2[p[i]][NthIn(p, i)] = Execute(CommandOf(p, i), h[i - 1]).reply
  <2>1. LET t == Append(rep[c], x.reply)
        IN  /\ Len(rep[c]) \in Nat /\ t[Len(rep[c]) + 1] = x.reply
            /\ \A j \in 1 .. Len(rep[c]) : t[j] = rep[c][j]
    BY AppendAny
  <2>2. CASE i = N + 1
    <3>1. p[i] = c /\ NthIn(p, i) = Len(rep[c]) + 1 /\ rep2[c] = Append(rep[c], x.reply)
      BY <1>2, <2>2
    <3>2. i - 1 = N /\ N \in 0 .. N + 1 /\ N # N + 1
      BY <1>0, <2>2
    <3>3. h[i - 1] = st
      BY <1>1, <3>2
    <3> HIDE DEF h, rep2
    <3> QED  BY <1>3, <2>1, <2>2, <3>1, <3>3
  <2>3. CASE i \in 1 .. N
    <3>1. i - 1 \in 0 .. N + 1 /\ i - 1 # N + 1
      BY <1>0, <2>3
    <3>2. h[i - 1] = g[i - 1]
      BY <3>1
    <3>3. NthIn(o, i) \in 1 .. Len(rep[o[i]]) /\ o[i] \in Client
      BY <2>3, AnsweredCount
    <3>4. rep2[o[i]][NthIn(o, i)] = rep[o[i]][NthIn(o, i)]
      <4>1. CASE o[i] = c
        BY <2>1, <3>3, <4>1
      <4>2. CASE o[i] # c
        BY <3>3, <4>2
      <4> QED  BY <4>1, <4>2
    <3> HIDE DEF h, rep2
    <3> QED  BY <1>1, <1>2, <1>3, <2>3, <3>2, <3>4
  <2>4. i = N + 1 \/ i \in 1 .. N
    BY <1>0
  <2> HIDE DEF h, rep2
  <2> QED  BY <2>2, <2>3, <2>4
<1> HIDE DEF h, rep2
<1>9. Served(p, rep2, x.db)
  BY <1>2, <1>6, <1>7, <1>8 DEF Served
<1> QED
  BY <1>9 DEF p, rep2

LEMMA LinesTyped ==
  ASSUME NEW c \in Client
  PROVE  Commands[c] \in Seq(Seq(Word)) /\ \E T : AllLines(c) \in Seq(T)
<1> DEFINE N == Len(Commands[c])
           line(i) == CmdLines(Commands[c][i])
           T == UNION {Range(line(i)) : i \in 1 .. N}
           P == [i \in 1 .. N |-> line(i)]
<1>1. Commands[c] \in Seq(Seq(Word)) /\ N \in Nat /\ DOMAIN Commands[c] = 1 .. N
      /\ \A i \in 1 .. N : Len(Commands[c][i]) \in Nat
  BY MemAssumption DEF MemAssumption
<1>2. ASSUME NEW i \in 1 .. N
      PROVE  line(i) \in Seq(T)
  <2>1. line(i) \in Seq(Range(line(i)))
    BY <1>1, LinesOfCommand
  <2>2. Range(line(i)) \subseteq T
    OBVIOUS
  <2> HIDE DEF line, T
  <2> QED  BY <2>1, <2>2
<1>3. AllLines(c) = FlattenSeq(P)
  BY <1>1 DEF AllLines
<1>4. P \in Seq(Seq(T))
  <2> HIDE DEF line, T
  <2> QED  BY <1>1, <1>2
<1> HIDE DEF P, T
<1>5. AllLines(c) \in Seq(T)
  BY <1>3, <1>4, FlattenTyped
<1> QED
  BY <1>1, <1>5

\* A client between two of its lines: what it has sent is answered, but for a part of
\* the next command, which the parser keeps in the context.
ParserAt(c, kept, sent, ctx, n) ==
  /\ n \in 0 .. Len(Commands[c]) /\ kept = <<>> /\ sent \in Nat
  /\ n = Len(Commands[c]) => sent = LinesUpTo(c, n) /\ ctx = NewContext
  /\ n < Len(Commands[c]) =>
       LET k == sent - LinesUpTo(c, n)
           cmd == Commands[c][n + 1]
       IN  k \in 0 .. 2 * Len(cmd) /\ ctx = ContextAt(cmd, k)

OfClients(f) == f = [c \in Client |-> f[c]]

MemShape ==
  /\ OfClients(memBuffer) /\ OfClients(sentLines) /\ OfClients(context) /\ OfClients(replies)
  /\ order \in Seq(Client)
  /\ \A c \in Client : replies[c] \in Seq(Range(replies[c])) /\ Len(replies[c]) = Answered(c, order)

MemInv ==
  /\ MemShape
  /\ orderly = Client =>
       /\ \A c \in Client :
            ParserAt(c, memBuffer[c], sentLines[c], context[c], Answered(c, order))
       /\ Served(order, replies, db)

LEMMA NoLines ==
  ASSUME NEW c \in Client
  PROVE  LinesUpTo(c, 0) = 0
<1>1. [i \in 1 .. 0 |-> CmdLines(Commands[c][i])] = <<>>
  OBVIOUS
<1>2. LinesUpTo(c, 0) = Len(FlattenSeq(<<>>))
  BY <1>1 DEF LinesUpTo
<1> QED
  BY <1>2, FlattenEmpty

LEMMA MemInitInv == MemInit => MemInv
<1> SUFFICES ASSUME MemInit PROVE MemInv
  OBVIOUS
<1>1. ASSUME NEW c \in Client
      PROVE  Answered(c, order) = 0 /\ replies[c] = <<>>
  <2>1. order = <<>> /\ Len(<<>>) = 0 /\ replies[c] = <<>>
    BY DEF MemInit
  <2>2. {j \in 1 .. 0 : order[j] = c} = {}
    OBVIOUS
  <2> QED  BY <2>1, <2>2, FS_EmptySet DEF Answered
<1>2. MemShape
  <2>1. ASSUME NEW c \in Client
        PROVE  replies[c] \in Seq(Range(replies[c])) /\ Len(replies[c]) = Answered(c, order)
    <3>1. \A S : <<>> \in Seq(S)
      OBVIOUS
    <3>2. Len(<<>>) = 0
      OBVIOUS
    <3> QED  BY <1>1, <3>1, <3>2
  <2>2. order \in Seq(Client)
    BY DEF MemInit
  <2> QED  BY <2>1, <2>2 DEF MemInit, MemShape, OfClients
<1>3. ASSUME NEW c \in Client
      PROVE  ParserAt(c, memBuffer[c], sentLines[c], context[c], Answered(c, order))
  <2>1. memBuffer[c] = <<>> /\ sentLines[c] = 0 /\ context[c] = NewContext
    BY DEF MemInit
  <2>2. \A cmd : ContextAt(cmd, 0) = NewContext
    BY DEF ContextAt
  <2>3. Len(Commands[c]) \in Nat /\ \A i \in 1 .. Len(Commands[c]) : Len(Commands[c][i]) \in Nat
    BY LinesTyped
  <2> QED  BY <1>1, <2>1, <2>2, <2>3, NoLines DEF ParserAt
<1>4. Served(order, replies, db)
  <2> DEFINE none == [k \in {} |-> NoWord]
             g == [n \in 0 .. 0 |-> none]
  <2>1. order = <<>> /\ db = none /\ Len(order) = 0
    BY DEF MemInit
  <2>2. StoresOf(order, g)
    <3>1. g = [n \in 0 .. 0 |-> IF n = 0 THEN none ELSE Execute(CommandOf(order, n), g[n - 1]).db]
      <4>1. \A n \in 0 .. 0 : g[n] = IF n = 0 THEN none
                                     ELSE Execute(CommandOf(order, n), g[n - 1]).db
        OBVIOUS
      <4> HIDE DEF none
      <4> QED  BY <4>1
    <3> QED  BY <2>1, <3>1 DEF StoresOf
  <2>3. db = g[Len(order)] /\ 1 .. Len(order) = {}
    BY <2>1
  <2> HIDE DEF g
  <2> QED  BY <2>2, <2>3 DEF Served
<1> QED
  BY <1>2, <1>3, <1>4 DEF MemInv

\* A whole command resets the context.
LEMMA WholeCommand ==
  ASSUME NEW cmd, Orderly(cmd)
  PROVE  LET ctx == ContextAt(cmd, 2 * Len(cmd) + 1)
         IN  ctx.state = 2 /\ ctx.cmds = cmd /\ AfterCommand(ctx) = NewContext
<1> DEFINE N == Len(cmd)
           ctx == ContextAt(cmd, 2 * N + 1)
<1>1. N \in Nat /\ 2 * N + 1 # 0 /\ (2 * N + 1) - 1 = 2 * N /\ (2 * N) \div 2 = N
      /\ (2 * N + 1) % 2 = 1
      /\ SubSeq(cmd, 1, N) = cmd /\ N - N = 0
  <2>1. cmd \in Seq(Word)
    BY DEF Orderly
  <2>2. SubSeq(cmd, 1, N) = cmd
    BY <2>1
  <2>3. N \in Nat
    BY <2>1
  <2> HIDE DEF N
  <2>4. (2 * N) \div 2 = N /\ (2 * N + 1) % 2 = 1
    BY <2>3, Halves
  <2> QED  BY <2>2, <2>3, <2>4
<1>2. ctx = Ctx(2, 0, 0, cmd)
  BY <1>1 DEF ContextAt, Ctx
<1>3. ~(cmd[1] = "GET" /\ N < 2)
  <2> SUFFICES ASSUME cmd[1] = "GET", N < 2 PROVE FALSE
    OBVIOUS
  <2>1. cmd \in Seq(Word) /\ cmd # <<>> /\ cmd # <<"GET">>
    BY DEF Orderly
  <2>2. N = 1
    BY <1>1, <2>1
  <2>3. cmd = <<cmd[1]>>
    BY <2>1, <2>2
  <2> QED  BY <2>1, <2>3
<1> HIDE DEF ctx
<1>4. ctx.state = 2 /\ ctx.cmds = cmd
  BY <1>2 DEF Ctx
<1>5. AfterCommand(ctx) = [ctx EXCEPT !.cmds = <<>>, !.state = 0]
  BY <1>3, <1>4 DEF AfterCommand
<1>6. [ctx EXCEPT !.cmds = <<>>, !.state = 0] = NewContext
  <2> DEFINE emptied == [ctx EXCEPT !.cmds = <<>>]
  <2>1. emptied = Ctx(2, 0, 0, <<>>)
    BY <1>2 DEF Ctx
  <2>2. [ctx EXCEPT !.cmds = <<>>, !.state = 0] = [emptied EXCEPT !.state = 0]
    OBVIOUS
  <2> HIDE DEF emptied
  <2>3. [emptied EXCEPT !.state = 0] = NewContext
    BY <2>1 DEF Ctx, NewContext
  <2> QED  BY <2>2, <2>3
<1> QED
  BY <1>4, <1>5, <1>6 DEF ctx

LEMMA NothingParsed ==
  ASSUME NEW ctx
  PROVE  Parsed(ctx, <<>>) = [ctx |-> ctx, bad |-> FALSE, used |-> 0]
<1> DEFINE first == [ctx |-> ctx, bad |-> FALSE, used |-> 0]
           eq(p) == p = [i \in 0 .. 0 |-> IF i = 0 THEN first ELSE ParseLine(p[i - 1], <<>>[i])]
           F == CHOOSE p : eq(p)
<1>1. eq([i \in 0 .. 0 |-> first])
  <2> DEFINE g == [i \in 0 .. 0 |-> first]
  <2>1. \A i \in 0 .. 0 : g[i] = IF i = 0 THEN first ELSE ParseLine(g[i - 1], <<>>[i])
    OBVIOUS
  <2> HIDE DEF first
  <2> QED  BY <2>1
<1>2. eq(F)
  <2> HIDE DEF eq
  <2> QED  BY <1>1
<1>3. Len(<<>>) = 0
  OBVIOUS
<1>4. Parsed(ctx, <<>>) = F[0]
  BY <1>3 DEF Parsed
<1> HIDE DEF F
<1>5. F[0] = first
  <2> HIDE DEF first
  <2> QED  BY <1>2
<1> QED
  BY <1>4, <1>5

\* A client that sends a part of a line, or nothing new.
LEMMA NothingSent ==
  ASSUME NEW c \in Client, MemInv, orderly = Client, MemOnMessage(c, 0)
  PROVE  UNCHANGED <<memBuffer, context, db, replies, order>>
<1> DEFINE lines == memBuffer[c] \o SubSeq(AllLines(c), sentLines[c] + 1, sentLines[c] + 0)
           N == Answered(c, order)
<1>1. PICK T : AllLines(c) \in Seq(T)
  BY LinesTyped
<1>2. /\ ParserAt(c, memBuffer[c], sentLines[c], context[c], N)
      /\ OfClients(memBuffer) /\ OfClients(context)
  BY DEF MemInv, MemShape
<1>3. memBuffer[c] = <<>> /\ sentLines[c] \in Nat
  BY <1>2 DEF ParserAt
<1>4. lines = <<>>
  <2> DEFINE s == sentLines[c]
  <2>1. s \in Nat
    BY <1>3
  <2> HIDE DEF s
  <2>2. SubSeq(AllLines(c), s + 1, s + 0) = <<>>
    BY <1>1, <2>1
  <2> QED  BY <1>3, <2>2 DEF s
<1>5. context[c].state # 2
  <2>1. CASE N = Len(Commands[c])
    BY <1>2, <2>1 DEF ParserAt, NewContext
  <2>2. CASE N # Len(Commands[c])
    <3> DEFINE k == sentLines[c] - LinesUpTo(c, N)
               cmd == Commands[c][N + 1]
    <3>1. k \in 0 .. 2 * Len(cmd) /\ context[c] = ContextAt(cmd, k) /\ Len(cmd) \in Nat
      <4>1. N < Len(Commands[c]) /\ N \in Nat
        BY <1>2, <2>2 DEF ParserAt
      <4>2. Commands[c] \in Seq(Seq(Word))
        BY LinesTyped
      <4>3. Len(cmd) \in Nat
        BY <4>1, <4>2
      <4> HIDE DEF N
      <4> QED  BY <1>2, <4>1, <4>3 DEF ParserAt
    <3> HIDE DEF k, cmd
    <3>2. k # 2 * Len(cmd) + 1
      BY <3>1
    <3> QED  BY <3>1, <3>2 DEF ContextAt, NewContext
  <2> QED  BY <2>1, <2>2
<1> HIDE DEF lines
<1>6. Parsed(context[c], lines).ctx = context[c] /\ Parsed(context[c], lines).used = 0
  BY <1>4, NothingParsed
<1>7. Len(<<>>) = 0 /\ SubSeq(<<>>, 0 + 1, 0) = <<>>
  OBVIOUS
<1>8. /\ memBuffer' = [memBuffer EXCEPT ![c] = <<>>]
      /\ context' = [context EXCEPT ![c] = context[c]]
      /\ UNCHANGED <<db, replies, order>>
  BY <1>4, <1>5, <1>6, <1>7 DEF MemOnMessage, lines
<1> QED
  BY <1>2, <1>3, <1>8 DEF OfClients

\* A client that sends lines of the command after its last answer.
LEMMA LinesSent ==
  ASSUME NEW c \in Client, NEW n \in Nat, n # 0, MemInv, orderly = Client,
         MemOnMessage(c, n), Waits(c, n)
  PROVE  LET N == Answered(c, order)
             cmd == Commands[c][N + 1]
             x == Execute(cmd, db)
         IN  /\ memBuffer' = [memBuffer EXCEPT ![c] = <<>>]
             /\ N < Len(Commands[c])
             /\ \/ /\ sentLines[c] + n < LinesUpTo(c, N + 1)
                   /\ context' = [context EXCEPT ![c] =
                                    ContextAt(cmd, (sentLines[c] + n) - LinesUpTo(c, N))]
                   /\ UNCHANGED <<db, replies, order>>
                \/ /\ sentLines[c] + n = LinesUpTo(c, N + 1)
                   /\ context' = [context EXCEPT ![c] = NewContext]
                   /\ db' = x.db /\ order' = Append(order, c)
                   /\ replies' = [replies EXCEPT ![c] = Append(replies[c], x.reply)]
<1> DEFINE N == Answered(c, order)
           cmd == Commands[c][N + 1]
           x == Execute(cmd, db)
           s == sentLines[c]
           all == AllLines(c)
           lines == memBuffer[c] \o SubSeq(all, s + 1, s + n)
           L == LinesUpTo(c, N)
           k == s - L
           M == 2 * Len(cmd) + 1
<1>1. PICK T : all \in Seq(T)
  BY LinesTyped
<1>2. ParserAt(c, memBuffer[c], s, context[c], N) /\ Len(replies[c]) = N
  BY DEF MemInv, MemShape
<1>3. /\ N \in Nat /\ N + 1 <= Len(Commands[c]) /\ s + n <= LinesUpTo(c, N + 1)
      /\ NoWord \notin ToSet(cmd) /\ cmd \notin {<<>>, <<"GET">>}
  BY <1>2 DEF Waits, ParserAt
<1>4. Orderly(cmd) /\ Len(cmd) \in Nat /\ N < Len(Commands[c])
  <2>1. Commands[c] \in Seq(Seq(Word))
    BY LinesTyped
  <2> HIDE DEF N
  <2>2. N + 1 \in 1 .. Len(Commands[c])
    BY <1>3, <2>1
  <2>3. cmd \in Seq(Word)
    BY <2>1, <2>2
  <2> QED  BY <1>3, <2>1, <2>3 DEF Orderly
<1>5. /\ L \in Nat /\ LinesUpTo(c, N + 1) = L + M /\ LinesUpTo(c, N + 1) <= Len(all)
      /\ \A i \in 1 .. M : all[L + i] = CmdLines(cmd)[i]
  <2>1. Len(CmdLines(cmd)) = M
    BY <1>4, LinesOfCommand
  <2> HIDE DEF N, M
  <2> QED  BY <1>3, <1>4, <2>1, LinesInStream
<1>6. memBuffer[c] = <<>> /\ s \in Nat /\ k \in 0 .. 2 * Len(cmd) /\ context[c] = ContextAt(cmd, k)
  <2> HIDE DEF N
  <2> QED  BY <1>2, <1>4 DEF ParserAt
<1> HIDE DEF N, cmd, s, all, L
<1>7. /\ s = L + k /\ k \in Nat /\ M \in Nat /\ k + n <= M /\ k \in 0 .. M
      /\ s + n <= Len(all) /\ Len(all) \in Nat
  <2>1. M \in Nat /\ k \in 0 .. M /\ k \in Nat
    BY <1>4, <1>6
  <2>2. s = L + k
    BY <1>5, <1>6
  <2>3. Len(all) \in Nat
    BY <1>1
  <2> HIDE DEF M, k
  <2> QED  BY <1>3, <1>5, <2>1, <2>2, <2>3
<1>8. lines \in Seq(T) /\ Len(lines) = n /\ \A i \in 1 .. n : lines[i] = CmdLines(cmd)[k + i]
  <2> DEFINE some == SubSeq(all, s + 1, s + n)
  <2>1. /\ some \in Seq(T) /\ Len(some) = n /\ \A i \in 1 .. n : some[i] = all[s + i]
    <3> DEFINE lo == s + 1
               hi == s + n
    <3>1. lo \in Int /\ hi \in Int /\ lo <= hi /\ hi - lo + 1 = n
          /\ \A i \in 1 .. n : lo + i - 1 = s + i
      <4>1. s \in Nat
        BY <1>6
      <4> QED  BY <4>1
    <3>2. \A i \in lo .. hi : all[i] \in T
      BY <1>1, <1>6, <1>7
    <3> HIDE DEF lo, hi
    <3>3. /\ SubSeq(all, lo, hi) \in Seq(T)
          /\ Len(SubSeq(all, lo, hi)) = hi - lo + 1
          /\ \A i \in 1 .. hi - lo + 1 : SubSeq(all, lo, hi)[i] = all[lo + i - 1]
      BY <3>1, <3>2, SubSeqProperties
    <3> QED  BY <3>1, <3>3 DEF lo, hi
  <2> HIDE DEF some
  <2>2. lines = some
    BY <1>6, <2>1 DEF some
  <2>3. ASSUME NEW i \in 1 .. n PROVE some[i] = CmdLines(cmd)[k + i]
    <3>1. k + i \in 1 .. M /\ s + i = L + (k + i)
      BY <1>5, <1>7
    <3> HIDE DEF k, M
    <3> QED  BY <1>5, <2>1, <3>1
  <2> QED  BY <2>1, <2>2, <2>3
<1> HIDE DEF k, lines
<1> DEFINE p == Parsed(context[c], lines)
<1>9. p = After(cmd, k, n)
  BY <1>4, <1>6, <1>7, <1>8, ParsedOrderly
<1> HIDE DEF p
<1>10. p.ctx = ContextAt(cmd, k + n) /\ p.used = n
  BY <1>9 DEF After
<1>11. SubSeq(lines, n + 1, n) = <<>>
  BY <1>8
<1>12. memBuffer' = [memBuffer EXCEPT ![c] = <<>>]
  BY <1>8, <1>10, <1>11 DEF MemOnMessage, lines, p, s, all
<1>13. IF p.ctx.state = 2
       THEN /\ context' = [context EXCEPT ![c] = AfterCommand(p.ctx)]
            /\ db' = Execute(p.ctx.cmds, db).db
            /\ replies' = [replies EXCEPT ![c] =
                             Append(replies[c], Execute(p.ctx.cmds, db).reply)]
            /\ order' = Append(order, c)
       ELSE /\ context' = [context EXCEPT ![c] = p.ctx]
            /\ UNCHANGED <<db, replies, order>>
  BY DEF MemOnMessage, lines, p, s, all
<1>14. CASE k + n = M
  <2>1. p.ctx.state = 2 /\ p.ctx.cmds = cmd /\ AfterCommand(p.ctx) = NewContext
    BY <1>4, <1>10, <1>14, WholeCommand
  <2>2. s + n = LinesUpTo(c, N + 1)
    BY <1>5, <1>7, <1>14
  <2> HIDE DEF M
  <2> QED  BY <1>4, <1>12, <1>13, <2>1, <2>2 DEF N, cmd, s, x
<1>15. CASE k + n # M
  <2>1. p.ctx.state # 2
    <3>1. k + n # 0
      BY <1>7
    <3> QED  BY <1>10, <1>15, <3>1 DEF ContextAt
  <2>2. s + n < LinesUpTo(c, N + 1) /\ (s + n) - L = k + n
    <3> HIDE DEF M
    <3>1. k + n < M
      BY <1>7, <1>15
    <3> QED  BY <1>5, <1>7, <3>1
  <2> HIDE DEF M, p
  <2> QED  BY <1>4, <1>10, <1>12, <1>13, <2>1, <2>2 DEF N, cmd, s, L
<1> QED
  BY <1>14, <1>15

LEMMA MemSendInv ==
  ASSUME NEW c \in Client, MemInv, ClientSends(c)
  PROVE  MemInv'
<1>1. PICK n \in 0 .. Len(AllLines(c)) - sentLines[c] :
         /\ MemOnMessage(c, n)
         /\ sentLines' = [sentLines EXCEPT ![c] = @ + n]
         /\ orderly' = IF n = 0 \/ Waits(c, n) THEN orderly ELSE orderly \ {c}
  BY DEF ClientSends
<1>2. MemShape'
  <2> DEFINE lines == memBuffer[c] \o SubSeq(AllLines(c), sentLines[c] + 1, sentLines[c] + n)
             p == Parsed(context[c], lines)
             x == Execute(p.ctx.cmds, db)
             rest == SubSeq(lines, p.used + 1, Len(lines))
  <2>1. /\ OfClients(memBuffer) /\ OfClients(sentLines) /\ OfClients(context) /\ OfClients(replies)
        /\ order \in Seq(Client)
        /\ \A d \in Client :
             replies[d] \in Seq(Range(replies[d])) /\ Len(replies[d]) = Answered(d, order)
    BY DEF MemInv, MemShape
  <2>2. /\ memBuffer' = [memBuffer EXCEPT ![c] = rest]
        /\ \/ /\ context' = [context EXCEPT ![c] = AfterCommand(p.ctx)]
              /\ replies' = [replies EXCEPT ![c] = Append(replies[c], x.reply)]
              /\ order' = Append(order, c)
           \/ /\ context' = [context EXCEPT ![c] = p.ctx]
              /\ UNCHANGED <<replies, order>>
    BY <1>1 DEF MemOnMessage
  <2> HIDE DEF lines, p, x, rest
  <2>3. /\ OfClients(memBuffer)' /\ OfClients(sentLines)'
        /\ OfClients(context)' /\ OfClients(replies)'
    <3>1. ASSUME NEW f, OfClients(f), NEW v
          PROVE  OfClients([f EXCEPT ![c] = v])
      BY <3>1 DEF OfClients
    <3> QED  BY <1>1, <2>1, <2>2, <3>1 DEF OfClients
  <2>4. CASE UNCHANGED <<replies, order>>
    BY <2>1, <2>3, <2>4 DEF MemShape
  <2>5. CASE /\ replies' = [replies EXCEPT ![c] = Append(replies[c], x.reply)]
             /\ order' = Append(order, c)
    <3>1. /\ order' \in Seq(Client) /\ Answered(c, order') = Answered(c, order) + 1
          /\ \A d \in Client \ {c} : Answered(d, order') = Answered(d, order)
      BY <2>1, <2>5, AnsweredMore
    <3>2. LET t == Append(replies[c], x.reply)
          IN  t \in Seq(Range(t)) /\ Len(t) = Len(replies[c]) + 1
      BY <2>1, AppendAny
    <3>3. /\ replies'[c] = Append(replies[c], x.reply)
          /\ \A d \in Client \ {c} : replies'[d] = replies[d]
      BY <2>1, <2>5 DEF OfClients
    <3>4. ASSUME NEW d \in Client
          PROVE  replies'[d] \in Seq(Range(replies'[d])) /\ Len(replies'[d]) = Answered(d, order')
      <4>1. CASE d = c
        BY <2>1, <3>1, <3>2, <3>3, <4>1
      <4>2. CASE d # c
        BY <2>1, <3>1, <3>3, <4>2
      <4> QED  BY <4>1, <4>2
    <3> QED  BY <2>3, <3>1, <3>4 DEF MemShape
  <2> QED  BY <2>2, <2>4, <2>5
<1>3. ASSUME orderly' = Client
      PROVE  /\ \A d \in Client :
                  ParserAt(d, memBuffer'[d], sentLines'[d], context'[d], Answered(d, order'))
             /\ Served(order', replies', db')
  <2>1. orderly = Client /\ (n = 0 \/ Waits(c, n))
    BY <1>1, <1>3, c \notin orderly \ {c}
  <2>2. /\ MemShape /\ Served(order, replies, db) /\ order \in Seq(Client)
        /\ \A d \in Client :
             ParserAt(d, memBuffer[d], sentLines[d], context[d], Answered(d, order))
    BY <2>1 DEF MemInv, MemShape
  <2>3. /\ OfClients(memBuffer) /\ OfClients(sentLines) /\ OfClients(context) /\ OfClients(replies)
    BY DEF MemInv, MemShape
  <2>4. sentLines[c] \in Nat
    BY <2>2 DEF ParserAt
  <2>5. CASE n = 0
    <3>1. UNCHANGED <<memBuffer, context, db, replies, order>>
      BY <1>1, <2>1, <2>5, NothingSent
    <3>2. UNCHANGED sentLines
      BY <1>1, <2>3, <2>4, <2>5 DEF OfClients
    <3> QED  BY <2>2, <3>1, <3>2
  <2>6. CASE n # 0
    <3> DEFINE N == Answered(c, order)
               cmd == Commands[c][N + 1]
               x == Execute(cmd, db)
               s == sentLines[c]
               L == LinesUpTo(c, N)
    <3>1. Waits(c, n) /\ n \in Nat
      BY <2>1, <2>6
    <3>2. /\ memBuffer' = [memBuffer EXCEPT ![c] = <<>>]
          /\ N < Len(Commands[c])
          /\ \/ /\ s + n < LinesUpTo(c, N + 1)
                /\ context' = [context EXCEPT ![c] = ContextAt(cmd, (s + n) - L)]
                /\ UNCHANGED <<db, replies, order>>
             \/ /\ s + n = LinesUpTo(c, N + 1)
                /\ context' = [context EXCEPT ![c] = NewContext]
                /\ db' = x.db /\ order' = Append(order, c)
                /\ replies' = [replies EXCEPT ![c] = Append(replies[c], x.reply)]
      BY <1>1, <2>1, <2>6, <3>1, LinesSent
    <3>3. /\ memBuffer'[c] = <<>> /\ sentLines'[c] = s + n
          /\ \A d \in Client \ {c} : /\ memBuffer'[d] = memBuffer[d] /\ sentLines'[d] = sentLines[d]
                                     /\ context'[d] = context[d]
      <4> HIDE DEF N, cmd, x, L
      <4> QED  BY <1>1, <2>3, <3>2 DEF OfClients
    <3>4. N \in Nat /\ Len(Commands[c]) \in Nat /\ Len(cmd) \in Nat
      <4>1. Commands[c] \in Seq(Seq(Word)) /\ N \in Nat
        BY <2>2, LinesTyped, AnsweredCount
      <4> HIDE DEF N
      <4>2. N + 1 \in 1 .. Len(Commands[c])
        BY <3>2, <4>1
      <4> QED  BY <4>1, <4>2
    <3>5. /\ L \in Nat /\ LinesUpTo(c, N + 1) = L + (2 * Len(cmd) + 1)
          /\ s - L \in 0 .. 2 * Len(cmd)
      <4>1. Len(CmdLines(cmd)) = 2 * Len(cmd) + 1
        BY <3>4, LinesOfCommand
      <4>2. L \in Nat /\ LinesUpTo(c, N + 1) = L + Len(CmdLines(cmd))
        <5> HIDE DEF N
        <5> QED  BY <3>2, <3>4, LinesInStream
      <4>3. ParserAt(c, memBuffer[c], sentLines[c], context[c], N)
        BY <2>2
      <4> HIDE DEF N
      <4>4. s - L \in 0 .. 2 * Len(cmd)
        BY <3>2, <4>3 DEF ParserAt
      <4> QED  BY <4>1, <4>2, <4>4
    <3> HIDE DEF N, cmd, x, s, L
    <3>6. s \in Nat
      BY <2>4 DEF s
    <3>7. CASE /\ s + n < LinesUpTo(c, N + 1)
               /\ context' = [context EXCEPT ![c] = ContextAt(cmd, (s + n) - L)]
               /\ UNCHANGED <<db, replies, order>>
      <4>1. ParserAt(c, <<>>, s + n, ContextAt(cmd, (s + n) - L), N)
        <5>1. (s + n) - L \in 0 .. 2 * Len(cmd) /\ s + n \in Nat
          <6> DEFINE M == 2 * Len(cmd)
          <6>1. M \in Nat /\ s - L \in 0 .. M /\ s + n < L + (M + 1)
            BY <3>4, <3>5, <3>7
          <6> HIDE DEF M
          <6> QED  BY <3>1, <3>5, <3>6, <6>1 DEF M
        <5>2. N \in 0 .. Len(Commands[c]) /\ N # Len(Commands[c])
          BY <3>2, <3>4
        <5> DEFINE sent == s + n
                   k == sent - L
        <5>3. sent \in Nat /\ k \in 0 .. 2 * Len(cmd)
          BY <5>1
        <5>4. k = sent - LinesUpTo(c, N) /\ cmd = Commands[c][N + 1]
          BY DEF L, cmd
        <5> HIDE DEF sent, k
        <5>5. ParserAt(c, <<>>, sent, ContextAt(cmd, k), N)
          BY <5>2, <5>3, <5>4 DEF ParserAt
        <5> QED  BY <5>5 DEF sent, k
      <4>2. context'[c] = ContextAt(cmd, (s + n) - L)
        BY <2>3, <3>7 DEF OfClients
      <4>3. ASSUME NEW d \in Client
            PROVE  ParserAt(d, memBuffer'[d], sentLines'[d], context'[d], Answered(d, order'))
        <5>1. CASE d = c
          BY <3>3, <3>7, <4>1, <4>2, <5>1 DEF N
        <5>2. CASE d # c
          BY <2>2, <3>3, <3>7, <5>2
        <5> QED  BY <5>1, <5>2
      <4> QED  BY <2>2, <3>7, <4>3
    <3>8. CASE /\ s + n = LinesUpTo(c, N + 1)
               /\ context' = [context EXCEPT ![c] = NewContext]
               /\ db' = x.db /\ order' = Append(order, c)
               /\ replies' = [replies EXCEPT ![c] = Append(replies[c], x.reply)]
      <4>1. ParserAt(c, <<>>, s + n, NewContext, N + 1)
        <5>1. s + n \in Nat /\ N + 1 \in 0 .. Len(Commands[c])
          BY <3>1, <3>2, <3>4, <3>6
        <5>2. (s + n) - LinesUpTo(c, N + 1) = 0
          <6>1. s + n = LinesUpTo(c, N + 1) /\ s + n \in Nat
            BY <3>8, <5>1
          <6> QED  BY <6>1
        <5>3. \A other : ContextAt(other, 0) = NewContext
          BY DEF ContextAt
        <5>4. N + 1 < Len(Commands[c]) => Len(Commands[c][(N + 1) + 1]) \in Nat
          <6>1. Commands[c] \in Seq(Seq(Word))
            BY LinesTyped
          <6> SUFFICES ASSUME N + 1 < Len(Commands[c]) PROVE Len(Commands[c][(N + 1) + 1]) \in Nat
            OBVIOUS
          <6>2. (N + 1) + 1 \in 1 .. Len(Commands[c])
            BY <3>4
          <6> QED  BY <6>1, <6>2
        <5> QED  BY <3>8, <5>1, <5>2, <5>3, <5>4 DEF ParserAt
      <4>2. context'[c] = NewContext
        BY <2>3, <3>8 DEF OfClients
      <4>3. /\ Answered(c, order') = N + 1
            /\ \A d \in Client \ {c} : Answered(d, order') = Answered(d, order)
        BY <2>2, <3>8, AnsweredMore DEF N
      <4>4. ASSUME NEW d \in Client
            PROVE  ParserAt(d, memBuffer'[d], sentLines'[d], context'[d], Answered(d, order'))
        <5>1. CASE d = c
          BY <3>3, <4>1, <4>2, <4>3, <5>1
        <5>2. CASE d # c
          BY <2>2, <3>3, <4>3, <5>2
        <5> QED  BY <5>1, <5>2
      <4>5. Served(order', replies', db')
        <5>1. DOMAIN replies = Client
          BY <2>3 DEF OfClients
        <5>2. \A d \in Client :
                replies[d] \in Seq(Range(replies[d])) /\ Len(replies[d]) = Answered(d, order)
          BY <2>2 DEF MemShape
        <5>3. x = Execute(Commands[c][Answered(c, order) + 1], db)
          BY DEF x, cmd, N
        <5>4. Served(Append(order, c), [replies EXCEPT ![c] = Append(@, x.reply)], x.db)
          BY <2>2, <5>1, <5>2, <5>3, ServedMore
        <5> QED  BY <3>8, <5>4
      <4> QED  BY <4>4, <4>5
    <3> QED  BY <3>2, <3>7, <3>8
  <2> QED  BY <2>5, <2>6
<1> QED
  BY <1>2, <1>3 DEF MemInv

LEMMA MemNextInv == MemInv /\ [MemNext]_memVars => MemInv'
<1> SUFFICES ASSUME MemInv, [MemNext]_memVars PROVE MemInv'
  OBVIOUS
<1>1. ASSUME NEW c \in Client, ClientSends(c)
      PROVE  MemInv'
  BY <1>1, MemSendInv
<1>2. ASSUME NEW c \in Client, Disconnected(c)
      PROVE  MemInv'
  BY <1>2 DEF Disconnected, MemInv, MemShape
<1>3. CASE UNCHANGED memVars
  BY <1>3 DEF memVars, MemInv, MemShape
<1> QED
  BY <1>1, <1>2, <1>3 DEF MemNext

-------------------------------------------------------------------------------
\* There is one sequence of stores.
LEMMA OneStore ==
  ASSUME order \in Seq(Client), NEW g, StoresOf(order, g)
  PROVE  \A n \in 0 .. Len(order) : Store[n] = g[n]
<1> DEFINE N == Len(order)
           first == [k \in {} |-> NoWord]
           eq(s) == s = [n \in 0 .. N |-> IF n = 0 THEN first
                                          ELSE Execute(Commands[order[n]][Nth(n)], s[n - 1]).db]
           F == CHOOSE s : eq(s)
<1>1. N \in Nat
  OBVIOUS
<1>2. eq(g)
  BY DEF StoresOf, CommandOf, NthIn, Nth
<1>3. eq(F)
  <2> HIDE DEF eq
  <2> QED  BY <1>2
<1>4. Store = F
  BY DEF Store
<1> HIDE DEF F
<1>5. ASSUME NEW s, eq(s)
      PROVE  /\ s[0] = first
             /\ \A n \in 1 .. N : s[n] = Execute(Commands[order[n]][Nth(n)], s[n - 1]).db
  <2>1. s[0] = first
    BY <1>1, <1>5
  <2>2. ASSUME NEW n \in 1 .. N PROVE s[n] = Execute(Commands[order[n]][Nth(n)], s[n - 1]).db
    <3>1. n \in 0 .. N /\ n # 0
      BY <1>1
    <3> QED  BY <1>5, <3>1
  <2> QED  BY <2>1, <2>2
<1> HIDE DEF first
<1>6. /\ F[0] = g[0]
      /\ \A n \in 1 .. N : /\ F[n] = Execute(Commands[order[n]][Nth(n)], F[n - 1]).db
                           /\ g[n] = Execute(Commands[order[n]][Nth(n)], g[n - 1]).db
  <2> HIDE DEF eq
  <2> QED  BY <1>2, <1>3, <1>5
<1> DEFINE S == {n \in Nat : n <= N => F[n] = g[n]}
<1>7. 0 \in S
  BY <1>6
<1>8. ASSUME NEW n \in Nat, n < N, n \in S
      PROVE  n + 1 \in S
  <2>1. n + 1 \in 1 .. N /\ (n + 1) - 1 = n /\ F[n] = g[n]
    BY <1>1, <1>8
  <2>2. F[n + 1] = g[n + 1]
    BY <1>6, <2>1
  <2> QED  BY <2>2
<1>9. \A n \in 0 .. N : n \in S
  <2> HIDE DEF S
  <2> QED  BY <1>1, <1>7, <1>8, InductionUpTo
<1> QED
  BY <1>4, <1>9

LEMMA MemServes == MemInv => ServesAMap
<1> SUFFICES ASSUME MemInv, orderly = Client PROVE ServesAMap
  BY DEF ServesAMap
<1>1. /\ order \in Seq(Client) /\ Served(order, replies, db)
      /\ \A c \in Client : Len(replies[c]) = Answered(c, order)
      /\ \A c \in Client :
           ParserAt(c, memBuffer[c], sentLines[c], context[c], Answered(c, order))
  BY DEF MemInv, MemShape
<1>2. PICK g : /\ StoresOf(order, g) /\ db = g[Len(order)]
               /\ \A i \in 1 .. Len(order) :
                    replies[order[i]][NthIn(order, i)]
                      = Execute(CommandOf(order, i), g[i - 1]).reply
  BY <1>1 DEF Served
<1>3. Len(order) \in Nat /\ DOMAIN order = 1 .. Len(order)
  BY <1>1
<1>4. \A n \in 0 .. Len(order) : Store[n] = g[n]
  BY <1>1, <1>2, OneStore
<1>5. db = Store[Len(order)]
  BY <1>2, <1>3, <1>4
<1>6. ASSUME NEW i \in DOMAIN order
      PROVE  replies[order[i]][Nth(i)] = Execute(Commands[order[i]][Nth(i)], Store[i - 1]).reply
  <2>1. i \in 1 .. Len(order) /\ i - 1 \in 0 .. Len(order)
    BY <1>3
  <2>2. Store[i - 1] = g[i - 1]
    BY <1>4, <2>1
  <2>3. NthIn(order, i) = Nth(i) /\ CommandOf(order, i) = Commands[order[i]][Nth(i)]
    BY DEF NthIn, Nth, CommandOf
  <2> QED  BY <1>2, <2>1, <2>2, <2>3
<1>7. ASSUME NEW c \in Client
      PROVE  /\ sentLines[c] = LinesUpTo(c, Len(replies[c])) =>
                  context[c] = NewContext /\ memBuffer[c] = <<>>
             /\ Len(replies[c]) < Len(Commands[c]) =>
                  sentLines[c] < LinesUpTo(c, Len(replies[c]) + 1)
  <2> DEFINE N == Answered(c, order)
             cmd == Commands[c][N + 1]
             s == sentLines[c]
             L == LinesUpTo(c, N)
  <2>1. Len(replies[c]) = N /\ ParserAt(c, memBuffer[c], s, context[c], N) /\ N \in Nat
    BY <1>1, AnsweredCount
  <2> HIDE DEF N
  <2>2. memBuffer[c] = <<>> /\ s \in Nat /\ N <= Len(Commands[c]) /\ Len(Commands[c]) \in Nat
    BY <2>1, LinesTyped DEF ParserAt
  <2>3. CASE N = Len(Commands[c])
    BY <2>1, <2>2, <2>3 DEF ParserAt
  <2>4. CASE N < Len(Commands[c])
    <3>1. s - L \in 0 .. 2 * Len(cmd) /\ context[c] = ContextAt(cmd, s - L)
      BY <2>1, <2>4 DEF ParserAt
    <3>2. Len(cmd) \in Nat
      <4>1. Commands[c] \in Seq(Seq(Word)) /\ N + 1 \in 1 .. Len(Commands[c])
        BY <2>1, <2>4, LinesTyped
      <4> QED  BY <4>1
    <3>3. L \in Nat /\ LinesUpTo(c, N + 1) = L + (2 * Len(cmd) + 1)
      <4>1. Len(CmdLines(cmd)) = 2 * Len(cmd) + 1
        BY <3>2, LinesOfCommand
      <4>2. L \in Nat /\ LinesUpTo(c, N + 1) = L + Len(CmdLines(cmd))
        BY <2>1, <2>4, LinesInStream
      <4> QED  BY <4>1, <4>2
    <3> HIDE DEF s, L, cmd
    <3>4. s = L => context[c] = NewContext
      <4>1. s = L => s - L = 0
        BY <2>2
      <4> QED  BY <3>1, <4>1 DEF ContextAt
    <3>5. s < LinesUpTo(c, N + 1)
      <4> DEFINE M == 2 * Len(cmd)
      <4>1. M \in Nat /\ s - L \in 0 .. M /\ LinesUpTo(c, N + 1) = L + (M + 1)
        BY <3>1, <3>2, <3>3
      <4> HIDE DEF M
      <4> QED  BY <2>2, <3>3, <4>1
    <3> QED  BY <2>1, <2>2, <3>4, <3>5 DEF s, L
  <2>5. N = Len(Commands[c]) \/ N < Len(Commands[c])
    BY <2>1, <2>2
  <2> QED  BY <2>3, <2>4, <2>5
<1> QED
  BY <1>5, <1>6, <1>7 DEF ServesAMap

\* Clients that wait for each answer are served one map (memdb.cc:44-123), whatever the
\* commands and the pieces they come in.
THEOREM MapAlwaysServed == MemSpec => []ServesAMap
<1>1. MemSpec => []MemInv
  BY MemInitInv, MemNextInv, PTL DEF MemSpec
<1> QED
  BY <1>1, MemServes, PTL
===============================================================================

----------------------------- MODULE Recursion -----------------------------
(***************************************************************************)
(* What the proofs need of recursive functions and of sequences, whatever  *)
(* they hold: that a function defined by recursion exists, what it is, and *)
(* what is where in sequences put together.                                *)
(***************************************************************************)
EXTENDS SequencesExt, SequenceTheorems, WellFoundedInduction, TLAPS

\* A set of numbers has a least one.
LEMMA LeastNat ==
  ASSUME NEW T, T \subseteq Nat, T # {}
  PROVE  \E n \in T : \A m \in T : n <= m
<1>1. IsWellFoundedOn(OpToRel(<, Nat), Nat)
  BY NatLessThanWellFounded
<1>2. PICK n \in T : \A m \in T : ~(<<m, n>> \in OpToRel(<, Nat))
  BY <1>1, WFMin
<1>3. \A m \in T : ~ (m < n)
  BY <1>2 DEF OpToRel
<1> QED BY <1>3

\* A set that holds 0 and with each number below n the next holds all up to n.
LEMMA UpTo ==
  ASSUME NEW n \in Nat, NEW T, 0 \in T, \A k \in 0 .. n - 1 : k \in T => k + 1 \in T
  PROVE  \A k \in 0 .. n : k \in T
<1> DEFINE Bad == {k \in 0 .. n : k \notin T}
<1> SUFFICES ASSUME Bad # {} PROVE FALSE
  OBVIOUS
<1>1. Bad \subseteq Nat
  OBVIOUS
<1>2. PICK k \in Bad : \A m \in Bad : k <= m
  <2> HIDE DEF Bad
  <2> QED BY <1>1, LeastNat
<1>3. k \in 1 .. n /\ k - 1 \in 0 .. n - 1 /\ k - 1 \in 0 .. n /\ ~(k <= k - 1) /\ (k - 1) + 1 = k
  OBVIOUS
<1>4. k - 1 \in T
  BY <1>2, <1>3
<1> QED BY <1>3, <1>4

\* Going on from a by one function after the other.
Steps(n, A, step) == \A k \in 1 .. n : \A x \in A : step[k][x] \in A
Runs(n, A, a, step) ==
  \E g \in [0 .. n -> A] : g[0] = a /\ \A k \in 1 .. n : g[k] = step[k][g[k - 1]]

LEMMA Iterates ==
  ASSUME NEW n \in Nat, NEW A, NEW a \in A, NEW step, Steps(n, A, step)
  PROVE  Runs(n, A, a, step)
<1> USE DEF Steps, Runs
<1> DEFINE Run(m, g) == g[0] = a /\ \A k \in 1 .. m : g[k] = step[k][g[k - 1]]
           T == {m \in 0 .. n : \E g \in [0 .. m -> A] : Run(m, g)}
<1>1. 0 \in T
  <2> DEFINE g == [k \in 0 .. 0 |-> a]
  <2>1. g \in [0 .. 0 -> A] /\ Run(0, g)
    OBVIOUS
  <2> HIDE DEF g
  <2> QED BY <2>1
<1>2. ASSUME NEW m \in 0 .. n - 1, m \in T PROVE m + 1 \in T
  <2>1. PICK f \in [0 .. m -> A] : Run(m, f)
    BY <1>2
  <2>2. m \in 0 .. m /\ m + 1 \in 1 .. n /\ m + 1 \in 0 .. n /\ m \in Nat
    OBVIOUS
  <2>3. step[m + 1][f[m]] \in A
    BY <2>2
  <2> DEFINE g == [k \in 0 .. m + 1 |-> IF k = m + 1 THEN step[m + 1][f[m]] ELSE f[k]]
  <2>4. g \in [0 .. m + 1 -> A]
    BY <2>3
  <2>5. g[0] = a
    BY <2>1, <2>2
  <2>6. ASSUME NEW k \in 1 .. m + 1 PROVE g[k] = step[k][g[k - 1]]
    <3>1. CASE k = m + 1
      BY <2>2, <3>1
    <3>2. CASE k # m + 1
      <4>1. k \in 1 .. m /\ k \in 0 .. m + 1 /\ k - 1 \in 0 .. m + 1 /\ k - 1 # m + 1
        BY <2>2, <3>2
      <4>2. g[k] = f[k] /\ g[k - 1] = f[k - 1]
        BY <3>2, <4>1
      <4> HIDE DEF g
      <4> QED BY <2>1, <4>1, <4>2
    <3> QED BY <3>1, <3>2
  <2> HIDE DEF g
  <2> QED BY <2>2, <2>4, <2>5, <2>6
<1>3. n \in T
  <2>1. \A m \in 0 .. n - 1 : m \in T => m + 1 \in T
    BY <1>2
  <2> HIDE DEF T
  <2>2. \A k \in 0 .. n : k \in T
    BY <1>1, <2>1, UpTo
  <2> QED BY <2>2
<1> QED BY <1>3

\* Two runs that begin alike and take like steps are alike.
LEMMA SameRun ==
  ASSUME NEW n \in Nat, NEW g, NEW c, c[0] = g[0],
         \A k \in 1 .. n : c[k - 1] = g[k - 1] => c[k] = g[k]
  PROVE  \A k \in 0 .. n : c[k] = g[k]
<1> DEFINE T == {k \in 0 .. n : c[k] = g[k]}
<1>1. 0 \in T
  OBVIOUS
<1>2. \A m \in 0 .. n - 1 : m \in T => m + 1 \in T
  <2> SUFFICES ASSUME NEW m \in 0 .. n - 1, c[m] = g[m] PROVE c[m + 1] = g[m + 1]
    OBVIOUS
  <2>1. m + 1 \in 1 .. n /\ (m + 1) - 1 = m
    OBVIOUS
  <2> QED BY <2>1
<1>3. \A k \in 0 .. n : k \in T
  <2> HIDE DEF T
  <2> QED BY <1>1, <1>2, UpTo
<1> QED BY <1>3

\* From the last place down to the first.
LEMMA DownTo ==
  ASSUME NEW lo \in Nat, NEW hi \in Nat, NEW T,
         \A i \in lo .. hi : (\A j \in i + 1 .. hi : j \in T) => i \in T
  PROVE  \A i \in lo .. hi : i \in T
<1> DEFINE Bad == {n \in Nat : hi - n \in lo .. hi /\ hi - n \notin T}
<1>1. ASSUME NEW i \in lo .. hi, i \notin T PROVE FALSE
  <2>1. hi - i \in Bad
    <3>1. hi - i \in Nat /\ hi - (hi - i) = i
      OBVIOUS
    <3> QED BY <1>1, <3>1
  <2>2. Bad \subseteq Nat /\ Bad # {}
    BY <2>1
  <2>3. PICK n \in Bad : \A m \in Bad : n <= m
    <3> HIDE DEF Bad
    <3> QED BY <2>2, LeastNat
  <2>4. n \in Nat /\ hi - n \in lo .. hi /\ hi - n \notin T
    BY <2>3
  <2>5. ASSUME NEW j \in (hi - n) + 1 .. hi PROVE j \in T
    <3>1. hi - j \in Nat /\ ~(n <= hi - j) /\ hi - (hi - j) = j /\ j \in lo .. hi
      BY <2>4
    <3>2. hi - j \notin Bad
      <4> HIDE DEF Bad
      <4> QED BY <2>3, <3>1
    <3> QED BY <3>1, <3>2
  <2> QED BY <2>4, <2>5
<1> QED BY <1>1

\* A function given at the places where it stops, and elsewhere by what it is
\* at a later one.
Down(lo, hi, stop, base, comb, next, g) ==
  \A i \in lo .. hi : g[i] = IF stop[i] THEN base[i] ELSE comb[i][g[next[i]]]
RunsDown(lo, hi, W, stop, base, comb, next) ==
  \E g \in [lo .. hi -> W] : Down(lo, hi, stop, base, comb, next, g)
StepsDown(lo, hi, W, stop, base, comb, next) ==
  \A i \in lo .. hi :
    IF stop[i] THEN base[i] \in W
    ELSE next[i] \in i + 1 .. hi /\ \A x \in W : comb[i][x] \in W

LEMMA IteratesDown ==
  ASSUME NEW lo \in Nat, NEW hi \in Nat, lo <= hi, NEW W, NEW stop, NEW base, NEW comb, NEW next,
         StepsDown(lo, hi, W, stop, base, comb, next)
  PROVE  RunsDown(lo, hi, W, stop, base, comb, next)
<1> DEFINE T == {i \in lo .. hi : RunsDown(i, hi, W, stop, base, comb, next)}
<1>1. ASSUME NEW i \in lo .. hi, \A j \in i + 1 .. hi : j \in T
      PROVE  i \in T
  <2>1. CASE stop[i] /\ i = hi
    <3> DEFINE g == [k \in i .. hi |-> base[i]]
    <3>1. base[i] \in W
      BY <2>1 DEF StepsDown
    <3>2. g \in [i .. hi -> W] /\ \A k \in i .. hi : k = i /\ g[k] = base[i]
      BY <2>1, <3>1
    <3> HIDE DEF g
    <3>3. Down(i, hi, stop, base, comb, next, g)
      BY <2>1, <3>2 DEF Down
    <3> QED BY <3>2, <3>3 DEF RunsDown
  <2>2. CASE ~(stop[i] /\ i = hi)
    <3>1. i # hi
      BY <2>2 DEF StepsDown
    <3>2. i + 1 \in i + 1 .. hi
      BY <3>1
    <3>3. RunsDown(i + 1, hi, W, stop, base, comb, next)
      BY <1>1, <3>2
    <3>4. PICK f \in [i + 1 .. hi -> W] : Down(i + 1, hi, stop, base, comb, next, f)
      BY <3>3 DEF RunsDown
    <3> DEFINE b == IF stop[i] THEN base[i] ELSE comb[i][f[next[i]]]
               g == [k \in i .. hi |-> IF k = i THEN b ELSE f[k]]
    <3>5. /\ ~stop[i] => next[i] \in i + 1 .. hi
          /\ b \in W
      <4>1. CASE stop[i]
        BY <4>1 DEF StepsDown
      <4>2. CASE ~stop[i]
        <5>1. next[i] \in i + 1 .. hi /\ \A x \in W : comb[i][x] \in W
          BY <4>2 DEF StepsDown
        <5> QED BY <4>2, <5>1
      <4> QED BY <4>1, <4>2
    <3>6. \A k \in i .. hi : k = i \/ (k # i /\ k \in i + 1 .. hi /\ k \in lo .. hi)
      OBVIOUS
    <3>7. i \in i .. hi /\ \A k \in i + 1 .. hi : k \in i .. hi /\ k # i
      OBVIOUS
    <3> HIDE DEF b
    <3>8. g \in [i .. hi -> W] /\ g[i] = b /\ \A k \in i + 1 .. hi : g[k] = f[k]
      BY <3>5, <3>6, <3>7
    <3> HIDE DEF g
    <3>9. ASSUME NEW k \in i .. hi
          PROVE  g[k] = IF stop[k] THEN base[k] ELSE comb[k][g[next[k]]]
      <4>1. CASE k = i
        BY <3>5, <3>8, <4>1 DEF b
      <4>2. CASE k # i
        <5>1. k \in i + 1 .. hi /\ k \in lo .. hi
          BY <3>6, <4>2
        <5>2. f[k] = IF stop[k] THEN base[k] ELSE comb[k][f[next[k]]]
          BY <3>4, <5>1 DEF Down
        <5>3. ~stop[k] => next[k] \in i + 1 .. hi
          <6>1. ~stop[k] => next[k] \in k + 1 .. hi
            BY <5>1 DEF StepsDown
          <6> QED BY <5>1, <6>1
        <5> QED BY <3>8, <5>1, <5>2, <5>3
      <4> QED BY <4>1, <4>2
    <3>10. Down(i, hi, stop, base, comb, next, g)
      BY <3>9 DEF Down
    <3> QED BY <3>8, <3>10 DEF RunsDown
  <2> QED BY <2>1, <2>2
<1>2. \A i \in lo .. hi : i \in T
  <2> HIDE DEF T
  <2> QED BY <1>1, DownTo
<1>3. lo \in T
  BY <1>2
<1> QED BY <1>3

\* Two such functions that are alike where they stop are alike.
AlikeDown(lo, hi, next, g, c) ==
  \A i \in lo .. hi :
    \/ c[i] = g[i]
    \/ next[i] \in i + 1 .. hi /\ (c[next[i]] = g[next[i]] => c[i] = g[i])

Alike(lo, hi, g, c) == \A i \in lo .. hi : c[i] = g[i]

LEMMA SameDown ==
  ASSUME NEW lo \in Nat, NEW hi \in Nat, NEW next, NEW g, NEW c, AlikeDown(lo, hi, next, g, c)
  PROVE  Alike(lo, hi, g, c)
<1> USE DEF AlikeDown, Alike
<1> DEFINE T == {i \in lo .. hi : c[i] = g[i]}
<1>1. ASSUME NEW i \in lo .. hi, \A j \in i + 1 .. hi : j \in T PROVE i \in T
  BY <1>1
<1>2. \A i \in lo .. hi : i \in T
  <2> HIDE DEF T
  <2> QED BY <1>1, DownTo
<1> QED BY <1>2

\* What is where in two sequences put together.
LEMMA Joined ==
  ASSUME NEW S, NEW x \in Seq(S), NEW y \in Seq(S)
  PROVE  /\ x \o y \in Seq(S) /\ Len(x) \in Nat /\ Len(y) \in Nat
         /\ Len(x \o y) = Len(x) + Len(y)
         /\ \A j \in 1 .. Len(x) : (x \o y)[j] = x[j]
         /\ \A j \in 1 .. Len(y) : (x \o y)[Len(x) + j] = y[j]
<1> DEFINE z == x \o y
<1>1. /\ z \in Seq(S) /\ Len(z) = Len(x) + Len(y)
      /\ \A i \in 1 .. Len(x) + Len(y) : z[i] = IF i <= Len(x) THEN x[i] ELSE y[i - Len(x)]
  BY ConcatProperties
<1>2. Len(x) \in Nat /\ Len(y) \in Nat
  BY LenProperties
<1> HIDE DEF z
<1>3. \A j \in 1 .. Len(x) : z[j] = x[j]
  BY <1>1, <1>2
<1>4. ASSUME NEW j \in 1 .. Len(y) PROVE z[Len(x) + j] = y[j]
  <2>1. /\ Len(x) + j \in 1 .. Len(x) + Len(y) /\ ~(Len(x) + j <= Len(x))
        /\ (Len(x) + j) - Len(x) = j
    BY <1>2
  <2> QED BY <1>1, <2>1
<1> QED BY <1>1, <1>2, <1>3, <1>4 DEF z

\* A flattened sequence is put together from the left.
PrefixRuns(S, seqs, flat) ==
  \E f \in [0 .. Len(seqs) -> Seq(S)] :
    /\ f[0] = <<>> /\ f[Len(seqs)] = flat
    /\ \A k \in 1 .. Len(seqs) : f[k] = f[k - 1] \o seqs[k]

LEMMA FlattenRuns ==
  ASSUME NEW S, NEW seqs \in Seq(Seq(S))
  PROVE  PrefixRuns(S, seqs, FlattenSeq(seqs))
<1> DEFINE n == Len(seqs)
           A == Seq(S)
           step == [k \in 1 .. n |-> [x \in A |-> x \o seqs[k]]]
<1>1. n \in Nat /\ \A k \in 1 .. n : seqs[k] \in Seq(S)
  BY LenProperties, ElementOfSeq
<1>2. \A k \in 1 .. n : \A x \in A : step[k][x] = x \o seqs[k] /\ step[k][x] \in A
  BY <1>1, ConcatProperties
<1>3. <<>> \in A
  BY EmptySeq
<1>4. PICK f \in [0 .. n -> A] : f[0] = <<>> /\ \A k \in 1 .. n : f[k] = step[k][f[k - 1]]
  <2>1. Steps(n, A, step) /\ n \in Nat
    BY <1>1, <1>2 DEF Steps
  <2> HIDE DEF n, A, step
  <2>2. Runs(n, A, <<>>, step)
    BY <2>1, <1>3, Iterates
  <2> QED BY <2>2 DEF Runs
<1>5. \A k \in 1 .. n : f[k - 1] \in A /\ f[k] \in A /\ f[k] = f[k - 1] \o seqs[k]
  <2> SUFFICES ASSUME NEW k \in 1 .. n
               PROVE  f[k - 1] \in A /\ f[k] \in A /\ f[k] = f[k - 1] \o seqs[k]
    OBVIOUS
  <2>1. k - 1 \in 0 .. n /\ k \in 0 .. n
    BY <1>1
  <2> HIDE DEF n, A, step
  <2> QED BY <1>2, <1>4, <2>1
<1> HIDE DEF step
<1>6. FlattenSeq(seqs) = f[n]
  <2>1. CASE n = 0
    <3>1. seqs = <<>>
      BY <2>1, EmptySeq
    <3> QED BY <1>4, <2>1, <3>1 DEF FlattenSeq
  <2>2. CASE n # 0
    <3> DEFINE Eq(c) == c = [i \in 1 .. n |-> IF i = 1 THEN seqs[i] ELSE c[i - 1] \o seqs[i]]
               c0 == CHOOSE c : Eq(c)
               h == [i \in 1 .. n |-> f[i]]
    <3>1. Eq(h)
      <4>1. ASSUME NEW i \in 1 .. n
            PROVE  h[i] = IF i = 1 THEN seqs[i] ELSE h[i - 1] \o seqs[i]
        <5>1. CASE i = 1
          <6>1. f[1] = f[0] \o seqs[1]
            <7>1. 1 \in 1 .. n /\ 1 - 1 = 0
              BY <5>1
            <7> QED BY <1>5, <7>1
          <6>2. f[1] = seqs[1]
            BY <1>1, <1>4, <5>1, <6>1, ConcatEmptySeq
          <6> QED BY <5>1, <6>2
        <5>2. CASE i # 1
          <6>1. i - 1 \in 1 .. n
            BY <1>1, <5>2
          <6> QED BY <1>5, <5>2, <6>1
        <5> QED BY <5>1, <5>2
      <4> QED BY <4>1
    <3>2. Eq(c0)
      <4> HIDE DEF Eq
      <4> QED BY <3>1
    <3>3. FlattenSeq(seqs) = c0[n]
      BY <2>2 DEF FlattenSeq
    <3> HIDE DEF c0
    <3>4. \A i \in 1 .. n : c0[i] = IF i = 1 THEN seqs[i] ELSE c0[i - 1] \o seqs[i]
      BY <3>2
    <3> DEFINE c == [i \in 0 .. n |-> IF i = 0 THEN <<>> ELSE c0[i]]
    <3>5. c[0] = f[0]
      BY <1>1, <1>4
    <3>6. \A k \in 1 .. n : c[k - 1] = f[k - 1] => c[k] = f[k]
      <4> SUFFICES ASSUME NEW k \in 1 .. n, c[k - 1] = f[k - 1] PROVE c[k] = f[k]
        OBVIOUS
      <4>1. c[k] = c0[k]
        BY <1>1
      <4>2. CASE k = 1
        <5>1. f[1] = f[0] \o seqs[1]
          <6>1. 1 \in 1 .. n /\ 1 - 1 = 0
            BY <4>2
          <6> QED BY <1>5, <6>1
        <5>2. f[1] = seqs[1]
          BY <1>1, <1>4, <4>2, <5>1, ConcatEmptySeq
        <5> HIDE DEF c
        <5> QED BY <3>4, <4>1, <4>2, <5>2
      <4>3. CASE k # 1
        <5>1. k - 1 \in 0 .. n /\ k - 1 # 0
          BY <1>1, <4>3
        <5>2. c[k - 1] = c0[k - 1]
          BY <5>1
        <5> HIDE DEF c
        <5> QED BY <1>5, <3>4, <4>1, <4>3, <5>2
      <4> QED BY <4>2, <4>3
    <3>7. \A k \in 0 .. n : c[k] = f[k]
      <4> HIDE DEF c, n
      <4> QED BY <1>1, <3>5, <3>6, SameRun
    <3>8. n \in 0 .. n /\ c[n] = c0[n]
      BY <1>1, <2>2
    <3> HIDE DEF c
    <3> QED BY <3>3, <3>7, <3>8
  <2> QED BY <2>1, <2>2
<1> QED BY <1>4, <1>5, <1>6 DEF PrefixRuns

\* Where the parts of a flattened sequence lie.
Laid(seqs, flat) ==
  \E off \in [0 .. Len(seqs) -> Nat] :
    /\ off[0] = 0 /\ off[Len(seqs)] = Len(flat)
    /\ \A k \in 1 .. Len(seqs) :
         /\ off[k] = off[k - 1] + Len(seqs[k])
         /\ off[k] <= off[Len(seqs)]
         /\ \A j \in 1 .. Len(seqs[k]) : flat[off[k - 1] + j] = seqs[k][j]

LEMMA Flattened ==
  ASSUME NEW S, NEW seqs \in Seq(Seq(S))
  PROVE  FlattenSeq(seqs) \in Seq(S) /\ Laid(seqs, FlattenSeq(seqs))
<1> DEFINE n == Len(seqs)
<1>1. n \in Nat /\ \A k \in 1 .. n : seqs[k] \in Seq(S)
  BY LenProperties, ElementOfSeq
<1>4. PICK f \in [0 .. n -> Seq(S)] :
        f[0] = <<>> /\ f[n] = FlattenSeq(seqs) /\ \A k \in 1 .. n : f[k] = f[k - 1] \o seqs[k]
  <2>1. PrefixRuns(S, seqs, FlattenSeq(seqs))
    BY FlattenRuns
  <2> QED BY <2>1 DEF PrefixRuns
<1>5. \A k \in 1 .. n : f[k - 1] \in Seq(S) /\ f[k] \in Seq(S) /\ f[k] = f[k - 1] \o seqs[k]
  <2> SUFFICES ASSUME NEW k \in 1 .. n
               PROVE  f[k - 1] \in Seq(S) /\ f[k] \in Seq(S) /\ f[k] = f[k - 1] \o seqs[k]
    OBVIOUS
  <2>1. k - 1 \in 0 .. n /\ k \in 0 .. n
    BY <1>1
  <2> HIDE DEF n
  <2> QED BY <1>4, <2>1
<1>6. FlattenSeq(seqs) = f[n]
  BY <1>4
<1> DEFINE flat == FlattenSeq(seqs)
           off == [k \in 0 .. n |-> Len(f[k])]
<1>7. off \in [0 .. n -> Nat] /\ off[0] = 0 /\ off[n] = Len(flat) /\ flat \in Seq(S)
  <2>1. \A k \in 0 .. n : f[k] \in Seq(S) /\ Len(f[k]) \in Nat
    BY LenProperties
  <2>2. 0 \in 0 .. n /\ n \in 0 .. n
    BY <1>1
  <2> HIDE DEF n
  <2> QED BY <1>4, <1>6, <2>1, <2>2, EmptySeq
<1>8. ASSUME NEW k \in 1 .. n
      PROVE  /\ off[k] = off[k - 1] + Len(seqs[k])
             /\ off[k] <= off[n]
             /\ \A j \in 1 .. Len(seqs[k]) : flat[off[k - 1] + j] = seqs[k][j]
  <2>1. k \in 0 .. n /\ k - 1 \in 0 .. n
    BY <1>1
  <2>2. off[k] = Len(f[k]) /\ off[k - 1] = Len(f[k - 1])
    BY <2>1
  <2>3. PICK u, v, w : /\ u = f[k - 1] /\ v = seqs[k] /\ w = f[k] /\ w = u \o v
                       /\ u \in Seq(S) /\ v \in Seq(S)
    BY <1>1, <1>5
  <2>4. /\ Len(w) = Len(u) + Len(v) /\ Len(u) \in Nat /\ Len(v) \in Nat
        /\ \A j \in 1 .. Len(v) : w[Len(u) + j] = v[j]
    BY <2>3, Joined
  <2> DEFINE Ext(x) == Len(f[k]) <= Len(x) /\ \A j \in 1 .. Len(f[k]) : x[j] = f[k][j]
             T == {m \in 0 .. n - k : Ext(f[k + m])}
  <2>5. 0 \in T
    BY <1>1, <2>1
  <2>6. \A m \in 0 .. (n - k) - 1 : m \in T => m + 1 \in T
    <3> SUFFICES ASSUME NEW m \in 0 .. (n - k) - 1, Ext(f[k + m])
                 PROVE  Ext(f[k + (m + 1)]) /\ m + 1 \in 0 .. n - k
      OBVIOUS
    <3>1. k + (m + 1) \in 1 .. n /\ (k + (m + 1)) - 1 = k + m /\ m + 1 \in 0 .. n - k
      BY <1>1
    <3>2. PICK x, y : /\ x = f[k + m] /\ y = seqs[k + (m + 1)] /\ f[k + (m + 1)] = x \o y
                      /\ x \in Seq(S) /\ y \in Seq(S)
      BY <1>1, <1>5, <3>1
    <3>3. PICK z : z = f[k + (m + 1)] /\ z = x \o y
      BY <3>2
    <3>4. /\ Len(z) = Len(x) + Len(y) /\ Len(x) \in Nat /\ Len(y) \in Nat
          /\ \A j \in 1 .. Len(x) : z[j] = x[j]
      <4>1. /\ Len(x \o y) = Len(x) + Len(y) /\ Len(x) \in Nat /\ Len(y) \in Nat
            /\ \A j \in 1 .. Len(x) : (x \o y)[j] = x[j]
        <5>1. x \in Seq(S) /\ y \in Seq(S)
          BY <3>2
        <5> QED BY <5>1, Joined, Zenon
      <4> QED BY <3>3, <4>1
    <3>5. Ext(x)
      BY <3>2
    <3>6. Len(f[k]) \in Nat
      BY <1>5, LenProperties
    <3>7. Len(f[k]) <= Len(z)
      BY <3>4, <3>5, <3>6
    <3>8. \A j \in 1 .. Len(f[k]) : j \in 1 .. Len(x)
      BY <3>4, <3>5, <3>6
    <3>9. \A j \in 1 .. Len(f[k]) : z[j] = f[k][j]
      BY <3>4, <3>5, <3>8
    <3> QED BY <3>1, <3>3, <3>7, <3>9
  <2>7. \A m \in 0 .. n - k : m \in T
    <3>1. n - k \in Nat
      BY <1>1
    <3> HIDE DEF T
    <3> QED BY <2>5, <2>6, <3>1, UpTo
  <2>8. Ext(f[n])
    <3>1. n - k \in 0 .. n - k /\ k + (n - k) = n
      BY <1>1
    <3>2. n - k \in T
      BY <2>7, <3>1
    <3> QED BY <3>1, <3>2
  <2>9. off[n] = Len(f[n])
    BY <1>1
  <2> HIDE DEF off
  <2>10. \A j \in 1 .. Len(v) : f[n][Len(u) + j] = v[j]
    <3> SUFFICES ASSUME NEW j \in 1 .. Len(v)
                 PROVE  f[n][Len(u) + j] = v[j]
      OBVIOUS
    <3>1. Len(u) + j \in 1 .. Len(w)
      BY <2>4
    <3>2. f[n][Len(u) + j] = w[Len(u) + j]
      BY <2>3, <2>8, <3>1
    <3> QED BY <2>4, <3>2
  <2> QED BY <1>6, <2>2, <2>3, <2>4, <2>8, <2>9, <2>10
<1> HIDE DEF off
<1> QED BY <1>7, <1>8 DEF Laid

\* Sequences are their elements.
LEMMA SameSeq ==
  ASSUME NEW S, NEW R, NEW x \in Seq(S), NEW y \in Seq(R), Len(x) = Len(y),
         \A i \in 1 .. Len(x) : x[i] = y[i]
  PROVE  x = y
<1>1. x \in [1 .. Len(x) -> S] /\ y \in [1 .. Len(x) -> R]
  BY LenProperties
<1> QED BY <1>1
=============================================================================

------------------------------ MODULE QueueProofs ------------------------------
(***************************************************************************)
(* What Without does to a queue, for every queue.  Its walk is a recursive *)
(* function; the two inductions on the position in the queue are made      *)
(* through the least position at which a claim would fail.                 *)
(***************************************************************************)
EXTENDS Queues, TLAPS, FiniteSetTheorems

\* A set of numbers that is not empty has a least element.
LEMMA LeastNatural ==
    ASSUME NEW N, N \subseteq Nat, N # {}
    PROVE  \E n \in N : \A m \in N : n <= m
<1> DEFINE R == OpToRel(<, Nat)
<1>1. IsWellFoundedOn(R, Nat)
  BY NatLessThanWellFounded
<1>2. \A z \in Nat \X Nat : z \in R <=> z[1] < z[2]
  BY DEF OpToRel
<1> HIDE DEF R
<1>3. PICK n \in N : \A m \in N : ~ (<<m, n>> \in R)
  BY <1>1, WFMin
<1>4. ASSUME NEW m \in N PROVE n <= m
  <2>1. <<m, n>> \in Nat \X Nat /\ m \in Nat /\ n \in Nat
    OBVIOUS
  <2>2. ~(m < n)
    BY <1>2, <1>3, <2>1
  <2> QED BY <2>1, <2>2
<1> QED BY <1>4

\* One step of the walk of Without.
Step(q, S, f, i) ==
    IF i = 0 THEN <<>>
    ELSE IF q[i] \in S THEN f[i - 1] ELSE Append(f[i - 1], q[i])

\* The walk of Without is well defined as far as any position.
LEMMA WalkExists ==
    ASSUME NEW q, NEW S, NEW n \in Nat
    PROVE  \E f : f = [i \in 0 .. n |-> Step(q, S, f, i)]
<1> DEFINE Good(m) == \E f : f = [i \in 0 .. m |-> Step(q, S, f, i)]
           Bad == {m \in Nat : ~Good(m)}
<1> SUFFICES ASSUME Bad # {} PROVE FALSE
  OBVIOUS
<1>1. PICK m \in Bad : \A k \in Bad : m <= k
  BY LeastNatural
<1>2. Good(0)
  <2> DEFINE f == [i \in 0 .. 0 |-> <<>>]
  <2>1. f = [i \in 0 .. 0 |-> Step(q, S, f, i)]
    BY DEF Step
  <2> QED BY <2>1
<1>3. m # 0 /\ m \in Nat /\ m - 1 \in Nat
  <2> HIDE DEF Good
  <2>1. m \in Nat /\ m # 0
    BY <1>1, <1>2
  <2> QED BY <2>1
<1>4. Good(m - 1)
  <2> HIDE DEF Good
  <2> QED BY <1>1, <1>3
<1>5. PICK f : f = [i \in 0 .. (m - 1) |-> Step(q, S, f, i)]
  BY <1>4
<1> DEFINE g == [i \in 0 .. m |-> IF i = m THEN Step(q, S, f, m) ELSE f[i]]
<1>6. ASSUME NEW i \in 0 .. m PROVE g[i] = Step(q, S, g, i)
  <2>1. CASE i = 0
    BY <1>3, <1>5, <2>1 DEF Step
  <2>2. CASE i # 0
    <3>1. i - 1 \in 0 .. m /\ i - 1 # m /\ g[i - 1] = f[i - 1]
      BY <1>3, <2>2
    <3>2. Step(q, S, g, i) = Step(q, S, f, i)
      BY <3>1 DEF Step
    <3>3. CASE i = m
      BY <3>2, <3>3
    <3>4. CASE i # m
      <4>1. i \in 0 .. (m - 1)
        BY <1>3, <3>4
      <4>2. f[i] = Step(q, S, f, i)
        BY <1>5, <4>1
      <4> QED BY <3>2, <3>4, <4>2
    <3> QED BY <3>3, <3>4
  <2> QED BY <2>1, <2>2
<1>7. g = [i \in 0 .. m |-> Step(q, S, g, i)]
  <2> HIDE DEF g
  <2>1. g = [i \in 0 .. m |-> g[i]]
    BY DEF g
  <2> QED BY <1>6, <2>1
<1>8. Good(m)
  BY <1>7
<1> QED BY <1>1, <1>8

\* What is left of the first n threads of q: w lists them in the order of q, e
\* being the positions they had.
Left(q, S, n, w, e) ==
    /\ w = [i \in 1 .. Len(w) |-> q[e[i]]]
    /\ Len(w) \in Nat /\ Len(w) <= n
    /\ e \in [1 .. Len(w) -> 1 .. n]
    /\ \A i, j \in 1 .. Len(w) : i < j => e[i] < e[j]
    /\ \A i \in 1 .. Len(w) : q[e[i]] \notin S
    /\ \A k \in 1 .. n : q[k] \notin S => \E i \in 1 .. Len(w) : e[i] = k

\* Without(q, S) lists the threads of q that are not in S, each at its positions,
\* in the order of q.
LEMMA WithoutIsLeft ==
    ASSUME NEW X, NEW q \in Seq(X), NEW S
    PROVE  Without(q, S) \in Seq(X) /\ \E e : Left(q, S, Len(q), Without(q, S), e)
<1> DEFINE N == Len(q)
<1>0. N \in Nat
  OBVIOUS
<1>1. \E f : f = [i \in 0 .. N |-> Step(q, S, f, i)]
  BY <1>0, WalkExists
<1>2. PICK f : f = [i \in 0 .. N |-> Step(q, S, f, i)] /\ Without(q, S) = f[N]
  BY <1>1 DEF Without, Step
<1>3. \A i \in 0 .. N : f[i] = Step(q, S, f, i)
  BY <1>2
<1> DEFINE Good(n) == f[n] \in Seq(X) /\ \E e : Left(q, S, n, f[n], e)
           Bad == {n \in 0 .. N : ~Good(n)}
<1> HIDE DEF N
<1>4. Good(0)
  <2>1. f[0] = <<>>
    BY <1>0, <1>3 DEF Step
  <2>2. Left(q, S, 0, <<>>, <<>>)
    BY DEF Left
  <2> QED BY <2>1, <2>2
<1>5. ASSUME NEW n \in 1 .. N, Good(n - 1) PROVE Good(n)
  <2>1. PICK e : Left(q, S, n - 1, f[n - 1], e)
    BY <1>5
  <2>2. /\ n \in Nat /\ n - 1 \in Nat /\ n - 1 \in 0 .. N /\ q[n] \in X
        /\ f[n] = IF q[n] \in S THEN f[n - 1] ELSE Append(f[n - 1], q[n])
    BY <1>0, <1>3 DEF Step, N
  <2>3. CASE q[n] \in S
    <3>1. f[n] = f[n - 1] /\ f[n] \in Seq(X)
      BY <1>5, <2>2, <2>3
    <3>2. Left(q, S, n, f[n], e)
      BY <2>1, <2>2, <2>3, <3>1 DEF Left
    <3> QED BY <3>1, <3>2
  <2>4. CASE q[n] \notin S
    <3> DEFINE w == f[n - 1]
               v == Append(w, q[n])
               d == [i \in 1 .. Len(w) + 1 |-> IF i = Len(w) + 1 THEN n ELSE e[i]]
    <3>1. w \in Seq(X) /\ v \in Seq(X) /\ f[n] = v /\ Len(v) = Len(w) + 1 /\ Len(w) \in Nat
      BY <1>5, <2>2, <2>4
    <3>2. /\ v = [i \in 1 .. Len(v) |-> IF i = Len(w) + 1 THEN q[n] ELSE w[i]]
          /\ \A i \in 1 .. Len(w) : w[i] = q[e[i]] /\ e[i] \in 1 .. (n - 1)
      BY <2>1, <3>1 DEF Left
    <3>3. d \in [1 .. Len(v) -> 1 .. n]
      BY <2>2, <3>1, <3>2
    <3>4. \A i \in 1 .. Len(v) : v[i] = q[d[i]] /\ q[d[i]] \notin S
      BY <2>1, <2>4, <3>1, <3>2 DEF Left
    <3>5. \A i, j \in 1 .. Len(v) : i < j => d[i] < d[j]
      BY <2>1, <2>2, <3>1, <3>2 DEF Left
    <3>6. ASSUME NEW k \in 1 .. n, q[k] \notin S PROVE \E i \in 1 .. Len(v) : d[i] = k
      <4>1. CASE k = n
        <5>1. Len(w) + 1 \in 1 .. Len(v) /\ d[Len(w) + 1] = n
          BY <3>1
        <5> QED BY <4>1, <5>1
      <4>2. CASE k # n
        <5>1. PICK i \in 1 .. Len(w) : e[i] = k
          BY <2>1, <2>2, <3>6, <4>2 DEF Left
        <5>2. i \in 1 .. Len(v) /\ d[i] = e[i]
          BY <3>1, <5>1
        <5> QED BY <5>1, <5>2
      <4> QED BY <4>1, <4>2
    <3>7. v = [i \in 1 .. Len(v) |-> q[d[i]]]
      BY <3>1, <3>2, <3>4
    <3>8. Len(v) <= n
      BY <2>1, <2>2, <3>1 DEF Left
    <3> HIDE DEF v, d, w
    <3>9. Left(q, S, n, v, d)
      BY <3>1, <3>3, <3>4, <3>5, <3>6, <3>7, <3>8 DEF Left
    <3> QED BY <3>1, <3>9
  <2> QED BY <2>3, <2>4
<1>6. Good(N)
  <2> HIDE DEF Good
  <2> SUFFICES ASSUME ~Good(N) PROVE FALSE
    OBVIOUS
  <2>1. Bad \subseteq Nat /\ N \in Bad
    BY <1>0
  <2>2. PICK n \in Bad : \A m \in Bad : n <= m
    BY <2>1, LeastNatural
  <2>3. n \in 1 .. N /\ n - 1 \in 0 .. N
    BY <1>0, <1>4, <2>2
  <2>4. Good(n - 1)
    BY <2>2, <2>3
  <2> QED BY <1>5, <2>2, <2>3, <2>4
<1> QED BY <1>2, <1>6 DEF N

\* The threads of a queue, and that each of them is in it once.
Members(q) == {q[i] : i \in 1 .. Len(q)}
Once(q) == \A i, j \in 1 .. Len(q) : q[i] = q[j] => i = j

\* The threads left in a queue; a thread that was queued once still is.
LEMMA WithoutMembers ==
    ASSUME NEW X, NEW q \in Seq(X), NEW S
    PROVE  /\ Without(q, S) \in Seq(X)
           /\ Members(Without(q, S)) = Members(q) \ S
           /\ Once(q) => Once(Without(q, S))
<1> DEFINE w == Without(q, S)
<1>1. w \in Seq(X)
  BY WithoutIsLeft
<1>2. PICK e : Left(q, S, Len(q), w, e)
  BY WithoutIsLeft
<1> HIDE DEF w
<1>3. \A i \in 1 .. Len(w) : w[i] = q[e[i]] /\ e[i] \in 1 .. Len(q) /\ w[i] \notin S
  BY <1>2 DEF Left
<1>4. ASSUME NEW k \in 1 .. Len(q), q[k] \notin S
      PROVE  \E i \in 1 .. Len(w) : w[i] = q[k]
  BY <1>2, <1>3, <1>4 DEF Left
<1>5. ASSUME NEW i \in 1 .. Len(w), NEW j \in 1 .. Len(w), e[i] = e[j] PROVE i = j
  <2>1. i \in Nat /\ j \in Nat /\ e[i] \in Int /\ e[j] \in Int
    BY <1>1, <1>3
  <2>2. ~(i < j) /\ ~(j < i)
    BY <1>2, <1>5, <2>1 DEF Left
  <2> QED BY <2>1, <2>2
<1>6. ASSUME Once(q) PROVE Once(w)
  BY <1>3, <1>5, <1>6 DEF Once
<1>7. Members(w) = Members(q) \ S
  <2>1. Members(w) \subseteq Members(q) \ S
    BY <1>3 DEF Members
  <2>2. ASSUME NEW x \in Members(q) \ S PROVE x \in Members(w)
    <3>1. PICK k \in 1 .. Len(q) : x = q[k]
      BY <2>2 DEF Members
    <3> QED BY <1>4, <2>2, <3>1 DEF Members
  <2> QED BY <2>1, <2>2
<1> QED BY <1>1, <1>6, <1>7 DEF w

\* The order of w is the order of q.
KeepsOrder(w, q) ==
    \A i, j \in 1 .. Len(w) : i < j =>
        \E k, l \in 1 .. Len(q) : k < l /\ w[i] = q[k] /\ w[j] = q[l]

\* Two threads left in a queue had the same order before.
LEMMA WithoutOrder ==
    ASSUME NEW X, NEW q \in Seq(X), NEW S
    PROVE  KeepsOrder(Without(q, S), q)
<1>1. PICK e : Left(q, S, Len(q), Without(q, S), e)
  BY WithoutIsLeft
<1> SUFFICES ASSUME NEW i \in 1 .. Len(Without(q, S)), NEW j \in 1 .. Len(Without(q, S)), i < j
             PROVE  \E k, l \in 1 .. Len(q) :
                       k < l /\ Without(q, S)[i] = q[k] /\ Without(q, S)[j] = q[l]
  BY DEF KeepsOrder
<1>2. /\ e[i] \in 1 .. Len(q) /\ e[j] \in 1 .. Len(q) /\ e[i] < e[j]
      /\ Without(q, S)[i] = q[e[i]] /\ Without(q, S)[j] = q[e[j]]
  BY <1>1 DEF Left
<1> QED BY <1>2

\* A thread queued behind the others.
LEMMA AppendMembers ==
    ASSUME NEW X, NEW q \in Seq(X), NEW x \in X
    PROVE  /\ Append(q, x) \in Seq(X)
           /\ Members(Append(q, x)) = Members(q) \cup {x}
           /\ Once(q) /\ x \notin Members(q) => Once(Append(q, x))
<1> DEFINE a == Append(q, x)
<1>1. /\ a \in Seq(X) /\ Len(q) \in Nat /\ Len(a) = Len(q) + 1
      /\ \A i \in 1 .. Len(a) : a[i] = IF i = Len(q) + 1 THEN x ELSE q[i]
  OBVIOUS
<1> HIDE DEF a
<1>2. Members(a) \subseteq Members(q) \cup {x}
  BY <1>1 DEF Members
<1>3. ASSUME NEW y \in Members(q) PROVE y \in Members(a)
  <2>1. PICK k \in 1 .. Len(q) : y = q[k]
    BY DEF Members
  <2>2. k \in 1 .. Len(a) /\ a[k] = y
    BY <1>1, <2>1
  <2> QED BY <2>2 DEF Members
<1>4. x \in Members(a)
  <2>1. Len(a) \in 1 .. Len(a) /\ a[Len(a)] = x
    BY <1>1
  <2> QED BY <2>1 DEF Members
<1>5. ASSUME Once(q), x \notin Members(q), NEW i \in 1 .. Len(a), NEW j \in 1 .. Len(a),
             a[i] = a[j]
      PROVE  i = j
  <2>1. \A k \in 1 .. Len(q) : q[k] # x
    BY <1>5 DEF Members
  <2>2. CASE i = Len(q) + 1 \/ j = Len(q) + 1
    BY <1>1, <1>5, <2>1, <2>2
  <2>3. CASE i # Len(q) + 1 /\ j # Len(q) + 1
    BY <1>1, <1>5, <2>3 DEF Once
  <2> QED BY <2>2, <2>3
<1>6. Once(q) /\ x \notin Members(q) => Once(a)
  BY <1>5 DEF Once
<1> QED BY <1>1, <1>2, <1>3, <1>4, <1>6 DEF a

\* The first k threads of a queue are k threads.
LEMMA FirstThreads ==
    ASSUME NEW X, NEW q \in Seq(X), Once(q), NEW k \in 0 .. Len(q)
    PROVE  /\ IsFiniteSet({q[i] : i \in 1 .. k})
           /\ Cardinality({q[i] : i \in 1 .. k}) = k
<1> DEFINE T == {q[i] : i \in 1 .. k}
           f == [i \in 1 .. k |-> q[i]]
<1>1. k \in Nat /\ \A i \in 1 .. k : i \in 1 .. Len(q)
  OBVIOUS
<1>2. \A i, j \in 1 .. k : q[i] = q[j] => i = j
  BY <1>1 DEF Once
<1>3. f \in Bijection(1 .. k, T)
  BY <1>2 DEF Bijection, Injection, Surjection, IsInjective
<1>4. ExistsBijection(1 .. k, T)
  BY <1>3 DEF ExistsBijection
<1> HIDE DEF T
<1>5. IsFiniteSet(T) /\ Cardinality(T) = k
  BY <1>1, <1>4, FS_CountingElements, FS_NatBijection
<1> QED BY <1>5 DEF T
================================================================================

-------------------------- MODULE SessionLaneProofs --------------------------
(***************************************************************************)
(* TLAPS proofs about SessionLane, for every set of sessions, every finite *)
(* set of concurrent calls, every max_lanes and whatever the watchdog, gc  *)
(* and remove do.                                                          *)
(***************************************************************************)
EXTENDS SessionLane, SequenceTheorems, FiniteSetTheorems, WellFoundedInduction, TLAPS

-----------------------------------------------------------------------------
(* Lists without repetition: the access order, the queue of waiters and    *)
(* the victims of an eviction                                              *)

Members(q)  == {q[i] : i \in 1..Len(q)}
Distinct(q) == \A i, j \in 1..Len(q) : q[i] = q[j] => i = j

\* A set of numbers that is not empty has a least element.
LEMMA NatLeast ==
  ASSUME NEW T, T \subseteq Nat, T # {}
  PROVE  \E x \in T : \A y \in T : x <= y
<1> DEFINE R == {p \in Nat \X Nat : p[1] < p[2]}
<1>0. IsWellFoundedOn(R, Nat)
  <2>1. R = OpToRel(<, Nat) BY Zenon DEF OpToRel
  <2> QED BY <2>1, NatLessThanWellFounded, Zenon
<1>1. PICK x \in T : \A y \in T : <<y,x>> \notin R
  BY <1>0, WFMin
<1>2. \A y \in T : ~(y < x)
  BY <1>1
<1> QED BY <1>2

\* Min is that element.
LEMMA MinIs ==
  ASSUME NEW T, T \subseteq Nat, T # {}
  PROVE  Seqs!Min(T) \in T /\ \A y \in T : Seqs!Min(T) <= y
BY NatLeast DEF Seqs!Min

\* Without takes the element out at its only place.
LEMMA WithoutIs ==
  ASSUME NEW A, NEW q \in Seq(A), Distinct(q), NEW x
  PROVE \/ x \notin Members(q) /\ Without(q,x) = q
        \/ \E k \in 1..Len(q) : /\ q[k] = x
             /\ Without(q,x) = SubSeq(q, 1, k-1) \o SubSeq(q, k+1, Len(q))
<1>1. CASE x \notin Members(q)
  BY <1>1 DEF Without, Seqs!RemoveFirst, Members
<1>2. CASE x \in Members(q)
  <2> DEFINE I == {i \in 1..Len(q) : q[i] = x}
  <2>1. I # {} /\ I \subseteq Nat BY <1>2 DEF Members
  <2>2. Seqs!Min(I) \in I BY <2>1, MinIs
  <2>3. Without(q,x) = Seqs!RemoveAt(q, Seqs!Min(I))
    BY <1>2, <2>1 DEF Without, Seqs!RemoveFirst, Seqs!SelectInSeq, Members
  <2> QED BY <2>2, <2>3 DEF Seqs!RemoveAt
<1> QED BY <1>1, <1>2
\* A sequence from which position k is cut out.
LEMMA CutFacts ==
  ASSUME NEW A, NEW q \in Seq(A), NEW k \in 1..Len(q)
  PROVE  LET r == SubSeq(q, 1, k - 1) \o SubSeq(q, k + 1, Len(q))
         IN  /\ r \in Seq(A) /\ Len(r) = Len(q) - 1
             /\ \A i \in 1..Len(r) : r[i] = IF i < k THEN q[i] ELSE q[i + 1]
<1> DEFINE a == SubSeq(q, 1, k - 1)
           b == SubSeq(q, k + 1, Len(q))
<1>1. a \in Seq(A) /\ Len(a) = k - 1 /\ \A i \in 1..(k - 1) : a[i] = q[i]
  OBVIOUS
<1>2. b \in Seq(A) /\ Len(b) = Len(q) - k /\ \A i \in 1..(Len(q) - k) : b[i] = q[i + k]
  OBVIOUS
<1> HIDE DEF a, b
<1>3. /\ a \o b \in Seq(A) /\ Len(a \o b) = Len(a) + Len(b)
      /\ \A i \in 1..(Len(a) + Len(b)) : (a \o b)[i] = IF i <= Len(a) THEN a[i] ELSE b[i - Len(a)]
  BY <1>1, <1>2, ConcatProperties
<1>4. Len(a \o b) = Len(q) - 1
  <2>1. Len(q) \in Nat OBVIOUS
  <2> QED BY <1>1, <1>2, <1>3, <2>1
<1>5. ASSUME NEW i \in 1..Len(a \o b) PROVE (a \o b)[i] = IF i < k THEN q[i] ELSE q[i + 1]
  <2>1. CASE i < k
    <3>1. i \in 1..(k - 1) /\ i <= Len(a) /\ i \in 1..(Len(a) + Len(b))
      BY <1>1, <1>3, <2>1
    <3> QED BY <1>1, <1>3, <2>1, <3>1
  <2>2. CASE ~(i < k)
    <3>1. /\ i - (k - 1) \in 1..(Len(q) - k) /\ i - (k - 1) + k = i + 1 /\ ~(i <= k - 1)
          /\ i \in 1..(Len(a) + Len(b))
      BY <2>2, <1>3, <1>4
    <3> QED BY <1>1, <1>2, <1>3, <3>1, <2>2
  <2> QED BY <2>1, <2>2
<1> QED BY <1>3, <1>4, <1>5 DEF a, b

\* Without keeps a list free of repetition and removes one element from it.
LEMMA WithoutFacts ==
  ASSUME NEW A, NEW q \in Seq(A), Distinct(q), NEW x
  PROVE  /\ Without(q,x) \in Seq(A) /\ Distinct(Without(q,x))
         /\ Members(Without(q,x)) = Members(q) \ {x}
<1>1. CASE x \notin Members(q) /\ Without(q,x) = q
  BY <1>1
<1>2. ASSUME NEW k \in 1..Len(q), q[k] = x, 
             Without(q,x) = SubSeq(q, 1, k-1) \o SubSeq(q, k+1, Len(q))
      PROVE  /\ Without(q,x) \in Seq(A) /\ Distinct(Without(q,x))
             /\ Members(Without(q,x)) = Members(q) \ {x}
  <2> DEFINE r == Without(q,x)
  <2>1. /\ r \in Seq(A) /\ Len(r) = Len(q) - 1
        /\ \A i \in 1..Len(r) : r[i] = IF i < k THEN q[i] ELSE q[i + 1]
    <3> DEFINE c == SubSeq(q, 1, k-1) \o SubSeq(q, k+1, Len(q))
    <3>1. /\ c \in Seq(A) /\ Len(c) = Len(q) - 1
          /\ \A i \in 1..Len(c) : c[i] = IF i < k THEN q[i] ELSE q[i + 1]
      BY CutFacts, Zenon
    <3>2. r = c
      BY <1>2, Zenon
    <3> HIDE DEF r, c
    <3> QED BY <3>1, <3>2, Zenon
  <2> HIDE DEF r
  <2>2. Distinct(r)
    <3> DEFINE p(i) == IF i < k THEN i ELSE i + 1
    <3>1. \A i \in 1..Len(r) : p(i) \in 1..Len(q) /\ r[i] = q[p(i)]
      BY <2>1
    <3>2. \A i, j \in 1..Len(r) : p(i) = p(j) => i = j
      OBVIOUS
    <3> HIDE DEF p
    <3> QED BY <3>1, <3>2 DEF Distinct
  <2>3. Members(r) \subseteq Members(q) \ {x}
    <3> SUFFICES ASSUME NEW i \in 1..Len(r) PROVE r[i] \in Members(q) /\ r[i] # x
      BY DEF Members
    <3>1. PICK j \in 1..Len(q) : j # k /\ r[i] = q[j]
      <4>1. CASE i < k
        BY <2>1, <4>1
      <4>2. CASE ~(i < k)
        <5>1. i + 1 \in 1..Len(q) /\ i + 1 # k /\ r[i] = q[i + 1]
          BY <2>1, <4>2
        <5> QED BY <5>1
      <4> QED BY <4>1, <4>2
    <3>2. q[j] # q[k]
      BY <3>1 DEF Distinct
    <3>3. q[k] = x
      BY <1>2
    <3> QED BY <3>1, <3>2, <3>3 DEF Members
  <2>4. ASSUME NEW y \in Members(q) \ {x} PROVE y \in Members(r)
    <3>1. PICK i \in 1..Len(q) : q[i] = y BY <2>4 DEF Members
    <3>2. i # k BY <3>1, <1>2, <2>4
    <3>3. CASE i < k
      <4>1. i \in 1..Len(r) /\ r[i] = y BY <3>1, <3>3, <2>1
      <4> QED BY <4>1 DEF Members
    <3>4. CASE i > k
      <4>1. i-1 \in 1..Len(r) /\ r[i-1] = y BY <3>1, <3>4, <2>1
      <4> QED BY <4>1 DEF Members
    <3> QED BY <3>2, <3>3, <3>4
  <2> QED BY <2>1, <2>2, <2>3, <2>4 DEF r
<1> QED BY <1>1, <1>2, WithoutIs

\* A list is its head and its tail.
LEMMA HeadAndTail ==
  ASSUME NEW A, NEW q \in Seq(A), q # <<>>
  PROVE  Members(q) = {Head(q)} \cup Members(Tail(q))
<1>1. /\ Len(q) \in Nat \ {0} /\ Head(q) = q[1] /\ Len(Tail(q)) = Len(q) - 1
      /\ \A i \in 1..(Len(q) - 1) : Tail(q)[i] = q[i + 1]
  OBVIOUS
<1> DEFINE r == Tail(q)
<1>2. Len(r) = Len(q) - 1 /\ \A i \in 1..(Len(q) - 1) : r[i] = q[i + 1]
  BY <1>1
<1> HIDE DEF r
<1>3. \A i \in 1..Len(q) : i = 1 \/ (i - 1 \in 1..Len(r) /\ r[i - 1] = q[i])
  BY <1>1, <1>2
<1>4. \A i \in 1..Len(r) : i + 1 \in 1..Len(q) /\ r[i] = q[i + 1]
  BY <1>1, <1>2
<1>5. 1 \in 1..Len(q)
  BY <1>1
<1>6. Members(q) = {q[1]} \cup Members(r)
  <2>1. Members(r) \subseteq Members(q) /\ q[1] \in Members(q)
    BY <1>4, <1>5 DEF Members
  <2>2. ASSUME NEW i \in 1..Len(q), i # 1 PROVE q[i] \in Members(r)
    BY <1>3, <2>2 DEF Members
  <2>3. Members(q) \subseteq {q[1]} \cup Members(r)
    BY <2>2 DEF Members
  <2> QED BY <2>1, <2>3
<1> QED BY <1>1, <1>6 DEF r

\* So does Append, which adds one.
LEMMA AppendFacts ==
  ASSUME NEW A, NEW q \in Seq(A), Distinct(q), NEW x \in A, x \notin Members(q)
  PROVE  /\ Append(q,x) \in Seq(A) /\ Distinct(Append(q,x))
         /\ Members(Append(q,x)) = Members(q) \cup {x}
<1>1. /\ Append(q,x) \in Seq(A) /\ Len(Append(q,x)) = Len(q) + 1
      /\ \A i \in 1..Len(q) : Append(q,x)[i] = q[i]
      /\ Append(q,x)[Len(q)+1] = x
  OBVIOUS
<1> DEFINE r == Append(q,x)
<1> HIDE DEF r
<1>2. Distinct(r) BY <1>1 DEF Distinct, Members, r
<1>3. Members(r) = Members(q) \cup {x} BY <1>1 DEF Members, r
<1> QED BY <1>1, <1>2, <1>3 DEF r

\* A list without repetition is as long as it has members.
LEMMA MembersCount ==
  ASSUME NEW A, NEW q \in Seq(A), Distinct(q)
  PROVE  IsFiniteSet(Members(q)) /\ Cardinality(Members(q)) = Len(q)
<1> DEFINE f == [i \in 1..Len(q) |-> q[i]]
<1>1. f \in Bijection(1..Len(q), Members(q))
  BY DEF Distinct, Members, Bijection, Injection, Surjection, IsInjective
<1>2. Len(q) \in Nat OBVIOUS
<1> QED BY <1>1, <1>2, FS_CountingElements, FS_NatBijection DEF ExistsBijection

\* Induction over the numbers, for a property given as a set.
LEMMA SetInduction ==
  ASSUME NEW T, 0 \in T, \A n \in Nat : n \in T => n + 1 \in T
  PROVE  Nat \subseteq T
<1> SUFFICES ASSUME Nat \ T # {} PROVE FALSE OBVIOUS
<1>1. PICK x \in Nat \ T : \A y \in Nat \ T : x <= y BY NatLeast
<1>2. x # 0 /\ x-1 \in Nat BY <1>1
<1>3. x-1 \in T BY <1>1, <1>2
<1>4. (x-1)+1 = x BY <1>2
<1> QED BY <1>1,<1>2,<1>3,<1>4

\* g[k] is the k-th step of the iteration.
Iterated(g, n, start, step) ==
    g[0] = start /\ \A k \in 1..n : g[k] = step[<<k, g[k - 1]>>]

\* The iteration of a function on a set exists: recursive definitions of this
\* shape have a solution.
LEMMA Iterates ==
  ASSUME NEW n \in Nat, NEW X, NEW start \in X, NEW step \in [(1..n) \X X -> X]
  PROVE  \E g \in [0..n -> X] : Iterated(g, n, start, step)
<1> DEFINE Good(m, g) == g[0] = start /\ \A k \in 1..m : g[k] = step[<<k, g[k - 1]>>]
           T == {m \in Nat : m <= n => \E g \in [0..m -> X] : Good(m, g)}
<1>1. 0 \in T
  <2>1. [k \in 0..0 |-> start] \in [0..0 -> X] /\ Good(0, [k \in 0..0 |-> start])
    OBVIOUS
  <2> HIDE DEF Good
  <2> QED BY <2>1
<1>2. ASSUME NEW m \in Nat, m \in T PROVE m + 1 \in T
  <2> SUFFICES ASSUME m + 1 <= n PROVE \E h \in [0..(m + 1) -> X] : Good(m + 1, h)
    OBVIOUS
  <2>1. PICK g \in [0..m -> X] : Good(m, g)
    BY <1>2
  <2> DEFINE h == [k \in 0..(m + 1) |-> IF k = m + 1 THEN step[<<m + 1, g[m]>>] ELSE g[k]]
  <2>2. step[<<m + 1, g[m]>>] \in X
    <3>1. m + 1 \in 1..n /\ g[m] \in X OBVIOUS
    <3>2. <<m + 1, g[m]>> \in (1..n) \X X BY <3>1
    <3> QED BY <3>2
  <2>3. h \in [0..(m + 1) -> X] BY <2>2
  <2>4. h[0] = start BY <2>1
  <2>5. ASSUME NEW k \in 1..(m + 1) PROVE h[k] = step[<<k, h[k - 1]>>]
    <3>1. k - 1 \in 0..m /\ h[k - 1] = g[k - 1] OBVIOUS
    <3>2. CASE k = m + 1
      <4>1. h[k] = step[<<m + 1, g[m]>>] /\ k - 1 = m BY <3>2
      <4> HIDE DEF h
      <4> QED BY <4>1, <3>1, <3>2
    <3>3. CASE k # m + 1
      <4>1. h[k] = g[k] /\ k \in 1..m BY <3>3
      <4> QED BY <4>1, <3>1, <2>1
    <3> QED BY <3>2, <3>3
  <2> QED BY <2>3, <2>4, <2>5
<1> HIDE DEF T, Good
<1>3. n \in T BY <1>1, <1>2, SetInduction
<1> QED BY <1>3 DEF T, Good, Iterated

\* f[k] is what Among keeps of the first k elements.
Keeps(f, q, S) ==
    /\ f[0] = <<>> /\ Among(q, S) = f[Len(q)]
    /\ \A k \in 1..Len(q) : f[k] = IF q[k] \in S THEN Append(f[k - 1], q[k]) ELSE f[k - 1]

\* The recursive definition of Among has its solution.
LEMMA AmongRec ==
  ASSUME NEW A, NEW q \in Seq(A), NEW S
  PROVE  \E f \in [0..Len(q) -> Seq(A)] : Keeps(f, q, S)
<1> DEFINE n == Len(q)
           step == [p \in (1..n) \X Seq(A) |-> IF q[p[1]] \in S THEN Append(p[2], q[p[1]]) ELSE p[2]]
           Body(f) == [i \in 0..n |-> IF i = 0 THEN <<>>
                         ELSE IF q[i] \in S THEN Append(f[i - 1], q[i]) ELSE f[i - 1]]
<1>1. step \in [(1..n) \X Seq(A) -> Seq(A)]
  OBVIOUS
<1>2. n \in Nat /\ <<>> \in Seq(A)
  OBVIOUS
<1>3. PICK g \in [0..n -> Seq(A)] : g[0] = <<>> /\ \A k \in 1..n : g[k] = step[<<k, g[k - 1]>>]
  <2> DEFINE X == Seq(A)
             empty == <<>>
  <2>1. n \in Nat /\ empty \in X /\ step \in [(1..n) \X X -> X]
    BY <1>1, <1>2
  <2> HIDE DEF step, n, X, empty
  <2>3. \E g \in [0..n -> X] : Iterated(g, n, empty, step)
    BY <2>1, Iterates
  <2> QED BY <2>3 DEF X, empty, Iterated
<1>4. \A k \in 1..n : g[k] = IF q[k] \in S THEN Append(g[k - 1], q[k]) ELSE g[k - 1]
  <2> TAKE k \in 1..n
  <2>1. k - 1 \in 0..n /\ g[k - 1] \in Seq(A) OBVIOUS
  <2>2. <<k, g[k - 1]>> \in (1..n) \X Seq(A) BY <2>1
  <2> QED BY <1>3, <2>2
<1>5. g = Body(g)
  <2>1. ASSUME NEW i \in 0..n PROVE g[i] = Body(g)[i]
    <3>1. CASE i = 0 BY <3>1, <1>3
    <3>2. CASE i # 0
      <4>1. i \in 1..n BY <3>2
      <4>2. g[i] = IF q[i] \in S THEN Append(g[i - 1], q[i]) ELSE g[i - 1] BY <4>1, <1>4
      <4> QED BY <4>2, <3>2
    <3> QED BY <3>1, <3>2
  <2> QED BY <2>1
<1> DEFINE F == CHOOSE f : f = Body(f)
<1>6. Among(q, S) = F[n]
  BY DEF Among
<1>7. F = Body(F)
  <2> HIDE DEF Body
  <2> QED BY <1>5
<1> HIDE DEF F
<1>8. F[0] = <<>> /\ \A k \in 1..n : F[k] = IF q[k] \in S THEN Append(F[k - 1], q[k]) ELSE F[k - 1]
  <2>1. \A i \in 0..n : F[i] = Body(F)[i] BY <1>7
  <2>2. \A i \in 0..n : Body(F)[i] = IF i = 0 THEN <<>>
                         ELSE IF q[i] \in S THEN Append(F[i - 1], q[i]) ELSE F[i - 1]
    OBVIOUS
  <2>3. 0 \in 0..n /\ \A k \in 1..n : k \in 0..n /\ k # 0 BY <1>2
  <2> HIDE DEF Body, n
  <2> QED BY <2>1, <2>2, <2>3
<1> DEFINE T == {k \in Nat : k <= n => F[k] = g[k]}
<1>9. Nat \subseteq T
  <2>1. 0 \in T BY <1>3, <1>8
  <2>2. ASSUME NEW k \in Nat, k \in T PROVE k + 1 \in T
    <3> SUFFICES ASSUME k + 1 <= n PROVE F[k + 1] = g[k + 1] OBVIOUS
    <3>1. k + 1 \in 1..n /\ (k + 1) - 1 = k /\ F[k] = g[k] BY <2>2
    <3> QED BY <3>1, <1>4, <1>8
  <2> HIDE DEF T
  <2> QED BY <2>1, <2>2, SetInduction
<1>10. F = g
  <2>1. DOMAIN F = 0..n /\ F = [i \in 0..n |-> F[i]] BY <1>7
  <2>2. \A i \in 0..n : F[i] = g[i] BY <1>9
  <2> QED BY <2>1, <2>2
<1> QED BY <1>3, <1>4, <1>6, <1>10 DEF Keeps

\* Among keeps the members of S, and none twice.
LEMMA AmongFacts ==
  ASSUME NEW A, NEW q \in Seq(A), Distinct(q), NEW S
  PROVE  /\ Among(q, S) \in Seq(A) /\ Distinct(Among(q, S))
         /\ Members(Among(q, S)) = Members(q) \cap S
<1>0. PICK f \in [0..Len(q) -> Seq(A)] : Keeps(f, q, S)
  BY AmongRec
<1>1. /\ f[0] = <<>> /\ Among(q, S) = f[Len(q)]
      /\ \A k \in 1..Len(q) : f[k] = IF q[k] \in S THEN Append(f[k - 1], q[k]) ELSE f[k - 1]
  BY <1>0 DEF Keeps
<1> DEFINE Upto(k) == {q[i] : i \in 1..k}
           Good(k) == Distinct(f[k]) /\ Members(f[k]) = Upto(k) \cap S
           T == {k \in Nat : k <= Len(q) => Good(k)}
<1>2. 0 \in T
  <2>1. Len(f[0]) = 0
    BY <1>1
  <2>2. Distinct(f[0]) /\ Members(f[0]) = {} /\ Upto(0) = {}
    BY <2>1 DEF Distinct, Members
  <2> QED BY <2>2
<1>3. ASSUME NEW k \in Nat, k \in T PROVE k + 1 \in T
  <2> SUFFICES ASSUME k + 1 <= Len(q) PROVE Good(k + 1)
    OBVIOUS
  <2>1. /\ k \in 0..Len(q) /\ k + 1 \in 1..Len(q) /\ (k + 1) - 1 = k
        /\ f[k] \in Seq(A) /\ q[k + 1] \in A /\ Good(k)
    BY <1>3
  <2>2. f[k + 1] = IF q[k + 1] \in S THEN Append(f[k], q[k + 1]) ELSE f[k]
    BY <1>1, <2>1
  <2>3. Upto(k + 1) = Upto(k) \cup {q[k + 1]} /\ q[k + 1] \notin Upto(k)
    BY <2>1 DEF Distinct
  <2> HIDE DEF Upto
  <2>4. CASE q[k + 1] \in S
    <3>1. /\ f[k + 1] = Append(f[k], q[k + 1])
          /\ Distinct(f[k]) /\ Members(f[k]) = Upto(k) \cap S
      BY <2>1, <2>2, <2>4
    <3>2. q[k + 1] \notin Members(f[k])
      BY <2>3, <3>1
    <3>3. /\ Distinct(Append(f[k], q[k + 1]))
          /\ Members(Append(f[k], q[k + 1])) = Members(f[k]) \cup {q[k + 1]}
      BY <2>1, <3>1, <3>2, AppendFacts
    <3> QED BY <2>3, <2>4, <3>1, <3>3
  <2>5. CASE q[k + 1] \notin S
    <3>1. f[k + 1] = f[k]
      BY <2>2, <2>5
    <3> QED BY <2>1, <2>3, <2>5, <3>1
  <2> QED BY <2>4, <2>5
<1>4. Len(q) \in T
  <2>1. Nat \subseteq T
    <3> HIDE DEF T
    <3> QED BY <1>2, <1>3, SetInduction
  <2>2. Len(q) \in Nat
    OBVIOUS
  <2> HIDE DEF T
  <2> QED BY <2>1, <2>2
<1>5. Upto(Len(q)) = Members(q)
  BY DEF Members
<1> QED BY <1>1, <1>4, <1>5

-----------------------------------------------------------------------------
(* Serialisation *)

\* The map and the calls.  Which lanes are victims, and in which order calls
\* wait for a mutex, plays no part in the argument.
CallsTyped ==
    /\ made \in Nat /\ lanes \in [Sessions -> 0..made]
    /\ DOMAIN task = Tasks
    /\ \A t \in Tasks : /\ DOMAIN task[t] = {"pc", "session", "lane", "victims"}
                        /\ task[t].lane \in 0..made
                        /\ task[t].pc \in PCs
                        /\ task[t].pc # "idle" => task[t].session \in Sessions

Using(t) == task[t].pc \in {"clone", "wait", "run"}

\* A call uses the lane its session has in the map, unless that lane was torn.
LaneCurrent ==
    \A t \in Tasks : Using(t) => /\ task[t].lane # 0
                                 /\ lanes[Session(t)] = task[t].lane \/ Session(t) \in torn

\* A mutex admits one run at a time.
MutexHeldOnce ==
    \A t, u \in Tasks : At(t, "run") /\ At(u, "run") /\ task[t].lane = task[u].lane => t = u

LaneInv == CallsTyped /\ LaneCurrent /\ MutexHeldOnce

-----------------------------------------------------------------------------
\* No lane, no call.
LEMMA InitLane == Init => LaneInv
BY DEF Init, LaneInv, CallsTyped, LaneCurrent, MutexHeldOnce, Idle, Using, At, PCs

\* A lane that leaves the map leaves a map behind.
LEMMA DropKeepsTyped ==
    ASSUME CallsTyped, NEW v, Drop(v)
    PROVE  lanes' \in [Sessions -> 0..made]
<1>1. 0 \in 0..made /\ lanes \in [Sessions -> 0..made]
  BY DEF CallsTyped
<1>2. lanes' = [lanes EXCEPT ![v] = 0]
  BY DEF Drop
<1> QED BY <1>1, <1>2, Zenon

\* A lane that leaves the map tears the session whose calls use it.
LEMMA DropKeepsCurrent ==
    ASSUME CallsTyped, LaneCurrent, NEW v, Drop(v),
           NEW t \in Tasks, Using(t)
    PROVE  lanes'[Session(t)] = task[t].lane \/ Session(t) \in torn'
BY DEF CallsTyped, LaneCurrent, Drop, Using, Tracked, InUse, Session

\* Every step of a call, the watchdog, gc and remove keeps the invariant.
LEMMA StepLane == LaneInv /\ [Next]_vars => LaneInv'
<1> SUFFICES ASSUME LaneInv, [Next]_vars PROVE LaneInv'
  OBVIOUS
<1> USE DEF LaneInv, CallsTyped, LaneCurrent, MutexHeldOnce, Using, At, Session, PCs
<1>1. ASSUME NEW t \in Tasks, NEW s \in Sessions, Acquire(t, s) PROVE LaneInv'
  BY <1>1 DEF Acquire, Become, Idle
<1>2. ASSUME NEW t \in Tasks, Evict(t) PROVE LaneInv'
  <2>1. CASE task[t].victims = <<>>
    BY <1>2, <2>1 DEF Evict, Goto, Become
  <2>2. CASE task[t].victims # <<>>
    <3>1. /\ Drop(Head(task[t].victims)) /\ made' = made
          /\ task' = [task EXCEPT ![t] = [task[t] EXCEPT !.victims = Tail(@)]]
      BY <1>2, <2>2 DEF Evict, Become
    <3>2. lanes' \in [Sessions -> 0..made]
      BY <3>1, DropKeepsTyped
    <3>3. \A u \in Tasks : /\ task'[u].pc = task[u].pc /\ task'[u].lane = task[u].lane
                           /\ task'[u].session = task[u].session
                           /\ DOMAIN task'[u] = DOMAIN task[u]
      BY <3>1
    <3>4. \A u \in Tasks : Using(u) => lanes'[Session(u)] = task[u].lane \/ Session(u) \in torn'
      BY <3>1, DropKeepsCurrent
    <3> QED BY <3>1, <3>2, <3>3, <3>4
  <2> QED BY <2>1, <2>2
<1>3. ASSUME NEW t \in Tasks, GetEntry(t) PROVE LaneInv'
  <2>1. /\ made' \in Nat /\ made' >= made /\ torn' = torn /\ lanes' \in [Sessions -> 0..made']
        /\ \A s \in Sessions : lanes[s] # 0 => lanes'[s] = lanes[s]
        /\ lanes'[Session(t)] # 0
    BY <1>3 DEF GetEntry, Insert
  <2>2. task' = [task EXCEPT ![t] = [task[t] EXCEPT !.pc = "clone", !.lane = lanes'[Session(t)]]]
    BY <1>3 DEF GetEntry, Insert, Become
  <2>3. \A u \in Tasks : u # t => task'[u] = task[u]
    BY <2>2
  <2>4. /\ task'[t].pc = "clone" /\ task'[t].lane = lanes'[Session(t)]
        /\ task'[t].session = Session(t) /\ Session(t) \in Sessions
        /\ DOMAIN task' = Tasks /\ DOMAIN task'[t] = DOMAIN task[t]
    BY <2>2, <1>3 DEF GetEntry
  <2>5. CallsTyped'
    BY <2>1, <2>3, <2>4
  <2>6. LaneCurrent'
    BY <2>1, <2>3, <2>4
  <2>7. MutexHeldOnce'
    BY <2>3, <2>4
  <2> QED BY <2>5, <2>6, <2>7
<1>4. ASSUME NEW t \in Tasks, CloneMutex(t) PROVE LaneInv'
  BY <1>4 DEF CloneMutex, Goto, Become
<1>5. ASSUME NEW t \in Tasks, Lock(t) PROVE LaneInv'
  BY <1>5 DEF Lock, Locked, Goto, Become
<1>6. ASSUME NEW t \in Tasks, Replace(t) PROVE LaneInv'
  BY <1>6 DEF Replace, Insert, Become, Tracked, InUse
<1>7. ASSUME NEW t \in Tasks, WatchdogFires(t) PROVE LaneInv'
  BY <1>7 DEF WatchdogFires, Goto, Become
<1>8. ASSUME NEW t \in Tasks, Finish(t) PROVE LaneInv'
  BY <1>8 DEF Finish, Become, Idle
<1>9. ASSUME NEW s \in Sessions, Drop(s), UNCHANGED <<task, made>> PROVE LaneInv'
  <2>1. lanes' \in [Sessions -> 0..made]
    BY <1>9 DEF Drop
  <2>2. \A u \in Tasks : Using(u) => lanes'[Session(u)] = task[u].lane \/ Session(u) \in torn'
    BY <1>9, DropKeepsCurrent
  <2> QED BY <1>9, <2>1, <2>2
<1>10. CASE UNCHANGED vars
  BY <1>10 DEF vars
<1> QED
  BY <1>1, <1>2, <1>3, <1>4, <1>5, <1>6, <1>7, <1>8, <1>9, <1>10
  DEF Next, Step, Remove, Gc, Done

\* acquire serialises the runs of a session: two of them overlap only if the
\* session's lane left the map while a call was using it, however calls,
\* evictions, timeouts, gc and remove interleave.
THEOREM Serialised == Spec => []OverlapOnlyWhenTorn
<1>1. LaneInv => OverlapOnlyWhenTorn
  BY DEF LaneInv, LaneCurrent, MutexHeldOnce, OverlapOnlyWhenTorn, Overlap, Using, At, Session
<1> QED BY <1>1, InitLane, StepLane, PTL DEF Spec

-----------------------------------------------------------------------------
(* Types: the access order lists the tracked sessions, the queue the       *)
(* waiting calls                                                           *)

ListsTyped ==
    /\ lru \in Seq(Sessions) /\ Distinct(lru) /\ Members(lru) = Tracked
    /\ waiters \in Seq(Tasks) /\ Distinct(waiters)
    /\ Members(waiters) = {t \in Tasks : At(t, "wait")}
    /\ \A t \in Tasks : task[t].victims \in Seq(Sessions)
    /\ torn \subseteq Sessions

\* No list has an element.
LEMMA InitLists == Init => ListsTyped
<1> SUFFICES ASSUME Init PROVE ListsTyped
  OBVIOUS
<1>1. /\ lru = <<>> /\ waiters = <<>> /\ torn = {} /\ Tracked = {}
      /\ \A t \in Tasks : task[t].pc = "idle" /\ task[t].victims = <<>>
  BY DEF Init, Idle, Tracked
<1>2. Distinct(<<>>) /\ Members(<<>>) = {}
  BY DEF Distinct, Members
<1>3. {t \in Tasks : At(t, "wait")} = {}
  BY <1>1 DEF At
<1>4. /\ lru \in Seq(Sessions) /\ Distinct(lru) /\ Members(lru) = Tracked
      /\ waiters \in Seq(Tasks) /\ Distinct(waiters)
      /\ Members(waiters) = {t \in Tasks : At(t, "wait")}
  <2>1. <<>> \in Seq(Sessions) /\ <<>> \in Seq(Tasks)
    OBVIOUS
  <2> QED BY <1>1, <1>2, <1>3, <2>1, Zenon
<1>5. <<>> \in Seq(Sessions)
  OBVIOUS
<1>6. \A t \in Tasks : task[t].victims \in Seq(Sessions)
  BY <1>1, <1>5, Zenon
<1> QED BY <1>1, <1>4, <1>6 DEF ListsTyped

\* The victims of an eviction are sessions.
LEMMA VictimsTyped ==
    ASSUME ListsTyped, CallsTyped
    PROVE  Victims \in Seq(Sessions)
<1>1. IdleLanes \in Seq(Sessions)
  BY AmongFacts DEF ListsTyped, IdleLanes
<1>2. Len(lru) \in Nat /\ MaxLanes \in Nat
  BY LaneConstants DEF ListsTyped
<1> DEFINE excess == IF Len(lru) <= MaxLanes THEN 0 ELSE Len(lru) - MaxLanes
           count  == IF Len(IdleLanes) < excess THEN Len(IdleLanes) ELSE excess
<1>3. count \in Nat /\ count <= Len(IdleLanes) /\ Len(IdleLanes) \in Nat
  BY <1>1, <1>2
<1>4. Victims = SubSeq(IdleLanes, 1, count)
  BY DEF Victims
<1> HIDE DEF count
<1> QED BY <1>1, <1>3, <1>4

\* A session moves to the end of the access order when its lane is touched.
LEMMA TouchLists ==
    ASSUME ListsTyped, NEW s \in Sessions
    PROVE  LET q == Append(Without(lru, s), s)
           IN  q \in Seq(Sessions) /\ Distinct(q) /\ Members(q) = Members(lru) \cup {s}
<1>1. /\ Without(lru, s) \in Seq(Sessions) /\ Distinct(Without(lru, s))
      /\ Members(Without(lru, s)) = Members(lru) \ {s}
  BY WithoutFacts DEF ListsTyped
<1> DEFINE w == Without(lru, s)
<1> HIDE DEF w
<1>2. w \in Seq(Sessions) /\ Distinct(w) /\ s \notin Members(w)
  BY <1>1 DEF w
<1>3. /\ Append(w, s) \in Seq(Sessions) /\ Distinct(Append(w, s))
      /\ Members(Append(w, s)) = Members(w) \cup {s}
  BY <1>2, AppendFacts
<1> QED BY <1>1, <1>3 DEF w

\* The access order follows a lane that leaves the map.
LEMMA DropLists ==
    ASSUME ListsTyped, CallsTyped, NEW s \in Sessions, Drop(s)
    PROVE  /\ lru' \in Seq(Sessions) /\ Distinct(lru') /\ Members(lru') = Tracked'
           /\ torn' \subseteq Sessions /\ Tracked' = Tracked \ {s}
<1>1. /\ Without(lru, s) \in Seq(Sessions) /\ Distinct(Without(lru, s))
      /\ Members(Without(lru, s)) = Members(lru) \ {s}
  BY WithoutFacts DEF ListsTyped
<1>2. lru' = Without(lru, s) /\ lanes' = [lanes EXCEPT ![s] = 0]
  BY DEF Drop
<1>3. Tracked' = Tracked \ {s}
  BY <1>2 DEF CallsTyped, Tracked
<1>4. torn' \subseteq Sessions
  BY DEF Drop, ListsTyped
<1> QED BY <1>1, <1>2, <1>3, <1>4 DEF ListsTyped

\* The map grows by the lane that is inserted.
LEMMA InsertLists ==
    ASSUME ListsTyped, CallsTyped, NEW s \in Sessions, Insert(s)
    PROVE  /\ lru' \in Seq(Sessions) /\ Distinct(lru') /\ Members(lru') = Tracked'
           /\ Tracked' = Tracked \cup {s}
<1>1. lru' = Append(Without(lru, s), s) /\ lanes' = [lanes EXCEPT ![s] = made + 1]
  BY DEF Insert
<1>2. Tracked' = Tracked \cup {s}
  BY <1>1 DEF CallsTyped, Tracked
<1> QED BY <1>1, <1>2, TouchLists DEF ListsTyped

\* A call stops waiting, or does not wait before or after the step.
LEMMA WaitersKept ==
    ASSUME ListsTyped, NEW t \in Tasks, DOMAIN task = Tasks,
           NEW k, task' = [task EXCEPT ![t] = k], k.victims \in Seq(Sessions),
           \/ waiters' = waiters /\ task[t].pc # "wait" /\ k.pc # "wait"
           \/ waiters' = Without(waiters, t) /\ k.pc # "wait"
           \/ waiters' = Append(waiters, t) /\ task[t].pc # "wait" /\ k.pc = "wait"
    PROVE  /\ waiters' \in Seq(Tasks) /\ Distinct(waiters')
           /\ Members(waiters') = {u \in Tasks : At(u, "wait")'}
           /\ \A u \in Tasks : task'[u].victims \in Seq(Sessions)
<1>1. /\ task'[t] = k /\ \A u \in Tasks : u # t => task'[u] = task[u]
      /\ \A u \in Tasks : task'[u].victims \in Seq(Sessions)
  BY DEF ListsTyped
<1>2. /\ waiters \in Seq(Tasks) /\ Distinct(waiters)
      /\ Members(waiters) = {u \in Tasks : task[u].pc = "wait"}
  BY DEF ListsTyped, At
<1>3. CASE waiters' = waiters /\ task[t].pc # "wait" /\ k.pc # "wait"
  BY <1>1, <1>2, <1>3 DEF At
<1>4. CASE waiters' = Without(waiters, t) /\ k.pc # "wait"
  <2>1. /\ waiters' \in Seq(Tasks) /\ Distinct(waiters')
        /\ Members(waiters') = Members(waiters) \ {t}
    BY <1>2, <1>4, WithoutFacts
  <2> QED BY <1>1, <1>2, <1>4, <2>1 DEF At
<1>5. CASE waiters' = Append(waiters, t) /\ task[t].pc # "wait" /\ k.pc = "wait"
  <2>1. t \notin Members(waiters)
    BY <1>2, <1>5
  <2>2. /\ waiters' \in Seq(Tasks) /\ Distinct(waiters')
        /\ Members(waiters') = Members(waiters) \cup {t}
    BY <1>2, <1>5, <2>1, AppendFacts
  <2> QED BY <1>1, <1>2, <1>5, <2>2 DEF At
<1> QED BY <1>3, <1>4, <1>5

\* Every step keeps the lists and what they stand for in agreement.
LEMMA StepLists == LaneInv /\ ListsTyped /\ [Next]_vars => ListsTyped'
<1> SUFFICES ASSUME CallsTyped, LaneCurrent, ListsTyped, [Next]_vars PROVE ListsTyped'
  BY DEF LaneInv
<1>0. /\ DOMAIN task = Tasks
      /\ \A t \in Tasks : task[t].victims \in Seq(Sessions)
      /\ \A t \in Tasks : task[t].pc # "idle" => Session(t) \in Sessions
      /\ \A t \in Tasks : DOMAIN task[t] = {"pc", "session", "lane", "victims"}
  BY DEF ListsTyped, CallsTyped, Session
<1>a. ASSUME lru' = lru, lanes' = lanes, torn' = torn
      PROVE  /\ lru' \in Seq(Sessions) /\ Distinct(lru') /\ Members(lru') = Tracked'
             /\ torn' \subseteq Sessions
  BY <1>a DEF ListsTyped, Tracked
<1>1. ASSUME NEW t \in Tasks, NEW s \in Sessions, Acquire(t, s) PROVE ListsTyped'
  <2> DEFINE k == [Idle EXCEPT !.pc = "evict", !.session = s, !.victims = Victims]
  <2>1. /\ task[t].pc = "idle" /\ task' = [task EXCEPT ![t] = k] /\ waiters' = waiters
        /\ lru' = lru /\ lanes' = lanes /\ torn' = torn
    BY <1>1 DEF Acquire, Become, At
  <2>2. k.pc = "evict" /\ k.victims = Victims
    BY DEF Idle
  <2> HIDE DEF k
  <2>3. /\ waiters' \in Seq(Tasks) /\ Distinct(waiters')
        /\ Members(waiters') = {u \in Tasks : At(u, "wait")'}
        /\ \A u \in Tasks : task'[u].victims \in Seq(Sessions)
    BY <1>0, <2>1, <2>2, VictimsTyped, WaitersKept
  <2> QED BY <1>a, <2>1, <2>3 DEF ListsTyped
<1>2. ASSUME NEW t \in Tasks, Evict(t) PROVE ListsTyped'
  <2>1. CASE task[t].victims = <<>>
    <3> DEFINE k == [task[t] EXCEPT !.pc = "entry"]
    <3>1. /\ task[t].pc = "evict" /\ task' = [task EXCEPT ![t] = k] /\ waiters' = waiters
          /\ lru' = lru /\ lanes' = lanes /\ torn' = torn
      BY <1>2, <2>1 DEF Evict, Goto, Become, At
    <3>2. k.pc = "entry" /\ k.victims \in Seq(Sessions)
      BY <1>0
    <3> HIDE DEF k
    <3>3. /\ waiters' \in Seq(Tasks) /\ Distinct(waiters')
          /\ Members(waiters') = {u \in Tasks : At(u, "wait")'}
          /\ \A u \in Tasks : task'[u].victims \in Seq(Sessions)
      BY <1>0, <3>1, <3>2, WaitersKept
    <3> QED BY <1>a, <3>1, <3>3 DEF ListsTyped
  <2>2. CASE task[t].victims # <<>>
    <3> DEFINE k == [task[t] EXCEPT !.victims = Tail(task[t].victims)]
    <3>1. /\ task[t].pc = "evict" /\ task' = [task EXCEPT ![t] = k] /\ waiters' = waiters
          /\ Drop(Head(task[t].victims))
      BY <1>2, <2>2 DEF Evict, Become, At
    <3>2. k.pc = "evict" /\ k.victims = Tail(task[t].victims)
      BY <1>0, <3>1
    <3>3. Tail(task[t].victims) \in Seq(Sessions) /\ Head(task[t].victims) \in Sessions
      BY <1>0, <2>2
    <3> HIDE DEF k
    <3>4. /\ waiters' \in Seq(Tasks) /\ Distinct(waiters')
          /\ Members(waiters') = {u \in Tasks : At(u, "wait")'}
          /\ \A u \in Tasks : task'[u].victims \in Seq(Sessions)
      BY <1>0, <3>1, <3>2, <3>3, WaitersKept
    <3>5. /\ lru' \in Seq(Sessions) /\ Distinct(lru') /\ Members(lru') = Tracked'
          /\ torn' \subseteq Sessions
      BY <3>1, <3>3, DropLists
    <3> QED BY <3>4, <3>5 DEF ListsTyped
  <2> QED BY <2>1, <2>2
<1>3. ASSUME NEW t \in Tasks, GetEntry(t) PROVE ListsTyped'
  <2>1. PICK l : task' = [task EXCEPT ![t] = [task[t] EXCEPT !.pc = "clone", !.lane = l]]
    BY <1>3 DEF GetEntry, Become
  <2> DEFINE k == [task[t] EXCEPT !.pc = "clone", !.lane = l]
  <2>2. /\ task[t].pc = "entry" /\ waiters' = waiters /\ torn' = torn
        /\ Insert(Session(t)) \/ (lru' = lru /\ lanes' = lanes)
    BY <1>3 DEF GetEntry, At
  <2>3. k.pc = "clone" /\ k.victims \in Seq(Sessions) /\ task' = [task EXCEPT ![t] = k]
    BY <1>0, <2>1
  <2> HIDE DEF k
  <2>4. /\ waiters' \in Seq(Tasks) /\ Distinct(waiters')
        /\ Members(waiters') = {u \in Tasks : At(u, "wait")'}
        /\ \A u \in Tasks : task'[u].victims \in Seq(Sessions)
    BY <1>0, <2>2, <2>3, WaitersKept
  <2>5. Session(t) \in Sessions
    BY <1>0, <2>2
  <2>6. /\ lru' \in Seq(Sessions) /\ Distinct(lru') /\ Members(lru') = Tracked'
        /\ torn' \subseteq Sessions
    BY <1>a, <2>2, <2>5, InsertLists DEF ListsTyped
  <2> QED BY <2>4, <2>6 DEF ListsTyped
<1>4. ASSUME NEW t \in Tasks, CloneMutex(t) PROVE ListsTyped'
  <2> DEFINE k == [task[t] EXCEPT !.pc = "wait"]
  <2>1. /\ task[t].pc = "clone" /\ task' = [task EXCEPT ![t] = k]
        /\ waiters' = Append(waiters, t) /\ lanes' = lanes /\ torn' = torn
        /\ lru' = IF lanes[Session(t)] = task[t].lane
                    THEN Append(Without(lru, Session(t)), Session(t)) ELSE lru
    BY <1>4 DEF CloneMutex, Goto, Become, At
  <2>2. k.pc = "wait" /\ k.victims \in Seq(Sessions)
    BY <1>0
  <2> HIDE DEF k
  <2>3. /\ waiters' \in Seq(Tasks) /\ Distinct(waiters')
        /\ Members(waiters') = {u \in Tasks : At(u, "wait")'}
        /\ \A u \in Tasks : task'[u].victims \in Seq(Sessions)
    BY <1>0, <2>1, <2>2, WaitersKept
  <2>4. Session(t) \in Sessions
    BY <1>0, <2>1
  <2>5. CASE lanes[Session(t)] = task[t].lane
    <3>1. Session(t) \in Members(lru)
      BY <2>1, <2>4, <2>5 DEF ListsTyped, Tracked, LaneCurrent, Using
    <3>2. lru' \in Seq(Sessions) /\ Distinct(lru') /\ Members(lru') = Members(lru)
      BY <2>1, <2>4, <2>5, <3>1, TouchLists
    <3> QED BY <2>1, <2>3, <3>2 DEF ListsTyped, Tracked
  <2>6. CASE lanes[Session(t)] # task[t].lane
    BY <1>a, <2>1, <2>3, <2>6 DEF ListsTyped
  <2> QED BY <2>5, <2>6
<1>5. ASSUME NEW t \in Tasks, NEW p \in PCs \ {"wait"}, Goto(t, p), waiters' = Without(waiters, t),
             UNCHANGED <<lanes, lru, torn>>
      PROVE  ListsTyped'
  <2> DEFINE k == [task[t] EXCEPT !.pc = p]
  <2>1. task' = [task EXCEPT ![t] = k]
    BY <1>5 DEF Goto, Become
  <2>2. k.pc = p /\ k.pc # "wait" /\ k.victims \in Seq(Sessions)
    BY <1>0
  <2> HIDE DEF k
  <2>3. /\ waiters' \in Seq(Tasks) /\ Distinct(waiters')
        /\ Members(waiters') = {u \in Tasks : At(u, "wait")'}
        /\ \A u \in Tasks : task'[u].victims \in Seq(Sessions)
    BY <1>0, <1>5, <2>1, <2>2, WaitersKept
  <2> QED BY <1>5, <1>a, <2>3 DEF ListsTyped
<1>6. ASSUME NEW t \in Tasks, Replace(t) PROVE ListsTyped'
  <2> DEFINE k == [task[t] EXCEPT !.pc = "run", !.lane = made + 1]
  <2>1. /\ task[t].pc = "replace" /\ task' = [task EXCEPT ![t] = k] /\ waiters' = waiters
        /\ Insert(Session(t)) /\ torn' = torn \cup {s \in {Session(t)} \cap Tracked : InUse(lanes[s])}
    BY <1>6 DEF Replace, Become, At
  <2>2. k.pc = "run" /\ k.victims \in Seq(Sessions)
    BY <1>0
  <2> HIDE DEF k
  <2>3. /\ waiters' \in Seq(Tasks) /\ Distinct(waiters')
        /\ Members(waiters') = {u \in Tasks : At(u, "wait")'}
        /\ \A u \in Tasks : task'[u].victims \in Seq(Sessions)
    BY <1>0, <2>1, <2>2, WaitersKept
  <2>4. Session(t) \in Sessions
    BY <1>0, <2>1
  <2>5. lru' \in Seq(Sessions) /\ Distinct(lru') /\ Members(lru') = Tracked'
    BY <2>1, <2>4, InsertLists
  <2>6. torn' \subseteq Sessions
    BY <2>1, <2>4 DEF ListsTyped
  <2> QED BY <2>3, <2>5, <2>6 DEF ListsTyped
<1>8. ASSUME NEW t \in Tasks, Finish(t) PROVE ListsTyped'
  <2>1. /\ task[t].pc = "run" /\ task' = [task EXCEPT ![t] = Idle] /\ waiters' = waiters
        /\ lru' = lru /\ lanes' = lanes /\ torn' = torn
    BY <1>8 DEF Finish, Become, At
  <2>2. Idle.pc = "idle" /\ Idle.victims \in Seq(Sessions)
    BY DEF Idle
  <2>3. /\ waiters' \in Seq(Tasks) /\ Distinct(waiters')
        /\ Members(waiters') = {u \in Tasks : At(u, "wait")'}
        /\ \A u \in Tasks : task'[u].victims \in Seq(Sessions)
    BY <1>0, <2>1, <2>2, WaitersKept
  <2> QED BY <1>a, <2>1, <2>3 DEF ListsTyped
<1>9. ASSUME NEW s \in Sessions, Drop(s), UNCHANGED <<task, waiters>> PROVE ListsTyped'
  <2>1. /\ lru' \in Seq(Sessions) /\ Distinct(lru') /\ Members(lru') = Tracked'
        /\ torn' \subseteq Sessions
    BY <1>9, DropLists
  <2> QED BY <1>9, <2>1 DEF ListsTyped, At
<1>10. CASE UNCHANGED vars
  BY <1>10 DEF vars, ListsTyped, Tracked, At
<1>11. ASSUME NEW t \in Tasks, Lock(t) PROVE ListsTyped'
  BY <1>5, <1>11 DEF Lock, PCs
<1>12. ASSUME NEW t \in Tasks, WatchdogFires(t) PROVE ListsTyped'
  BY <1>5, <1>12 DEF WatchdogFires, PCs
<1> QED
  BY <1>1, <1>2, <1>3, <1>4, <1>6, <1>8, <1>9, <1>10, <1>11, <1>12
  DEF Next, Step, Remove, Gc, Done

\* TypeOK holds in every reachable state: the map, the access order that
\* stands for last_access, the queues of the mutexes and the calls agree.
THEOREM LanesTyped == Spec => []TypeOK
<1>1. LaneInv /\ ListsTyped => TypeOK
  <2> SUFFICES ASSUME CallsTyped, ListsTyped PROVE TypeOK
    BY DEF LaneInv
  <2>1. Len(lru) = Cardinality(Tracked)
    BY MembersCount DEF ListsTyped
  <2>2. \A t \in Tasks : /\ task[t].pc \in PCs /\ task[t].lane \in 0..made
                         /\ At(t, "idle") \/ Session(t) \in Sessions
    BY DEF CallsTyped, At, Session
  <2>3. lanes \in [Sessions -> 0..made]
    BY DEF CallsTyped
  <2> QED BY <2>1, <2>2, <2>3 DEF TypeOK, ListsTyped, Members
<1> QED BY <1>1, InitLane, InitLists, StepLane, StepLists, PTL DEF Spec

-----------------------------------------------------------------------------
(* Capacity *)

\* A lane belongs to one session, and whoever uses it works on that session.
OneOwner ==
    /\ \A s, r \in Sessions : lanes[s] = lanes[r] /\ lanes[s] # 0 => s = r
    /\ \A t \in Tasks, s \in Sessions : Using(t) /\ lanes[s] = task[t].lane => s = Session(t)

\* No lane is in the map.
LEMMA InitOwner == Init => OneOwner
BY DEF Init, OneOwner, Using, Idle

\* A lane that leaves the map leaves the others with their owners.
LEMMA DropOwner ==
    ASSUME CallsTyped, LaneCurrent, OneOwner, NEW v \in Sessions, Drop(v),
           \A t \in Tasks : /\ task'[t].pc = task[t].pc /\ task'[t].lane = task[t].lane
                            /\ task'[t].session = task[t].session
    PROVE  OneOwner'
<1>1. /\ lanes \in [Sessions -> 0..made] /\ lanes' = [lanes EXCEPT ![v] = 0]
      /\ \A t \in Tasks : Using(t) => task[t].lane # 0
  BY DEF CallsTyped, LaneCurrent, Drop
<1>2. \A s \in Sessions : lanes'[s] # 0 => lanes'[s] = lanes[s]
  BY <1>1
<1> QED BY <1>1, <1>2 DEF OneOwner, Using, Session

\* A lane that is made has a number no session and no call has.
LEMMA InsertOwner ==
    ASSUME CallsTyped, LaneCurrent, OneOwner, NEW t \in Tasks, Session(t) \in Sessions,
           Insert(Session(t)), task'[t].lane = made + 1, task'[t].session = Session(t),
           \A u \in Tasks : u # t => task'[u] = task[u]
    PROVE  OneOwner'
<1>1. /\ made \in Nat /\ lanes \in [Sessions -> 0..made]
      /\ \A u \in Tasks : task[u].lane \in 0..made
      /\ lanes' = [lanes EXCEPT ![Session(t)] = made + 1]
  BY DEF CallsTyped, Insert
<1>2. \A s \in Sessions : /\ s # Session(t) => lanes'[s] = lanes[s] /\ lanes'[s] # made + 1
                          /\ s = Session(t) => lanes'[s] = made + 1
  BY <1>1
<1>3. \A u \in Tasks : task[u].lane # made + 1
  BY <1>1
<1> QED BY <1>2, <1>3 DEF OneOwner, Using, Session

\* Every step keeps lanes and owners apart.
LEMMA StepOwner == LaneInv /\ ListsTyped /\ OneOwner /\ [Next]_vars => OneOwner'
<1> SUFFICES ASSUME CallsTyped, LaneCurrent, ListsTyped, OneOwner, [Next]_vars PROVE OneOwner'
  BY DEF LaneInv
<1>0. /\ DOMAIN task = Tasks
      /\ \A t \in Tasks : task[t].victims \in Seq(Sessions)
      /\ \A t \in Tasks : task[t].pc # "idle" => Session(t) \in Sessions
      /\ \A t \in Tasks : DOMAIN task[t] = {"pc", "session", "lane", "victims"}
  BY DEF ListsTyped, CallsTyped, Session
<1>a. ASSUME NEW t \in Tasks, NEW k, task' = [task EXCEPT ![t] = k], lanes' = lanes,
             k.pc \in {"clone", "wait", "run"} =>
                 /\ Using(t) /\ k.lane = task[t].lane /\ k.session = Session(t)
      PROVE  OneOwner'
  <2>1. task'[t] = k /\ \A u \in Tasks : u # t => task'[u] = task[u]
    BY <1>0, <1>a
  <2> QED BY <1>a, <2>1 DEF OneOwner, Using, Session
<1>1. ASSUME NEW t \in Tasks, NEW s \in Sessions, Acquire(t, s) PROVE OneOwner'
  <2> DEFINE k == [Idle EXCEPT !.pc = "evict", !.session = s, !.victims = Victims]
  <2>1. task' = [task EXCEPT ![t] = k] /\ lanes' = lanes
    BY <1>1 DEF Acquire, Become
  <2>2. k.pc = "evict"
    BY DEF Idle
  <2> HIDE DEF k
  <2> QED BY <1>a, <2>1, <2>2
<1>2. ASSUME NEW t \in Tasks, Evict(t) PROVE OneOwner'
  <2>1. CASE task[t].victims = <<>>
    BY <1>0, <1>2, <1>a, <2>1 DEF Evict, Goto, Become
  <2>2. CASE task[t].victims # <<>>
    <3>1. /\ Drop(Head(task[t].victims))
          /\ task' = [task EXCEPT ![t] = [task[t] EXCEPT !.victims = Tail(task[t].victims)]]
      BY <1>2, <2>2 DEF Evict, Become
    <3>2. Head(task[t].victims) \in Sessions
      BY <1>0, <2>2
    <3>3. \A u \in Tasks : /\ task'[u].pc = task[u].pc /\ task'[u].lane = task[u].lane
                           /\ task'[u].session = task[u].session
      BY <1>0, <3>1
    <3> QED BY <3>1, <3>2, <3>3, DropOwner
  <2> QED BY <2>1, <2>2
<1>3. ASSUME NEW t \in Tasks, GetEntry(t) PROVE OneOwner'
  <2>1. task[t].pc = "entry" /\ Session(t) \in Sessions
    BY <1>0, <1>3 DEF GetEntry, At
  <2>2. CASE lanes[Session(t)] = 0
    <3>1. /\ Insert(Session(t))
          /\ task' = [task EXCEPT ![t] = [task[t] EXCEPT !.pc = "clone", !.lane = made + 1]]
      BY <1>3, <2>2 DEF GetEntry, Become
    <3>2. /\ task'[t].lane = made + 1 /\ task'[t].session = Session(t)
          /\ \A u \in Tasks : u # t => task'[u] = task[u]
      BY <1>0, <3>1 DEF Session
    <3> QED BY <2>1, <3>1, <3>2, InsertOwner
  <2>3. CASE lanes[Session(t)] # 0
    <3> DEFINE l == lanes[Session(t)]
    <3>1. /\ task' = [task EXCEPT ![t] = [task[t] EXCEPT !.pc = "clone", !.lane = l]]
          /\ lanes' = lanes
      BY <1>3, <2>3 DEF GetEntry, Become
    <3>2. /\ task'[t].lane = l /\ task'[t].session = Session(t)
          /\ \A u \in Tasks : u # t => task'[u] = task[u]
      BY <1>0, <3>1 DEF Session
    <3> QED BY <2>1, <2>3, <3>1, <3>2 DEF OneOwner, Using, Session
  <2> QED BY <2>2, <2>3
<1>4. ASSUME NEW t \in Tasks, CloneMutex(t) PROVE OneOwner'
  BY <1>0, <1>4, <1>a DEF CloneMutex, Goto, Become, At, Using, Session
<1>5. ASSUME NEW t \in Tasks, Lock(t) PROVE OneOwner'
  BY <1>0, <1>5, <1>a DEF Lock, Goto, Become, At, Using, Session
<1>6. ASSUME NEW t \in Tasks, Replace(t) PROVE OneOwner'
  <2>1. /\ task[t].pc = "replace" /\ Insert(Session(t))
        /\ task' = [task EXCEPT ![t] = [task[t] EXCEPT !.pc = "run", !.lane = made + 1]]
    BY <1>6 DEF Replace, Become, At
  <2>2. /\ task'[t].lane = made + 1 /\ task'[t].session = Session(t)
        /\ \A u \in Tasks : u # t => task'[u] = task[u]
    BY <1>0, <2>1 DEF Session
  <2> QED BY <1>0, <2>1, <2>2, InsertOwner
<1>7. ASSUME NEW t \in Tasks, WatchdogFires(t) PROVE OneOwner'
  BY <1>0, <1>7, <1>a DEF WatchdogFires, Goto, Become, At
<1>8. ASSUME NEW t \in Tasks, Finish(t) PROVE OneOwner'
  BY <1>8, <1>a DEF Finish, Become, Idle
<1>9. ASSUME NEW s \in Sessions, Drop(s), UNCHANGED task PROVE OneOwner'
  BY <1>9, DropOwner
<1>10. CASE UNCHANGED vars
  BY <1>10 DEF vars, OneOwner, Using, Session
<1> QED
  BY <1>1, <1>2, <1>3, <1>4, <1>5, <1>6, <1>7, <1>8, <1>9, <1>10
  DEF Next, Step, Remove, Gc, Done

\* Calls that will bring their session into the map again, or hold its lane.
Claims(t) == task[t].pc \in {"clone", "wait", "replace"}
Claimants == {t \in Tasks : Claims(t)}

\* The lanes that are left once the calls in X have removed their victims,
\* and the sessions of the claimants.
Condemned(X) == {s \in Sessions : \E t \in X : At(t, "evict") /\ s \in Members(task[t].victims)}
Claimed      == {s \in Sessions : \E t \in Tasks : Claims(t) /\ s = Session(t)}
Held(X)      == (Tracked \ Condemned(X)) \cup Claimed

\* The calls that may add a lane next, once those in X are done evicting.
Coming(X) == {t \in Tasks : \/ At(t, "entry")
                            \/ At(t, "evict") /\ (t \in X \/ task[t].victims = <<>>)}

\* Whichever calls finish their evictions first, the lanes left and those yet
\* to come fit.
RoomForAll ==
    \A X \in SUBSET Tasks :
        Cardinality(Held(X)) + Cardinality(Coming(X)) <= MaxLanes + Cardinality(Tasks)

\* The sets that are counted are finite.
LEMMA Countable ==
    ASSUME CallsTyped, ListsTyped
    PROVE  /\ IsFiniteSet(Tracked) /\ Cardinality(Tracked) = Len(lru)
           /\ IsFiniteSet(Claimants) /\ IsFiniteSet(Claimed)
           /\ Cardinality(Claimed) <= Cardinality(Claimants)
           /\ \A X : IsFiniteSet(Held(X)) /\ IsFiniteSet(Coming(X))
<1>1. IsFiniteSet(Tracked) /\ Cardinality(Tracked) = Len(lru)
  BY MembersCount DEF ListsTyped
<1>2. IsFiniteSet(Claimants)
  BY LaneConstants, FS_Subset DEF Claimants
<1> DEFINE f == [t \in Claimants |-> Session(t)]
<1>3. f \in Surjection(Claimants, Claimed)
  BY DEF Surjection, Claimants, Claimed, Claims, CallsTyped, Session
<1>4. IsFiniteSet(Claimed) /\ Cardinality(Claimed) <= Cardinality(Claimants)
  BY <1>2, <1>3, FS_Surjection
<1>5. ASSUME NEW X PROVE IsFiniteSet(Held(X)) /\ IsFiniteSet(Coming(X))
  <2>1. Coming(X) \in SUBSET Tasks
    BY DEF Coming
  <2>2. Tracked \ Condemned(X) \in SUBSET Tracked
    OBVIOUS
  <2>3. IsFiniteSet(Tracked \ Condemned(X))
    BY <1>1, <2>2, FS_Subset
  <2> QED BY <1>4, <2>1, <2>3, LaneConstants, FS_Subset, FS_Union DEF Held
<1> QED BY <1>1, <1>2, <1>4, <1>5

\* The calls counted apart fit into Tasks.
LEMMA Apart ==
    ASSUME NEW B \in SUBSET Tasks, NEW C \in SUBSET Tasks, B \cap C = {}
    PROVE  /\ Cardinality(B) + Cardinality(C) <= Cardinality(Tasks)
           /\ Cardinality(B) \in Nat /\ Cardinality(C) \in Nat /\ Cardinality(Tasks) \in Nat
<1>1. IsFiniteSet(B) /\ IsFiniteSet(C) /\ IsFiniteSet(Tasks)
  BY LaneConstants, FS_Subset
<1>2. Cardinality(B \cup C) = Cardinality(B) + Cardinality(C) - Cardinality(B \cap C)
  BY <1>1, FS_Union
<1>3. Cardinality(B \cap C) = 0
  BY FS_EmptySet
<1>4. Cardinality(B \cup C) <= Cardinality(Tasks)
  BY <1>1, FS_Subset
<1>5. Cardinality(B) \in Nat /\ Cardinality(C) \in Nat /\ Cardinality(Tasks) \in Nat
  BY <1>1, FS_CardinalityType
<1> QED BY <1>2, <1>3, <1>4, <1>5

\* maybe_evict picks enough victims to come down to max_lanes, or all idle
\* lanes: the rest is then held by calls that wait or run.
LEMMA EvictsEnough ==
    ASSUME CallsTyped, ListsTyped, OneOwner
    PROVE  \/ Cardinality(Tracked \ Members(Victims)) <= MaxLanes
           \/ \A s \in Tracked \ Members(Victims) :
                 \E u \in Tasks : task[u].pc \in {"wait", "run"} /\ s = Session(u)
<1> DEFINE I == {s \in Sessions : ~Counted(lanes[s])}
           excess == IF Len(lru) <= MaxLanes THEN 0 ELSE Len(lru) - MaxLanes
           count  == IF Len(IdleLanes) < excess THEN Len(IdleLanes) ELSE excess
<1>1. /\ IdleLanes \in Seq(Sessions) /\ Distinct(IdleLanes)
      /\ Members(IdleLanes) = Tracked \cap I
  BY AmongFacts DEF ListsTyped, IdleLanes
<1>2. Len(lru) \in Nat /\ MaxLanes \in Nat /\ Len(IdleLanes) \in Nat
  BY <1>1, LaneConstants DEF ListsTyped
<1>3. Victims = SubSeq(IdleLanes, 1, count) /\ count \in 0..Len(IdleLanes) /\ excess \in Nat
  BY <1>2 DEF Victims
<1>4. /\ Victims \in Seq(Sessions) /\ Len(Victims) = count
      /\ \A i \in 1..count : Victims[i] = IdleLanes[i]
  <2> HIDE DEF count
  <2> QED BY <1>1, <1>3
<1>5. IsFiniteSet(Tracked) /\ Cardinality(Tracked) = Len(lru)
  BY Countable
<1>6. CASE Len(lru) <= MaxLanes
  <2>1. Tracked \ Members(Victims) \in SUBSET Tracked
    OBVIOUS
  <2>2. /\ Cardinality(Tracked \ Members(Victims)) <= Cardinality(Tracked)
        /\ Cardinality(Tracked \ Members(Victims)) \in Nat
    BY <1>5, <2>1, FS_Subset, FS_CardinalityType
  <2> QED BY <1>2, <1>5, <1>6, <2>2
<1>7. CASE Len(lru) > MaxLanes /\ Len(IdleLanes) < excess
  <2>1. count = Len(IdleLanes)
    BY <1>7
  <2>2. Members(Victims) = Members(IdleLanes)
    BY <1>4, <2>1 DEF Members
  <2>3. ASSUME NEW s \in Tracked \ Members(Victims)
        PROVE  \E u \in Tasks : task[u].pc \in {"wait", "run"} /\ s = Session(u)
    <3>1. s \in Sessions /\ Counted(lanes[s])
      BY <1>1, <2>2, <2>3 DEF Tracked
    <3> QED BY <3>1 DEF Counted, OneOwner, Using
  <2> QED BY <2>3
<1>8. CASE Len(lru) > MaxLanes /\ ~(Len(IdleLanes) < excess)
  <2>1. count = Len(lru) - MaxLanes
    BY <1>2, <1>8
  <2> HIDE DEF count
  <2>2. Distinct(Victims)
    BY <1>1, <1>3, <1>4 DEF Distinct
  <2>3. Members(Victims) \subseteq Tracked
    BY <1>1, <1>3, <1>4 DEF Members
  <2>4. Cardinality(Members(Victims)) = count
    BY <1>4, <2>2, MembersCount
  <2>5. Cardinality(Tracked \ Members(Victims))
          = Cardinality(Tracked) - Cardinality(Tracked \cap Members(Victims))
    BY <1>5, FS_Difference
  <2>6. Tracked \cap Members(Victims) = Members(Victims)
    BY <2>3
  <2>7. Cardinality(Tracked \ Members(Victims)) = Len(lru) - (Len(lru) - MaxLanes)
    BY <1>5, <2>1, <2>4, <2>5, <2>6, Zenon
  <2>8. Len(lru) - (Len(lru) - MaxLanes) <= MaxLanes
    BY <1>2
  <2> QED BY <2>7, <2>8, Zenon
<1> QED BY <1>2, <1>6, <1>7, <1>8

\* There is room for everyone at the start.
LEMMA InitRoom == Init => RoomForAll
<1> SUFFICES ASSUME Init, NEW X \in SUBSET Tasks
    PROVE  Cardinality(Held(X)) + Cardinality(Coming(X)) <= MaxLanes + Cardinality(Tasks)
  BY DEF RoomForAll
<1>1. Held(X) = {} /\ Coming(X) = {}
  BY DEF Init, Held, Coming, Tracked, Condemned, Claimed, Claims, At, Idle
<1>2. Cardinality(Tasks) \in Nat /\ MaxLanes \in Nat
  BY LaneConstants, FS_CardinalityType
<1> QED BY <1>1, <1>2, FS_EmptySet

\* A step that adds to neither set keeps the room; X may be exchanged for
\* another set of calls.
LEMMA RoomKept ==
    ASSUME CallsTyped, ListsTyped, RoomForAll, NEW X, NEW Y \in SUBSET Tasks,
           Held(X)' \subseteq Held(Y), Coming(X)' \subseteq Coming(Y)
    PROVE  Cardinality(Held(X)') + Cardinality(Coming(X)') <= MaxLanes + Cardinality(Tasks)
<1> DEFINE h == Held(Y)
           c == Coming(Y)
           hh == Held(X)'
           cc == Coming(X)'
           all == MaxLanes + Cardinality(Tasks)
<1>1. IsFiniteSet(h) /\ IsFiniteSet(c) /\ hh \in SUBSET h /\ cc \in SUBSET c
  BY Countable
<1>2. Cardinality(h) + Cardinality(c) <= all
  BY DEF RoomForAll
<1>3. all \in Nat
  BY LaneConstants, FS_CardinalityType
<1> HIDE DEF h, c, hh, cc, all
<1>4. /\ Cardinality(hh) <= Cardinality(h) /\ Cardinality(cc) <= Cardinality(c)
      /\ Cardinality(h) \in Nat /\ Cardinality(c) \in Nat
      /\ Cardinality(hh) \in Nat /\ Cardinality(cc) \in Nat
  <2>1. /\ IsFiniteSet(hh) /\ IsFiniteSet(cc)
        /\ Cardinality(hh) <= Cardinality(h) /\ Cardinality(cc) <= Cardinality(c)
    BY <1>1, FS_Subset
  <2> QED BY <1>1, <2>1, FS_CardinalityType
<1>5. Cardinality(hh) + Cardinality(cc) <= all
  BY <1>2, <1>3, <1>4
<1> QED BY <1>5 DEF hh, cc, all

\* A call that begins evicts enough for the room it will take.
LEMMA AcquireRoom ==
    ASSUME CallsTyped, ListsTyped, OneOwner, RoomForAll,
           NEW t \in Tasks, NEW s \in Sessions, Acquire(t, s), NEW X \in SUBSET Tasks
    PROVE  Cardinality(Held(X)') + Cardinality(Coming(X)') <= MaxLanes + Cardinality(Tasks)
<1>0. /\ task[t].pc = "idle" /\ lanes' = lanes
      /\ task'[t].pc = "evict" /\ task'[t].victims = Victims /\ task'[t].session = s
      /\ \A u \in Tasks : u # t => task'[u] = task[u]
  <2>1. task' = [task EXCEPT ![t] = [Idle EXCEPT !.pc = "evict", !.session = s, !.victims = Victims]]
    BY DEF Acquire, Become
  <2>2. DOMAIN task = Tasks
    BY DEF CallsTyped
  <2> QED BY <2>1, <2>2 DEF Acquire, At, Idle
<1>1. Tracked' = Tracked /\ Claimed' = Claimed
  BY <1>0 DEF Tracked, Claimed, Claims, Session
<1>2. CASE t \notin X /\ Victims # <<>>
  <2>1. Condemned(X)' = Condemned(X) /\ Coming(X)' = Coming(X)
    BY <1>0, <1>2 DEF Condemned, Coming, At
  <2>2. Held(X)' = Held(X)
    BY <1>1, <2>1 DEF Held
  <2> QED BY <2>1, <2>2, RoomKept
<1>3. CASE t \in X \/ Victims = <<>>
  <2> DEFINE busy == {u \in Tasks : task[u].pc \in {"wait", "run"}}
             Kept == Tracked \ Members(Victims)
             hh == Held(X)'
             cc == Coming(X)'
  <2>1. hh \subseteq Kept \cup Claimed
    <3>1. Members(Victims) \cap Sessions \subseteq Condemned(X)'
      <4>1. CASE t \in X
        BY <1>0, <4>1 DEF Condemned, At
      <4>2. CASE Victims = <<>>
        BY <4>2 DEF Members
      <4> QED BY <1>3, <4>1, <4>2
    <3> QED BY <1>1, <3>1 DEF Held, Tracked
  <2>2. cc \in SUBSET Tasks /\ cc \cap (Claimants \cup busy) = {} /\ cc \cap Claimants = {}
    BY <1>0 DEF Coming, Claimants, Claims, At
  <2>3. /\ Claimants \in SUBSET Tasks /\ Claimants \cup busy \in SUBSET Tasks
        /\ IsFiniteSet(Claimants \cup busy)
    <3>1. Claimants \in SUBSET Tasks /\ Claimants \cup busy \in SUBSET Tasks
      BY DEF Claimants
    <3> QED BY <3>1, LaneConstants, FS_Subset
  <2>4. /\ IsFiniteSet(Tracked) /\ IsFiniteSet(Claimed)
        /\ Cardinality(Claimed) <= Cardinality(Claimants)
    BY Countable
  <2>5. MaxLanes \in Nat
    BY LaneConstants
  <2>6. Kept \in SUBSET Tracked
    OBVIOUS
  <2>7. CASE Cardinality(Kept) <= MaxLanes
    <3> HIDE DEF Kept, hh, cc
    <3>1. IsFiniteSet(Kept)
      BY <2>4, <2>6, FS_Subset
    <3>2. /\ IsFiniteSet(Kept \cup Claimed)
          /\ Cardinality(Kept \cup Claimed)
               = Cardinality(Kept) + Cardinality(Claimed) - Cardinality(Kept \cap Claimed)
      BY <2>4, <3>1, FS_Union
    <3>3. IsFiniteSet(Kept \cap Claimed)
      BY <3>1, FS_Intersection
    <3>4. IsFiniteSet(hh) /\ Cardinality(hh) <= Cardinality(Kept \cup Claimed)
      <4>1. hh \in SUBSET (Kept \cup Claimed)
        BY <2>1
      <4> QED BY <3>2, <4>1, FS_Subset
    <3>5. /\ Cardinality(Kept) \in Nat /\ Cardinality(Claimed) \in Nat
          /\ Cardinality(Kept \cap Claimed) \in Nat /\ Cardinality(hh) \in Nat
      BY <2>4, <3>1, <3>3, <3>4, FS_CardinalityType
    <3>6. /\ Cardinality(Claimants) + Cardinality(cc) <= Cardinality(Tasks)
          /\ Cardinality(Claimants) \in Nat /\ Cardinality(cc) \in Nat /\ Cardinality(Tasks) \in Nat
      <4>1. Claimants \cap cc = {}
        BY <2>2
      <4> QED BY <2>2, <2>3, <4>1, Apart
    <3>7. Cardinality(hh) <= MaxLanes + Cardinality(Claimants)
      BY <2>4, <2>5, <2>7, <3>2, <3>4, <3>5, <3>6
    <3>8. Cardinality(hh) + Cardinality(cc) <= MaxLanes + Cardinality(Tasks)
      BY <2>5, <3>5, <3>6, <3>7
    <3> QED BY <3>8 DEF hh, cc
  <2>8. CASE \A r \in Kept : \E u \in Tasks : task[u].pc \in {"wait", "run"} /\ r = Session(u)
    <3> DEFINE B == Claimants \cup busy
               f == [u \in B |-> Session(u)]
               Names == {r \in Sessions : \E u \in B : r = Session(u)}
    <3>1. f \in Surjection(B, Names)
      BY DEF Surjection, CallsTyped, Session, Claimants, Claims
    <3>2. hh \subseteq Names
      <4>1. Claimed \subseteq Names
        BY DEF Claimed, Claimants
      <4>2. Kept \subseteq Names
        BY <2>8 DEF Tracked
      <4> QED BY <2>1, <4>1, <4>2
    <3> HIDE DEF B, f, Names, hh, cc
    <3>3. IsFiniteSet(Names) /\ Cardinality(Names) <= Cardinality(B)
      <4>1. IsFiniteSet(B)
        BY <2>3 DEF B
      <4> QED BY <3>1, <4>1, FS_Surjection
    <3>4. IsFiniteSet(hh) /\ Cardinality(hh) <= Cardinality(Names)
      <4>1. hh \in SUBSET Names
        BY <3>2
      <4> QED BY <3>3, <4>1, FS_Subset
    <3>5. /\ Cardinality(B) + Cardinality(cc) <= Cardinality(Tasks)
          /\ Cardinality(B) \in Nat /\ Cardinality(cc) \in Nat /\ Cardinality(Tasks) \in Nat
      <4>1. B \in SUBSET Tasks /\ B \cap cc = {}
        BY <2>2, <2>3 DEF B
      <4> QED BY <2>2, <4>1, Apart
    <3>6. Cardinality(hh) \in Nat /\ Cardinality(Names) \in Nat
      BY <3>3, <3>4, FS_CardinalityType
    <3>7. Cardinality(hh) + Cardinality(cc) <= MaxLanes + Cardinality(Tasks)
      BY <2>5, <3>3, <3>4, <3>5, <3>6
    <3> QED BY <3>7 DEF hh, cc
  <2> QED BY <2>7, <2>8, EvictsEnough
<1> QED BY <1>2, <1>3

\* A call that has its lane made, or finds it, was counted as coming and is
\* now counted with its session.
LEMMA EntryRoom ==
    ASSUME CallsTyped, ListsTyped, RoomForAll,
           NEW t \in Tasks, GetEntry(t), NEW X \in SUBSET Tasks
    PROVE  Cardinality(Held(X)') + Cardinality(Coming(X)') <= MaxLanes + Cardinality(Tasks)
<1>1. task[t].pc = "entry" /\ Session(t) \in Sessions /\ DOMAIN task = Tasks
      /\ DOMAIN task[t] = {"pc", "session", "lane", "victims"}
  BY DEF GetEntry, At, CallsTyped, Session
<1>2. PICK l : task' = [task EXCEPT ![t] = [task[t] EXCEPT !.pc = "clone", !.lane = l]]
  BY DEF GetEntry, Become
<1>3. /\ task'[t].pc = "clone" /\ task'[t].session = Session(t)
      /\ \A u \in Tasks : u # t => task'[u] = task[u]
  BY <1>1, <1>2 DEF Session
<1>4. Tracked' \subseteq Tracked \cup {Session(t)}
  BY <1>1, InsertLists DEF GetEntry, Tracked
<1> DEFINE h == Held(X)
           c == Coming(X)
           hh == Held(X)'
           cc == Coming(X)'
<1>5. hh \in SUBSET (h \cup {Session(t)})
  <2>1. Condemned(X)' = Condemned(X)
    BY <1>1, <1>3 DEF Condemned, At
  <2>2. Claimed' \subseteq Claimed \cup {Session(t)}
    BY <1>3 DEF Claimed, Claims, Session
  <2> QED BY <1>4, <2>1, <2>2 DEF Held
<1>6. t \in c /\ cc \in SUBSET (c \ {t})
  BY <1>1, <1>3 DEF Coming, At
<1>7. IsFiniteSet(h) /\ IsFiniteSet(c)
  BY Countable
<1>8. Cardinality(h) + Cardinality(c) <= MaxLanes + Cardinality(Tasks)
  BY DEF RoomForAll
<1> HIDE DEF h, c, hh, cc
<1>9. /\ IsFiniteSet(h \cup {Session(t)}) /\ Cardinality(h \cup {Session(t)}) <= Cardinality(h) + 1
      /\ IsFiniteSet(c \ {t}) /\ Cardinality(c \ {t}) = Cardinality(c) - 1
      /\ Cardinality(h) \in Nat /\ Cardinality(c) \in Nat
  <2>1. Cardinality(h) \in Nat /\ Cardinality(c) \in Nat
    BY <1>7, FS_CardinalityType
  <2>2. /\ IsFiniteSet(h \cup {Session(t)})
        /\ Cardinality(h \cup {Session(t)})
             = IF Session(t) \in h THEN Cardinality(h) ELSE Cardinality(h) + 1
    BY <1>7, FS_AddElement
  <2>3. IsFiniteSet(c \ {t}) /\ Cardinality(c \ {t}) = Cardinality(c) - 1
    BY <1>6, <1>7, FS_RemoveElement
  <2> QED BY <2>1, <2>2, <2>3
<1>10. /\ IsFiniteSet(hh) /\ Cardinality(hh) <= Cardinality(h \cup {Session(t)})
       /\ IsFiniteSet(cc) /\ Cardinality(cc) <= Cardinality(c \ {t})
  BY <1>5, <1>6, <1>9, FS_Subset
<1>11. /\ Cardinality(hh) \in Nat /\ Cardinality(cc) \in Nat
       /\ Cardinality(h \cup {Session(t)}) \in Nat /\ Cardinality(c \ {t}) \in Nat
       /\ MaxLanes \in Nat /\ Cardinality(Tasks) \in Nat
  BY <1>9, <1>10, LaneConstants, FS_CardinalityType
<1>12. Cardinality(hh) + Cardinality(cc) <= MaxLanes + Cardinality(Tasks)
  BY <1>8, <1>9, <1>10, <1>11
<1> QED BY <1>12 DEF hh, cc

\* Every step leaves room for everyone.
LEMMA StepRoom == LaneInv /\ ListsTyped /\ OneOwner /\ RoomForAll /\ [Next]_vars => RoomForAll'
<1> SUFFICES ASSUME CallsTyped, ListsTyped, OneOwner, RoomForAll, [Next]_vars, NEW X \in SUBSET Tasks
    PROVE  Cardinality(Held(X)') + Cardinality(Coming(X)') <= MaxLanes + Cardinality(Tasks)
  BY DEF LaneInv, RoomForAll
<1> DEFINE Fits == Cardinality(Held(X)') + Cardinality(Coming(X)') <= MaxLanes + Cardinality(Tasks)
<1> HIDE DEF Fits
<1>0. /\ DOMAIN task = Tasks
      /\ \A t \in Tasks : task[t].victims \in Seq(Sessions)
      /\ \A t \in Tasks : task[t].pc # "idle" => Session(t) \in Sessions
      /\ \A t \in Tasks : DOMAIN task[t] = {"pc", "session", "lane", "victims"}
  BY DEF ListsTyped, CallsTyped, Session
<1>a. ASSUME NEW Y \in SUBSET Tasks, Held(X)' \subseteq Held(Y), Coming(X)' \subseteq Coming(Y)
      PROVE  Fits
  BY <1>a, RoomKept DEF Fits
<1>1. ASSUME NEW t \in Tasks, NEW s \in Sessions, Acquire(t, s) PROVE Fits
  BY <1>1, AcquireRoom DEF Fits
<1>2. ASSUME NEW t \in Tasks, Evict(t) PROVE Fits
  <2>1. CASE task[t].victims = <<>>
    <3>1. /\ task[t].pc = "evict" /\ lanes' = lanes
          /\ task'[t].pc = "entry" /\ task'[t].victims = task[t].victims
          /\ \A u \in Tasks : u # t => task'[u] = task[u]
      BY <1>0, <1>2, <2>1 DEF Evict, Goto, Become, At
    <3>2. Coming(X)' = Coming(X) /\ Claimed' = Claimed /\ Tracked' = Tracked
      BY <2>1, <3>1 DEF Coming, At, Claimed, Claims, Session, Tracked
    <3>3. Condemned(X) \subseteq Condemned(X)'
      <4>1. Members(task[t].victims) = {}
        BY <2>1 DEF Members
      <4> QED BY <3>1, <4>1 DEF Condemned, At
    <3> QED BY <1>a, <3>2, <3>3 DEF Held
  <2>2. CASE task[t].victims # <<>>
    <3> DEFINE v == Head(task[t].victims)
    <3>1. /\ task[t].pc = "evict" /\ Drop(v) /\ v \in Sessions
          /\ task'[t].pc = "evict" /\ task'[t].victims = Tail(task[t].victims)
          /\ \A u \in Tasks : u # t => task'[u] = task[u]
          /\ \A u \in Tasks : task'[u].pc = task[u].pc /\ task'[u].session = task[u].session
      <4> DEFINE k == [task[t] EXCEPT !.victims = Tail(task[t].victims)]
      <4>1. /\ task[t].pc = "evict" /\ task' = [task EXCEPT ![t] = k] /\ Drop(v)
        BY <1>2, <2>2 DEF Evict, Become, At
      <4>2. k.pc = "evict" /\ k.victims = Tail(task[t].victims) /\ k.session = task[t].session
        BY <1>0, <4>1
      <4>3. v \in Sessions
        BY <1>0, <2>2
      <4> HIDE DEF k
      <4>4. task'[t] = k /\ \A u \in Tasks : u # t => task'[u] = task[u]
        BY <1>0, <4>1
      <4> QED BY <4>1, <4>2, <4>3, <4>4
    <3>2. Members(task[t].victims) = {v} \cup Members(Tail(task[t].victims))
      BY <1>0, <2>2, HeadAndTail
    <3> HIDE DEF v
    <3>3. Tracked' = Tracked \ {v}
      BY <3>1, DropLists
    <3>4. Claimed' = Claimed
      BY <3>1 DEF Claimed, Claims, Session
    <3>5. CASE t \in X \/ task'[t].victims # <<>>
      <4>1. Coming(X)' = Coming(X)
        BY <2>2, <3>1, <3>5 DEF Coming, At
      <4>2. Condemned(X) \subseteq Condemned(X)' \cup {v}
        BY <3>1, <3>2 DEF Condemned, At
      <4>3. Held(X)' \subseteq Held(X)
        BY <3>3, <3>4, <4>2 DEF Held
      <4> QED BY <1>a, <4>1, <4>3
    <3>6. CASE t \notin X /\ task'[t].victims = <<>>
      <4> DEFINE Y == X \cup {t}
      <4>1. Coming(X)' \subseteq Coming(Y)
        BY <3>1 DEF Coming, At
      <4>2. Members(Tail(task[t].victims)) = {}
        <5>1. Tail(task[t].victims) = <<>>
          BY <3>1, <3>6
        <5>2. Members(<<>>) = {}
          BY DEF Members
        <5> QED BY <5>1, <5>2, Zenon
      <4>3. Condemned(Y) \subseteq Condemned(X)' \cup {v}
        BY <3>1, <3>2, <4>2 DEF Condemned, At
      <4>4. Held(X)' \subseteq Held(Y)
        BY <3>3, <3>4, <4>3 DEF Held
      <4>5. Y \in SUBSET Tasks
        OBVIOUS
      <4> HIDE DEF Y
      <4> QED BY <1>a, <4>1, <4>4, <4>5
    <3> QED BY <3>5, <3>6
  <2> QED BY <2>1, <2>2
<1>3. ASSUME NEW t \in Tasks, GetEntry(t) PROVE Fits
  BY <1>3, EntryRoom DEF Fits
<1>b. ASSUME NEW t \in Tasks, NEW p \in {"wait", "run", "replace"}, Goto(t, p),
             Claims(t), lanes' = lanes
      PROVE  Fits
  <2>1. /\ task'[t].pc = p /\ task'[t].session = Session(t) /\ task'[t].victims = task[t].victims
        /\ \A u \in Tasks : u # t => task'[u] = task[u]
    BY <1>0, <1>b DEF Goto, Become, Session
  <2>2. Claimed' \subseteq Claimed
    BY <1>b, <2>1 DEF Claimed, Claims, Session
  <2>3. Condemned(X)' = Condemned(X) /\ Tracked' = Tracked /\ Coming(X)' = Coming(X)
    BY <1>b, <2>1 DEF Condemned, Tracked, Coming, At, Claims
  <2>4. Held(X)' \subseteq Held(X)
    BY <2>2, <2>3 DEF Held
  <2> QED BY <1>a, <2>3, <2>4
<1>4. ASSUME NEW t \in Tasks, CloneMutex(t) PROVE Fits
  BY <1>4, <1>b DEF CloneMutex, Claims, At
<1>5. ASSUME NEW t \in Tasks, Lock(t) PROVE Fits
  BY <1>5, <1>b DEF Lock, Claims, At
<1>6. ASSUME NEW t \in Tasks, Replace(t) PROVE Fits
  <2>1. /\ task[t].pc = "replace" /\ Session(t) \in Sessions /\ Insert(Session(t))
        /\ task' = [task EXCEPT ![t] = [task[t] EXCEPT !.pc = "run", !.lane = made + 1]]
    BY <1>0, <1>6 DEF Replace, Become, At
  <2>2. /\ task'[t].pc = "run" /\ task'[t].session = Session(t) /\ task'[t].victims = task[t].victims
        /\ \A u \in Tasks : u # t => task'[u] = task[u]
    BY <1>0, <2>1 DEF Session
  <2>3. Claimed' \subseteq Claimed /\ Session(t) \in Claimed
    BY <2>1, <2>2 DEF Claimed, Claims, Session
  <2>4. Condemned(X)' = Condemned(X) /\ Coming(X)' = Coming(X)
    BY <2>1, <2>2 DEF Condemned, Coming, At
  <2>5. Tracked' = Tracked \cup {Session(t)}
    BY <2>1, InsertLists
  <2>6. Held(X)' \subseteq Held(X)
    BY <2>3, <2>4, <2>5 DEF Held
  <2> QED BY <1>a, <2>4, <2>6
<1>7. ASSUME NEW t \in Tasks, WatchdogFires(t) PROVE Fits
  BY <1>7, <1>b DEF WatchdogFires, Claims, At
<1>8. ASSUME NEW t \in Tasks, Finish(t) PROVE Fits
  <2>1. /\ task[t].pc = "run" /\ task'[t].pc = "idle" /\ lanes' = lanes
        /\ \A u \in Tasks : u # t => task'[u] = task[u]
    BY <1>0, <1>8 DEF Finish, Become, Idle, At
  <2>2. /\ Condemned(X)' = Condemned(X) /\ Coming(X)' = Coming(X)
        /\ Claimed' = Claimed /\ Tracked' = Tracked
    BY <2>1 DEF Condemned, Coming, Claimed, Claims, Session, Tracked, At
  <2> QED BY <1>a, <2>2 DEF Held
<1>9. ASSUME NEW s \in Sessions, Drop(s), UNCHANGED task PROVE Fits
  <2>1. Tracked' = Tracked \ {s}
    BY <1>9, DropLists
  <2>2. Condemned(X)' = Condemned(X) /\ Coming(X)' = Coming(X) /\ Claimed' = Claimed
    BY <1>9 DEF Condemned, Coming, Claimed, Claims, Session, At
  <2> QED BY <1>a, <2>1, <2>2 DEF Held
<1>10. ASSUME UNCHANGED vars PROVE Fits
  <2>1. /\ Condemned(X)' = Condemned(X) /\ Coming(X)' = Coming(X)
        /\ Claimed' = Claimed /\ Tracked' = Tracked
    BY <1>10 DEF vars, Condemned, Coming, Claimed, Claims, Session, Tracked, At
  <2> QED BY <1>a, <2>1 DEF Held
<1>11. Fits
  BY <1>1, <1>2, <1>3, <1>4, <1>5, <1>6, <1>7, <1>8, <1>9, <1>10
  DEF Next, Step, Remove, Gc, Done
<1> QED BY <1>11 DEF Fits

\* The map never holds more lanes than max_lanes and one for each call in
\* progress, however many calls judge the lanes idle at the same time, evict
\* each other's victims, time out or insert.
THEOREM Capacity == Spec => []LanesBounded
<1>1. LaneInv /\ ListsTyped /\ RoomForAll => LanesBounded
  <2> SUFFICES ASSUME CallsTyped, ListsTyped, RoomForAll PROVE LanesBounded
    BY DEF LaneInv
  <2>1. /\ IsFiniteSet(Held({})) /\ IsFiniteSet(Coming({})) /\ IsFiniteSet(Tracked)
        /\ Cardinality(Tracked) = Len(lru)
    BY Countable
  <2>2. Tracked \in SUBSET Held({})
    BY DEF Held, Condemned
  <2>3. Cardinality(Held({})) + Cardinality(Coming({})) <= MaxLanes + Cardinality(Tasks)
    BY DEF RoomForAll
  <2>4. /\ Cardinality(Tracked) <= Cardinality(Held({})) /\ Cardinality(Tracked) \in Nat
        /\ Cardinality(Held({})) \in Nat /\ Cardinality(Coming({})) \in Nat
        /\ MaxLanes + Cardinality(Tasks) \in Nat
    <3>1. MaxLanes \in Nat /\ Cardinality(Tasks) \in Nat
      BY LaneConstants, FS_CardinalityType
    <3> QED BY <2>1, <2>2, <3>1, FS_Subset, FS_CardinalityType
  <2> DEFINE all == MaxLanes + Cardinality(Tasks)
  <2> HIDE DEF all
  <2>5. Len(lru) <= all
    BY <2>1, <2>3, <2>4 DEF all
  <2> QED BY <2>5 DEF all, LanesBounded
<1> QED
  BY <1>1, InitLane, InitLists, InitOwner, InitRoom, StepLane, StepLists, StepOwner, StepRoom, PTL
  DEF Spec
=============================================================================

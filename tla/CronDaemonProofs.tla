-------------------------- MODULE CronDaemonProofs --------------------------
(***************************************************************************)
(* TLAPS proofs about the cron tasks: CronTasks, the manager's table, for  *)
(* every finite set of ids, every dependency list, number of calls, faults *)
(* and crashes; and Daemon, which takes the tasks from one process to the  *)
(* next, for every set of runs and tasks and every number of processes.    *)
(***************************************************************************)
EXTENDS CronTasks, Daemon, FiniteSetTheorems, WellFoundedInduction, TLAPS

-----------------------------------------------------------------------------
(* Dependencies as a graph *)

Graph(table) == \A x \in Ids : Deps(table, x) \in Seq(Ids)
DepSet(table, x) == {Deps(table, x)[i] : i \in DOMAIN Deps(table, x)}

LEMMA DepSetIn ==
  ASSUME NEW table, Graph(table), NEW x \in Ids
  PROVE  DepSet(table, x) \subseteq Ids
BY DEF Graph, DepSet

\* A set is closed if no dependency leads out of it.
LEMMA FollowingIs ==
  ASSUME NEW table, NEW S, NEW id
  PROVE  Following(table, S \cup {id}) \subseteq S <=>
            DepSet(table, id) \subseteq S /\ \A x \in S : DepSet(table, x) \subseteq S
<1>1. Following(table, S \cup {id}) = UNION {DepSet(table, x) : x \in S \cup {id}}
  BY DEF Following, DepSet
<1> QED BY <1>1

\* What is reached is closed,
LEMMA ReachClosed ==
  ASSUME NEW table, Graph(table), NEW id \in Ids
  PROVE  /\ Reach(table, id) \subseteq Ids
         /\ DepSet(table, id) \subseteq Reach(table, id)
         /\ \A x \in Reach(table, id) : DepSet(table, x) \subseteq Reach(table, id)
<1>1. Reach(table, id) \subseteq Ids
  BY DEF Reach
<1>2. DepSet(table, id) \subseteq Reach(table, id)
  BY DepSetIn, FollowingIs DEF Reach
<1>3. ASSUME NEW x \in Reach(table, id), NEW y \in DepSet(table, x) PROVE y \in Reach(table, id)
  <2>1. y \in Ids
    BY <1>1, <1>3, DepSetIn
  <2>2. ASSUME NEW S \in SUBSET Ids, Following(table, S \cup {id}) \subseteq S PROVE y \in S
    <3>1. x \in S
      BY <1>3, <2>2 DEF Reach
    <3>2. \A z \in S : DepSet(table, z) \subseteq S
      BY <2>2, FollowingIs
    <3> QED BY <1>3, <3>1, <3>2
  <2> QED BY <2>1, <2>2 DEF Reach
<1> QED BY <1>1, <1>2, <1>3

\* and within every closed set.
LEMMA ReachLeast ==
  ASSUME NEW table, NEW id, NEW S \in SUBSET Ids, DepSet(table, id) \subseteq S,
         \A x \in S : DepSet(table, x) \subseteq S
  PROVE  Reach(table, id) \subseteq S
BY FollowingIs DEF Reach

\* Fewer dependencies close no cycle.
LEMMA FewerDeps ==
  ASSUME NEW old, NEW new, Graph(old), Graph(new), Acyclic(old),
         \A x \in Ids : DepSet(new, x) \subseteq DepSet(old, x)
  PROVE  Acyclic(new)
<1> SUFFICES ASSUME NEW id \in Ids PROVE id \notin Reach(new, id)
  BY DEF Acyclic
<1>1. Reach(new, id) \subseteq Reach(old, id)
  BY ReachClosed, ReachLeast
<1> QED BY <1>1 DEF Acyclic

\* Neither do new dependencies of one task, if they do not lead back to it.
LEMMA OneTaskAcyclic ==
  ASSUME NEW old, NEW new, Graph(old), Graph(new), NEW v \in Ids, Acyclic(old),
         \A x \in Ids \ {v} : DepSet(new, x) = DepSet(old, x),
         v \notin Reach(new, v)
  PROVE  Acyclic(new)
<1> SUFFICES ASSUME NEW x \in Ids, x # v PROVE x \notin Reach(new, x)
  BY DEF Acyclic
<1>1. x \notin Reach(old, x)
  BY DEF Acyclic
<1>2. CASE x \in Reach(new, v)
  <2>1. Reach(new, x) \subseteq Reach(new, v)
    BY <1>2, ReachClosed, ReachLeast
  <2>2. v \notin Reach(new, x)
    BY <2>1
  <2> DEFINE S == Reach(old, x) \cap Reach(new, x)
  <2>3. S \in SUBSET Ids /\ DepSet(new, x) \subseteq S /\ \A y \in S : DepSet(new, y) \subseteq S
    BY <2>2, ReachClosed
  <2> HIDE DEF S
  <2>4. Reach(new, x) \subseteq S
    BY <2>3, ReachLeast
  <2> QED BY <1>1, <2>4 DEF S
<1>3. CASE x \notin Reach(new, v)
  <2> DEFINE S == Reach(old, x) \cup Reach(new, v) \cup {v}
  <2>1. S \in SUBSET Ids
    BY ReachClosed
  <2>2. DepSet(new, x) \subseteq S
    BY ReachClosed
  <2>3. ASSUME NEW y \in S PROVE DepSet(new, y) \subseteq S
    <3>1. CASE y = v
      BY <3>1, ReachClosed
    <3>2. CASE y # v /\ y \in Reach(new, v)
      BY <3>2, ReachClosed
    <3>3. CASE y # v /\ y \in Reach(old, x)
      BY <3>3, ReachClosed
    <3> QED BY <3>1, <3>2, <3>3
  <2> HIDE DEF S
  <2>4. Reach(new, x) \subseteq S
    BY <2>1, <2>2, <2>3, ReachLeast
  <2> QED BY <1>1, <1>3, <2>4 DEF S
<1> QED BY <1>2, <1>3

-----------------------------------------------------------------------------
(* Iteration *)

\* A set of numbers that is not empty has a least element.
LEMMA NatLeast ==
  ASSUME NEW T, T \subseteq Nat, T # {}
  PROVE  \E x \in T : \A y \in T : x <= y
<1> DEFINE R == {p \in Nat \X Nat : p[1] < p[2]}
<1>0. IsWellFoundedOn(R, Nat)
  <2>1. R = OpToRel(<, Nat) BY Zenon DEF OpToRel
  <2> QED BY <2>1, NatLessThanWellFounded, Zenon
<1>1. PICK x \in T : \A y \in T : <<y,x>> \notin R
  BY <1>0, WFMin
<1>2. \A y \in T : ~(y < x)
  BY <1>1
<1> QED BY <1>2

\* Induction over the numbers, for a property given as a set.
LEMMA SetInduction ==
  ASSUME NEW T, 0 \in T, \A n \in Nat : n \in T => n + 1 \in T
  PROVE  Nat \subseteq T
<1> SUFFICES ASSUME Nat \ T # {} PROVE FALSE OBVIOUS
<1>1. PICK x \in Nat \ T : \A y \in Nat \ T : x <= y BY NatLeast
<1>2. x # 0 /\ x-1 \in Nat BY <1>1
<1>3. x-1 \in T BY <1>1, <1>2
<1>4. (x-1)+1 = x BY <1>2
<1> QED BY <1>1,<1>2,<1>3,<1>4

\* g[k] is the k-th step of the iteration.
Iterated(g, n, start, step) ==
    g[0] = start /\ \A k \in 1..n : g[k] = step[<<k, g[k - 1]>>]

\* The iteration of a function on a set exists: recursive definitions of this
\* shape have a solution.
LEMMA Iterates ==
  ASSUME NEW n \in Nat, NEW X, NEW start \in X, NEW step \in [(1..n) \X X -> X]
  PROVE  \E g \in [0..n -> X] : Iterated(g, n, start, step)
<1> DEFINE Good(m, g) == g[0] = start /\ \A k \in 1..m : g[k] = step[<<k, g[k - 1]>>]
           T == {m \in Nat : m <= n => \E g \in [0..m -> X] : Good(m, g)}
<1>1. 0 \in T
  <2>1. [k \in 0..0 |-> start] \in [0..0 -> X] /\ Good(0, [k \in 0..0 |-> start])
    OBVIOUS
  <2> HIDE DEF Good
  <2> QED BY <2>1
<1>2. ASSUME NEW m \in Nat, m \in T PROVE m + 1 \in T
  <2> SUFFICES ASSUME m + 1 <= n PROVE \E h \in [0..(m + 1) -> X] : Good(m + 1, h)
    OBVIOUS
  <2>1. PICK g \in [0..m -> X] : Good(m, g)
    BY <1>2
  <2> DEFINE h == [k \in 0..(m + 1) |-> IF k = m + 1 THEN step[<<m + 1, g[m]>>] ELSE g[k]]
  <2>2. step[<<m + 1, g[m]>>] \in X
    <3>1. m + 1 \in 1..n /\ g[m] \in X OBVIOUS
    <3>2. <<m + 1, g[m]>> \in (1..n) \X X BY <3>1
    <3> QED BY <3>2
  <2>3. h \in [0..(m + 1) -> X] BY <2>2
  <2>4. h[0] = start BY <2>1
  <2>5. ASSUME NEW k \in 1..(m + 1) PROVE h[k] = step[<<k, h[k - 1]>>]
    <3>1. k - 1 \in 0..m /\ h[k - 1] = g[k - 1] OBVIOUS
    <3>2. CASE k = m + 1
      <4>1. h[k] = step[<<m + 1, g[m]>>] /\ k - 1 = m BY <3>2
      <4> HIDE DEF h
      <4> QED BY <4>1, <3>1, <3>2
    <3>3. CASE k # m + 1
      <4>1. h[k] = g[k] /\ k \in 1..m BY <3>3
      <4> QED BY <4>1, <3>1, <2>1
    <3> QED BY <3>2, <3>3
  <2> QED BY <2>3, <2>4, <2>5
<1> HIDE DEF T, Good
<1>3. n \in T BY <1>1, <1>2, SetInduction
<1> QED BY <1>3 DEF T, Good, Iterated

-----------------------------------------------------------------------------
(* The lists of detect_cycle *)

Members(q) == {q[i] : i \in 1..Len(q)}

LEMMA AppendMembers ==
  ASSUME NEW q \in Seq(Ids), NEW x \in Ids
  PROVE  /\ Append(q, x) \in Seq(Ids) /\ Len(Append(q, x)) = Len(q) + 1
         /\ Members(Append(q, x)) = Members(q) \cup {x}
<1>1. /\ Append(q, x) \in Seq(Ids) /\ Len(Append(q, x)) = Len(q) + 1 /\ Len(q) \in Nat
      /\ \A i \in 1..Len(q) : Append(q, x)[i] = q[i]
      /\ Append(q, x)[Len(q) + 1] = x
  OBVIOUS
<1> DEFINE r == Append(q, x)
<1> HIDE DEF r
<1>2. Members(r) = Members(q) \cup {x}
  BY <1>1 DEF Members, r
<1> QED BY <1>1, <1>2 DEF r

\* The top of a stack and what is below it.
LEMMA PopFacts ==
  ASSUME NEW q \in Seq(Ids), q # <<>>
  PROVE  /\ Seqs!Last(q) \in Ids /\ Seqs!Front(q) \in Seq(Ids)
         /\ Len(Seqs!Front(q)) = Len(q) - 1
         /\ Members(q) = Members(Seqs!Front(q)) \cup {Seqs!Last(q)}
<1> DEFINE r == SubSeq(q, 1, Len(q) - 1)
<1>0. Len(q) \in Nat \ {0} /\ q[Len(q)] \in Ids
  OBVIOUS
<1>1. /\ Len(q) \in Nat \ {0} /\ q[Len(q)] \in Ids /\ r \in Seq(Ids) /\ Len(r) = Len(q) - 1
      /\ \A i \in 1..(Len(q) - 1) : r[i] = q[i]
  <2> DEFINE k == Len(q)
  <2>1. r \in Seq(Ids) /\ Len(r) = k - 1 /\ \A i \in 1..(k - 1) : r[i] = q[i]
    BY <1>0
  <2> QED BY <1>0, <2>1
<1>2. Seqs!Last(q) = q[Len(q)] /\ Seqs!Front(q) = r
  BY DEF Seqs!Last, Seqs!Front
<1> HIDE DEF r
<1>3. Members(q) = Members(r) \cup {q[Len(q)]}
  <2>1. \A i \in 1..Len(q) : i = Len(q) \/ (i \in 1..Len(r) /\ r[i] = q[i])
    BY <1>1
  <2>2. \A i \in 1..Len(r) : i \in 1..Len(q) /\ r[i] = q[i]
    BY <1>1
  <2>3. Len(q) \in 1..Len(q)
    BY <1>1
  <2> QED BY <2>1, <2>2, <2>3 DEF Members
<1> QED BY <1>1, <1>2, <1>3

\* One list after the other.
LEMMA ConcatFacts ==
  ASSUME NEW q \in Seq(Ids), NEW r \in Seq(Ids)
  PROVE  /\ q \o r \in Seq(Ids) /\ Len(q \o r) = Len(q) + Len(r)
         /\ Members(q \o r) = Members(q) \cup Members(r)
<1> DEFINE c == q \o r
<1>1. /\ c \in Seq(Ids) /\ Len(c) = Len(q) + Len(r) /\ Len(q) \in Nat /\ Len(r) \in Nat
      /\ \A i \in 1..Len(c) : c[i] = IF i <= Len(q) THEN q[i] ELSE r[i - Len(q)]
  OBVIOUS
<1> HIDE DEF c
<1>2. Members(c) \subseteq Members(q) \cup Members(r)
  <2>1. ASSUME NEW i \in 1..Len(c) PROVE c[i] \in Members(q) \cup Members(r)
    <3>1. CASE i <= Len(q)
      <4>1. i \in 1..Len(q) /\ c[i] = q[i]
        BY <1>1, <3>1
      <4> QED BY <4>1 DEF Members
    <3>2. CASE ~(i <= Len(q))
      <4>1. i - Len(q) \in 1..Len(r) /\ c[i] = r[i - Len(q)]
        BY <1>1, <3>2
      <4> QED BY <4>1 DEF Members
    <3> QED BY <3>1, <3>2
  <2> QED BY <2>1 DEF Members
<1>3. Members(q) \subseteq Members(c)
  <2>1. \A i \in 1..Len(q) : i \in 1..Len(c) /\ c[i] = q[i]
    BY <1>1
  <2> QED BY <2>1 DEF Members
<1>4. Members(r) \subseteq Members(c)
  <2>1. ASSUME NEW i \in 1..Len(r) PROVE Len(q) + i \in 1..Len(c) /\ c[Len(q) + i] = r[i]
    <3>1. Len(q) + i \in 1..Len(c) /\ ~(Len(q) + i <= Len(q)) /\ (Len(q) + i) - Len(q) = i
      BY <1>1
    <3> QED BY <1>1, <3>1
  <2> QED BY <2>1 DEF Members
<1> QED BY <1>1, <1>2, <1>3, <1>4 DEF c

\* f[k] is what Undone keeps of the first k dependencies.
KeptBy(f, deps, visited) ==
    /\ f[0] = <<>> /\ Undone(deps, visited) = f[Len(deps)]
    /\ \A k \in 1..Len(deps) :
          f[k] = IF deps[k] \in visited THEN f[k - 1] ELSE Append(f[k - 1], deps[k])

\* The recursive definition of Undone has its solution.
LEMMA UndoneRec ==
  ASSUME NEW deps \in Seq(Ids), NEW visited
  PROVE  \E f \in [0..Len(deps) -> Seq(Ids)] : KeptBy(f, deps, visited)
<1> DEFINE n == Len(deps)
           step == [p \in (1..n) \X Seq(Ids) |->
                      IF deps[p[1]] \in visited THEN p[2] ELSE Append(p[2], deps[p[1]])]
           Body(f) == [i \in 0..n |-> IF i = 0 THEN <<>>
                         ELSE IF deps[i] \in visited THEN f[i - 1] ELSE Append(f[i - 1], deps[i])]
<1>1. step \in [(1..n) \X Seq(Ids) -> Seq(Ids)]
  OBVIOUS
<1>2. n \in Nat /\ <<>> \in Seq(Ids)
  OBVIOUS
<1>3. PICK g \in [0..n -> Seq(Ids)] : g[0] = <<>> /\ \A k \in 1..n : g[k] = step[<<k, g[k - 1]>>]
  <2> DEFINE X == Seq(Ids)
             empty == <<>>
  <2>1. n \in Nat /\ empty \in X /\ step \in [(1..n) \X X -> X]
    BY <1>1, <1>2
  <2> HIDE DEF step, n, X, empty
  <2>2. \E g \in [0..n -> X] : Iterated(g, n, empty, step)
    BY <2>1, Iterates
  <2> QED BY <2>2 DEF X, empty, Iterated
<1>4. \A k \in 1..n : g[k] = IF deps[k] \in visited THEN g[k - 1] ELSE Append(g[k - 1], deps[k])
  <2> TAKE k \in 1..n
  <2>1. k - 1 \in 0..n /\ g[k - 1] \in Seq(Ids)
    OBVIOUS
  <2>2. <<k, g[k - 1]>> \in (1..n) \X Seq(Ids)
    BY <2>1
  <2> QED BY <1>3, <2>2
<1>5. g = Body(g)
  <2>1. ASSUME NEW i \in 0..n PROVE g[i] = Body(g)[i]
    <3>1. CASE i = 0
      BY <3>1, <1>3
    <3>2. CASE i # 0
      <4>1. i \in 1..n
        BY <3>2
      <4>2. g[i] = IF deps[i] \in visited THEN g[i - 1] ELSE Append(g[i - 1], deps[i])
        BY <4>1, <1>4
      <4> QED BY <4>2, <3>2
    <3> QED BY <3>1, <3>2
  <2> QED BY <2>1
<1> DEFINE F == CHOOSE f : f = Body(f)
<1>6. Undone(deps, visited) = F[n]
  BY DEF Undone
<1>7. F = Body(F)
  <2> HIDE DEF Body
  <2> QED BY <1>5
<1> HIDE DEF F
<1>8. /\ F[0] = <<>>
      /\ \A k \in 1..n : F[k] = IF deps[k] \in visited THEN F[k - 1] ELSE Append(F[k - 1], deps[k])
  <2>1. \A i \in 0..n : F[i] = Body(F)[i]
    BY <1>7
  <2>2. \A i \in 0..n : Body(F)[i] = IF i = 0 THEN <<>>
                         ELSE IF deps[i] \in visited THEN F[i - 1] ELSE Append(F[i - 1], deps[i])
    OBVIOUS
  <2>3. 0 \in 0..n /\ \A k \in 1..n : k \in 0..n /\ k # 0
    BY <1>2
  <2> HIDE DEF Body, n
  <2> QED BY <2>1, <2>2, <2>3
<1> DEFINE T == {k \in Nat : k <= n => F[k] = g[k]}
<1>9. Nat \subseteq T
  <2>1. 0 \in T
    BY <1>3, <1>8
  <2>2. ASSUME NEW k \in Nat, k \in T PROVE k + 1 \in T
    <3> SUFFICES ASSUME k + 1 <= n PROVE F[k + 1] = g[k + 1]
      OBVIOUS
    <3>1. k + 1 \in 1..n /\ (k + 1) - 1 = k /\ F[k] = g[k]
      BY <2>2
    <3> QED BY <3>1, <1>4, <1>8
  <2> HIDE DEF T
  <2> QED BY <2>1, <2>2, SetInduction
<1>10. F = g
  <2>1. F = [i \in 0..n |-> F[i]]
    BY <1>7
  <2>2. \A i \in 0..n : F[i] = g[i]
    BY <1>9
  <2> QED BY <2>1, <2>2
<1> QED BY <1>3, <1>4, <1>6, <1>10 DEF KeptBy

\* Undone keeps what is not visited, and adds nothing.
LEMMA UndoneFacts ==
  ASSUME NEW deps \in Seq(Ids), NEW visited
  PROVE  /\ Undone(deps, visited) \in Seq(Ids) /\ Len(Undone(deps, visited)) <= Len(deps)
         /\ Members(Undone(deps, visited)) = Members(deps) \ visited
<1>0. PICK f \in [0..Len(deps) -> Seq(Ids)] : KeptBy(f, deps, visited)
  BY UndoneRec
<1>1. /\ f[0] = <<>> /\ Undone(deps, visited) = f[Len(deps)]
      /\ \A k \in 1..Len(deps) :
            f[k] = IF deps[k] \in visited THEN f[k - 1] ELSE Append(f[k - 1], deps[k])
  BY <1>0 DEF KeptBy
<1> DEFINE Upto(k) == {deps[i] : i \in 1..k}
           Good(k) == Len(f[k]) <= k /\ Members(f[k]) = Upto(k) \ visited
           T == {k \in Nat : k <= Len(deps) => Good(k)}
<1>2. 0 \in T
  <2>1. Len(f[0]) = 0
    BY <1>1
  <2>2. Members(f[0]) = {} /\ Upto(0) = {}
    BY <2>1 DEF Members
  <2> QED BY <2>1, <2>2
<1>3. ASSUME NEW k \in Nat, k \in T PROVE k + 1 \in T
  <2> SUFFICES ASSUME k + 1 <= Len(deps) PROVE Good(k + 1)
    OBVIOUS
  <2>1. /\ k \in 0..Len(deps) /\ k + 1 \in 1..Len(deps) /\ (k + 1) - 1 = k
        /\ f[k] \in Seq(Ids) /\ deps[k + 1] \in Ids /\ Len(f[k]) \in Nat
    OBVIOUS
  <2>0. Len(f[k]) <= k /\ Members(f[k]) = Upto(k) \ visited
    BY <1>3, <2>1
  <2>2. f[k + 1] = IF deps[k + 1] \in visited THEN f[k] ELSE Append(f[k], deps[k + 1])
    BY <1>1, <2>1
  <2>3. Upto(k + 1) = Upto(k) \cup {deps[k + 1]}
    <3>1. 1..(k + 1) = 1..k \cup {k + 1}
      OBVIOUS
    <3> QED BY <3>1, Zenon
  <2> HIDE DEF Upto
  <2>4. CASE deps[k + 1] \in visited
    <3>1. f[k + 1] = f[k]
      BY <2>2, <2>4
    <3> QED BY <2>0, <2>1, <2>3, <2>4, <3>1
  <2>5. CASE deps[k + 1] \notin visited
    <3> DEFINE r == Append(f[k], deps[k + 1])
    <3>1. f[k + 1] = r
      BY <2>2, <2>5
    <3>2. Len(r) = Len(f[k]) + 1 /\ Members(r) = Members(f[k]) \cup {deps[k + 1]}
      BY <2>1, AppendMembers
    <3> HIDE DEF r
    <3>3. Len(f[k + 1]) <= k + 1
      BY <2>0, <2>1, <3>1, <3>2
    <3>4. Members(f[k + 1]) = Upto(k + 1) \ visited
      BY <2>0, <2>3, <2>5, <3>1, <3>2
    <3> QED BY <3>3, <3>4
  <2> QED BY <2>4, <2>5
<1>4. Len(deps) \in T
  <2>1. Nat \subseteq T
    <3> HIDE DEF T
    <3> QED BY <1>2, <1>3, SetInduction
  <2>2. Len(deps) \in Nat
    OBVIOUS
  <2> HIDE DEF T
  <2> QED BY <2>1, <2>2
<1>5. Upto(Len(deps)) = Members(deps)
  BY DEF Members
<1>6. Len(deps) \in 0..Len(deps)
  OBVIOUS
<1> QED BY <1>1, <1>4, <1>5, <1>6

-----------------------------------------------------------------------------
(* detect_cycle *)

\* The entries of a task's dependency list are counted apart from the others.
LEMMA EntriesCount ==
  ASSUME NEW table, Graph(table), NEW S \in SUBSET Ids
  PROVE  /\ IsFiniteSet(Entries(table, S)) /\ Cardinality(Entries(table, S)) \in Nat
         /\ \A x \in S : Cardinality(Entries(table, S))
                           = Cardinality(Entries(table, S \ {x})) + Len(Deps(table, x))
<1> DEFINE Of(x) == {x} \X DOMAIN Deps(table, x)
<1>1. ASSUME NEW x \in Ids
      PROVE  IsFiniteSet(Of(x)) /\ Cardinality(Of(x)) = Len(Deps(table, x))
  <2>1. DOMAIN Deps(table, x) = 1..Len(Deps(table, x)) /\ Len(Deps(table, x)) \in Nat
    BY DEF Graph
  <2>2. /\ IsFiniteSet(1..Len(Deps(table, x)))
        /\ Cardinality(1..Len(Deps(table, x))) = Len(Deps(table, x))
    <3>1. \A n \in Nat : IsFiniteSet(1..n) /\ Cardinality(1..n) = IF 1 > n THEN 0 ELSE n - 1 + 1
      BY FS_Interval
    <3>2. \A n \in Nat : IsFiniteSet(1..n) /\ Cardinality(1..n) = n
      BY <3>1
    <3> QED BY <2>1, <3>2
  <2>3. IsFiniteSet({x}) /\ Cardinality({x}) = 1
    BY FS_Singleton
  <2>4. /\ IsFiniteSet(Of(x))
        /\ Cardinality(Of(x)) = Cardinality({x}) * Cardinality(DOMAIN Deps(table, x))
    BY <2>1, <2>2, <2>3, FS_Product
  <2> QED BY <2>1, <2>2, <2>3, <2>4
<1>2. ASSUME NEW X \in SUBSET Ids PROVE IsFiniteSet(Entries(table, X))
  <2> DEFINE Lists == {Of(x) : x \in X}
             f == [x \in X |-> Of(x)]
  <2>1. IsFiniteSet(X)
    BY CronTaskConstants, FS_Subset
  <2>2. f \in Surjection(X, Lists)
    BY DEF Surjection
  <2>3. IsFiniteSet(Lists)
    <3> HIDE DEF f, Lists
    <3> QED BY <2>1, <2>2, FS_Surjection DEF ExistsSurjection
  <2>4. \A l \in Lists : IsFiniteSet(l)
    BY <1>1
  <2>5. Entries(table, X) = UNION Lists
    BY DEF Entries
  <2> HIDE DEF Lists
  <2> QED BY <2>3, <2>4, <2>5, FS_UNION
<1>3. ASSUME NEW x \in S
      PROVE  Cardinality(Entries(table, S)) = Cardinality(Entries(table, S \ {x})) + Len(Deps(table, x))
  <2> DEFINE rest == Entries(table, S \ {x})
  <2>1. Entries(table, S) = rest \cup Of(x)
    BY DEF Entries
  <2>2. rest \cap Of(x) = {}
    BY DEF Entries
  <2>3. IsFiniteSet(rest) /\ IsFiniteSet(Of(x)) /\ Cardinality(Of(x)) = Len(Deps(table, x))
    BY <1>1, <1>2
  <2> HIDE DEF rest, Of
  <2>4. Cardinality(rest \cup Of(x)) = Cardinality(rest) + Cardinality(Of(x)) - Cardinality(rest \cap Of(x))
    BY <2>3, FS_Union
  <2>5. Cardinality(rest \cap Of(x)) = 0 /\ Cardinality(rest) \in Nat /\ Cardinality(Of(x)) \in Nat
    BY <2>2, <2>3, FS_EmptySet, FS_CardinalityType
  <2> QED BY <2>1, <2>3, <2>4, <2>5 DEF rest
<1>4. Cardinality(Entries(table, S)) \in Nat
  BY <1>2, FS_CardinalityType
<1> QED BY <1>2, <1>3, <1>4

DfsState == [stack : Seq(Ids), visiting : SUBSET Ids, visited : SUBSET Ids, found : BOOLEAN]

\* The tasks that were expanded.
Seen(d) == d.visiting \cup d.visited

\* A round takes d to r: top is done with, or expanded.
Takes(d, r, table, top, rest) ==
    /\ r \in DfsState /\ top \in Ids /\ rest \in Seq(Ids)
    /\ Len(rest) = Len(d.stack) - 1 /\ Members(d.stack) = Members(rest) \cup {top}
    /\ \/ /\ top \in Seen(d) /\ Seen(r) = Seen(d) /\ d.visiting \subseteq r.visiting \cup {top}
          /\ r.stack = rest /\ ~r.found
       \/ /\ top \notin Seen(d) /\ r.visiting = d.visiting \cup {top} /\ r.visited = d.visited
          /\ r.found <=> DepSet(table, top) \cap r.visiting # {}
          /\ Members(r.stack) = Members(rest) \cup (DepSet(table, top) \ d.visited)
          /\ Len(r.stack) <= Len(rest) + Len(Deps(table, top))

\* Round is such a round.
LEMMA RoundTakes ==
  ASSUME NEW table, Graph(table), NEW d \in DfsState, ~d.found, d.stack # <<>>
  PROVE  Takes(d, Round(d, table), table, Seqs!Last(d.stack), Seqs!Front(d.stack))
<1> DEFINE top  == Seqs!Last(d.stack)
           rest == Seqs!Front(d.stack)
           deps == Deps(table, top)
           more == Undone(deps, d.visited)
           r    == Round(d, table)
<1>0. /\ d.stack \in Seq(Ids) /\ d.visiting \in SUBSET Ids /\ d.visited \in SUBSET Ids
      /\ d.found \in BOOLEAN
      /\ d = [stack |-> d.stack, visiting |-> d.visiting, visited |-> d.visited, found |-> d.found]
  BY DEF DfsState
<1>1. /\ top \in Ids /\ rest \in Seq(Ids)
      /\ Len(rest) = Len(d.stack) - 1 /\ Members(d.stack) = Members(rest) \cup {top}
  BY <1>0, PopFacts
<1>2. r = IF top \in d.visited THEN [d EXCEPT !.stack = rest]
          ELSE IF top \in d.visiting
            THEN [d EXCEPT !.stack = rest, !.visited = @ \cup {top}, !.visiting = @ \ {top}]
            ELSE [d EXCEPT !.visiting = d.visiting \cup {top},
                           !.found = \E i \in DOMAIN deps : deps[i] \in d.visiting \cup {top},
                           !.stack = rest \o more]
  BY DEF Round
<1>3. deps \in Seq(Ids) /\ Len(deps) \in Nat /\ Members(deps) = DepSet(table, top)
  BY <1>1 DEF Graph, Members, DepSet
<1>4. more \in Seq(Ids) /\ Len(more) <= Len(deps) /\ Members(more) = DepSet(table, top) \ d.visited
  BY <1>3, UndoneFacts
<1>5. (\E i \in DOMAIN deps : deps[i] \in d.visiting \cup {top})
        <=> DepSet(table, top) \cap (d.visiting \cup {top}) # {}
  BY DEF DepSet
<1> HIDE DEF top, rest, deps, more, r
<1>6. CASE top \in d.visited
  <2>1. r = [stack |-> rest, visiting |-> d.visiting, visited |-> d.visited, found |-> d.found]
    BY <1>0, <1>2, <1>6, Zenon
  <2>2. r \in DfsState /\ r.stack = rest /\ ~r.found /\ Seen(r) = Seen(d) /\ r.visiting = d.visiting
    BY <1>0, <1>1, <2>1 DEF DfsState, Seen
  <2> QED BY <1>1, <1>6, <2>2 DEF Takes, Seen, top, rest, r
<1>7. CASE top \notin d.visited /\ top \in d.visiting
  <2>1. r = [stack |-> rest, visiting |-> d.visiting \ {top}, visited |-> d.visited \cup {top},
             found |-> d.found]
    BY <1>0, <1>2, <1>7, Zenon
  <2>2. /\ r \in DfsState /\ r.stack = rest /\ ~r.found /\ r.visiting = d.visiting \ {top}
        /\ r.visited = d.visited \cup {top}
    BY <1>0, <1>1, <2>1 DEF DfsState
  <2>3. Seen(r) = Seen(d) /\ d.visiting \subseteq r.visiting \cup {top} /\ top \in Seen(d)
    BY <1>7, <2>2 DEF Seen
  <2> QED BY <1>1, <2>2, <2>3 DEF Takes, top, rest, r
<1>8. CASE top \notin d.visited /\ top \notin d.visiting
  <2> DEFINE hit == \E i \in DOMAIN deps : deps[i] \in d.visiting \cup {top}
             longer == rest \o more
  <2>1. /\ longer \in Seq(Ids) /\ Len(longer) = Len(rest) + Len(more)
        /\ Members(longer) = Members(rest) \cup Members(more)
    BY <1>1, <1>4, ConcatFacts
  <2>2. r = [stack |-> longer, visiting |-> d.visiting \cup {top}, visited |-> d.visited, found |-> hit]
    BY <1>0, <1>2, <1>8, Zenon
  <2>3. hit \in BOOLEAN
    OBVIOUS
  <2>4. hit <=> DepSet(table, top) \cap (d.visiting \cup {top}) # {}
    BY <1>5
  <2> HIDE DEF hit, longer
  <2>5. /\ r \in DfsState /\ r.stack = longer /\ r.visiting = d.visiting \cup {top}
        /\ r.visited = d.visited /\ r.found = hit
    BY <1>0, <1>1, <2>1, <2>2, <2>3 DEF DfsState
  <2>6. Len(r.stack) <= Len(rest) + Len(deps)
    <3>1. Len(rest) \in Nat /\ Len(more) \in Nat
      BY <1>1, <1>4
    <3> QED BY <1>3, <1>4, <2>1, <2>5, <3>1
  <2>7. Members(r.stack) = Members(rest) \cup (DepSet(table, top) \ d.visited)
    BY <1>4, <2>1, <2>5
  <2>8. top \notin Seen(d)
    BY <1>8 DEF Seen
  <2>9. r.found <=> DepSet(table, top) \cap r.visiting # {}
    BY <2>4, <2>5
  <2> QED BY <1>1, <2>5, <2>6, <2>7, <2>8, <2>9 DEF Takes, top, rest, deps, r
<1> QED BY <1>6, <1>7, <1>8

\* Two ways lead to the same task: a predecessor is shared.
Shares(table, id) ==
    \E x, y \in {id} \cup Reach(table, id) :
        x # y /\ Following(table, {x}) \cap Following(table, {y}) # {}

\* What a refusal is explained by.
Explained(table, id) == ~Acyclic(table) \/ Shares(table, id)

\* The search has not left what is reached from id, and knows how it came there,
LedTo(d, table, id) ==
    /\ Seen(d) \cup Members(d.stack) \subseteq {id} \cup Reach(table, id)
    /\ \A y \in (Seen(d) \cup Members(d.stack)) \ {id} : \E x \in Seen(d) : y \in DepSet(table, x)

\* and has nothing but the stack left to look at: no dependency it has seen leads to id.
Looked(d, table, id) ==
    \/ Seen(d) = {} /\ Members(d.stack) = {id} /\ Len(d.stack) = 1
    \/ /\ id \in d.visiting /\ id \notin Members(d.stack)
       /\ \A x \in Seen(d) : /\ id \notin DepSet(table, x)
                             /\ DepSet(table, x) \subseteq Seen(d) \cup Members(d.stack)

DfsInv(d, table, id) ==
    /\ d \in DfsState
    /\ d.found => Explained(table, id)
    /\ ~d.found => LedTo(d, table, id) /\ Looked(d, table, id)

\* How much there is left to do.
Weight(d, table) == Len(d.stack) + Cardinality(Entries(table, Ids \ Seen(d)))

\* A round leads on to what is reached, and reports what is explained.
LEMMA RoundLeads ==
  ASSUME NEW table, Graph(table), NEW id \in Ids, NEW d \in DfsState, LedTo(d, table, id),
         NEW r, NEW top, NEW rest, Takes(d, r, table, top, rest)
  PROVE  (r.found => Explained(table, id)) /\ (~r.found => LedTo(r, table, id))
<1> DEFINE R == {id} \cup Reach(table, id)
<1>1. /\ top \in Ids /\ top \in R /\ Members(d.stack) = Members(rest) \cup {top}
      /\ Reach(table, id) \subseteq Ids
  BY ReachClosed DEF Takes, LedTo
<1>2. DepSet(table, top) \subseteq Reach(table, id)
  BY <1>1, ReachClosed
<1>3. CASE top \in Seen(d) /\ Seen(r) = Seen(d) /\ r.stack = rest /\ ~r.found
  BY <1>1, <1>3 DEF LedTo
<1>4. CASE /\ top \notin Seen(d) /\ r.visiting = d.visiting \cup {top} /\ r.visited = d.visited
           /\ r.found <=> DepSet(table, top) \cap r.visiting # {}
           /\ Members(r.stack) = Members(rest) \cup (DepSet(table, top) \ d.visited)
  <2>1. Seen(r) = Seen(d) \cup {top}
    BY <1>4 DEF Seen
  <2>2. LedTo(r, table, id)
    <3>1. Seen(r) \cup Members(r.stack) \subseteq R
      BY <1>1, <1>2, <1>4, <2>1 DEF LedTo
    <3>2. ASSUME NEW y \in (Seen(r) \cup Members(r.stack)) \ {id}
          PROVE  \E x \in Seen(r) : y \in DepSet(table, x)
      <4>1. y \in DepSet(table, top) \/ y \in (Seen(d) \cup Members(d.stack)) \ {id}
        BY <1>1, <1>4, <2>1
      <4> QED BY <2>1, <4>1 DEF LedTo
    <3> QED BY <3>1, <3>2 DEF LedTo
  <2>3. ASSUME r.found PROVE Explained(table, id)
    <3>1. PICK y \in DepSet(table, top) : y \in d.visiting \cup {top}
      BY <1>4, <2>3
    <3>2. CASE y = top
      <4>1. top \in Reach(table, top)
        BY <1>1, <3>1, <3>2, ReachClosed
      <4> QED BY <1>1, <4>1 DEF Explained, Acyclic
    <3>3. CASE y = id
      <4>1. id \in Reach(table, id)
        BY <1>2, <3>1, <3>3
      <4> QED BY <4>1 DEF Explained, Acyclic
    <3>4. CASE y # top /\ y # id
      <4>1. y \in Seen(d)
        BY <3>1, <3>4 DEF Seen
      <4>2. PICK x \in Seen(d) : y \in DepSet(table, x)
        BY <3>4, <4>1 DEF LedTo
      <4>3. x # top /\ x \in R /\ top \in R
        BY <1>1, <1>4, <4>2 DEF LedTo
      <4>4. Following(table, {x}) = DepSet(table, x) /\ Following(table, {top}) = DepSet(table, top)
        BY DEF Following, DepSet
      <4>5. Following(table, {x}) \cap Following(table, {top}) # {}
        BY <3>1, <4>2, <4>4
      <4> QED BY <4>3, <4>5 DEF Explained, Shares
    <3> QED BY <3>2, <3>3, <3>4
  <2> QED BY <2>2, <2>3
<1> QED BY <1>3, <1>4 DEF Takes

\* A round that reports nothing has looked at one more entry.
LEMMA RoundLooks ==
  ASSUME NEW table, Graph(table), NEW id \in Ids, NEW d \in DfsState, Looked(d, table, id),
         NEW r, NEW top, NEW rest, Takes(d, r, table, top, rest), ~r.found
  PROVE  Looked(r, table, id)
<1>1. /\ Members(d.stack) = Members(rest) \cup {top} /\ Len(rest) = Len(d.stack) - 1
  BY DEF Takes
<1>2. CASE Seen(d) = {} /\ Members(d.stack) = {id} /\ Len(d.stack) = 1
  <2>1. top = id /\ Len(rest) = 0
    BY <1>1, <1>2
  <2>2. Members(rest) = {}
    BY <2>1 DEF Members
  <2>3. /\ r.visiting = d.visiting \cup {id} /\ r.visited = d.visited
        /\ DepSet(table, id) \cap r.visiting = {}
        /\ Members(r.stack) = DepSet(table, id) \ d.visited
    BY <1>2, <2>1, <2>2 DEF Takes
  <2>4. Seen(r) = {id}
    BY <1>2, <2>3 DEF Seen
  <2> QED BY <2>3, <2>4, <1>2 DEF Looked, Seen
<1>3. CASE /\ id \in d.visiting /\ id \notin Members(d.stack)
           /\ \A x \in Seen(d) : /\ id \notin DepSet(table, x)
                                 /\ DepSet(table, x) \subseteq Seen(d) \cup Members(d.stack)
  <2>1. top # id /\ id \notin Members(rest)
    BY <1>1, <1>3
  <2>2. CASE /\ top \in Seen(d) /\ Seen(r) = Seen(d) /\ d.visiting \subseteq r.visiting \cup {top}
             /\ r.stack = rest
    <3>1. id \in r.visiting
      BY <1>3, <2>1, <2>2
    <3>2. \A x \in Seen(r) : DepSet(table, x) \subseteq Seen(r) \cup Members(r.stack)
      BY <1>1, <1>3, <2>2
    <3> QED BY <1>3, <2>1, <2>2, <3>1, <3>2 DEF Looked
  <2>3. CASE /\ top \notin Seen(d) /\ r.visiting = d.visiting \cup {top} /\ r.visited = d.visited
             /\ DepSet(table, top) \cap r.visiting = {}
             /\ Members(r.stack) = Members(rest) \cup (DepSet(table, top) \ d.visited)
    <3>1. Seen(r) = Seen(d) \cup {top} /\ d.visited \subseteq Seen(d)
      BY <2>3 DEF Seen
    <3>2. id \in r.visiting /\ id \notin DepSet(table, top) /\ id \notin Members(r.stack)
      BY <1>3, <2>1, <2>3
    <3>3. ASSUME NEW x \in Seen(r)
          PROVE  id \notin DepSet(table, x) /\ DepSet(table, x) \subseteq Seen(r) \cup Members(r.stack)
      <4>1. CASE x = top
        BY <2>3, <3>1, <3>2, <4>1
      <4>2. CASE x \in Seen(d)
        BY <1>1, <1>3, <2>3, <3>1, <4>2
      <4> QED BY <3>1, <4>1, <4>2
    <3> QED BY <3>2, <3>3 DEF Looked
  <2> QED BY <2>2, <2>3 DEF Takes
<1> QED BY <1>2, <1>3 DEF Looked

\* And has less to do.
LEMMA RoundEnds ==
  ASSUME NEW table, Graph(table), NEW d \in DfsState,
         NEW r, NEW top, NEW rest, Takes(d, r, table, top, rest)
  PROVE  /\ Weight(d, table) \in Nat /\ Weight(r, table) \in Nat
         /\ Weight(r, table) + 1 <= Weight(d, table)
<1>1. /\ d.stack \in Seq(Ids) /\ r.stack \in Seq(Ids) /\ rest \in Seq(Ids) /\ top \in Ids
      /\ Len(rest) = Len(d.stack) - 1
  BY DEF Takes, DfsState
<1>2. Len(d.stack) \in Nat /\ Len(r.stack) \in Nat /\ Len(rest) \in Nat
  BY <1>1
<1> DEFINE A == Cardinality(Entries(table, Ids \ Seen(d)))
           B == Cardinality(Entries(table, Ids \ Seen(r)))
           n == Len(Deps(table, top))
<1>3. A \in Nat /\ B \in Nat
  BY EntriesCount
<1>4. n \in Nat
  BY <1>1 DEF Graph
<1>5. \/ r.stack = rest /\ A = B
      \/ Len(r.stack) <= Len(rest) + n /\ A = B + n
  <2>1. CASE r.stack = rest /\ Seen(r) = Seen(d)
    BY <2>1
  <2>2. CASE top \notin Seen(d) /\ Seen(r) = Seen(d) \cup {top} /\ Len(r.stack) <= Len(rest) + n
    <3>1. Ids \ Seen(r) = (Ids \ Seen(d)) \ {top} /\ top \in Ids \ Seen(d)
      BY <1>1, <2>2
    <3>2. A = B + n
      BY <3>1, EntriesCount
    <3> QED BY <2>2, <3>2
  <2> QED BY <2>1, <2>2 DEF Takes, Seen
<1>6. Weight(d, table) = Len(d.stack) + A /\ Weight(r, table) = Len(r.stack) + B
  BY DEF Weight
<1> HIDE DEF A, B, n
<1>7. Len(r.stack) + B + 1 <= Len(d.stack) + A
  BY <1>1, <1>2, <1>3, <1>4, <1>5
<1> QED BY <1>2, <1>3, <1>6, <1>7

Start(id) == [stack |-> <<id>>, visiting |-> {}, visited |-> {}, found |-> FALSE]
Limit(table) == 1 + Cardinality(Entries(table, Ids))
Loop(d, table) == IF d.found \/ d.stack = <<>> THEN d ELSE Round(d, table)

LEMMA LimitNat ==
  ASSUME NEW table, Graph(table)
  PROVE  Limit(table) \in Nat
<1>1. Cardinality(Entries(table, Ids)) \in Nat
  BY EntriesCount
<1> QED BY <1>1 DEF Limit

LEMMA LoopTyped ==
  ASSUME NEW table, Graph(table), NEW d \in DfsState
  PROVE  Loop(d, table) \in DfsState
<1>1. CASE d.found \/ d.stack = <<>>
  BY <1>1 DEF Loop
<1>2. CASE ~d.found /\ d.stack # <<>>
  BY <1>2, RoundTakes DEF Loop, Takes
<1> QED BY <1>1, <1>2

\* f[k] is the search after k rounds.
SearchedBy(f, id, table) ==
    /\ f[0] = Start(id) /\ detect_cycle(id, table) = f[Limit(table)].found
    /\ \A k \in 1..Limit(table) : f[k] = Loop(f[k - 1], table)

LEMMA StartTyped == \A id \in Ids : Start(id) \in DfsState
<1> SUFFICES ASSUME NEW id \in Ids PROVE Start(id) \in DfsState
  OBVIOUS
<1>1. <<id>> \in Seq(Ids) /\ {} \in SUBSET Ids /\ FALSE \in BOOLEAN
  OBVIOUS
<1> QED BY <1>1 DEF DfsState, Start

\* The recursive definition of detect_cycle has its solution.
LEMMA SearchRec ==
  ASSUME NEW table, Graph(table), NEW id \in Ids
  PROVE  \E f \in [0..Limit(table) -> DfsState] : SearchedBy(f, id, table)
<1> DEFINE n == Limit(table)
           start == Start(id)
           step == [p \in (1..n) \X DfsState |-> Loop(p[2], table)]
           Body(f) == [i \in 0..n |-> IF i = 0 THEN start
                         ELSE IF f[i - 1].found \/ f[i - 1].stack = <<>> THEN f[i - 1]
                         ELSE Round(f[i - 1], table)]
<1>1. step \in [(1..n) \X DfsState -> DfsState]
  BY LoopTyped
<1>2. n \in Nat /\ start \in DfsState
  BY LimitNat, StartTyped
<1> HIDE DEF n, start
<1>3. PICK g \in [0..n -> DfsState] : g[0] = start /\ \A k \in 1..n : g[k] = step[<<k, g[k - 1]>>]
  <2> HIDE DEF step
  <2>1. \E g \in [0..n -> DfsState] : Iterated(g, n, start, step)
    BY <1>1, <1>2, Iterates
  <2> QED BY <2>1 DEF Iterated
<1>4. \A k \in 1..n : g[k] = Loop(g[k - 1], table)
  <2> TAKE k \in 1..n
  <2>1. k - 1 \in 0..n /\ g[k - 1] \in DfsState
    BY <1>2
  <2>2. <<k, g[k - 1]>> \in (1..n) \X DfsState
    BY <2>1
  <2> QED BY <1>3, <2>2
<1>0. \A f : \A i \in 0..n : Body(f)[i] = IF i = 0 THEN start ELSE Loop(f[i - 1], table)
  BY DEF Loop
<1>5. g = Body(g)
  <2>1. ASSUME NEW i \in 0..n PROVE g[i] = Body(g)[i]
    <3>0. Body(g)[i] = IF i = 0 THEN start ELSE Loop(g[i - 1], table)
      BY <1>0
    <3> HIDE DEF Body
    <3>1. CASE i = 0
      BY <3>0, <3>1, <1>3
    <3>2. CASE i # 0
      <4>1. i \in 1..n
        BY <1>2, <3>2
      <4> QED BY <3>0, <4>1, <3>2, <1>4
    <3> QED BY <3>1, <3>2
  <2>2. DOMAIN Body(g) = 0..n /\ Body(g) = [i \in 0..n |-> Body(g)[i]]
    OBVIOUS
  <2>3. g = [i \in 0..n |-> g[i]]
    OBVIOUS
  <2> HIDE DEF Body
  <2> QED BY <2>1, <2>2, <2>3
<1> DEFINE F == CHOOSE f : f = Body(f)
<1>6. detect_cycle(id, table) = F[n].found
  BY DEF detect_cycle, n, Limit, start, Start
<1>7. F = Body(F)
  <2> HIDE DEF Body
  <2> QED BY <1>5
<1> HIDE DEF F
<1>8. F[0] = start /\ \A k \in 1..n : F[k] = Loop(F[k - 1], table)
  <2>1. \A i \in 0..n : F[i] = Body(F)[i]
    BY <1>7
  <2>2. \A i \in 0..n : Body(F)[i] = IF i = 0 THEN start ELSE Loop(F[i - 1], table)
    BY <1>0
  <2>3. 0 \in 0..n /\ \A k \in 1..n : k \in 0..n /\ k # 0
    BY <1>2
  <2> HIDE DEF Body
  <2> QED BY <2>1, <2>2, <2>3
<1>11. F = [i \in 0..n |-> F[i]]
  BY <1>7
<1> HIDE DEF Body
<1> DEFINE T == {k \in Nat : k <= n => F[k] = g[k]}
<1>9. Nat \subseteq T
  <2>1. 0 \in T
    BY <1>3, <1>8
  <2>2. ASSUME NEW k \in Nat, k \in T PROVE k + 1 \in T
    <3> SUFFICES ASSUME k + 1 <= n PROVE F[k + 1] = g[k + 1]
      OBVIOUS
    <3>1. k + 1 \in 1..n /\ (k + 1) - 1 = k /\ F[k] = g[k]
      BY <1>2, <2>2
    <3> QED BY <3>1, <1>4, <1>8
  <2> HIDE DEF T
  <2> QED BY <2>1, <2>2, SetInduction
<1>10. F = g
  <2>1. \A i \in 0..n : F[i] = g[i]
    BY <1>2, <1>9
  <2> QED BY <1>11, <2>1
<1> QED BY <1>3, <1>4, <1>6, <1>10 DEF SearchedBy, n, start

\* The search ends: it misses no way back to the task, and what it reports as a cycle
\* is one, or a predecessor that is shared.
LEMMA DetectCycle ==
  ASSUME NEW table, Graph(table), NEW id \in Ids
  PROVE  /\ detect_cycle(id, table) => Explained(table, id)
         /\ ~detect_cycle(id, table) => id \notin Reach(table, id)
<1> DEFINE n == Limit(table)
<1>0. n \in Nat
  BY LimitNat
<1>1. PICK f \in [0..n -> DfsState] : SearchedBy(f, id, table)
  BY SearchRec
<1>2. /\ f[0] = Start(id) /\ detect_cycle(id, table) = f[n].found
      /\ \A k \in 1..n : f[k] = Loop(f[k - 1], table)
  BY <1>1 DEF SearchedBy
<1> DEFINE Good(k) == /\ DfsInv(f[k], table, id)
                      /\ f[k].found \/ f[k].stack = <<>> \/ Weight(f[k], table) + k <= n
           T == {k \in Nat : k <= n => Good(k)}
<1>3. 0 \in T
  <2> DEFINE d == Start(id)
  <2>1. d \in DfsState
    BY StartTyped
  <2>2. /\ d.stack = <<id>> /\ d.found = FALSE /\ Len(<<id>>) = 1
        /\ Seen(d) = {}
    BY DEF Start, Seen
  <2>3. Members(<<id>>) = {id}
    BY DEF Members
  <2>4. LedTo(d, table, id) /\ Looked(d, table, id)
    <3> HIDE DEF d
    <3> QED BY <2>2, <2>3 DEF LedTo, Looked
  <2>5. Weight(d, table) = n
    <3>1. Ids \ Seen(d) = Ids
      BY <2>2
    <3> QED BY <2>2, <3>1 DEF Weight, Limit
  <2> HIDE DEF d, n
  <2>6. Good(0)
    BY <1>0, <1>2, <2>1, <2>2, <2>4, <2>5 DEF DfsInv, d
  <2> QED BY <2>6
<1>4. ASSUME NEW k \in Nat, k \in T PROVE k + 1 \in T
  <2> SUFFICES ASSUME k + 1 <= n PROVE Good(k + 1)
    OBVIOUS
  <2> HIDE DEF n
  <2>1. k \in 0..n /\ k + 1 \in 1..n /\ (k + 1) - 1 = k /\ f[k] \in DfsState /\ Good(k)
    BY <1>0, <1>4
  <2>2. f[k + 1] = Loop(f[k], table)
    BY <1>2, <2>1
  <2>3. CASE f[k].found \/ f[k].stack = <<>>
    <3>1. f[k + 1] = f[k]
      BY <2>2, <2>3 DEF Loop
    <3> QED BY <2>1, <2>3, <3>1
  <2>4. CASE ~f[k].found /\ f[k].stack # <<>>
    <3> DEFINE d == f[k]
               r == f[k + 1]
               top == Seqs!Last(d.stack)
               rest == Seqs!Front(d.stack)
    <3>1. Takes(d, r, table, top, rest)
      BY <2>1, <2>2, <2>4, RoundTakes DEF Loop
    <3>2. LedTo(d, table, id) /\ Looked(d, table, id) /\ Weight(d, table) + k <= n /\ d \in DfsState
      BY <2>1, <2>4 DEF DfsInv
    <3> HIDE DEF d, r, top, rest
    <3>3. (r.found => Explained(table, id)) /\ (~r.found => LedTo(r, table, id))
      BY <3>1, <3>2, RoundLeads
    <3>4. ~r.found => Looked(r, table, id)
      BY <3>1, <3>2, RoundLooks
    <3>5. /\ Weight(d, table) \in Nat /\ Weight(r, table) \in Nat
          /\ Weight(r, table) + 1 <= Weight(d, table)
      BY <3>1, <3>2, RoundEnds
    <3>6. Weight(r, table) + (k + 1) <= n
      BY <1>0, <3>2, <3>5
    <3>7. r \in DfsState
      BY <3>1 DEF Takes
    <3> QED BY <3>3, <3>4, <3>6, <3>7 DEF DfsInv, r
  <2> QED BY <2>3, <2>4
<1>5. Good(n)
  <2>1. Nat \subseteq T
    <3> HIDE DEF T
    <3> QED BY <1>3, <1>4, SetInduction
  <2> HIDE DEF n, Good
  <2> QED BY <1>0, <2>1
<1> HIDE DEF n
<1>6. ASSUME ~f[n].found PROVE id \notin Reach(table, id)
  <2> DEFINE d == f[n]
  <2>1. d \in DfsState /\ Looked(d, table, id)
    BY <1>5, <1>6 DEF DfsInv
  <2>2. d.stack = <<>>
    <3>1. CASE Weight(d, table) + n <= n
      <4>1. d.stack \in Seq(Ids) /\ Len(d.stack) \in Nat
        BY <2>1 DEF DfsState
      <4>2. Cardinality(Entries(table, Ids \ Seen(d))) \in Nat
        BY EntriesCount
      <4> HIDE DEF d
      <4>3. Len(d.stack) = 0
        BY <1>0, <3>1, <4>1, <4>2 DEF Weight
      <4> QED BY <4>1, <4>3
    <3> QED BY <1>5, <1>6, <3>1
  <2> HIDE DEF d
  <2>3. Members(d.stack) = {}
    BY <2>2 DEF Members
  <2>4. /\ id \in Seen(d) /\ Seen(d) \subseteq Ids
        /\ \A x \in Seen(d) : id \notin DepSet(table, x) /\ DepSet(table, x) \subseteq Seen(d)
    BY <2>1, <2>3 DEF Looked, Seen, DfsState
  <2> DEFINE S == Seen(d) \ {id}
  <2>5. S \in SUBSET Ids /\ DepSet(table, id) \subseteq S /\ \A x \in S : DepSet(table, x) \subseteq S
    BY <2>4
  <2> HIDE DEF S
  <2>6. Reach(table, id) \subseteq S
    BY <2>5, ReachLeast
  <2> QED BY <2>6 DEF S
<1>7. f[n].found => Explained(table, id)
  BY <1>5 DEF DfsInv
<1> QED BY <1>2, <1>6, <1>7

-----------------------------------------------------------------------------
(* The table and its copy *)

TaskRecord == [deps : Seq(Ids), enabled : BOOLEAN, present : BOOLEAN]
CallRecord == [pc : {"idle", "save", "insert", "save_enabled", "delete"}, id : Ids \cup {NoId},
               task : TaskRecord, stale : BOOLEAN]

\* A slot without a call names no task, and remove_task has the lock.
TableTyped ==
    /\ tasks \in [Ids -> TaskRecord] /\ saved \in [Ids -> TaskRecord]
    /\ call \in [Slots -> CallRecord]
    /\ \A s \in Slots : /\ At(s, "idle") <=> call[s].id = NoId
                        /\ At(s, "delete") => writer = s
    /\ torn \subseteq Ids /\ raced \in BOOLEAN

\* How a task in the table and its copy are related: the calls on it, if there is one at
\* a time, say by how much they differ.
Copies(id) ==
    /\ \A s, u \in Slots : call[s].id = id /\ call[u].id = id => s = u
    /\ (\A s \in Slots : call[s].id # id) => saved[id] = tasks[id]
    /\ \A s \in Slots : call[s].id = id =>
          /\ At(s, "save") => saved[id] = tasks[id]
          /\ At(s, "insert") => saved[id] = call[s].task
          /\ At(s, "save_enabled") => tasks[id] = call[s].task /\ Deps(saved, id) = call[s].task.deps
          /\ At(s, "delete") => tasks[id] = Absent

CopiesInv == \A id \in Ids \ torn : Copies(id)

LEMMA RecordsTyped ==
    /\ Absent \in TaskRecord
    /\ \A deps \in Seq(Ids) : Task(deps) \in TaskRecord
    /\ \A t \in TaskRecord : /\ [t EXCEPT !.enabled = ~@] \in TaskRecord
                             /\ [t EXCEPT !.enabled = ~@].deps = t.deps
    /\ Idle \in CallRecord
<1>1. <<>> \in Seq(Ids)
  OBVIOUS
<1>2. Absent \in TaskRecord
  BY <1>1 DEF Absent, TaskRecord
<1>3. \A deps \in Seq(Ids) : Task(deps) \in TaskRecord
  BY DEF Task, TaskRecord
<1>4. \A t \in TaskRecord : /\ [t EXCEPT !.enabled = ~@] \in TaskRecord
                           /\ [t EXCEPT !.enabled = ~@].deps = t.deps
  BY DEF TaskRecord
<1>5. Idle \in CallRecord
  BY <1>2 DEF Idle, CallRecord
<1> QED BY <1>2, <1>3, <1>4, <1>5

\* A call that changes puts no other on its task and keeps the others as they are.
LEMMA BecomeTyped ==
  ASSUME TableTyped, NEW s \in Slots, NEW k \in CallRecord, Become(s, k)
  PROVE  /\ call' \in [Slots -> CallRecord] /\ call'[s] = k
         /\ \A u \in Slots \ {s} : call'[u] = call[u]
BY DEF Become, TableTyped

\* So does one that makes the checks of the others outdated.
LEMMA OutdateTyped ==
  ASSUME TableTyped, NEW s \in Slots, NEW k \in CallRecord, Outdate(s, k)
  PROVE  /\ call' \in [Slots -> CallRecord] /\ call'[s] = k
         /\ \A u \in Slots \ {s} :
               /\ call'[u].pc = call[u].pc /\ call'[u].id = call[u].id /\ call'[u].task = call[u].task
               /\ call'[u].stale = (call[u].pc \in {"save", "insert"})
<1>1. ASSUME NEW u \in Slots, u # s
      PROVE  /\ call'[u] \in CallRecord
             /\ call'[u].pc = call[u].pc /\ call'[u].id = call[u].id /\ call'[u].task = call[u].task
             /\ call'[u].stale = (call[u].pc \in {"save", "insert"})
  <2> DEFINE c == call[u]
             late == c.pc \in {"save", "insert"}
             new == [c EXCEPT !.stale = late]
  <2>1. c \in CallRecord /\ late \in BOOLEAN
    BY DEF TableTyped
  <2>2. call'[u] = new
    BY <1>1 DEF Outdate
  <2> HIDE DEF c, late
  <2>3. new \in CallRecord /\ new.pc = c.pc /\ new.id = c.id /\ new.task = c.task
    BY <2>1 DEF CallRecord
  <2>4. new.stale = late
    BY <2>1 DEF CallRecord
  <2> HIDE DEF new
  <2> QED BY <2>2, <2>3, <2>4 DEF c, late
<1>2. call' = [u \in Slots |-> call'[u]] /\ call'[s] = k
  BY DEF Outdate
<1> QED BY <1>1, <1>2

\* A task that a step does not touch is related to its copy as before.
LEMMA OthersCopies ==
  ASSUME NEW id, Copies(id), tasks'[id] = tasks[id], saved'[id] = saved[id],
         \A u \in Slots : call[u].id = id \/ call'[u].id = id =>
             /\ call'[u].id = call[u].id /\ call'[u].pc = call[u].pc /\ call'[u].task = call[u].task
  PROVE  Copies(id)'
BY DEF Copies, At, Deps

\* The records of the calls that begin.
LEMMA BeginTyped ==
  ASSUME NEW p \in {"save", "save_enabled", "delete"}, NEW id \in Ids, NEW t \in TaskRecord,
         NEW b \in BOOLEAN
  PROVE  LET k == [pc |-> p, id |-> id, task |-> t, stale |-> b]
         IN  k \in CallRecord /\ k.pc = p /\ k.id = id /\ k.task = t /\ k.stale = b
BY DEF CallRecord

\* A call that begins, on the idle slot s: the others stay, and what it overlaps is torn.
Begun(s, id, p, t, b) ==
    /\ call' \in [Slots -> CallRecord]
    /\ call'[s].pc = p /\ call'[s].id = id /\ call'[s].task = t /\ call'[s].stale = b
    /\ \A u \in Slots \ {s} : call'[u] = call[u]
    /\ call[s].id = NoId /\ call[s].pc = "idle"
    /\ torn' \subseteq Ids /\ torn \subseteq torn' /\ torn' \subseteq torn \cup {id}
    /\ id \notin torn' => \A u \in Slots : call[u].id # id

LEMMA BeginIs ==
  ASSUME TableTyped, NEW s \in Slots, NEW p \in {"save", "save_enabled", "delete"}, NEW id \in Ids,
         NEW t \in TaskRecord, NEW b \in BOOLEAN,
         Begin(s, id, [pc |-> p, id |-> id, task |-> t, stale |-> b])
  PROVE  Begun(s, id, p, t, b)
<1> DEFINE k == [pc |-> p, id |-> id, task |-> t, stale |-> b]
<1>1. k \in CallRecord /\ k.pc = p /\ k.id = id /\ k.task = t /\ k.stale = b
  BY BeginTyped
<1>2. Become(s, k) /\ At(s, "idle")
      /\ torn' = torn \cup {i \in {id} : \E u \in Slots : call[u].id = id}
  BY DEF Begin
<1> HIDE DEF k
<1>3. /\ call' \in [Slots -> CallRecord] /\ call'[s] = k
      /\ \A u \in Slots \ {s} : call'[u] = call[u]
  BY <1>1, <1>2, BecomeTyped
<1>4. call[s].id = NoId /\ call[s].pc = "idle"
  BY <1>2 DEF TableTyped, At
<1>5. /\ torn' \subseteq Ids /\ torn \subseteq torn' /\ torn' \subseteq torn \cup {id}
      /\ id \notin torn' => \A u \in Slots : call[u].id # id
  BY <1>2 DEF TableTyped
<1> QED BY <1>1, <1>3, <1>4, <1>5 DEF Begun

\* What an accepted task is called to: its check is outdated from the start if another
\* has been saved and not inserted.
LEMMA UpsertIs ==
  ASSUME TableTyped, NEW s \in Slots, NEW o \in Offers, Upsert(s, o)
  PROVE  LET preview == [tasks EXCEPT ![o.id] = Task(o.deps)]
         IN  /\ o.id \in Ids /\ o.deps \in Seq(Ids) /\ Unlocked
             /\ UNCHANGED <<tasks, saved, writer, raced>>
             /\ \/ /\ detect_cycle(o.id, preview)
                   /\ refused' = [id |-> o.id, table |-> preview] /\ UNCHANGED <<call, torn>>
                \/ /\ o.deps = <<>> \/ ~detect_cycle(o.id, preview)
                   /\ Begun(s, o.id, "save", Task(o.deps), \E u \in Slots : At(u, "insert"))
                   /\ UNCHANGED refused
<1> DEFINE preview == [tasks EXCEPT ![o.id] = Task(o.deps)]
           stale == \E u \in Slots : At(u, "insert")
           t == Task(o.deps)
<1>1. o.id \in Ids /\ o.deps \in Seq(Ids)
  BY CronTaskConstants
<1>2. t \in TaskRecord /\ stale \in BOOLEAN
  BY <1>1, RecordsTyped
<1>3. CASE o.deps # <<>> /\ detect_cycle(o.id, preview)
  BY <1>1, <1>3 DEF Upsert
<1>4. CASE ~(o.deps # <<>> /\ detect_cycle(o.id, preview))
  <2>1. Begin(s, o.id, [pc |-> "save", id |-> o.id, task |-> t, stale |-> stale]) /\ UNCHANGED refused
    BY <1>4 DEF Upsert
  <2>2. Unlocked /\ UNCHANGED <<tasks, saved, writer, raced>>
    BY DEF Upsert
  <2> HIDE DEF t, stale, preview
  <2>3. Begun(s, o.id, "save", t, stale)
    BY <1>1, <1>2, <2>1, BeginIs
  <2> QED BY <1>1, <1>4, <2>1, <2>2, <2>3 DEF t, stale, preview
<1> QED BY <1>3, <1>4

\* A save that is done.
LEMMA SaveIs ==
  ASSUME TableTyped, NEW s \in Slots, At(s, "save")
  PROVE  LET k == [call[s] EXCEPT !.pc = "insert"]
         IN  /\ k \in CallRecord /\ k.pc = "insert" /\ k.id = call[s].id /\ k.task = call[s].task
             /\ k.stale = call[s].stale
<1> DEFINE c == call[s]
<1>1. c \in CallRecord
  BY DEF TableTyped
<1> HIDE DEF c
<1>2. [c EXCEPT !.pc = "insert"] \in CallRecord
  BY <1>1 DEF CallRecord
<1>3. LET k == [c EXCEPT !.pc = "insert"]
      IN  k.pc = "insert" /\ k.id = c.id /\ k.task = c.task /\ k.stale = c.stale
  BY <1>1 DEF CallRecord
<1> QED BY <1>2, <1>3 DEF c

\* The fields of a call in progress.
LEMMA CallIs ==
  ASSUME TableTyped, NEW s \in Slots
  PROVE  /\ call[s] \in CallRecord /\ call[s].task \in TaskRecord /\ call[s].stale \in BOOLEAN
         /\ ~At(s, "idle") => call[s].id \in Ids
         /\ Idle \in CallRecord /\ Idle.pc = "idle" /\ Idle.id = NoId /\ Idle.stale = FALSE
BY RecordsTyped DEF TableTyped, CallRecord, At, Idle

LEMMA InitTable == Init => TableTyped /\ CopiesInv
<1> SUFFICES ASSUME Init PROVE TableTyped /\ CopiesInv
  OBVIOUS
<1>1. Absent \in TaskRecord /\ Idle \in CallRecord
  BY RecordsTyped
<1>2. /\ tasks \in [Ids -> TaskRecord] /\ saved \in [Ids -> TaskRecord]
      /\ call \in [Slots -> CallRecord] /\ \A s \in Slots : call[s] = Idle
  BY <1>1 DEF Init
<1>3. Idle.pc = "idle" /\ Idle.id = NoId
  BY DEF Idle
<1>4. TableTyped
  BY <1>2, <1>3 DEF Init, TableTyped, At
<1>5. CopiesInv
  BY <1>2, <1>3, CronTaskConstants DEF Init, CopiesInv, Copies
<1> QED BY <1>4, <1>5

\* Every step keeps the types.
LEMMA StepTyped == TableTyped /\ [Next]_vars => TableTyped'
<1> SUFFICES ASSUME TableTyped, [Next]_vars PROVE TableTyped'
  OBVIOUS
<1> USE DEF bounds
<1>0. ASSUME NEW s \in Slots, Become(s, Idle),
             tasks' = tasks, saved' \in [Ids -> TaskRecord],
             writer' = writer \/ (writer' = NoSlot /\ At(s, "delete")),
             torn' \subseteq Ids, raced' = raced
      PROVE  TableTyped'
  <2>1. /\ call' \in [Slots -> CallRecord] /\ call'[s] = Idle
        /\ \A u \in Slots \ {s} : call'[u] = call[u]
    BY <1>0, BecomeTyped, CallIs
  <2>2. Idle.pc = "idle" /\ Idle.id = NoId
    BY DEF Idle
  <2> QED BY <1>0, <2>1, <2>2 DEF TableTyped, At
<1>1. ASSUME NEW s \in Slots, NEW o \in Offers, Upsert(s, o) PROVE TableTyped'
  <2>1. CASE UNCHANGED <<call, torn>>
    BY <1>1, <2>1 DEF Upsert, TableTyped, At
  <2>2. CASE Begun(s, o.id, "save", Task(o.deps), \E u \in Slots : At(u, "insert"))
    <3>1. o.id \in Ids /\ o.id # NoId
      BY CronTaskConstants
    <3>2. UNCHANGED <<tasks, saved, writer, raced>>
      BY <1>1 DEF Upsert
    <3> QED BY <2>2, <3>1, <3>2 DEF TableTyped, Begun, At
  <2> QED BY <1>1, <2>1, <2>2, UpsertIs
<1>2. ASSUME NEW s \in Slots, UpsertSave(s) PROVE TableTyped'
  <2>1. call[s].id \in Ids /\ call[s].task \in TaskRecord /\ call[s].stale \in BOOLEAN
    BY <1>2, CallIs DEF UpsertSave, At
  <2>2. CASE Become(s, Idle) /\ UNCHANGED <<saved, raced>>
    BY <1>0, <1>2, <2>2 DEF UpsertSave, TableTyped
  <2>3. CASE /\ saved' = [saved EXCEPT ![call[s].id] = call[s].task]
             /\ Outdate(s, [call[s] EXCEPT !.pc = "insert"])
             /\ raced' = (raced \/ call[s].stale)
    <3> DEFINE k == [call[s] EXCEPT !.pc = "insert"]
    <3>1. k \in CallRecord /\ k.pc = "insert" /\ k.id = call[s].id
      BY <1>2, SaveIs DEF UpsertSave
    <3> HIDE DEF k
    <3>2. /\ call' \in [Slots -> CallRecord] /\ call'[s] = k
          /\ \A u \in Slots \ {s} : call'[u].pc = call[u].pc /\ call'[u].id = call[u].id
      BY <2>3, <3>1, OutdateTyped DEF k
    <3>3. saved' \in [Ids -> TaskRecord] /\ raced' \in BOOLEAN
      BY <2>1, <2>3 DEF TableTyped
    <3>4. UNCHANGED <<tasks, writer, torn>> /\ call[s].id # NoId
      BY <1>2, <2>1, CronTaskConstants DEF UpsertSave
    <3> QED BY <3>1, <3>2, <3>3, <3>4 DEF TableTyped, At
  <2> QED BY <1>2, <2>2, <2>3 DEF UpsertSave
<1>3. ASSUME NEW s \in Slots, UpsertInsert(s) PROVE TableTyped'
  <2>1. call[s].id \in Ids /\ call[s].task \in TaskRecord /\ call[s].stale \in BOOLEAN
    BY <1>3, CallIs DEF UpsertInsert, At
  <2>2. /\ call' \in [Slots -> CallRecord] /\ call'[s] = Idle
        /\ \A u \in Slots \ {s} : call'[u].pc = call[u].pc /\ call'[u].id = call[u].id
    BY <1>3, CallIs, OutdateTyped DEF UpsertInsert
  <2>3. tasks' \in [Ids -> TaskRecord] /\ raced' \in BOOLEAN
    BY <1>3, <2>1 DEF UpsertInsert, TableTyped
  <2>4. UNCHANGED <<saved, writer, torn>> /\ Idle.pc = "idle" /\ Idle.id = NoId
    BY <1>3 DEF UpsertInsert, Idle
  <2> QED BY <2>2, <2>3, <2>4 DEF TableTyped, At
<1>4. ASSUME NEW s \in Slots, NEW id \in Ids, SetEnabled(s, id) PROVE TableTyped'
  <2> DEFINE t == [tasks[id] EXCEPT !.enabled = ~@]
  <2>1. t \in TaskRecord /\ id # NoId
    BY RecordsTyped, CronTaskConstants DEF TableTyped
  <2>2. /\ tasks' = [tasks EXCEPT ![id] = t]
        /\ Begin(s, id, [pc |-> "save_enabled", id |-> id, task |-> t, stale |-> FALSE])
        /\ UNCHANGED <<saved, writer, raced>>
    BY <1>4 DEF SetEnabled
  <2> HIDE DEF t
  <2>3. Begun(s, id, "save_enabled", t, FALSE)
    BY <2>1, <2>2, BeginIs
  <2> QED BY <2>1, <2>2, <2>3 DEF TableTyped, Begun, At
<1>5. ASSUME NEW s \in Slots, SetEnabledSave(s) PROVE TableTyped'
  <2>1. call[s].id \in Ids /\ call[s].task \in TaskRecord
    BY <1>5, CallIs DEF SetEnabledSave, At
  <2>2. saved' \in [Ids -> TaskRecord] /\ torn' \subseteq Ids
    BY <1>5, <2>1 DEF SetEnabledSave, TableTyped
  <2> QED BY <1>0, <1>5, <2>2 DEF SetEnabledSave
<1>6. ASSUME NEW s \in Slots, NEW id \in Ids, RemoveTask(s, id) PROVE TableTyped'
  <2>1. Absent \in TaskRecord /\ id # NoId
    BY RecordsTyped, CronTaskConstants
  <2>2. /\ tasks' = [tasks EXCEPT ![id] = Absent] /\ writer' = s /\ writer = NoSlot
        /\ Begin(s, id, [pc |-> "delete", id |-> id, task |-> Absent, stale |-> FALSE])
        /\ UNCHANGED <<saved, raced>>
    BY <1>6 DEF RemoveTask, Unlocked
  <2>3. Begun(s, id, "delete", Absent, FALSE)
    BY <2>1, <2>2, BeginIs
  <2>4. \A u \in Slots : ~At(u, "delete")
    BY <2>2, CronTaskConstants DEF TableTyped
  <2> QED BY <2>1, <2>2, <2>3, <2>4 DEF TableTyped, Begun, At
<1>7. ASSUME NEW s \in Slots, RemoveTaskDelete(s) PROVE TableTyped'
  <2>1. call[s].id \in Ids /\ Absent \in TaskRecord
    BY <1>7, CallIs, RecordsTyped DEF RemoveTaskDelete, At
  <2>2. saved' \in [Ids -> TaskRecord] /\ torn' \subseteq Ids
    BY <1>7, <2>1 DEF RemoveTaskDelete, TableTyped
  <2> QED BY <1>0, <1>7, <2>2 DEF RemoveTaskDelete
<1>8. CASE Restart
  <2>1. Idle \in CallRecord /\ Idle.pc = "idle" /\ Idle.id = NoId
    BY RecordsTyped DEF Idle
  <2>2. call' = [s \in Slots |-> Idle] /\ tasks' = saved /\ saved' = saved /\ torn' = {}
    BY <1>8 DEF Restart
  <2>3. raced' \in BOOLEAN
    BY <1>8 DEF Restart, TableTyped
  <2> QED BY <2>1, <2>2, <2>3 DEF TableTyped, At
<1>9. CASE UNCHANGED vars
  BY <1>9 DEF vars, TableTyped, At
<1> QED
  BY <1>1, <1>2, <1>3, <1>4, <1>5, <1>6, <1>7, <1>8, <1>9 DEF Next, Done

\* Every step keeps the relation between the table and its copy.
LEMMA StepCopies == TableTyped /\ CopiesInv /\ [Next]_vars => CopiesInv'
<1> SUFFICES ASSUME TableTyped, CopiesInv, [Next]_vars, NEW id \in Ids, id \notin torn'
             PROVE  Copies(id)'
  BY DEF CopiesInv
<1> USE DEF bounds
<1>a. id # NoId
  BY CronTaskConstants
<1>0. ASSUME NEW s \in Slots, NEW v \in Ids, call[s].id \in {v, NoId}, call'[s].id \in {v, NoId},
             id \notin torn, id # v,
             tasks'[id] = tasks[id], saved'[id] = saved[id],
             \A u \in Slots \ {s} : /\ call'[u].id = call[u].id /\ call'[u].pc = call[u].pc
                                    /\ call'[u].task = call[u].task
      PROVE  Copies(id)'
  BY <1>0, <1>a, OthersCopies DEF CopiesInv
<1>1. ASSUME NEW s \in Slots, NEW o \in Offers, Upsert(s, o) PROVE Copies(id)'
  <2>0. UNCHANGED <<tasks, saved>> /\ o.id \in Ids
    BY <1>1, CronTaskConstants DEF Upsert
  <2>1. CASE UNCHANGED <<call, torn>>
    BY <2>0, <2>1, OthersCopies DEF CopiesInv
  <2>2. CASE Begun(s, o.id, "save", Task(o.deps), \E u \in Slots : At(u, "insert"))
    <3>1. id \notin torn
      BY <2>2 DEF Begun
    <3>2. CASE id # o.id
      BY <1>0, <2>0, <2>2, <3>1, <3>2 DEF Begun
    <3>3. CASE id = o.id
      <4>1. \A u \in Slots : call[u].id # id
        BY <2>2, <3>3 DEF Begun
      <4>2. saved[id] = tasks[id]
        BY <3>1, <4>1 DEF CopiesInv, Copies
      <4> QED BY <2>0, <2>2, <3>3, <4>1, <4>2 DEF Begun, Copies, At
    <3> QED BY <3>2, <3>3
  <2> QED BY <1>1, <2>1, <2>2, UpsertIs
<1>2. ASSUME NEW s \in Slots, UpsertSave(s) PROVE Copies(id)'
  <2>0. /\ call[s].id \in Ids /\ At(s, "save") /\ UNCHANGED <<tasks, torn>> /\ id \notin torn
        /\ Idle.id = NoId
    BY <1>2, CallIs DEF UpsertSave, At
  <2>1. CASE Become(s, Idle) /\ UNCHANGED saved
    <3>1. call'[s] = Idle /\ \A u \in Slots \ {s} : call'[u] = call[u]
      BY <2>1, BecomeTyped, CallIs
    <3>2. CASE id # call[s].id
      BY <1>0, <2>0, <2>1, <3>1, <3>2
    <3>3. CASE id = call[s].id
      BY <1>a, <2>0, <2>1, <3>1, <3>3 DEF CopiesInv, Copies, At
    <3> QED BY <3>2, <3>3
  <2>2. CASE /\ saved' = [saved EXCEPT ![call[s].id] = call[s].task]
             /\ Outdate(s, [call[s] EXCEPT !.pc = "insert"])
    <3> DEFINE k == [call[s] EXCEPT !.pc = "insert"]
    <3>1. k \in CallRecord /\ k.pc = "insert" /\ k.id = call[s].id /\ k.task = call[s].task
      BY <2>0, SaveIs
    <3> HIDE DEF k
    <3>2. /\ call'[s] = k
          /\ \A u \in Slots \ {s} : /\ call'[u].pc = call[u].pc /\ call'[u].id = call[u].id
                                     /\ call'[u].task = call[u].task
      BY <2>2, <3>1, OutdateTyped DEF k
    <3>3. CASE id # call[s].id
      <4>1. saved'[id] = saved[id]
        BY <2>2, <3>3 DEF TableTyped
      <4> QED BY <1>0, <2>0, <3>1, <3>2, <3>3, <4>1
    <3>4. CASE id = call[s].id
      <4>1. saved'[id] = call[s].task
        BY <2>2, <3>4 DEF TableTyped
      <4>2. \A u \in Slots : call[u].id = id => u = s
        BY <2>0, <3>4 DEF CopiesInv, Copies
      <4> QED BY <3>1, <3>2, <3>4, <4>1, <4>2 DEF Copies, At
    <3> QED BY <3>3, <3>4
  <2> QED BY <1>2, <2>1, <2>2 DEF UpsertSave
<1>3. ASSUME NEW s \in Slots, UpsertInsert(s) PROVE Copies(id)'
  <2>0. /\ call[s].id \in Ids /\ At(s, "insert") /\ UNCHANGED <<saved, torn>> /\ id \notin torn
        /\ Idle.id = NoId /\ tasks' = [tasks EXCEPT ![call[s].id] = call[s].task]
    BY <1>3, CallIs DEF UpsertInsert, At
  <2>1. /\ call'[s] = Idle
        /\ \A u \in Slots \ {s} : /\ call'[u].pc = call[u].pc /\ call'[u].id = call[u].id
                                   /\ call'[u].task = call[u].task
    BY <1>3, CallIs, OutdateTyped DEF UpsertInsert
  <2>2. CASE id # call[s].id
    <3>1. tasks'[id] = tasks[id]
      BY <2>0, <2>2 DEF TableTyped
    <3> QED BY <1>0, <2>0, <2>1, <2>2, <3>1
  <2>3. CASE id = call[s].id
    <3>1. tasks'[id] = call[s].task
      BY <2>0, <2>3 DEF TableTyped
    <3>2. saved[id] = call[s].task /\ \A u \in Slots : call[u].id = id => u = s
      BY <2>0, <2>3 DEF CopiesInv, Copies
    <3> QED BY <1>a, <2>0, <2>1, <3>1, <3>2 DEF Copies, At
  <2> QED BY <2>2, <2>3
<1>4. ASSUME NEW s \in Slots, NEW v \in Ids, SetEnabled(s, v) PROVE Copies(id)'
  <2> DEFINE t == [tasks[v] EXCEPT !.enabled = ~@]
  <2>1. t \in TaskRecord /\ t.deps = tasks[v].deps
    BY RecordsTyped DEF TableTyped
  <2>2. /\ tasks' = [tasks EXCEPT ![v] = t]
        /\ Begin(s, v, [pc |-> "save_enabled", id |-> v, task |-> t, stale |-> FALSE])
        /\ UNCHANGED saved
    BY <1>4 DEF SetEnabled
  <2> HIDE DEF t
  <2>3. Begun(s, v, "save_enabled", t, FALSE)
    BY <2>1, <2>2, BeginIs
  <2>4. id \notin torn
    BY <2>3 DEF Begun
  <2>5. CASE id # v
    <3>1. tasks'[id] = tasks[id]
      BY <2>2, <2>5 DEF TableTyped
    <3> QED BY <1>0, <2>2, <2>3, <2>4, <2>5, <3>1 DEF Begun
  <2>6. CASE id = v
    <3>1. tasks'[id] = t
      BY <2>2, <2>6 DEF TableTyped
    <3>2. \A u \in Slots : call[u].id # id
      BY <2>3, <2>6 DEF Begun
    <3>3. saved[id] = tasks[id]
      BY <2>4, <3>2 DEF CopiesInv, Copies
    <3> QED BY <2>1, <2>2, <2>3, <2>6, <3>1, <3>2, <3>3 DEF Begun, Copies, At, Deps
  <2> QED BY <2>5, <2>6
<1>5. ASSUME NEW s \in Slots, SetEnabledSave(s) PROVE Copies(id)'
  <2>0. /\ call[s].id \in Ids /\ At(s, "save_enabled") /\ UNCHANGED tasks /\ Idle.id = NoId
        /\ id \notin torn
    BY <1>5, CallIs DEF SetEnabledSave, At
  <2>1. call'[s] = Idle /\ \A u \in Slots \ {s} : call'[u] = call[u]
    BY <1>5, BecomeTyped, CallIs DEF SetEnabledSave
  <2>2. CASE id # call[s].id
    <3>1. saved'[id] = saved[id]
      BY <1>5, <2>2 DEF SetEnabledSave, TableTyped
    <3> QED BY <1>0, <2>0, <2>1, <2>2, <3>1
  <2>3. CASE id = call[s].id
    <3>1. saved'[id] = call[s].task
      BY <1>5, <2>0, <2>3 DEF SetEnabledSave, TableTyped
    <3>2. tasks[id] = call[s].task /\ \A u \in Slots : call[u].id = id => u = s
      BY <2>0, <2>3 DEF CopiesInv, Copies
    <3> QED BY <1>a, <2>0, <2>1, <3>1, <3>2 DEF Copies, At
  <2> QED BY <2>2, <2>3
<1>6. ASSUME NEW s \in Slots, NEW v \in Ids, RemoveTask(s, v) PROVE Copies(id)'
  <2>1. /\ tasks' = [tasks EXCEPT ![v] = Absent] /\ UNCHANGED saved
        /\ Begin(s, v, [pc |-> "delete", id |-> v, task |-> Absent, stale |-> FALSE])
    BY <1>6 DEF RemoveTask
  <2>2. Begun(s, v, "delete", Absent, FALSE)
    BY <2>1, BeginIs, RecordsTyped
  <2>3. id \notin torn
    BY <2>2 DEF Begun
  <2>4. CASE id # v
    <3>1. tasks'[id] = tasks[id]
      BY <2>1, <2>4 DEF TableTyped
    <3> QED BY <1>0, <2>1, <2>2, <2>3, <2>4, <3>1 DEF Begun
  <2>5. CASE id = v
    <3>1. tasks'[id] = Absent
      BY <2>1, <2>5 DEF TableTyped
    <3>2. \A u \in Slots : call[u].id # id
      BY <2>2, <2>5 DEF Begun
    <3> QED BY <2>2, <2>5, <3>1, <3>2 DEF Begun, Copies, At
  <2> QED BY <2>4, <2>5
<1>7. ASSUME NEW s \in Slots, RemoveTaskDelete(s) PROVE Copies(id)'
  <2>0. /\ call[s].id \in Ids /\ At(s, "delete") /\ UNCHANGED tasks /\ Idle.id = NoId
        /\ id \notin torn
    BY <1>7, CallIs DEF RemoveTaskDelete, At
  <2>1. call'[s] = Idle /\ \A u \in Slots \ {s} : call'[u] = call[u]
    BY <1>7, BecomeTyped, CallIs DEF RemoveTaskDelete
  <2>2. CASE id # call[s].id
    <3>1. saved'[id] = saved[id]
      BY <1>7, <2>2 DEF RemoveTaskDelete, TableTyped
    <3> QED BY <1>0, <2>0, <2>1, <2>2, <3>1
  <2>3. CASE id = call[s].id
    <3>1. saved'[id] = Absent
      BY <1>7, <2>0, <2>3 DEF RemoveTaskDelete, TableTyped
    <3>2. tasks[id] = Absent /\ \A u \in Slots : call[u].id = id => u = s
      BY <2>0, <2>3 DEF CopiesInv, Copies
    <3> QED BY <1>a, <2>0, <2>1, <3>1, <3>2 DEF Copies, At
  <2> QED BY <2>2, <2>3
<1>8. CASE Restart
  <2>1. tasks' = saved /\ saved' = saved /\ call' = [s \in Slots |-> Idle] /\ Idle.id = NoId
    BY <1>8 DEF Restart, Idle
  <2> QED BY <1>a, <2>1 DEF Copies
<1>9. CASE UNCHANGED vars
  BY <1>9, OthersCopies DEF vars, CopiesInv
<1> QED
  BY <1>1, <1>2, <1>3, <1>4, <1>5, <1>6, <1>7, <1>8, <1>9 DEF Next, Done

\* A restart loads the table as it was, for every task no call is working on, unless
\* calls on the task overlapped or a save after the fact failed.
THEOREM CopyCurrent == Spec => []SavedIsCurrent
<1>1. TableTyped /\ CopiesInv => SavedIsCurrent
  BY DEF CopiesInv, Copies, SavedIsCurrent
<1> QED BY <1>1, InitTable, StepTyped, StepCopies, PTL DEF Spec

-----------------------------------------------------------------------------
(* Cycles *)

\* The table with the task of a call.
With(table, c) == [table EXCEPT ![c.id] = c.task]

\* While nothing raced, neither the table nor, if no copy is torn, the copies have a
\* cycle; and the task of an upsert whose check still counts closes none.
NoCycle ==
    ~raced =>
        /\ Acyclic(tasks) /\ (torn = {} => Acyclic(saved))
        /\ \A s \in Slots : ~call[s].stale =>
              /\ At(s, "save") \/ At(s, "insert") => Acyclic(With(tasks, call[s]))
              /\ At(s, "save") /\ torn = {} => Acyclic(With(saved, call[s]))

LEMMA TypedGraph ==
  ASSUME NEW table \in [Ids -> TaskRecord]
  PROVE  Graph(table)
BY DEF Graph, Deps, TaskRecord

LEMMA WithTyped ==
  ASSUME NEW table \in [Ids -> TaskRecord], NEW c, c.id \in Ids, c.task \in TaskRecord
  PROVE  /\ With(table, c) \in [Ids -> TaskRecord]
         /\ With(table, c)[c.id] = c.task
         /\ \A x \in Ids \ {c.id} : With(table, c)[x] = table[x]
BY DEF With

\* Only the dependencies matter.
LEMMA SameDeps ==
  ASSUME NEW old \in [Ids -> TaskRecord], NEW new \in [Ids -> TaskRecord], Acyclic(old),
         \A x \in Ids : new[x].deps \in {old[x].deps, <<>>}
  PROVE  Acyclic(new)
<1>1. \A x \in Ids : DepSet(new, x) \subseteq DepSet(old, x)
  BY DEF DepSet, Deps
<1> QED BY <1>1, TypedGraph, FewerDeps

LEMMA SameDepsWith ==
  ASSUME NEW old \in [Ids -> TaskRecord], NEW new \in [Ids -> TaskRecord],
         NEW c, c.id \in Ids, c.task \in TaskRecord, Acyclic(With(old, c)),
         \A x \in Ids : new[x].deps \in {old[x].deps, <<>>}
  PROVE  Acyclic(With(new, c))
<1> DEFINE a == With(old, c)
           b == With(new, c)
<1>1. /\ a \in [Ids -> TaskRecord] /\ a[c.id] = c.task /\ \A x \in Ids \ {c.id} : a[x] = old[x]
      /\ b \in [Ids -> TaskRecord] /\ b[c.id] = c.task /\ \A x \in Ids \ {c.id} : b[x] = new[x]
  BY WithTyped
<1> HIDE DEF a, b
<1>2. \A x \in Ids : b[x].deps \in {a[x].deps, <<>>}
  BY <1>1
<1>3. Acyclic(b)
  BY <1>1, <1>2, SameDeps DEF a
<1> QED BY <1>3 DEF b

\* A task that passes the check closes no cycle.
LEMMA PreviewAcyclic ==
  ASSUME NEW table \in [Ids -> TaskRecord], Acyclic(table), NEW id \in Ids, NEW deps \in Seq(Ids),
         deps = <<>> \/ ~detect_cycle(id, [table EXCEPT ![id] = Task(deps)])
  PROVE  Acyclic([table EXCEPT ![id] = Task(deps)])
<1> DEFINE new == [table EXCEPT ![id] = Task(deps)]
<1>1. new \in [Ids -> TaskRecord] /\ new[id] = Task(deps) /\ \A x \in Ids \ {id} : new[x] = table[x]
  BY RecordsTyped
<1>2. Task(deps).deps = deps
  BY DEF Task
<1> HIDE DEF new
<1>3. Graph(table) /\ Graph(new)
  BY <1>1, TypedGraph
<1>4. \A x \in Ids \ {id} : DepSet(new, x) = DepSet(table, x)
  BY <1>1 DEF DepSet, Deps
<1>5. id \notin Reach(new, id)
  <2>1. CASE ~detect_cycle(id, new)
    BY <1>3, <2>1, DetectCycle
  <2>2. CASE deps = <<>>
    <3>1. DepSet(new, id) = {}
      BY <1>1, <1>2, <2>2 DEF DepSet, Deps
    <3>2. Reach(new, id) \subseteq {}
      BY <3>1, ReachLeast
    <3> QED BY <3>2
  <2> QED BY <2>1, <2>2 DEF new
<1>6. Acyclic(new)
  BY <1>3, <1>4, <1>5, OneTaskAcyclic
<1> QED BY <1>6 DEF new

\* If nothing is torn, saved and not inserted, or locked, table and copy have the same
\* dependencies.
LEMMA CopiesAgree ==
  ASSUME TableTyped, CopiesInv, torn = {}, Unlocked, \A u \in Slots : ~At(u, "insert")
  PROVE  \A x \in Ids : saved[x].deps = tasks[x].deps
<1> TAKE x \in Ids
<1>1. Copies(x)
  BY DEF CopiesInv
<1>2. \A u \in Slots : ~At(u, "delete")
  BY CronTaskConstants DEF TableTyped, Unlocked
<1>3. CASE \A u \in Slots : call[u].id # x
  BY <1>1, <1>3 DEF Copies
<1>4. ASSUME NEW u \in Slots, call[u].id = x PROVE saved[x].deps = tasks[x].deps
  <2>1. ~At(u, "idle")
    BY <1>4, CronTaskConstants DEF TableTyped
  <2>2. At(u, "save") \/ At(u, "save_enabled")
    BY <1>2, <2>1 DEF TableTyped, CallRecord, At
  <2> QED BY <1>1, <1>4, <2>2 DEF Copies, Deps
<1> QED BY <1>3, <1>4

\* Steps that leave the calls, or put a slot to rest, and at most empty dependency lists.
LEMMA FewerCycles ==
  ASSUME TableTyped, TableTyped', NoCycle, NEW s \in Slots,
         raced' = raced, torn \subseteq torn',
         \A x \in Ids : tasks'[x].deps \in {tasks[x].deps, <<>>},
         torn' = {} => \A x \in Ids : saved'[x].deps \in {saved[x].deps, <<>>},
         \A u \in Slots \ {s} : call'[u] = call[u],
         call'[s].pc \in {"idle", "save_enabled", "delete"}
  PROVE  NoCycle'
<1> SUFFICES ASSUME ~raced' PROVE NoCycle'
  BY DEF NoCycle
<1>1. /\ tasks \in [Ids -> TaskRecord] /\ tasks' \in [Ids -> TaskRecord]
      /\ saved \in [Ids -> TaskRecord] /\ saved' \in [Ids -> TaskRecord]
  BY DEF TableTyped
<1>2. Acyclic(tasks)'
  <2>1. Acyclic(tasks)
    BY DEF NoCycle
  <2> QED BY <1>1, <2>1, SameDeps
<1>3. ASSUME torn' = {} PROVE Acyclic(saved)'
  <2>1. Acyclic(saved)
    BY <1>3 DEF NoCycle
  <2> QED BY <1>1, <1>3, <2>1, SameDeps
<1>4. ASSUME NEW u \in Slots, ~call'[u].stale, At(u, "save")' \/ At(u, "insert")'
      PROVE  /\ Acyclic(With(tasks', call'[u]))
             /\ At(u, "save")' /\ torn' = {} => Acyclic(With(saved', call'[u]))
  <2>1. u # s /\ call'[u] = call[u]
    BY <1>4 DEF At
  <2>2. call[u].id \in Ids /\ call[u].task \in TaskRecord
    BY <1>4, <2>1, CallIs DEF At
  <2>3. Acyclic(With(tasks, call[u]))
    BY <1>4, <2>1 DEF NoCycle, At
  <2>4. Acyclic(With(tasks', call[u]))
    BY <1>1, <2>2, <2>3, SameDepsWith
  <2>5. ASSUME At(u, "save")', torn' = {} PROVE Acyclic(With(saved', call[u]))
    <3>1. Acyclic(With(saved, call[u]))
      BY <1>4, <2>1, <2>5 DEF NoCycle, At
    <3> QED BY <1>1, <2>2, <2>5, <3>1, SameDepsWith
  <2> QED BY <2>1, <2>4, <2>5
<1> QED BY <1>2, <1>3, <1>4 DEF NoCycle, At

\* Steps that store the task of an upsert, and make the checks of the others outdated.
LEMMA StoredCycles ==
  ASSUME NEW s \in Slots, ~raced',
         Acyclic(tasks'), torn' = {} => Acyclic(saved'),
         \A u \in Slots \ {s} : At(u, "save")' \/ At(u, "insert")' => call'[u].stale,
         ~At(s, "save")',
         ~call'[s].stale /\ At(s, "insert")' => Acyclic(With(tasks', call'[s]))
  PROVE  NoCycle'
BY DEF NoCycle, At

\* Every step keeps the table free of cycles: an upsert adds a task that was checked
\* against the table as it is and, for the copies, as it is saved.
LEMMA StepCycle == TableTyped /\ CopiesInv /\ NoCycle /\ [Next]_vars => NoCycle'
<1> SUFFICES ASSUME TableTyped, CopiesInv, NoCycle, [Next]_vars, ~raced' PROVE NoCycle'
  BY DEF NoCycle
<1> USE DEF bounds
<1>0. TableTyped'
  BY StepTyped
<1>a. /\ tasks \in [Ids -> TaskRecord] /\ saved \in [Ids -> TaskRecord]
  BY DEF TableTyped
<1>1. ASSUME NEW s \in Slots, NEW o \in Offers, Upsert(s, o) PROVE NoCycle'
  <2> DEFINE preview == [tasks EXCEPT ![o.id] = Task(o.deps)]
             stale == \E u \in Slots : At(u, "insert")
             t == Task(o.deps)
  <2>1. /\ o.id \in Ids /\ o.deps \in Seq(Ids) /\ Unlocked /\ UNCHANGED <<tasks, saved, raced>>
        /\ t \in TaskRecord
    BY <1>1, UpsertIs, RecordsTyped
  <2>2. CASE UNCHANGED <<call, torn>>
    BY <2>1, <2>2 DEF NoCycle, At
  <2>3. CASE (o.deps = <<>> \/ ~detect_cycle(o.id, preview)) /\ Begun(s, o.id, "save", t, stale)
    <3>1. Acyclic(tasks) /\ (torn' = {} => torn = {} /\ Acyclic(saved))
      BY <2>1, <2>3 DEF NoCycle, Begun
    <3>2. Acyclic(preview)
      BY <1>a, <2>1, <2>3, <3>1, PreviewAcyclic
    <3>3. call'[s].id = o.id /\ call'[s].task = t /\ call'[s].stale = stale
      BY <2>3 DEF Begun
    <3>4. With(tasks, call'[s]) = preview
      BY <3>3 DEF With
    <3>5. ASSUME ~stale, torn' = {} PROVE Acyclic(With(saved, call'[s]))
      <4>1. \A x \in Ids : saved[x].deps = tasks[x].deps
        BY <2>1, <3>1, <3>5, CopiesAgree
      <4>2. Acyclic(With(tasks, call'[s]))
        BY <3>2, <3>4
      <4> HIDE DEF t, stale, preview
      <4> QED BY <1>a, <2>1, <3>3, <4>1, <4>2, SameDepsWith
    <3>6. \A u \in Slots \ {s} : call'[u] = call[u]
      BY <2>3 DEF Begun
    <3>7. ASSUME NEW u \in Slots, ~call'[u].stale
          PROVE  /\ At(u, "save")' \/ At(u, "insert")' => Acyclic(With(tasks, call'[u]))
                 /\ At(u, "save")' /\ torn' = {} => Acyclic(With(saved, call'[u]))
      <4>1. CASE u = s
        BY <3>2, <3>3, <3>4, <3>5, <3>7, <4>1
      <4>2. CASE u # s
        BY <2>1, <3>1, <3>6, <3>7, <4>2 DEF NoCycle, At
      <4> QED BY <4>1, <4>2
    <3> HIDE DEF t, stale, preview
    <3> QED BY <2>1, <3>1, <3>7 DEF NoCycle, At
  <2> QED BY <1>1, <2>2, <2>3, UpsertIs
<1>2. ASSUME NEW s \in Slots, UpsertSave(s) PROVE NoCycle'
  <2>0. /\ call[s].id \in Ids /\ At(s, "save") /\ UNCHANGED <<tasks, torn>> /\ Idle.pc = "idle"
        /\ call[s].stale \in BOOLEAN
    BY <1>2, CallIs DEF UpsertSave, At
  <2>1. CASE Become(s, Idle) /\ UNCHANGED <<saved, raced>>
    <3>1. call'[s] = Idle /\ \A u \in Slots \ {s} : call'[u] = call[u]
      BY <2>1, BecomeTyped, CallIs
    <3> QED BY <1>0, <2>0, <2>1, <3>1, FewerCycles
  <2>2. CASE /\ saved' = With(saved, call[s]) /\ Outdate(s, [call[s] EXCEPT !.pc = "insert"])
             /\ raced' = (raced \/ call[s].stale)
    <3> DEFINE k == [call[s] EXCEPT !.pc = "insert"]
    <3>1. /\ k \in CallRecord /\ k.pc = "insert" /\ k.id = call[s].id /\ k.task = call[s].task
      BY <2>0, SaveIs
    <3> HIDE DEF k
    <3>2. /\ call'[s] = k
          /\ \A u \in Slots \ {s} : /\ call'[u].pc = call[u].pc
                                     /\ call'[u].stale = (call[u].pc \in {"save", "insert"})
      BY <2>2, <3>1, OutdateTyped DEF k
    <3>3. ~raced /\ ~call[s].stale
      BY <2>0, <2>2 DEF TableTyped
    <3>4. /\ Acyclic(tasks) /\ Acyclic(With(tasks, call[s]))
          /\ torn = {} => Acyclic(With(saved, call[s]))
      BY <2>0, <3>3 DEF NoCycle
    <3>5. With(tasks', call'[s]) = With(tasks, call[s])
      BY <2>0, <3>1, <3>2 DEF With
    <3>6. Acyclic(tasks') /\ (torn' = {} => Acyclic(saved'))
      BY <2>0, <2>2, <3>4
    <3>7. \A u \in Slots \ {s} : At(u, "save")' \/ At(u, "insert")' => call'[u].stale
      BY <3>2 DEF At
    <3>8. ~At(s, "save")' /\ Acyclic(With(tasks', call'[s]))
      BY <3>1, <3>2, <3>4, <3>5 DEF At
    <3> QED BY <3>6, <3>7, <3>8, StoredCycles
  <2> QED BY <1>2, <2>1, <2>2 DEF UpsertSave, With
<1>3. ASSUME NEW s \in Slots, UpsertInsert(s) PROVE NoCycle'
  <2>0. /\ At(s, "insert") /\ UNCHANGED <<saved, torn>> /\ Idle.pc = "idle"
        /\ tasks' = With(tasks, call[s]) /\ raced' = (raced \/ call[s].stale)
        /\ call[s].stale \in BOOLEAN
    BY <1>3, CallIs DEF UpsertInsert, With
  <2>1. /\ call'[s] = Idle
        /\ \A u \in Slots \ {s} : /\ call'[u].pc = call[u].pc
                                   /\ call'[u].stale = (call[u].pc \in {"save", "insert"})
    BY <1>3, CallIs, OutdateTyped DEF UpsertInsert
  <2>2. ~raced /\ ~call[s].stale
    BY <2>0 DEF TableTyped
  <2>3. Acyclic(With(tasks, call[s])) /\ (torn = {} => Acyclic(saved))
    BY <2>0, <2>2 DEF NoCycle
  <2> QED BY <2>0, <2>1, <2>3, StoredCycles DEF At
<1>4. ASSUME NEW s \in Slots, NEW v \in Ids, SetEnabled(s, v) PROVE NoCycle'
  <2> DEFINE t == [tasks[v] EXCEPT !.enabled = ~@]
  <2>1. t \in TaskRecord /\ t.deps = tasks[v].deps
    BY <1>a, RecordsTyped
  <2>2. /\ tasks' = [tasks EXCEPT ![v] = t]
        /\ Begin(s, v, [pc |-> "save_enabled", id |-> v, task |-> t, stale |-> FALSE])
        /\ UNCHANGED <<saved, raced>>
    BY <1>4 DEF SetEnabled
  <2> HIDE DEF t
  <2>3. Begun(s, v, "save_enabled", t, FALSE)
    BY <2>1, <2>2, BeginIs
  <2>4. \A x \in Ids : tasks'[x].deps = tasks[x].deps
    BY <1>a, <2>1, <2>2
  <2>5. /\ call'[s].pc = "save_enabled" /\ torn \subseteq torn'
        /\ \A u \in Slots \ {s} : call'[u] = call[u]
    BY <2>3 DEF Begun
  <2> QED BY <1>0, <2>2, <2>4, <2>5, FewerCycles
<1>5. ASSUME NEW s \in Slots, SetEnabledSave(s) PROVE NoCycle'
  <2>0. /\ call[s].id \in Ids /\ At(s, "save_enabled") /\ UNCHANGED <<tasks, raced>> /\ Idle.pc = "idle"
    BY <1>5, CallIs DEF SetEnabledSave, At
  <2>1. call'[s] = Idle /\ \A u \in Slots \ {s} : call'[u] = call[u]
    BY <1>5, BecomeTyped, CallIs DEF SetEnabledSave
  <2>2. torn \subseteq torn'
    BY <1>5 DEF SetEnabledSave
  <2>3. ASSUME torn' = {} PROVE \A x \in Ids : saved'[x].deps = saved[x].deps
    <3>1. saved' = [saved EXCEPT ![call[s].id] = call[s].task] /\ torn = {}
      BY <1>5, <2>3 DEF SetEnabledSave
    <3>2. saved[call[s].id].deps = call[s].task.deps
      BY <2>0, <3>1 DEF CopiesInv, Copies, Deps
    <3> QED BY <1>a, <3>1, <3>2
  <2> QED BY <1>0, <2>0, <2>1, <2>2, <2>3, FewerCycles
<1>6. ASSUME NEW s \in Slots, NEW v \in Ids, RemoveTask(s, v) PROVE NoCycle'
  <2>1. /\ tasks' = [tasks EXCEPT ![v] = Absent] /\ UNCHANGED <<saved, raced>>
        /\ Begin(s, v, [pc |-> "delete", id |-> v, task |-> Absent, stale |-> FALSE])
    BY <1>6 DEF RemoveTask
  <2>2. Begun(s, v, "delete", Absent, FALSE)
    BY <2>1, BeginIs, RecordsTyped
  <2>3. \A x \in Ids : tasks'[x].deps \in {tasks[x].deps, <<>>}
    BY <1>a, <2>1 DEF Absent
  <2>4. /\ call'[s].pc = "delete" /\ torn \subseteq torn'
        /\ \A u \in Slots \ {s} : call'[u] = call[u]
    BY <2>2 DEF Begun
  <2> QED BY <1>0, <2>1, <2>3, <2>4, FewerCycles
<1>7. ASSUME NEW s \in Slots, RemoveTaskDelete(s) PROVE NoCycle'
  <2>1. call'[s] = Idle /\ \A u \in Slots \ {s} : call'[u] = call[u]
    BY <1>7, BecomeTyped, CallIs DEF RemoveTaskDelete
  <2>2. torn \subseteq torn' /\ UNCHANGED <<tasks, raced>> /\ Idle.pc = "idle"
    BY <1>7 DEF RemoveTaskDelete, Idle
  <2>3. \A x \in Ids : saved'[x].deps \in {saved[x].deps, <<>>}
    BY <1>7, <1>a DEF RemoveTaskDelete, Absent
  <2> QED BY <1>0, <2>1, <2>2, <2>3, FewerCycles
<1>8. CASE Restart
  <2>1. /\ tasks' = saved /\ saved' = saved /\ \A s \in Slots : call'[s] = Idle
        /\ raced' = (raced \/ torn # {}) /\ Idle.pc = "idle"
    BY <1>8 DEF Restart, Idle
  <2>2. ~raced /\ torn = {}
    BY <2>1 DEF TableTyped
  <2>3. Acyclic(saved)
    BY <2>2 DEF NoCycle
  <2> QED BY <2>1, <2>3 DEF NoCycle, At
<1>9. CASE UNCHANGED vars
  BY <1>9 DEF vars, NoCycle, At
<1> QED
  BY <1>1, <1>2, <1>3, <1>4, <1>5, <1>6, <1>7, <1>8, <1>9 DEF Next, Done

\* No task waits for itself, unless a task was stored whose check had become outdated or
\* a restart brought back copies that did not match the table.
THEOREM NoTaskWaitsForItself == Spec => []AcyclicUnlessRaced
<1>1. Init => NoCycle
  <2> SUFFICES ASSUME Init PROVE NoCycle
    OBVIOUS
  <2>1. \A x \in Ids : DepSet(tasks, x) = {} /\ DepSet(saved, x) = {}
    BY DEF Init, DepSet, Deps, Absent
  <2>2. \A x \in Ids : Reach(tasks, x) \subseteq {} /\ Reach(saved, x) \subseteq {}
    BY <2>1, ReachLeast
  <2>3. Acyclic(tasks) /\ Acyclic(saved)
    BY <2>2 DEF Acyclic
  <2>4. \A s \in Slots : call[s].pc = "idle"
    BY DEF Init, Idle
  <2> QED BY <2>3, <2>4 DEF NoCycle, At
<1>2. NoCycle => AcyclicUnlessRaced
  BY DEF NoCycle, AcyclicUnlessRaced
<1> QED BY <1>1, <1>2, InitTable, StepTyped, StepCopies, StepCycle, PTL DEF Spec

\* The task that was refused last closed a cycle, or one of its predecessors was
\* shared.  The second is what detect_cycle's own comment excludes: "Returns
\* `Some(cycle_path)` if a cycle is found, `None` otherwise" (dep_resolver.rs:182).
RefusalExplained == refused.id \in Ids => Explained(refused.table, refused.id)

\* Every step keeps it.
LEMMA StepRefused == TableTyped /\ RefusalExplained /\ [Next]_vars => RefusalExplained'
<1> SUFFICES ASSUME TableTyped, RefusalExplained, [Next]_vars PROVE RefusalExplained'
  OBVIOUS
<1>1. CASE UNCHANGED refused
  BY <1>1 DEF RefusalExplained
<1>2. ASSUME NEW s \in Slots, NEW o \in Offers, Upsert(s, o) PROVE RefusalExplained'
  <2> DEFINE preview == [tasks EXCEPT ![o.id] = Task(o.deps)]
  <2>1. o.id \in Ids /\ o.deps \in Seq(Ids)
    BY CronTaskConstants
  <2>2. CASE detect_cycle(o.id, preview) /\ refused' = [id |-> o.id, table |-> preview]
    <3>1. preview \in [Ids -> TaskRecord]
      BY <2>1, RecordsTyped DEF TableTyped
    <3> HIDE DEF preview
    <3>2. Explained(preview, o.id)
      BY <2>1, <2>2, <3>1, TypedGraph, DetectCycle
    <3>3. refused'.id = o.id /\ refused'.table = preview
      BY <2>2
    <3> QED BY <3>2, <3>3 DEF RefusalExplained
  <2> QED BY <1>1, <1>2, <2>2, UpsertIs
<1> QED
  BY <1>1, <1>2
  DEF Next, Done, UpsertSave, UpsertInsert, SetEnabled, SetEnabledSave, RemoveTask,
      RemoveTaskDelete, Restart, vars

\* How far detect_cycle is wrong: besides cycles upsert_task refuses only tasks
\* whose predecessors are shared, never a plain chain.
THEOREM RefusedForCause == Spec => []RefusalExplained
<1>1. Init => RefusalExplained
  BY CronTaskConstants DEF Init, RefusalExplained
<1> QED BY <1>1, InitTable, StepTyped, StepRefused, PTL DEF Spec

-----------------------------------------------------------------------------
(* The daemon *)

\* The phases in which cron tasks are served and the snapshot is gone.
Serving == {"serve", "accept", "drain", "checkpoint", "sweep", "flush", "persist"}

TasksTyped ==
    /\ DOMAIN snapshot = Tasks /\ DOMAIN listed = Tasks
    /\ DOMAIN cron = Tasks /\ DOMAIN agreed = Tasks
    /\ at \in {"off", "cli", "recover", "restore", "clean", "close", "put"} \cup Serving

\* Where the version that was agreed is, for a task that is not excused: in the
\* snapshot until it is restored, in memory and then again in the snapshot.
TaskAt(t) ==
    /\ at \in {"off", "cli", "recover"} => cron[t] = 0 /\ snapshot[t] = agreed[t]
    /\ at = "restore" => /\ snapshot[t] = agreed[t] /\ listed[t] = agreed[t]
                         /\ cron[t] = IF t \in todo THEN 0 ELSE agreed[t]
    /\ at = "clean" => /\ cron[t] = agreed[t] /\ listed[t] = agreed[t]
                       /\ snapshot[t] = IF t \in todo THEN agreed[t] ELSE 0
    /\ at \in Serving => cron[t] = agreed[t] /\ snapshot[t] = 0
    /\ at = "put" => /\ cron[t] = agreed[t] /\ listed[t] = agreed[t]
                     /\ snapshot[t] = IF t \in todo THEN 0 ELSE agreed[t]
    /\ at = "close" => cron[t] = agreed[t] /\ snapshot[t] = agreed[t]

TasksInv ==
    /\ TasksTyped
    /\ \A t \in Tasks : /\ t \notin excused => TaskAt(t)
                        /\ at \in {"off", "cli", "recover"} => cron[t] = 0
                        /\ at = "restore" /\ t \in todo => cron[t] = 0
                        /\ at = "put" => cron[t] \in {listed[t], agreed[t]}

\* A run that is recorded as running is indexed so, or about to be; the sweep
\* visits all of them.
RunsInv ==
    /\ DOMAIN runs = Runs /\ saving \in Runs \cup {NoRun}
    /\ saving # NoRun => at \in {"cli", "recover", "sweep"}
    /\ saving # NoRun /\ runs[saving] = "running" => at = "cli" /\ ~swept
    /\ \A r \in Runs \ missed : runs[r] = "running" =>
          /\ <<"running", r>> \in index \/ saving = r
          /\ at = "sweep" => r \in todo
          /\ ~swept

-----------------------------------------------------------------------------
\* Nothing is stored and no process runs.
LEMMA InitDaemon == DaemonInit => TasksInv /\ RunsInv
BY DEF DaemonInit, TasksInv, RunsInv, TasksTyped, TaskAt, Serving, NoTasks

\* A step that leaves the cron tasks alone, from a phase to one that says the same of them.
LEMMA TasksAlone ==
    ASSUME TasksInv, UNCHANGED <<snapshot, listed, cron, agreed, excused>>,
           \/ at' = at /\ UNCHANGED todo
           \/ at \in {"off", "cli", "recover"} /\ at' \in {"off", "cli", "recover"}
           \/ at \in Serving /\ at' \in Serving
    PROVE  TasksInv'
BY DEF TasksInv, TasksTyped, TaskAt, Serving

\* Every step keeps what is known of the cron tasks.
LEMMA StepTasks == TasksInv /\ [DaemonNext]_daemonVars => TasksInv'
<1> SUFFICES ASSUME TasksInv, [DaemonNext]_daemonVars PROVE TasksInv'
  OBVIOUS
<1> USE DEF store, history, spent, process
<1>1. CASE Cli \/ DaemonStart \/ Stop \/ Over \/ UNCHANGED daemonVars
  BY <1>1, TasksAlone
  DEF Cli, CliStart, CliExit, Execute, PutLease, Release, EndRun, PutRecord,
      DaemonStart, Stop, Over, daemonVars, Serving
<1>2. CASE PutIndex
  BY <1>2, TasksAlone DEF PutIndex
<1>3. ASSUME NEW r \in Runs, Recover(r) \/ Checkpoint(r) PROVE TasksInv'
  BY <1>3, TasksAlone DEF Recover, Checkpoint, PutRecord, Serving
<1>4. CASE \/ RecoverFails \/ StopAccepting \/ Drained \/ DrainTimeout
           \/ CheckpointScan \/ Checkpointed \/ FlushEventBus
  BY <1>4, TasksAlone
  DEF RecoverFails, StopAccepting, Drained, DrainTimeout, CheckpointScan, Checkpointed,
      FlushEventBus, Serving
<1> USE DEF TasksInv, TasksTyped, TaskAt, Serving, Present, NoTasks
<1>5. CASE ScanSnapshot
  BY <1>5 DEF ScanSnapshot
<1>6. ASSUME NEW t \in Tasks, Restore(t) PROVE TasksInv'
  BY <1>6 DEF Restore
<1>7. CASE Restored
  BY <1>7 DEF Restored
<1>8. ASSUME NEW t \in Tasks, Clean(t) PROVE TasksInv'
  BY <1>8 DEF Clean
<1>9. CASE Serve
  BY <1>9 DEF Serve
<1>10. ASSUME NEW t \in Tasks, NEW v, Change(t, v) PROVE TasksInv'
  BY <1>10 DEF Change, Up, Phases
<1>11. CASE PersistCronState
  BY <1>11 DEF PersistCronState
<1>12. ASSUME NEW t \in Tasks, PersistTask(t) PROVE TasksInv'
  BY <1>12 DEF PersistTask
<1>13. CASE Persisted
  BY <1>13 DEF Persisted
<1>14. CASE CloseStorage
  BY <1>14 DEF CloseStorage, Ends
<1>15. CASE Crash
  BY <1>15 DEF Crash, Ends, Unsaved
<1>16. CASE ServeFails
  BY <1>16 DEF ServeFails, Ends, Unsaved
<1> QED
  BY <1>1, <1>2, <1>3, <1>4, <1>5, <1>6, <1>7, <1>8, <1>9, <1>10, <1>11, <1>12, <1>13, <1>14,
     <1>15, <1>16 DEF DaemonNext, Startup, Shutdown

\* The daemon serves the cron tasks as they were last scheduled or removed,
\* through any number of shutdowns, crashes and restarts, but for the named exceptions.
THEOREM TasksRestored == DaemonSpec => []TasksSurvive
<1>1. TasksInv => TasksSurvive
  BY DEF TasksInv, TaskAt, TasksSurvive, Up, Phases, Serving
<1>2. DaemonInit => TasksInv
  BY InitDaemon
<1> QED BY <1>1, <1>2, StepTasks, PTL DEF DaemonSpec

-----------------------------------------------------------------------------
\* Every step keeps what is known of the runs.
LEMMA StepRuns == RunsInv /\ [DaemonNext]_daemonVars => RunsInv'
<1> SUFFICES ASSUME RunsInv, [DaemonNext]_daemonVars PROVE RunsInv'
  OBVIOUS
<1>0. NoRun \notin Runs
  BY DaemonConstants
<1> USE <1>0 DEF store, history, spent, process, RunsInv
<1>1. CASE Cli
  BY <1>1 DEF Cli, CliStart, CliExit, Execute, PutLease, Release, EndRun, PutRecord
<1>2. CASE DaemonStart \/ Stop \/ Over \/ UNCHANGED daemonVars
  BY <1>2 DEF DaemonStart, Stop, Over, daemonVars
<1>3. CASE PutIndex
  BY <1>3 DEF PutIndex
<1>4. ASSUME NEW r \in Runs, Recover(r) PROVE RunsInv'
  BY <1>4 DEF Recover, PutRecord
<1>5. CASE RecoverFails \/ ScanSnapshot \/ Restored \/ Serve
  BY <1>5 DEF RecoverFails, ScanSnapshot, Restored, Serve
<1>6. ASSUME NEW t \in Tasks, Restore(t) \/ Clean(t) \/ PersistTask(t) PROVE RunsInv'
  BY <1>6 DEF Restore, Clean, PersistTask
<1>7. CASE \/ StopAccepting \/ Drained \/ DrainTimeout \/ FlushEventBus
           \/ PersistCronState \/ Persisted
  BY <1>7 DEF StopAccepting, Drained, DrainTimeout, FlushEventBus, PersistCronState,
              Persisted
<1>8. CASE CheckpointScan
  BY <1>8 DEF CheckpointScan, load_runs_by_state
<1>9. ASSUME NEW r \in Runs, Checkpoint(r) PROVE RunsInv'
  BY <1>9 DEF Checkpoint, PutRecord
<1>10. CASE Checkpointed
  BY <1>10 DEF Checkpointed
<1>11. CASE CloseStorage
  BY <1>11 DEF CloseStorage, Ends
<1>12. CASE Crash \/ ServeFails
  BY <1>12 DEF Crash, ServeFails, Ends
<1>13. ASSUME NEW t \in Tasks, NEW v, Change(t, v) PROVE RunsInv'
  BY <1>13 DEF Change
<1> QED
  BY <1>1, <1>2, <1>3, <1>4, <1>5, <1>6, <1>7, <1>8, <1>9, <1>10, <1>11, <1>12, <1>13
  DEF DaemonNext, Startup, Shutdown

\* After a shutdown's CheckpointSessions no run is recorded as running, but for
\* the named exceptions, until a process executes one again.
THEOREM RunsCheckpointed == DaemonSpec => []NoneLeftRunning
<1>1. RunsInv => NoneLeftRunning
  BY DEF RunsInv, NoneLeftRunning
<1>2. DaemonInit => RunsInv
  BY InitDaemon
<1> QED BY <1>1, <1>2, StepRuns, PTL DEF DaemonSpec
=============================================================================

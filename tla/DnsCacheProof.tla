--------------------------- MODULE DnsCacheProof ---------------------------
(***************************************************************************)
(* The DNS cache for any number of hosts, calls, entries and flushes: its  *)
(* size stays bounded, its order lists no host twice, and a host has one   *)
(* leader at a time.                                                       *)
(*                                                                         *)
(* Two facts carry the proof.  What is cached is in the order, or was      *)
(* written by a leader that has not come to list it: so evict_if_needed    *)
(* sees all it has to see.  And a leader that has not removed its in-flight*)
(* entry is the one in the table, unless something SingleFlight excepts    *)
(* has happened.                                                           *)
(***************************************************************************)
EXTENDS DnsCache, TLAPS, FiniteSetTheorems, NaturalsInduction, SequenceTheorems

Led == {"inner", "write", "list", "expire", "evict", "remove"}

\* What SingleFlight allows: the table was flushed or a follower gave up.
Excused(x) == flushes > 0 \/ \E f \in late : host[f] = x

\* A leader is the one in the table, or excused; whoever asks has a host; only
\* a task whose wait timed out unhooks a leader.
Tabled ==
  /\ \A t \in Tasks :
       /\ pc[t] # "new" => host[t] \in Hosts
       /\ t \in late => pc[t] # "new"
       /\ pc[t] = "unhook" => t \in late
       /\ pc[t] \in Led => inflight[host[t]] = t \/ Excused(host[t])
  /\ flush # "off" => flushes > 0

\* Tasks that have written and not listed: on their way to, or dropped.
Unlisted == {t \in Tasks : pc[t] \in {"list", "lost"}}

\* What is cached can be found in the order, or by who is about to list it.
Findable ==
  \A x \in Cached : x \in ToSet(order) \/ \E t \in Unlisted : host[t] = x

Sized == Findable /\ Cardinality(Cached) <= MaxEntries + Cardinality(Inserting)

IInv == TypeOK /\ Tabled /\ (orphaned \/ Sized)

-----------------------------------------------------------------------------
(* Keep, which is retain on the order.                                     *)

\* f holds, for each length up to n, what Keep makes of that much of q.
Keeping(f, q, S, n) ==
  f = [i \in 0..n |-> IF i = 0 THEN <<>>
                      ELSE IF q[i] \in S THEN Append(f[i - 1], q[i]) ELSE f[i - 1]]

\* A set of natural numbers that is not empty has a least one.
LEMMA Least ==
  ASSUME NEW T, T \subseteq Nat, T # {}
  PROVE  \E x \in T : \A y \in T : x <= y
<1> DEFINE R == {ss \in Nat \X Nat : ss[1] < ss[2]}
<1>1. IsWellFoundedOn(R, Nat)
  BY NatLessThanWellFounded DEF OpToRel
<1>2. \E x \in T : \A y \in T : ~(<<y, x>> \in R)
  <2> HIDE DEF R
  <2> QED
    BY <1>1, WFMin
<1>3. PICK x \in T : \A y \in T : ~(<<y, x>> \in R)
  BY <1>2
<1>4. ASSUME NEW y \in T PROVE x <= y
  <2>1. x \in Nat /\ y \in Nat
    OBVIOUS
  <2>2. <<y, x>> \notin R
    BY <1>3
  <2> QED
    BY <2>1, <2>2
<1> QED
  BY <1>4

\* One step of the recursion.
LEMMA KeepingAt ==
  ASSUME NEW f, NEW q, NEW S, NEW n \in Nat, Keeping(f, q, S, n), NEW i \in 0..n
  PROVE  f[i] = IF i = 0 THEN <<>>
                ELSE IF q[i] \in S THEN Append(f[i - 1], q[i]) ELSE f[i - 1]
BY DEF Keeping

\* The recursion has a solution.
LEMMA KeepingExists ==
  ASSUME NEW q, NEW S, NEW m \in Nat PROVE \E f : Keeping(f, q, S, m)
<1> DEFINE T == {n \in Nat : ~ \E f : Keeping(f, q, S, n)}
<1>1. SUFFICES ASSUME T # {} PROVE FALSE
  OBVIOUS
<1>2. PICK n \in T : \A y \in T : n <= y
  <2> T \subseteq Nat
    OBVIOUS
  <2> HIDE DEF T
  <2> QED
    BY <1>1, Least
<1>3. n \in Nat /\ ~ \E f : Keeping(f, q, S, n)
  OBVIOUS
<1>4. CASE n = 0
  <2> DEFINE f == [i \in 0..0 |-> <<>>]
  <2>1. Keeping(f, q, S, 0)
    BY DEF Keeping
  <2> QED
    BY <1>3, <1>4, <2>1
<1>5. CASE n # 0
  <2>1. n - 1 \in Nat /\ ~(n <= n - 1)
    BY <1>3, <1>5
  <2>2. PICK f : Keeping(f, q, S, n - 1)
    BY <1>2, <2>1
  <2> DEFINE g == [i \in 0..n |-> IF i = 0 THEN <<>>
                                  ELSE IF q[i] \in S THEN Append(f[i - 1], q[i])
                                  ELSE f[i - 1]]
  <2>3. \A i \in 0..n - 1 : i \in 0..n /\ g[i] = f[i]
    <3> SUFFICES ASSUME NEW i \in 0..n - 1 PROVE i \in 0..n /\ g[i] = f[i]
      OBVIOUS
    <3>1. i \in 0..n
      BY <1>3, <2>1
    <3>2. f[i] = IF i = 0 THEN <<>>
                 ELSE IF q[i] \in S THEN Append(f[i - 1], q[i]) ELSE f[i - 1]
      BY <2>1, <2>2, KeepingAt
    <3> QED
      BY <3>1, <3>2
  <2>4. \A i \in 0..n : i # 0 => i - 1 \in 0..n - 1
    BY <1>3, <2>1
  <2>5. Keeping(g, q, S, n)
    BY <2>3, <2>4 DEF Keeping
  <2> QED
    BY <1>3, <2>5
<1> QED
  BY <1>4, <1>5

\* What is kept: the members of S, each as often as before when it was once.
LEMMA KeepFacts ==
  ASSUME NEW H, NEW q \in Seq(H), NEW S
  PROVE  /\ Keep(q, S) \in Seq(H)
         /\ ToSet(Keep(q, S)) = ToSet(q) \cap S
         /\ IsInjective(q) => IsInjective(Keep(q, S))
<1> DEFINE f == CHOOSE g : Keeping(g, q, S, Len(q))
           Members(s) == {s[j] : j \in 1..Len(s)}
           Good(i) == /\ f[i] \in Seq(H)
                      /\ Members(f[i]) = {q[j] : j \in 1..i} \cap S
                      /\ IsInjective(q) =>
                           \A j, k \in 1..Len(f[i]) : f[i][j] = f[i][k] => j = k
           T == {i \in 0..Len(q) : ~Good(i)}
<1>n. Len(q) \in Nat
  OBVIOUS
<1>1. Keep(q, S) = f[Len(q)]
  BY DEF Keep, Keeping
<1>2. Keeping(f, q, S, Len(q))
  BY <1>n, KeepingExists
<1> HIDE DEF f
<1>3. ASSUME T # {} PROVE FALSE
  <2>1. PICK n \in T : \A y \in T : n <= y
    <3> T \subseteq Nat
      BY <1>n
    <3> HIDE DEF T
    <3> QED
      BY <1>3, Least
  <2>2. n \in 0..Len(q) /\ ~Good(n)
    OBVIOUS
  <2>3. f[n] = IF n = 0 THEN <<>>
               ELSE IF q[n] \in S THEN Append(f[n - 1], q[n]) ELSE f[n - 1]
    BY <1>n, <1>2, <2>2, KeepingAt
  <2>4. CASE n = 0
    <3>1. f[n] = <<>>
      BY <2>3, <2>4
    <3>2. {q[j] : j \in 1..n} = {} /\ Members(f[n]) = {}
      BY <2>4, <3>1
    <3>3. f[n] \in Seq(H) /\ \A j, k \in 1..Len(f[n]) : f[n][j] = f[n][k] => j = k
      BY <3>1
    <3> QED
      BY <2>2, <3>2, <3>3
  <2>5. CASE n # 0
    <3>1. n - 1 \in 0..Len(q) /\ n \in Nat /\ n - 1 \in Nat /\ ~(n <= n - 1) /\ n \in 1..Len(q)
      BY <1>n, <2>2, <2>5
    <3>2. Good(n - 1)
      <4>1. n - 1 \notin T
        BY <2>1, <3>1
      <4> QED
        BY <3>1, <4>1
    <3> DEFINE e == f[n - 1]
    <3>3. {q[j] : j \in 1..n} = {q[j] : j \in 1..n - 1} \cup {q[n]}
      BY <3>1
    <3>4. CASE q[n] \notin S
      <4>1. f[n] = e
        BY <2>3, <2>5, <3>4
      <4>2. {q[j] : j \in 1..n} \cap S = {q[j] : j \in 1..n - 1} \cap S
        BY <3>3, <3>4
      <4> QED
        BY <2>2, <3>2, <4>1, <4>2
    <3>5. CASE q[n] \in S
      <4>1. f[n] = Append(e, q[n]) /\ e \in Seq(H) /\ q[n] \in H
        BY <2>3, <2>5, <3>1, <3>2, <3>5
      <4>2. f[n] \in Seq(H) /\ Len(f[n]) = Len(e) + 1 /\ Len(e) \in Nat
        BY <4>1
      <4>3. /\ \A j \in 1..Len(e) : f[n][j] = e[j]
            /\ f[n][Len(e) + 1] = q[n]
        BY <4>1
      <4>4. Members(f[n]) = Members(e) \cup {q[n]}
        <5>1. 1..Len(f[n]) = 1..Len(e) \cup {Len(e) + 1}
          BY <4>2
        <5>2. ASSUME NEW y \in Members(f[n]) PROVE y \in Members(e) \cup {q[n]}
          <6>1. PICK j \in 1..Len(f[n]) : y = f[n][j]
            OBVIOUS
          <6> QED
            BY <4>3, <5>1, <6>1
        <5>3. Members(e) \subseteq Members(f[n])
          BY <4>3, <5>1
        <5>4. q[n] \in Members(f[n])
          BY <4>2, <4>3
        <5> QED
          BY <5>2, <5>3, <5>4
      <4>5. Members(f[n]) = {q[j] : j \in 1..n} \cap S
        BY <3>2, <3>3, <3>5, <4>4
      <4>6. ASSUME IsInjective(q), NEW j \in 1..Len(f[n]), NEW k \in 1..Len(f[n]),
                   f[n][j] = f[n][k]
            PROVE  j = k
        <5>1. \A i \in 1..n - 1 : q[i] # q[n]
          BY <4>6, <3>1 DEF IsInjective
        <5>2. \A i \in 1..Len(e) : e[i] # q[n]
          <6> SUFFICES ASSUME NEW i \in 1..Len(e) PROVE e[i] # q[n]
            OBVIOUS
          <6>1. e[i] \in Members(e)
            OBVIOUS
          <6>2. PICK p \in 1..n - 1 : e[i] = q[p]
            BY <3>2, <6>1
          <6> QED
            BY <5>1, <6>2
        <5>3. (j \in 1..Len(e) \/ j = Len(e) + 1) /\ (k \in 1..Len(e) \/ k = Len(e) + 1)
          BY <4>2
        <5> QED
          BY <3>2, <4>3, <4>6, <5>2, <5>3
      <4> QED
        BY <2>2, <4>2, <4>5, <4>6
    <3> QED
      BY <3>4, <3>5
  <2> QED
    BY <2>4, <2>5
<1>4. Good(Len(q))
  <2> HIDE DEF Good
  <2>1. Len(q) \in 0..Len(q)
    BY <1>n
  <2>2. T = {}
    BY <1>3
  <2> QED
    BY <2>1, <2>2
<1>5. \A s \in Seq(H) : /\ ToSet(s) = Members(s)
                        /\ (\A j, k \in 1..Len(s) : s[j] = s[k] => j = k) => IsInjective(s)
  BY DEF ToSet, IsInjective
<1> QED
  BY <1>1, <1>4, <1>5

-----------------------------------------------------------------------------
(* The order and the size of the cache.                                    *)

\* Cached hosts and inserting leaders can be counted.
LEMMA Countable ==
  /\ IsFiniteSet(Cached) /\ Cardinality(Cached) \in Nat
  /\ IsFiniteSet(Inserting) /\ Cardinality(Inserting) \in Nat
<1>1. Cached \subseteq Hosts /\ Inserting \subseteq Tasks
  BY DEF Cached, Inserting
<1> QED
  BY <1>1, FS_Subset, FS_CardinalityType, DnsAssumption

\* The same after a step.
LEMMA CountableNext ==
  (/\ IsFiniteSet(Cached) /\ Cardinality(Cached) \in Nat
   /\ IsFiniteSet(Inserting) /\ Cardinality(Inserting) \in Nat)'
BY Countable, PTL

\* touch: the host goes to the end, the others stay, each listed once.
LEMMA TouchedFacts ==
  ASSUME TypeOK, NEW x \in Hosts
  PROVE  /\ Touched(x) \in Seq(Hosts) /\ IsInjective(Touched(x))
         /\ ToSet(Touched(x)) = ToSet(order) \cup {x}
<1> DEFINE q == Keep(order, Hosts \ {x})
<1>1. q \in Seq(Hosts) /\ ToSet(q) = ToSet(order) \cap (Hosts \ {x}) /\ IsInjective(q)
  BY KeepFacts DEF TypeOK
<1>2. ToSet(order) \subseteq Hosts
  BY DEF TypeOK, ToSet
<1> HIDE DEF q
<1>3. /\ Append(q, x) \in Seq(Hosts) /\ Len(Append(q, x)) = Len(q) + 1 /\ Len(q) \in Nat
      /\ \A i \in 1..Len(q) : Append(q, x)[i] = q[i] /\ q[i] \in ToSet(q)
      /\ Append(q, x)[Len(q) + 1] = x
  BY <1>1 DEF ToSet
<1>4. 1..Len(Append(q, x)) = 1..Len(q) \cup {Len(q) + 1} /\ DOMAIN q = 1..Len(q)
      /\ DOMAIN Append(q, x) = 1..Len(Append(q, x))
  BY <1>1, <1>3
<1>5. ToSet(Append(q, x)) = ToSet(q) \cup {x}
  BY <1>3, <1>4 DEF ToSet
<1>6. IsInjective(Append(q, x))
  <2> SUFFICES ASSUME NEW i \in 1..Len(Append(q, x)), NEW j \in 1..Len(Append(q, x)),
                      Append(q, x)[i] = Append(q, x)[j]
               PROVE  i = j
    BY <1>4 DEF IsInjective
  <2>1. \A k \in 1..Len(q) : q[k] # x
    BY <1>1, <1>3
  <2>2. \A k, l \in 1..Len(q) : q[k] = q[l] => k = l
    BY <1>1, <1>4 DEF IsInjective
  <2> QED
    BY <1>3, <1>4, <2>1, <2>2
<1> QED
  BY <1>1, <1>2, <1>3, <1>5, <1>6 DEF Touched, q

\* The first n of a list of different hosts are n hosts, the others are listed
\* after them.
LEMMA CutFacts ==
  ASSUME NEW q \in Seq(Hosts), IsInjective(q), NEW n \in 0..Len(q)
  PROVE  /\ SubSeq(q, n + 1, Len(q)) \in Seq(Hosts)
         /\ IsInjective(SubSeq(q, n + 1, Len(q)))
         /\ ToSet(SubSeq(q, n + 1, Len(q))) = ToSet(q) \ ToSet(SubSeq(q, 1, n))
         /\ ToSet(SubSeq(q, 1, n)) \subseteq ToSet(q)
         /\ IsFiniteSet(ToSet(SubSeq(q, 1, n))) /\ Cardinality(ToSet(SubSeq(q, 1, n))) = n
         /\ n = Len(q) => ToSet(SubSeq(q, 1, n)) = ToSet(q)
<1> DEFINE a == SubSeq(q, 1, n)
           b == SubSeq(q, n + 1, Len(q))
<1>0. Len(q) \in Nat /\ n \in Nat /\ n <= Len(q) /\ DOMAIN q = 1..Len(q)
  OBVIOUS
<1>1. /\ a \in Seq(Hosts) /\ Len(a) = n /\ DOMAIN a = 1..n
      /\ \A i \in 1..n : a[i] = q[i] /\ i \in 1..Len(q)
  BY <1>0
<1>2. /\ b \in Seq(Hosts) /\ Len(b) = Len(q) - n /\ DOMAIN b = 1..Len(q) - n
      /\ \A i \in 1..Len(q) - n : b[i] = q[n + i] /\ n + i \in 1..Len(q)
  <2>1. b \in Seq(Hosts)
    BY <1>0
  <2>2. Len(b) = Len(q) - n
    <3>1. \A i \in n + 1..Len(q) : q[i] \in Hosts
      BY <1>0
    <3>2. Len(b) = IF n + 1 <= Len(q) THEN Len(q) - (n + 1) + 1 ELSE 0
      BY <1>0, <3>1, SubSeqProperties
    <3> HIDE DEF b
    <3>3. ASSUME NEW l \in Nat, l = Len(q) PROVE Len(b) = l - n
      <4>1. n \in 0..l /\ Len(b) = IF n + 1 <= l THEN l - (n + 1) + 1 ELSE 0
        BY <3>2, <3>3
      <4> QED
        BY <4>1
    <3> QED
      BY <1>0, <3>3
  <2>3. ASSUME NEW i \in 1..Len(q) - n PROVE b[i] = q[n + i] /\ n + i \in 1..Len(q)
    <3>1. i \in 1..((Len(q) + 1) - (n + 1)) /\ (n + 1) + i - 1 = n + i
      BY <1>0
    <3> QED
      BY <1>0, <3>1
  <2> QED
    BY <2>1, <2>2, <2>3
<1>3. \A i, j \in 1..Len(q) : q[i] = q[j] => i = j
  BY <1>0 DEF IsInjective
<1> HIDE DEF a, b
<1>4. ToSet(a) = {q[i] : i \in 1..n}
  BY <1>1 DEF ToSet
<1>5. ToSet(b) = {q[n + i] : i \in 1..Len(q) - n}
  BY <1>2 DEF ToSet
<1>6. ToSet(q) = {q[i] : i \in 1..Len(q)}
  BY <1>0 DEF ToSet
<1>7. IsInjective(b)
  <2> SUFFICES ASSUME NEW i \in 1..Len(q) - n, NEW j \in 1..Len(q) - n, b[i] = b[j]
               PROVE  i = j
    BY <1>2 DEF IsInjective
  <2>1. n + i = n + j
    BY <1>2, <1>3
  <2> QED
    BY <1>0, <2>1
<1>8. ToSet(b) = ToSet(q) \ ToSet(a)
  <2>1. \A i \in 1..Len(q) : i \in 1..n \/ (i - n \in 1..Len(q) - n /\ n + (i - n) = i)
    BY <1>0
  <2>2. \A i \in 1..Len(q) - n, j \in 1..n : n + i # j /\ n + i \in 1..Len(q) /\ j \in 1..Len(q)
    BY <1>0
  <2>3. ToSet(q) \ ToSet(a) \subseteq ToSet(b)
    BY <1>4, <1>5, <1>6, <2>1
  <2>4. ToSet(b) \subseteq ToSet(q) \ ToSet(a)
    BY <1>3, <1>4, <1>5, <1>6, <2>2
  <2> QED
    BY <2>3, <2>4
<1>9. IsFiniteSet(ToSet(a)) /\ Cardinality(ToSet(a)) = n
  <2>1. a \in Bijection(1..n, ToSet(a))
    <3>1. a \in [1..n -> ToSet(a)]
      BY <1>1, <1>4
    <3>2. \A i, j \in 1..n : a[i] = a[j] => i = j
      BY <1>1, <1>3
    <3>3. \A y \in ToSet(a) : \E i \in 1..n : a[i] = y
      BY <1>1, <1>4
    <3> QED
      BY <3>1, <3>2, <3>3 DEF Bijection, Injection, Surjection, IsInjective
  <2>2. ExistsBijection(1..n, ToSet(a))
    BY <2>1 DEF ExistsBijection
  <2>3. IsFiniteSet(1..n)
    BY <1>0, FS_Interval
  <2> QED
    BY <1>0, <2>2, <2>3, FS_CountingElements, FS_Bijection
<1>10. ToSet(a) \subseteq ToSet(q) /\ (n = Len(q) => ToSet(a) = ToSet(q))
  BY <1>1, <1>4, <1>6
<1> QED
  BY <1>2, <1>7, <1>8, <1>9, <1>10 DEF a, b

-----------------------------------------------------------------------------
(* Types and the in-flight table.                                          *)

\* Every step keeps the types.
LEMMA TypeStep == ASSUME IInv, [Next]_vars PROVE TypeOK'
<1> USE DEF IInv
<1>d. Pcs = {"new", "join", "clone", "wait", "reread", "unhook", "direct", "touch",
             "inner", "write", "list", "expire", "evict", "remove", "notify", "done",
             "dropped", "lost"}
  BY DEF Pcs
<1>1. ASSUME NEW t \in Tasks, NEW x \in Hosts, Resolve(t, x) PROVE TypeOK'
  <2>1. pc' \in [Tasks -> Pcs]
    BY <1>1, <1>d DEF TypeOK, Resolve, ReadCache, Go
  <2> QED
    BY <1>1, <2>1 DEF TypeOK, Resolve, flushing
<1>2. ASSUME NEW t \in Tasks, TouchOrder(t) \/ List(t) PROVE TypeOK'
  <2>1. pc' \in [Tasks -> Pcs] /\ host[t] \in Hosts
    BY <1>2, <1>d DEF TypeOK, Tabled, TouchOrder, List, Go
  <2>2. order' \in Seq(Hosts) /\ IsInjective(order')
    BY <1>2, <2>1, TouchedFacts DEF TouchOrder, List
  <2> QED
    BY <1>2, <2>1, <2>2 DEF TypeOK, TouchOrder, List, flushing
<1>3. ASSUME NEW t \in Tasks, Join(t) PROVE TypeOK'
  <2>1. pc' \in [Tasks -> Pcs] /\ host[t] \in Hosts
    BY <1>3, <1>d DEF TypeOK, Tabled, Join, Go
  <2>2. inflight' \in [Hosts -> Tasks \cup {None}] /\ lead' \in [Tasks -> Tasks \cup {None}]
    BY <1>3, <2>1 DEF TypeOK, Join
  <2> QED
    BY <1>3, <2>1, <2>2 DEF TypeOK, Join, flushing
<1>4. ASSUME NEW t \in Tasks, Notified(t) \/ Timeout(t) \/ Reread(t) \/ Direct(t) PROVE TypeOK'
  <2>1. pc' \in [Tasks -> Pcs]
    BY <1>4, <1>d DEF TypeOK, Notified, Timeout, Reread, ReadCache, Direct, Go
  <2> QED
    BY <1>4, <2>1 DEF TypeOK, Notified, Timeout, Reread, Direct, flushing
<1>5. ASSUME NEW t \in Tasks, Unhook(t) \/ RemoveInflight(t) PROVE TypeOK'
  <2>1. pc' \in [Tasks -> Pcs]
    BY <1>5, <1>d DEF TypeOK, Unhook, RemoveInflight, Go
  <2>2. inflight' \in [Hosts -> Tasks \cup {None}]
    BY <1>5 DEF TypeOK, Unhook, RemoveInflight
  <2> QED
    BY <1>5, <2>1, <2>2 DEF TypeOK, Unhook, RemoveInflight, flushing
<1>6. ASSUME NEW t \in Tasks, InnerResolve(t) PROVE TypeOK'
  <2>1. pc' \in [Tasks -> Pcs]
    BY <1>6, <1>d DEF TypeOK, InnerResolve, Go
  <2>2. ans' \in [Tasks -> Answers \cup {None}]
    BY <1>6 DEF TypeOK, InnerResolve
  <2> QED
    BY <1>6, <2>1, <2>2 DEF TypeOK, InnerResolve, flushing
<1>7. ASSUME NEW t \in Tasks, WriteCache(t) \/ EvictExpired(t) PROVE TypeOK'
  <2>1. pc' \in [Tasks -> Pcs]
    BY <1>7, <1>d DEF TypeOK, WriteCache, EvictExpired, Go
  <2>2. cache' \in [Hosts -> {"live", "expired", None}]
    BY <1>7 DEF TypeOK, WriteCache, EvictExpired
  <2> QED
    BY <1>7, <2>1, <2>2 DEF TypeOK, WriteCache, EvictExpired, flushing
<1>8. ASSUME NEW t \in Tasks, EvictOldest(t) PROVE TypeOK'
  <2> DEFINE kept == Keep(order, Cached)
             n == Excess(kept)
  <2>1. pc' \in [Tasks -> Pcs]
    BY <1>8, <1>d DEF TypeOK, EvictOldest, Go
  <2>2. kept \in Seq(Hosts) /\ IsInjective(kept)
    BY KeepFacts DEF TypeOK
  <2>3. n \in 0..Len(kept)
    BY <2>2, Countable, DnsAssumption DEF Excess
  <2>4. order' = SubSeq(kept, n + 1, Len(kept))
    BY <1>8 DEF EvictOldest
  <2>5. order' \in Seq(Hosts) /\ IsInjective(order')
    <3> HIDE DEF kept, n
    <3> QED
      BY <2>2, <2>3, <2>4, CutFacts
  <2>6. cache' \in [Hosts -> {"live", "expired", None}]
    BY <1>8 DEF TypeOK, EvictOldest
  <2>7. UNCHANGED <<inflight, host, lead, late, ans, flush, flushes, orphaned>>
    BY <1>8 DEF EvictOldest, flushing
  <2> QED
    BY <2>1, <2>5, <2>6, <2>7 DEF TypeOK
<1>9. ASSUME NEW t \in Tasks, NotifyWaiters(t) \/ Cancel(t) PROVE TypeOK'
  <2>1. pc' \in [Tasks -> Pcs]
    BY <1>9, <1>d DEF TypeOK, NotifyWaiters, Cancel
  <2> QED
    BY <1>9, <2>1 DEF TypeOK, NotifyWaiters, Cancel, flushing
<1>10. CASE ClearCache \/ ClearInflight \/ \E x \in Hosts : Expire(x)
  <2>1. flushes' \in 0..MaxFlush
    BY <1>10, DnsAssumption DEF TypeOK, ClearCache, ClearInflight, Expire, flushing
  <2> QED
    BY <1>10, <2>1 DEF TypeOK, ClearCache, ClearInflight, Expire, calls, flushing
<1>11. CASE ClearOrder
  <2>1. order' \in Seq(Hosts) /\ IsInjective(order')
    BY <1>11 DEF ClearOrder, IsInjective
  <2>2. orphaned' \in BOOLEAN
    BY <1>11 DEF ClearOrder
  <2> QED
    BY <1>11, <2>1, <2>2 DEF TypeOK, ClearOrder, calls
<1>12. CASE UNCHANGED vars
  BY <1>12 DEF TypeOK, vars, calls, flushing
<1> QED
  BY <1>1, <1>2, <1>3, <1>4, <1>5, <1>6, <1>7, <1>8, <1>9, <1>10, <1>11, <1>12
  DEF Next, Step

\* A step of a call that leaves table and hosts alone and makes no leader.
LEMMA QuietCall ==
  ASSUME IInv, UNCHANGED <<host, inflight, flushing>>, late \subseteq late',
         \A u \in Tasks : /\ pc'[u] = "new" <=> pc[u] = "new"
                          /\ pc'[u] \in Led => pc[u] \in Led
                          /\ pc'[u] = "unhook" => u \in late'
                          /\ u \in late' \ late => pc'[u] # "new"
  PROVE  Tabled'
<1>1. \A u \in Tasks : Excused(host[u]) => Excused(host[u])'
  BY DEF IInv, TypeOK, Excused, flushing
<1> QED
  BY <1>1 DEF IInv, Tabled, Excused, flushing

\* Every step keeps leaders in the table, or excused.
LEMMA TabledStep == ASSUME IInv, [Next]_vars PROVE Tabled'
<1> USE DEF IInv
<1>d. Pcs = {"new", "join", "clone", "wait", "reread", "unhook", "direct", "touch",
             "inner", "write", "list", "expire", "evict", "remove", "notify", "done",
             "dropped", "lost"}
  BY DEF Pcs
<1>f. flushes \in Nat
  BY DEF TypeOK
<1>1. ASSUME NEW t \in Tasks, NEW x \in Hosts, Resolve(t, x) PROVE Tabled'
  <2>1. /\ pc[t] = "new" /\ pc'[t] \in {"touch", "join"} /\ t \notin late
        /\ host'[t] = x /\ \A u \in Tasks : u # t => pc'[u] = pc[u] /\ host'[u] = host[u]
    BY <1>1 DEF Resolve, ReadCache, Go, TypeOK, Tabled
  <2>2. UNCHANGED <<inflight, late, flush, flushes>>
    BY <1>1 DEF Resolve, flushing
  <2>3. ASSUME NEW u \in Tasks, pc'[u] \in Led
        PROVE  (inflight[host[u]] = u \/ Excused(host[u]))'
    <3>1. u # t
      BY <2>1, <2>3 DEF Led
    <3>2. inflight[host[u]] = u \/ Excused(host[u])
      BY <2>1, <2>3, <3>1 DEF Tabled
    <3>3. host'[u] = host[u]
      BY <2>1, <3>1
    <3>4. Excused(host[u]) => (Excused(host[u]))'
      BY <2>1, <2>2, <3>3 DEF Excused, TypeOK
    <3> QED
      BY <2>2, <3>2, <3>3, <3>4
  <2> QED
    BY <2>1, <2>2, <2>3 DEF Tabled
<1>2. ASSUME NEW t \in Tasks,
             \/ TouchOrder(t) \/ Notified(t) \/ Timeout(t) \/ Reread(t) \/ Direct(t)
             \/ InnerResolve(t) \/ WriteCache(t) \/ List(t) \/ EvictExpired(t)
             \/ EvictOldest(t)
      PROVE  Tabled'
  <2>1. UNCHANGED <<host, inflight, flushing>> /\ late \subseteq late'
    BY <1>2 DEF TouchOrder, Notified, Timeout, Reread, Direct, InnerResolve, WriteCache,
                List, EvictExpired, EvictOldest
  <2>2. /\ pc[t] # "new" /\ pc'[t] # "new"
        /\ pc'[t] \in Led => pc[t] \in Led
        /\ pc'[t] = "unhook" => t \in late'
        /\ \A u \in Tasks : u # t => pc'[u] = pc[u] /\ (u \in late' => u \in late)
    BY <1>2 DEF TouchOrder, Notified, Timeout, Reread, ReadCache, Direct, InnerResolve,
                WriteCache, List, EvictExpired, EvictOldest, Go, TypeOK, Led
  <2> QED
    BY <2>1, <2>2, QuietCall DEF Tabled
<1>3. ASSUME NEW t \in Tasks, Join(t) PROVE Tabled'
  <2>1. /\ pc[t] = "join" /\ host[t] \in Hosts /\ UNCHANGED <<host, late, flush, flushes>>
        /\ \A u \in Tasks : u # t => pc'[u] = pc[u]
    BY <1>3 DEF Join, Go, TypeOK, Tabled, flushing
  <2>2. \A u \in Tasks : Excused(host[u]) => Excused(host[u])'
    BY <2>1 DEF Excused
  <2>3. CASE inflight[host[t]] = None
    <3>1. pc'[t] = "inner" /\ inflight' = [inflight EXCEPT ![host[t]] = t]
      BY <1>3, <2>3 DEF Join, Go, TypeOK
    <3>2. ASSUME NEW u \in Tasks, pc'[u] \in Led
          PROVE  inflight'[host[u]] = u \/ Excused(host[u])'
      <4>1. CASE u = t
        BY <2>1, <3>1, <4>1 DEF TypeOK
      <4>2. CASE u # t
        <5>1. host[u] \in Hosts /\ (inflight[host[u]] = u \/ Excused(host[u])) /\ u # None
          BY <2>1, <3>2, <4>2, DnsAssumption DEF Tabled, Led
        <5> QED
          BY <2>2, <2>3, <3>1, <5>1 DEF TypeOK
      <4> QED
        BY <4>1, <4>2
    <3> QED
      BY <2>1, <3>1, <3>2 DEF Tabled
  <2>4. CASE inflight[host[t]] # None
    <3>1. pc'[t] = "clone" /\ UNCHANGED inflight
      BY <1>3, <2>4 DEF Join, Go, TypeOK
    <3> QED
      BY <2>1, <2>2, <3>1 DEF Tabled, Led
  <2> QED
    BY <2>3, <2>4
<1>4. ASSUME NEW t \in Tasks, Unhook(t) \/ RemoveInflight(t) PROVE Tabled'
  <2>1. /\ pc[t] \in {"unhook", "remove"} /\ pc'[t] \in {"direct", "notify"}
        /\ host[t] \in Hosts /\ UNCHANGED <<host, late, flush, flushes>>
        /\ \A u \in Tasks : u # t => pc'[u] = pc[u]
        /\ \A x \in Hosts : x # host[t] => inflight'[x] = inflight[x]
    BY <1>4 DEF Unhook, RemoveInflight, Go, TypeOK, Tabled, flushing
  <2>2. \A u \in Tasks : Excused(host[u]) => Excused(host[u])'
    BY <2>1 DEF Excused
  <2>3. ASSUME NEW u \in Tasks, u # t, pc[u] \in Led, host[u] = host[t]
        PROVE  Excused(host[u]) \/ inflight'[host[u]] = u
    <3>1. CASE pc[t] = "unhook"
      BY <2>1, <2>3, <3>1 DEF Tabled, Excused
    <3>2. CASE pc[t] = "remove"
      BY <2>3, <3>2 DEF Tabled, Led
    <3> QED
      BY <2>1, <3>1, <3>2
  <2>4. ASSUME NEW u \in Tasks, pc'[u] \in Led
        PROVE  inflight'[host[u]] = u \/ Excused(host[u])'
    <3>1. u # t /\ pc[u] \in Led /\ host[u] \in Hosts
      BY <2>1, <2>4 DEF Led, Tabled
    <3>2. CASE host[u] = host[t]
      BY <2>2, <2>3, <3>1, <3>2
    <3>3. CASE host[u] # host[t]
      BY <2>1, <2>2, <3>1, <3>3 DEF Tabled
    <3> QED
      BY <3>2, <3>3
  <2> QED
    BY <2>1, <2>4 DEF Tabled
<1>5. ASSUME NEW t \in Tasks, NotifyWaiters(t) PROVE Tabled'
  <2>1. UNCHANGED <<host, inflight, flushing>> /\ late \subseteq late' /\ late' \subseteq late
    BY <1>5 DEF NotifyWaiters
  <2>2. \A u \in Tasks : \/ pc'[u] = pc[u]
                         \/ pc[u] \in {"notify", "wait"} /\ pc'[u] \in {"done", "reread"}
    BY <1>5 DEF NotifyWaiters
  <2> QED
    BY <2>1, <2>2, QuietCall DEF Led, Tabled
<1>6. ASSUME NEW t \in Tasks, Cancel(t) PROVE Tabled'
  <2>1. UNCHANGED <<host, inflight, flushing>> /\ late \subseteq late' /\ late' \subseteq late
    BY <1>6 DEF Cancel
  <2>2. \A u \in Tasks : \/ pc'[u] = pc[u]
                         \/ pc[u] # "new" /\ pc'[u] \in {"lost", "dropped"}
    BY <1>6 DEF Cancel, TypeOK
  <2> QED
    BY <2>1, <2>2, QuietCall DEF Led, Tabled
<1>7. CASE ClearCache \/ ClearOrder \/ ClearInflight
  <2>1. /\ flushes' \in Nat /\ flushes' > 0 /\ UNCHANGED calls
    BY <1>7, <1>f DEF ClearCache, ClearOrder, ClearInflight, Tabled
  <2> QED
    BY <2>1 DEF Tabled, Excused, calls
<1>8. ASSUME NEW x \in Hosts, Expire(x) PROVE Tabled'
  BY <1>8 DEF Expire, Tabled, Excused, calls, flushing
<1>9. CASE UNCHANGED vars
  BY <1>9 DEF vars, Tabled, Excused, calls, flushing
<1> QED
  BY <1>1, <1>2, <1>3, <1>4, <1>5, <1>6, <1>7, <1>8, <1>9 DEF Next, Step

-----------------------------------------------------------------------------
(* The bound.                                                              *)

\* A step that caches nothing, unlists nothing and ends no insertion.
LEMMA SizeKept ==
  ASSUME Sized, Cached' \subseteq Cached, ToSet(order) \subseteq ToSet(order'),
         Unlisted \subseteq Unlisted', Inserting \subseteq Inserting',
         \A t \in Unlisted : host'[t] = host[t]
  PROVE  Sized'
<1>1. Findable'
  BY DEF Sized, Findable
<1>2. Cardinality(Cached') <= Cardinality(Cached)
  BY Countable, FS_Subset
<1>3. Cardinality(Inserting) <= Cardinality(Inserting')
  BY CountableNext, FS_Subset
<1>4. MaxEntries \in Nat
  BY DnsAssumption
<1> QED
  BY <1>1, <1>2, <1>3, <1>4, Countable, CountableNext DEF Sized

\* insert: one entry more, and one leader on its way to evict_if_needed.
LEMMA WriteSize == ASSUME IInv, Sized, NEW t \in Tasks, WriteCache(t) PROVE Sized'
<1> USE DEF IInv
<1>1. /\ pc[t] = "write" /\ pc'[t] = "list" /\ host[t] \in Hosts /\ UNCHANGED <<order, host>>
      /\ \A u \in Tasks : u # t => pc'[u] = pc[u]
      /\ \A x \in Hosts : x # host[t] => cache'[x] = cache[x]
  BY DEF WriteCache, Go, TypeOK, Tabled
<1>2. Cached' \subseteq Cached \cup {host[t]}
  BY <1>1 DEF Cached
<1>3. Inserting' = Inserting \cup {t} /\ t \notin Inserting
  BY <1>1 DEF Inserting
<1>4. Unlisted' = Unlisted \cup {t}
  BY <1>1 DEF Unlisted
<1>5. Findable'
  <2> SUFFICES ASSUME NEW x \in Cached'
               PROVE  x \in ToSet(order') \/ \E u \in Unlisted' : host'[u] = x
    BY DEF Findable
  <2> QED
    BY <1>1, <1>2, <1>4 DEF Sized, Findable
<1>6. Cardinality(Cached') <= Cardinality(Cached) + 1
  <2>1. IsFiniteSet(Cached \cup {host[t]})
        /\ Cardinality(Cached \cup {host[t]}) <= Cardinality(Cached) + 1
    <3>1. CASE host[t] \in Cached
      <4>1. Cached \cup {host[t]} = Cached
        BY <3>1
      <4>2. Cardinality(Cached) \in Nat /\ Cardinality(Cached) <= Cardinality(Cached) + 1
        BY Countable
      <4>3. IsFiniteSet(Cached)
        BY Countable
      <4> QED
        BY <4>1, <4>2, <4>3, Zenon
    <3>2. CASE host[t] \notin Cached
      BY <3>2, Countable, FS_AddElement
    <3> QED
      BY <3>1, <3>2
  <2>2. /\ Cardinality(Cached') <= Cardinality(Cached \cup {host[t]})
        /\ Cardinality(Cached \cup {host[t]}) \in Nat
    BY <1>2, <2>1, FS_Subset, FS_CardinalityType
  <2> QED
    BY <2>1, <2>2, Countable, CountableNext
<1>7. Cardinality(Inserting') = Cardinality(Inserting) + 1
  BY <1>3, Countable, FS_AddElement
<1>8. MaxEntries \in Nat
  BY DnsAssumption
<1> QED
  BY <1>5, <1>6, <1>7, <1>8, Countable, CountableNext DEF Sized

\* evict_if_needed: what the order cannot give up is not listed, and every
\* such entry has a leader of its own that is counted.
LEMMA EvictSize == ASSUME IInv, Sized, NEW t \in Tasks, EvictOldest(t) PROVE Sized'
<1> USE DEF IInv
<1> DEFINE kept == Keep(order, Cached)
           n == Excess(kept)
           gone == ToSet(SubSeq(kept, 1, n))
<1>1. /\ pc[t] = "evict" /\ pc'[t] = "remove" /\ UNCHANGED host
      /\ \A u \in Tasks : u # t => pc'[u] = pc[u]
      /\ order' = SubSeq(kept, n + 1, Len(kept))
      /\ cache' = [x \in Hosts |-> IF x \in gone THEN None ELSE cache[x]]
  BY DEF EvictOldest, Go, TypeOK
<1>2. kept \in Seq(Hosts) /\ IsInjective(kept) /\ ToSet(kept) = ToSet(order) \cap Cached
  BY KeepFacts DEF TypeOK
<1>3. n \in 0..Len(kept)
  BY <1>2, Countable, DnsAssumption DEF Excess
<1>4. /\ ToSet(order') = ToSet(kept) \ gone /\ gone \subseteq ToSet(kept)
      /\ IsFiniteSet(gone) /\ Cardinality(gone) = n
      /\ n = Len(kept) => gone = ToSet(kept)
  <2> HIDE DEF kept, n
  <2> QED
    BY <1>1, <1>2, <1>3, CutFacts
<1>5. Cached' = Cached \ gone
  BY <1>1 DEF Cached
<1>6. Unlisted' = Unlisted /\ Unlisted' \subseteq Inserting'
  BY <1>1 DEF Unlisted, Inserting
<1>7. Findable'
  <2> SUFFICES ASSUME NEW x \in Cached'
               PROVE  x \in ToSet(order') \/ \E u \in Unlisted' : host'[u] = x
    BY DEF Findable
  <2> HIDE DEF kept, n, gone
  <2> QED
    BY <1>1, <1>2, <1>4, <1>5, <1>6 DEF Sized, Findable
<1>8. Cardinality(Cached') = Cardinality(Cached) - n
  <2>1. Cached \cap gone = gone
    BY <1>2, <1>4
  <2>2. Cardinality(Cached \ gone) = Cardinality(Cached) - Cardinality(Cached \cap gone)
    BY Countable, FS_Difference
  <2> QED
    BY <1>4, <1>5, <2>1, <2>2
<1>9. n \in Nat /\ MaxEntries \in Nat /\ Len(kept) \in Nat
  BY <1>2, <1>3, DnsAssumption
<1>10. CASE Cardinality(Cached) - MaxEntries <= 0 \/ Cardinality(Cached) - MaxEntries < Len(kept)
  <2>1. Cardinality(Cached') <= MaxEntries
    <3>1. CASE Cardinality(Cached) - MaxEntries <= 0
      BY <1>8, <1>9, <3>1, Countable
    <3>2. CASE ~(Cardinality(Cached) - MaxEntries <= 0)
      <4>1. n = Cardinality(Cached) - MaxEntries
        BY <1>10, <3>2 DEF Excess
      <4> QED
        BY <1>8, <1>9, <4>1, Countable
    <3> QED
      BY <3>1, <3>2
  <2> QED
    BY <1>7, <1>9, <2>1, CountableNext DEF Sized
<1>11. CASE ~(Cardinality(Cached) - MaxEntries <= 0 \/ Cardinality(Cached) - MaxEntries < Len(kept))
  <2>1. n = Len(kept)
    BY <1>11 DEF Excess
  <2>2. \A x \in Cached' : \E u \in Unlisted : host[u] = x
    <3> HIDE DEF kept, n, gone
    <3> QED
      BY <1>2, <1>4, <1>5, <2>1 DEF Sized, Findable
  <2> DEFINE W == {u \in Unlisted : host[u] \in Cached'}
             f == [u \in W |-> host[u]]
  <2>3. f \in Surjection(W, Cached')
    BY <2>2 DEF Surjection
  <2>4. W \subseteq Inserting'
    BY <1>6
  <2>5. IsFiniteSet(W) /\ Cardinality(W) <= Cardinality(Inserting') /\ Cardinality(W) \in Nat
    BY <2>4, CountableNext, FS_Subset, FS_CardinalityType
  <2>6. Cardinality(Cached') <= Cardinality(W)
    <3> HIDE DEF W, f
    <3> QED
      BY <2>3, <2>5, FS_Surjection
  <2> QED
    BY <1>7, <1>9, <2>5, <2>6, CountableNext DEF Sized
<1> QED
  BY <1>10, <1>11

\* Every step that orphans no entry keeps the bound.
LEMMA SizeStep == ASSUME IInv, [Next]_vars PROVE orphaned' \/ Sized'
<1> USE DEF IInv
<1>0. SUFFICES ASSUME ~orphaned' PROVE Sized'
  OBVIOUS
<1>s. Sized
  <2>1. ~orphaned
    BY <1>0 DEF Next, Step, Resolve, TouchOrder, Join, Notified, Timeout, Reread, Unhook, Direct,
                InnerResolve, WriteCache, List, EvictExpired, EvictOldest, RemoveInflight,
                NotifyWaiters, Cancel, ClearCache, ClearOrder, ClearInflight, Expire, vars,
                flushing
  <2> QED
    BY <2>1
<1>1. ASSUME NEW t \in Tasks, NEW x \in Hosts, Resolve(t, x) PROVE Sized'
  <2>1. UNCHANGED <<cache, order>>
    BY <1>1 DEF Resolve
  <2>2. /\ Unlisted \subseteq Unlisted' /\ Inserting \subseteq Inserting'
        /\ \A u \in Unlisted : host'[u] = host[u]
    BY <1>1 DEF Resolve, ReadCache, Go, TypeOK, Unlisted, Inserting
  <2> QED
    BY <1>s, <2>1, <2>2, SizeKept DEF Cached
<1>2. ASSUME NEW t \in Tasks, TouchOrder(t) PROVE Sized'
  <2>1. host[t] \in Hosts /\ UNCHANGED <<cache, host>> /\ order' = Touched(host[t])
    BY <1>2 DEF TouchOrder, Go, Tabled
  <2>2. Unlisted \subseteq Unlisted' /\ Inserting \subseteq Inserting'
    BY <1>2 DEF TouchOrder, Go, TypeOK, Unlisted, Inserting
  <2>3. ToSet(order) \subseteq ToSet(order')
    BY <2>1, TouchedFacts
  <2> QED
    BY <1>s, <2>1, <2>2, <2>3, SizeKept DEF Cached
<1>3. ASSUME NEW t \in Tasks,
             \/ Join(t) \/ Notified(t) \/ Timeout(t) \/ Reread(t) \/ Unhook(t) \/ Direct(t)
             \/ InnerResolve(t) \/ EvictExpired(t) \/ RemoveInflight(t)
      PROVE  Sized'
  <2>1. UNCHANGED <<order, host>>
    BY <1>3 DEF Join, Notified, Timeout, Reread, Unhook, Direct, InnerResolve, EvictExpired,
                RemoveInflight
  <2>2. Cached' \subseteq Cached
    BY <1>3, DnsAssumption
       DEF Join, Notified, Timeout, Reread, Unhook, Direct, InnerResolve, EvictExpired,
           RemoveInflight, Cached, Hit
  <2>3. Unlisted \subseteq Unlisted' /\ Inserting \subseteq Inserting'
    BY <1>3 DEF Join, Notified, Timeout, Reread, ReadCache, Unhook, Direct, InnerResolve,
                EvictExpired, RemoveInflight, Go, TypeOK, Unlisted, Inserting
  <2> QED
    BY <1>s, <2>1, <2>2, <2>3, SizeKept
<1>4. ASSUME NEW t \in Tasks, WriteCache(t) PROVE Sized'
  BY <1>s, <1>4, WriteSize
<1>5. ASSUME NEW t \in Tasks, List(t) PROVE Sized'
  <2>1. /\ host[t] \in Hosts /\ UNCHANGED <<cache, host>> /\ order' = Touched(host[t])
        /\ pc[t] = "list" /\ pc'[t] = "expire" /\ \A u \in Tasks : u # t => pc'[u] = pc[u]
    BY <1>5 DEF List, Go, TypeOK, Tabled
  <2>2. ToSet(order') = ToSet(order) \cup {host[t]}
    BY <2>1, TouchedFacts
  <2>3. Cached' = Cached /\ Inserting' = Inserting /\ Unlisted \subseteq Unlisted' \cup {t}
    BY <2>1 DEF Cached, Inserting, Unlisted
  <2>4. Findable'
    <3> SUFFICES ASSUME NEW y \in Cached'
                 PROVE  y \in ToSet(order') \/ \E u \in Unlisted' : host'[u] = y
      BY DEF Findable
    <3> QED
      BY <1>s, <2>1, <2>2, <2>3 DEF Sized, Findable
  <2> QED
    BY <1>s, <2>3, <2>4 DEF Sized
<1>6. ASSUME NEW t \in Tasks, EvictOldest(t) PROVE Sized'
  BY <1>s, <1>6, EvictSize
<1>7. ASSUME NEW t \in Tasks, NotifyWaiters(t) \/ Cancel(t) PROVE Sized'
  <2>1. UNCHANGED <<cache, order, host>>
    BY <1>7 DEF NotifyWaiters, Cancel
  <2>2. Unlisted \subseteq Unlisted' /\ Inserting \subseteq Inserting'
    BY <1>7 DEF NotifyWaiters, Cancel, TypeOK, Unlisted, Inserting
  <2> QED
    BY <1>s, <2>1, <2>2, SizeKept DEF Cached
<1>8. CASE ClearCache \/ ClearInflight \/ \E x \in Hosts : Expire(x)
  <2>1. UNCHANGED <<order, pc, host>>
    BY <1>8 DEF ClearCache, ClearInflight, Expire, calls
  <2>2. Cached' \subseteq Cached
    BY <1>8, DnsAssumption DEF ClearCache, ClearInflight, Expire, Cached, TypeOK
  <2> QED
    BY <1>s, <2>1, <2>2, SizeKept DEF Unlisted, Inserting
<1>9. CASE ClearOrder
  <2>1. /\ UNCHANGED <<cache, pc, host>> /\ Cached' = Cached /\ Unlisted' = Unlisted
        /\ Inserting' = Inserting
    BY <1>9 DEF ClearOrder, calls, Cached, Unlisted, Inserting
  <2>2. \A x \in Cached : x \notin ToSet(order)
    BY <1>0, <1>9 DEF ClearOrder, Cached
  <2>3. Findable'
    BY <1>s, <2>1, <2>2 DEF Sized, Findable
  <2> QED
    BY <1>s, <2>1, <2>3 DEF Sized
<1>10. CASE UNCHANGED vars
  BY <1>s, <1>10, SizeKept DEF vars, calls, Cached, Unlisted, Inserting
<1> QED
  BY <1>1, <1>2, <1>3, <1>4, <1>5, <1>6, <1>7, <1>8, <1>9, <1>10 DEF Next, Step

-----------------------------------------------------------------------------
\* A cache starts empty and nobody asks.
LEMMA InitIInv == Init => IInv
<1> SUFFICES ASSUME Init PROVE IInv
  OBVIOUS
<1>1. TypeOK
  <2>1. order \in Seq(Hosts) /\ IsInjective(order)
    BY DEF Init, IsInjective
  <2>2. orphaned \in BOOLEAN
    BY DEF Init
  <2>3. pc \in [Tasks -> Pcs]
    BY DEF Init, Pcs
  <2> QED
    BY <2>1, <2>2, <2>3, DnsAssumption DEF Init, TypeOK
<1>2. Tabled
  BY DEF Init, Tabled, Led
<1>3. Cached = {}
  BY DEF Init, Cached
<1>4. Findable
  BY <1>3 DEF Findable
<1>5. Cardinality(Cached) <= MaxEntries + Cardinality(Inserting)
  <2>1. Cardinality(Cached) = 0
    BY <1>3, FS_EmptySet
  <2> QED
    BY <2>1, Countable, DnsAssumption
<1> QED
  BY <1>1, <1>2, <1>4, <1>5 DEF IInv, Sized

\* Every step keeps the invariant.
LEMMA NextStep == ASSUME IInv, [Next]_vars PROVE IInv'
BY TypeStep, TabledStep, SizeStep DEF IInv

\* The invariant holds in every reachable state.
THEOREM Invariance == Spec => []IInv
<1>1. Init => IInv
  BY InitIInv
<1>2. IInv /\ [Next]_vars => IInv'
  BY NextStep
<1> QED
  BY <1>1, <1>2, PTL DEF Spec

\* The cache, its order and the calls keep their types; no host is listed
\* twice in the order.
THEOREM TypeCorrect == Spec => []TypeOK
<1>1. IInv => TypeOK
  BY DEF IInv
<1> QED
  BY <1>1, Invariance, PTL

\* The cache holds max_entries and what inserting leaders add, for any number
\* of hosts, calls and flushes, unless a flush orphaned an entry.
THEOREM Bounded == Spec => []CacheBounded
<1>1. IInv => CacheBounded
  BY DEF IInv, Sized, CacheBounded
<1> QED
  BY <1>1, Invariance, PTL

\* No host has two leaders at work, for any number of calls, unless the table
\* was flushed or a follower of that host gave up waiting.
THEOREM OneLeader == Spec => []SingleFlight
<1>1. IInv => SingleFlight
  BY DEF IInv, SingleFlight, Tabled, Leading, Led, Excused
<1> QED
  BY <1>1, Invariance, PTL
=============================================================================

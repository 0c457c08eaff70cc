--------------------------- MODULE DispatchProof ---------------------------
(***************************************************************************)
(* The limiters, the connection tracker and its accounts for any number of *)
(* connections, inbounds, outbounds and bytes, and any interleaving of     *)
(* tasks, control calls and shutdown: no permit leaks and no traffic is    *)
(* archived twice.                                                         *)
(*                                                                         *)
(* The accounts are sums over sets of connections and of outbounds         *)
(* (MapThenSumSet).  What a sum does when a member joins or leaves, or one *)
(* of its terms grows, is shown first, by taking a smallest set for which  *)
(* it would fail.                                                          *)
(***************************************************************************)
EXTENDS Dispatch, TLAPS, FiniteSetTheorems, NaturalsInduction

Sum(f, S) == MapThenSumSet(LAMBDA x : f[x], S)

Pick(s) == CHOOSE x \in s : TRUE

Parts(S, n) == {s \in SUBSET S : Cardinality(s) <= n}

\* g sums f over the members of D, taking one element after the other.
Unfolds(g, f, D) ==
  g = [s \in D |-> IF s = {} THEN 0 ELSE f[Pick(s)] + g[s \ {Pick(s)}]]

\* The function MapThenSumSet evaluates.
Iter(f, S) == CHOOSE g : Unfolds(g, f, SUBSET S)

-----------------------------------------------------------------------------
\* A set of natural numbers that is not empty has a least one.
LEMMA Least ==
  ASSUME NEW T, T \subseteq Nat, T # {}
  PROVE  \E x \in T : \A y \in T : x <= y
<1> DEFINE R == {ss \in Nat \X Nat : ss[1] < ss[2]}
<1>1. IsWellFoundedOn(R, Nat)
  BY NatLessThanWellFounded DEF OpToRel
<1>2. \E x \in T : \A y \in T : ~(<<y, x>> \in R)
  <2> HIDE DEF R
  <2> QED
    BY <1>1, WFMin
<1>3. PICK x \in T : \A y \in T : ~(<<y, x>> \in R)
  BY <1>2
<1>4. ASSUME NEW y \in T PROVE x <= y
  <2>1. x \in Nat /\ y \in Nat
    OBVIOUS
  <2>2. <<y, x>> \notin R
    BY <1>3
  <2> QED
    BY <2>1, <2>2
<1> QED
  BY <1>4

\* What is picked from a set is in it.
LEMMA PickMember == ASSUME NEW s, s # {} PROVE Pick(s) \in s
BY DEF Pick

\* A finite set without one of its members has one fewer.
LEMMA Remove ==
  ASSUME NEW s, IsFiniteSet(s), NEW c \in s
  PROVE  /\ IsFiniteSet(s \ {c}) /\ Cardinality(s \ {c}) = Cardinality(s) - 1
         /\ Cardinality(s) \in Nat \ {0} /\ Cardinality(s \ {c}) \in Nat
BY FS_RemoveElement, FS_CardinalityType, FS_EmptySet

\* One step of the summation.
LEMMA UnfoldsAt ==
  ASSUME NEW g, NEW f, NEW D, Unfolds(g, f, D), NEW s \in D
  PROVE  g[s] = IF s = {} THEN 0 ELSE f[Pick(s)] + g[s \ {Pick(s)}]
BY DEF Unfolds

\* The recursion has a solution on the subsets of a finite set.
LEMMA UnfoldingExists ==
  ASSUME NEW f, NEW S, IsFiniteSet(S), NEW m \in Nat
  PROVE  \E g : Unfolds(g, f, Parts(S, m))
<1> DEFINE T == {n \in Nat : ~ \E g : Unfolds(g, f, Parts(S, n))}
<1>1. SUFFICES ASSUME T # {} PROVE FALSE
  OBVIOUS
<1>2. PICK n \in T : \A y \in T : n <= y
  <2> T \subseteq Nat
    OBVIOUS
  <2> HIDE DEF T
  <2> QED
    BY <1>1, Least
<1>3. n \in Nat /\ ~ \E g : Unfolds(g, f, Parts(S, n))
  OBVIOUS
<1>f. \A s \in SUBSET S : IsFiniteSet(s) /\ Cardinality(s) \in Nat
  BY FS_Subset, FS_CardinalityType
<1>4. CASE n = 0
  <2> DEFINE g == [s \in Parts(S, 0) |-> 0]
  <2>1. \A s \in Parts(S, 0) : s = {}
    BY <1>f, FS_EmptySet DEF Parts
  <2>2. Unfolds(g, f, Parts(S, 0))
    BY <2>1 DEF Unfolds
  <2> QED
    BY <1>3, <1>4, <2>2
<1>5. CASE n # 0
  <2>1. n - 1 \in Nat /\ ~(n <= n - 1)
    BY <1>3, <1>5
  <2>2. n - 1 \notin T
    BY <1>2, <2>1
  <2>3. PICK g : Unfolds(g, f, Parts(S, n - 1))
    BY <2>1, <2>2
  <2> DEFINE h == [s \in Parts(S, n) |->
                     IF s = {} THEN 0 ELSE f[Pick(s)] + g[s \ {Pick(s)}]]
  <2>4. \A t \in Parts(S, n - 1) : t \in Parts(S, n) /\ h[t] = g[t]
    <3>1. SUFFICES ASSUME NEW t \in Parts(S, n - 1)
                   PROVE  t \in Parts(S, n) /\ h[t] = g[t]
      OBVIOUS
    <3>2. t \in Parts(S, n)
      BY <1>f, <1>3, <2>1 DEF Parts
    <3>3. g[t] = IF t = {} THEN 0 ELSE f[Pick(t)] + g[t \ {Pick(t)}]
      BY <2>3, UnfoldsAt
    <3> QED
      BY <3>2, <3>3
  <2>5. ASSUME NEW s \in Parts(S, n), s # {}
        PROVE  s \ {Pick(s)} \in Parts(S, n - 1)
    BY <2>5, <1>f, <1>3, PickMember, Remove DEF Parts
  <2>6. Unfolds(h, f, Parts(S, n))
    BY <2>4, <2>5 DEF Unfolds
  <2> QED
    BY <1>3, <2>6
<1> QED
  BY <1>4, <1>5

\* A sum is the value of that solution.
LEMMA SumIter ==
  ASSUME NEW f, NEW S, IsFiniteSet(S)
  PROVE  Sum(f, S) = Iter(f, S)[S] /\ Unfolds(Iter(f, S), f, SUBSET S)
<1>1. Sum(f, S) = Iter(f, S)[S]
  BY DEF Sum, Iter, Unfolds, MapThenSumSet, MapThenFoldSet, Pick
<1>2. \E g : Unfolds(g, f, SUBSET S)
  <2>1. Cardinality(S) \in Nat
    BY FS_CardinalityType
  <2>2. Parts(S, Cardinality(S)) = SUBSET S
    BY FS_Subset DEF Parts
  <2>3. \E g : Unfolds(g, f, Parts(S, Cardinality(S)))
    BY <2>1, UnfoldingExists
  <2> QED
    BY <2>2, <2>3
<1> QED
  BY <1>1, <1>2 DEF Iter

\* Sums of natural numbers are natural.
LEMMA IterNat ==
  ASSUME NEW f, NEW S, IsFiniteSet(S), \A x \in S : f[x] \in Nat,
         NEW s \in SUBSET S
  PROVE  Iter(f, S)[s] \in Nat
<1> DEFINE g == Iter(f, S)
           T == {n \in Nat : \E t \in SUBSET S : Cardinality(t) = n /\ g[t] \notin Nat}
<1>1. Unfolds(g, f, SUBSET S)
  BY SumIter
<1>f. \A t \in SUBSET S : IsFiniteSet(t) /\ Cardinality(t) \in Nat
  BY FS_Subset, FS_CardinalityType
<1> HIDE DEF g
<1>2. CASE T = {}
  BY <1>2, <1>f DEF g
<1>3. CASE T # {}
  <2>1. PICK n \in T : \A y \in T : n <= y
    <3> T \subseteq Nat
      OBVIOUS
    <3> HIDE DEF T
    <3> QED
      BY <1>3, Least
  <2>2. PICK t \in SUBSET S : Cardinality(t) = n /\ g[t] \notin Nat
    BY <2>1
  <2>3. t # {}
    BY <1>1, <2>2, UnfoldsAt
  <2> DEFINE u == t \ {Pick(t)}
  <2>4. Pick(t) \in t
    BY <2>3, PickMember
  <2>5. u \in SUBSET S /\ Cardinality(u) = n - 1 /\ n \in Nat /\ n - 1 \in Nat
    BY <2>2, <2>4, <1>f, Remove
  <2>6. g[u] \in Nat
    <3> HIDE DEF u
    <3> QED
      BY <2>1, <2>5
  <2>7. g[t] = f[Pick(t)] + g[u]
    BY <1>1, <2>3, UnfoldsAt
  <2> HIDE DEF u
  <2> QED
    BY <2>2, <2>4, <2>6, <2>7
<1> QED
  BY <1>2, <1>3

\* The order in which elements are picked does not matter.
LEMMA IterSplit ==
  ASSUME NEW f, NEW S, IsFiniteSet(S), \A x \in S : f[x] \in Nat,
         NEW s \in SUBSET S, NEW c \in s
  PROVE  Iter(f, S)[s] = f[c] + Iter(f, S)[s \ {c}]
<1> DEFINE g == Iter(f, S)
           Bad(t) == \E d \in t : g[t] # f[d] + g[t \ {d}]
           T == {n \in Nat : \E t \in SUBSET S : Cardinality(t) = n /\ Bad(t)}
<1>1. Unfolds(g, f, SUBSET S)
  BY SumIter
<1>2. \A t \in SUBSET S : g[t] \in Nat
  BY IterNat
<1>f. \A t \in SUBSET S : IsFiniteSet(t) /\ Cardinality(t) \in Nat
  BY FS_Subset, FS_CardinalityType
<1> HIDE DEF g
<1>3. CASE T = {}
  BY <1>3, <1>f DEF g
<1>4. CASE T # {}
  <2>1. PICK n \in T : \A y \in T : n <= y
    <3> T \subseteq Nat
      OBVIOUS
    <3> HIDE DEF T
    <3> QED
      BY <1>4, Least
  <2>2. PICK t \in SUBSET S : Cardinality(t) = n /\ Bad(t)
    BY <2>1
  <2>3. PICK d \in t : g[t] # f[d] + g[t \ {d}]
    BY <2>2
  <2> DEFINE x == Pick(t)
  <2>4. x \in t /\ g[t] = f[x] + g[t \ {x}]
    BY <1>1, PickMember, UnfoldsAt
  <2> HIDE DEF x
  <2>5. x # d
    BY <2>3, <2>4
  <2>6. \A e \in t : /\ t \ {e} \in SUBSET S /\ Cardinality(t \ {e}) = n - 1
                     /\ n \in Nat /\ n - 1 \in Nat
    BY <2>2, <1>f, Remove
  <2>7. \A e \in t : ~Bad(t \ {e})
    <3> SUFFICES ASSUME NEW e \in t, Bad(t \ {e}) PROVE FALSE
      OBVIOUS
    <3>1. n - 1 \in T
      BY <2>6
    <3>2. n \in Nat
      BY <2>6
    <3> HIDE DEF T, Bad
    <3> QED
      BY <3>1, <3>2, <2>1
  <2>8. g[t \ {x}] = f[d] + g[(t \ {x}) \ {d}]
    BY <2>4, <2>5, <2>7
  <2>9. g[t \ {d}] = f[x] + g[(t \ {d}) \ {x}]
    BY <2>4, <2>5, <2>7
  <2>10. (t \ {d}) \ {x} = (t \ {x}) \ {d} /\ (t \ {x}) \ {d} \in SUBSET S
    OBVIOUS
  <2>11. f[x] \in Nat /\ f[d] \in Nat /\ g[(t \ {x}) \ {d}] \in Nat
    BY <2>4, <2>10, <1>2
  <2> QED
    <3> DEFINE r == g[(t \ {x}) \ {d}]
    <3>1. g[t] = f[x] + (f[d] + r)
      BY <2>4, <2>8
    <3>2. f[d] + g[t \ {d}] = f[d] + (f[x] + r)
      BY <2>9, <2>10
    <3>3. f[x] + (f[d] + r) = f[d] + (f[x] + r)
      BY <2>11
    <3> QED
      BY <2>3, <3>1, <3>2, <3>3
<1> QED
  BY <1>3, <1>4

\* Only the elements that are summed matter.
LEMMA IterSame ==
  ASSUME NEW f, NEW h, NEW S, NEW U, IsFiniteSet(S), IsFiniteSet(U),
         NEW s \in SUBSET S, s \subseteq U, \A x \in s : f[x] = h[x]
  PROVE  Iter(f, S)[s] = Iter(h, U)[s]
<1> DEFINE a == Iter(f, S)
           b == Iter(h, U)
           T == {n \in Nat : \E t \in SUBSET s : Cardinality(t) = n /\ a[t] # b[t]}
<1>1. Unfolds(a, f, SUBSET S)
  BY SumIter
<1>4. Unfolds(b, h, SUBSET U)
  BY SumIter
<1>f. \A t \in SUBSET s : IsFiniteSet(t) /\ Cardinality(t) \in Nat
  BY FS_Subset, FS_CardinalityType
<1> HIDE DEF a, b
<1>2. CASE T = {}
  BY <1>2, <1>f DEF a, b
<1>3. CASE T # {}
  <2>1. PICK n \in T : \A y \in T : n <= y
    <3> T \subseteq Nat
      OBVIOUS
    <3> HIDE DEF T
    <3> QED
      BY <1>3, Least
  <2>2. PICK t \in SUBSET s : Cardinality(t) = n /\ a[t] # b[t]
    BY <2>1
  <2> DEFINE x == Pick(t)
  <2>3. t \in SUBSET S /\ t \in SUBSET U
    OBVIOUS
  <2>4. a[t] = IF t = {} THEN 0 ELSE f[x] + a[t \ {x}]
    BY <1>1, <2>3, UnfoldsAt
  <2>5. b[t] = IF t = {} THEN 0 ELSE h[x] + b[t \ {x}]
    BY <1>4, <2>3, UnfoldsAt
  <2>6. t # {}
    BY <2>2, <2>4, <2>5
  <2>7. x \in t
    BY <2>6, PickMember
  <2> HIDE DEF x
  <2>8. t \ {x} \in SUBSET s /\ Cardinality(t \ {x}) = n - 1 /\ n \in Nat /\ n - 1 \in Nat
    BY <2>2, <2>7, <1>f, Remove
  <2>9. a[t \ {x}] = b[t \ {x}]
    BY <2>1, <2>8
  <2> QED
    BY <2>2, <2>4, <2>5, <2>6, <2>7, <2>9
<1> QED
  BY <1>2, <1>3

\* The sum of natural numbers is one.
LEMMA SumNat ==
  ASSUME NEW f, NEW S, IsFiniteSet(S), \A x \in S : f[x] \in Nat
  PROVE  Sum(f, S) \in Nat
<1>1. Iter(f, S)[S] \in Nat
  BY IterNat
<1> QED
  BY <1>1, SumIter

\* Functions that agree on a set have the same sum there.
LEMMA SumSame ==
  ASSUME NEW f, NEW h, NEW S, IsFiniteSet(S), \A x \in S : f[x] = h[x]
  PROVE  Sum(f, S) = Sum(h, S)
<1>1. Iter(f, S)[S] = Iter(h, S)[S]
  BY IterSame
<1> QED
  BY <1>1, SumIter

\* Any member may be taken out first.
LEMMA SumSplit ==
  ASSUME NEW f, NEW S, IsFiniteSet(S), \A x \in S : f[x] \in Nat, NEW c \in S
  PROVE  Sum(f, S) = f[c] + Sum(f, S \ {c})
<1>1. IsFiniteSet(S \ {c})
  BY FS_RemoveElement
<1>2. Iter(f, S)[S] = f[c] + Iter(f, S)[S \ {c}]
  BY IterSplit
<1>3. Iter(f, S)[S \ {c}] = Iter(f, S \ {c})[S \ {c}]
  BY <1>1, IterSame
<1> QED
  BY <1>1, <1>2, <1>3, SumIter

\* The empty sum.
LEMMA SumEmpty == ASSUME NEW f PROVE Sum(f, {}) = 0
<1>1. IsFiniteSet({})
  BY FS_EmptySet
<1>2. Unfolds(Iter(f, {}), f, SUBSET {}) /\ {} \in SUBSET {}
  BY <1>1, SumIter
<1>3. Iter(f, {})[{}] = 0
  BY <1>2, UnfoldsAt
<1> QED
  BY <1>1, <1>3, SumIter

\* A sum of zeros is zero.
LEMMA SumZero ==
  ASSUME NEW f, NEW S, IsFiniteSet(S), \A x \in S : f[x] = 0
  PROVE  Sum(f, S) = 0
<1> DEFINE T == {n \in Nat : \E t \in SUBSET S : Cardinality(t) = n /\ Sum(f, t) # 0}
<1>f. \A t \in SUBSET S : IsFiniteSet(t) /\ Cardinality(t) \in Nat
  BY FS_Subset, FS_CardinalityType
<1>1. CASE T = {}
  BY <1>1, <1>f
<1>2. CASE T # {}
  <2>1. PICK n \in T : \A y \in T : n <= y
    <3> T \subseteq Nat
      OBVIOUS
    <3> HIDE DEF T
    <3> QED
      BY <1>2, Least
  <2>2. PICK t \in SUBSET S : Cardinality(t) = n /\ Sum(f, t) # 0
    BY <2>1
  <2>3. PICK d \in t : TRUE
    BY <2>2, SumEmpty
  <2>4. t \ {d} \in SUBSET S /\ Cardinality(t \ {d}) = n - 1 /\ n \in Nat /\ n - 1 \in Nat
    BY <2>2, <2>3, <1>f, Remove
  <2>5. Sum(f, t \ {d}) = 0
    BY <2>1, <2>4
  <2>6. Sum(f, t) = f[d] + Sum(f, t \ {d})
    BY <1>f, <2>3, SumSplit
  <2> QED
    BY <2>2, <2>3, <2>5, <2>6
<1> QED
  BY <1>1, <1>2

\* A larger set of natural numbers has a larger sum.
LEMMA SumSubset ==
  ASSUME NEW f, NEW U, IsFiniteSet(U), \A x \in U : f[x] \in Nat, NEW S \in SUBSET U
  PROVE  Sum(f, S) <= Sum(f, U)
<1> DEFINE T == {n \in Nat : \E t \in SUBSET U :
                    S \subseteq t /\ Cardinality(t) = n /\ ~(Sum(f, S) <= Sum(f, t))}
<1>f. \A t \in SUBSET U : IsFiniteSet(t) /\ Cardinality(t) \in Nat /\ Sum(f, t) \in Nat
  BY FS_Subset, FS_CardinalityType, SumNat
<1>1. CASE T = {}
  BY <1>1, <1>f
<1>2. CASE T # {}
  <2>1. PICK n \in T : \A y \in T : n <= y
    <3> T \subseteq Nat
      OBVIOUS
    <3> HIDE DEF T
    <3> QED
      BY <1>2, Least
  <2>2. PICK t \in SUBSET U : S \subseteq t /\ Cardinality(t) = n /\ ~(Sum(f, S) <= Sum(f, t))
    BY <2>1
  <2>3. PICK d \in t \ S : TRUE
    <3>1. t # S
      BY <2>2, <1>f
    <3> QED
      BY <2>2, <3>1
  <2>4. /\ t \ {d} \in SUBSET U /\ S \subseteq t \ {d} /\ Cardinality(t \ {d}) = n - 1
        /\ n \in Nat /\ n - 1 \in Nat
    BY <2>2, <2>3, <1>f, Remove
  <2>5. Sum(f, S) <= Sum(f, t \ {d})
    BY <2>1, <2>4
  <2>6. Sum(f, t) = f[d] + Sum(f, t \ {d})
    BY <1>f, <2>3, SumSplit
  <2>7. f[d] \in Nat /\ Sum(f, S) \in Nat /\ Sum(f, t \ {d}) \in Nat
    BY <1>f, <2>3, <2>4
  <2> QED
    BY <2>2, <2>5, <2>6, <2>7
<1> QED
  BY <1>1, <1>2

\* One value grows: so does the sum.
LEMMA SumRaise ==
  ASSUME NEW f, NEW h, NEW S, NEW c \in S, NEW k \in Nat,
         IsFiniteSet(S), \A x \in S : f[x] \in Nat,
         \A x \in S \ {c} : h[x] = f[x], h[c] = f[c] + k
  PROVE  Sum(h, S) = Sum(f, S) + k
<1>1. IsFiniteSet(S \ {c})
  BY FS_RemoveElement
<1>2. Sum(h, S \ {c}) = Sum(f, S \ {c}) /\ Sum(f, S \ {c}) \in Nat
  BY <1>1, SumSame, SumNat
<1>3. Sum(f, S) = f[c] + Sum(f, S \ {c})
  BY SumSplit
<1>4. Sum(h, S) = h[c] + Sum(h, S \ {c})
  <2>1. \A x \in S : h[x] \in Nat
    OBVIOUS
  <2> QED
    BY <2>1, SumSplit
<1>5. f[c] \in Nat
  OBVIOUS
<1> QED
  BY <1>2, <1>3, <1>4, <1>5
-----------------------------------------------------------------------------
\* Whoever archives holds the table's lock, and only archiving entries wait
\* for the second half of their account.
LockHeld ==
  /\ \A c \in Conns : pc[c] = "archive" <=> lock = c
  /\ sweep # None => lock = "sweep"

\* A connection that is, or has been, in the table has an outbound, and has
\* counted nothing before its relay ended.
Tracked ==
  /\ \A c \in Conns :
       /\ pc[c] \in {"insert", "connect", "relay", "drop", "archive"} => tag[c] \in Tags
       /\ c \in connections => /\ tag[c] \in Tags
                               /\ pc[c] \in {"connect", "relay", "drop", "release", "gone"}
       /\ pc[c] \in {"new", "admit", "handle", "route", "insert", "connect", "relay"} =>
            cell[c] = 0
  /\ sweep # None => tag[sweep[1]] \in Tags

\* What is in the totals and not yet in the outbound's account.
Pending ==
  IF lock \in Conns THEN cell[lock] ELSE IF sweep # None THEN sweep[2] ELSE 0

\* Nothing is in the accounts, or on its way there, that a connection outside
\* the table did not count.
Accounted ==
  /\ total <= Sum(cell, Conns \ connections)
  /\ Sum(outbound, Tags) + Pending <= Sum(cell, Conns \ connections)

IInv == TypeOK /\ PermitsConserved /\ LockHeld /\ Tracked /\ Accounted

\* The sets the accounts run over are finite and their members natural.
LEMMA CellsFinite ==
  ASSUME TypeOK, NEW S \in SUBSET Conns
  PROVE  IsFiniteSet(S) /\ Sum(cell, S) \in Nat /\ \A c \in S : cell[c] \in Nat
<1>1. IsFiniteSet(S)
  BY FS_Subset, DispatchAssumption
<1>2. \A c \in S : cell[c] \in Nat
  BY DispatchAssumption DEF TypeOK
<1> QED
  BY <1>1, <1>2, SumNat

\* So is the outbounds' account.
LEMMA OutboundFinite ==
  ASSUME TypeOK
  PROVE  IsFiniteSet(Tags) /\ Sum(outbound, Tags) \in Nat /\ \A g \in Tags : outbound[g] \in Nat
<1>1. \A g \in Tags : outbound[g] \in Nat
  BY DEF TypeOK
<1> QED
  BY <1>1, SumNat, DispatchAssumption

\* What ArchivedOnce says, in terms of Sum.
LEMMA ArchivedOnceSums ==
  ArchivedOnce <=> /\ total <= Sum(cell, Conns \ connections)
                   /\ Sum(outbound, Tags) <= Sum(cell, Conns \ connections)
BY DEF ArchivedOnce, Bytes, Sum, MapThenSumSet, MapThenFoldSet

-----------------------------------------------------------------------------
(* The limiters.                                                           *)

\* The holders of permits can be counted.
LEMMA HoldersFinite ==
  /\ IsFiniteSet(HoldsGlobal) /\ Cardinality(HoldsGlobal) \in Nat
  /\ \A i : IsFiniteSet(HoldsPermit(i)) /\ Cardinality(HoldsPermit(i)) \in Nat
<1>1. HoldsGlobal \subseteq Conns /\ \A i : HoldsPermit(i) \subseteq Conns
  BY DEF HoldsGlobal, HoldsPermit
<1> QED
  BY <1>1, FS_Subset, FS_CardinalityType, DispatchAssumption

\* The states in which a connection holds a permit of both limiters.
Served == Pcs \ {"new", "gone", "admit"}

\* A task that moves on keeps its permits.
LEMMA PermitsKept ==
  ASSUME IInv, UNCHANGED <<global, permits>>, NEW c \in Conns, NEW to \in Served,
         pc[c] \in Served, pc' = [pc EXCEPT ![c] = to]
  PROVE  PermitsConserved'
<1>1. HoldsGlobal' = HoldsGlobal
  BY DEF IInv, TypeOK, HoldsGlobal, Served
<1>2. \A i \in Inbounds : HoldsPermit(i)' = HoldsPermit(i)
  BY DEF IInv, TypeOK, HoldsGlobal, HoldsPermit, Served
<1> QED
  BY <1>1, <1>2 DEF IInv, PermitsConserved

\* So does a step that moves no task and touches no limiter.
LEMMA PermitsUntouched ==
  ASSUME IInv, UNCHANGED <<pc, global, permits>> PROVE PermitsConserved'
BY DEF IInv, PermitsConserved, HoldsGlobal, HoldsPermit

\* The accept loop takes a global permit, or drops the connection.
LEMMA AcceptPermits ==
  ASSUME IInv, NEW c \in Conns, Accept(c) PROVE PermitsConserved'
<1> USE DEF IInv
<1>1. pc[c] = "new" /\ UNCHANGED permits
  BY DEF Accept, Go
<1>2. \A i \in Inbounds : HoldsPermit(i)' = HoldsPermit(i)
  BY DEF TypeOK, Accept, Go, HoldsGlobal, HoldsPermit
<1>3. CASE global > 0 /\ Go(c, "new", "admit") /\ global' = global - 1
  <2>1. HoldsGlobal' = HoldsGlobal \cup {c} /\ c \notin HoldsGlobal
    BY <1>3 DEF TypeOK, Go, HoldsGlobal
  <2>2. Cardinality(HoldsGlobal') = Cardinality(HoldsGlobal) + 1
    BY <2>1, HoldersFinite, FS_AddElement
  <2>3. global \in Nat /\ GlobalMax \in Nat
    BY DispatchAssumption DEF TypeOK
  <2> QED
    BY <1>1, <1>2, <1>3, <2>2, <2>3, HoldersFinite DEF PermitsConserved
<1>4. CASE global = 0 /\ Go(c, "new", "gone") /\ UNCHANGED global
  <2>1. HoldsGlobal' = HoldsGlobal
    BY <1>4 DEF TypeOK, Go, HoldsGlobal
  <2> QED
    BY <1>1, <1>2, <1>4, <2>1 DEF PermitsConserved
<1> QED
  BY <1>3, <1>4 DEF Accept

\* A connection its inbound has no room for gives the global permit back.
LEMMA AdmitPermits ==
  ASSUME IInv, NEW c \in Conns, Admit(c) PROVE PermitsConserved'
<1> USE DEF IInv
<1> DEFINE i == Inbound[c]
<1>1. pc[c] = "admit" /\ i \in Inbounds
  BY DispatchAssumption DEF Admit, Go
<1>2. CASE /\ permits[i] > 0 /\ Go(c, "admit", "handle")
           /\ permits' = [permits EXCEPT ![i] = @ - 1] /\ UNCHANGED global
  <2>1. HoldsGlobal' = HoldsGlobal
    BY <1>2 DEF TypeOK, Go, HoldsGlobal
  <2>2. ASSUME NEW j \in Inbounds
        PROVE  permits'[j] + Cardinality(HoldsPermit(j)') = InboundMax[j]
    <3>1. CASE j = i
      <4>1. HoldsPermit(j)' = HoldsPermit(j) \cup {c} /\ c \notin HoldsPermit(j)
        BY <1>2, <3>1 DEF TypeOK, Go, HoldsGlobal, HoldsPermit
      <4>2. Cardinality(HoldsPermit(j)') = Cardinality(HoldsPermit(j)) + 1
        BY <4>1, HoldersFinite, FS_AddElement
      <4>3. permits[j] \in Nat /\ permits'[j] = permits[j] - 1
        BY <1>2, <3>1 DEF TypeOK
      <4> QED
        BY <4>2, <4>3, HoldersFinite DEF PermitsConserved
    <3>2. CASE j # i
      <4>1. HoldsPermit(j)' = HoldsPermit(j)
        BY <1>2, <3>2 DEF TypeOK, Go, HoldsGlobal, HoldsPermit
      <4> QED
        BY <1>2, <3>2, <4>1 DEF TypeOK, PermitsConserved
    <3> QED
      BY <3>1, <3>2
  <2> QED
    BY <1>2, <2>1, <2>2 DEF PermitsConserved
<1>3. CASE /\ permits[i] = 0 /\ Go(c, "admit", "gone")
           /\ global' = global + 1 /\ UNCHANGED permits
  <2>1. HoldsGlobal' = HoldsGlobal \ {c} /\ c \in HoldsGlobal
    BY <1>3 DEF TypeOK, Go, HoldsGlobal
  <2>2. \A j \in Inbounds : HoldsPermit(j)' = HoldsPermit(j)
    BY <1>3 DEF TypeOK, Go, HoldsGlobal, HoldsPermit
  <2>3. Cardinality(HoldsGlobal') = Cardinality(HoldsGlobal) - 1
    BY <2>1, HoldersFinite, Remove
  <2>4. global \in Nat
    BY DispatchAssumption DEF TypeOK
  <2> QED
    BY <1>3, <2>2, <2>3, <2>4, HoldersFinite DEF PermitsConserved
<1> QED
  BY <1>2, <1>3 DEF Admit

\* The end of the task gives back both.
LEMMA ReleasePermits ==
  ASSUME IInv, NEW c \in Conns, Release(c) PROVE PermitsConserved'
<1> USE DEF IInv
<1> DEFINE i == Inbound[c]
<1>1. /\ pc[c] = "release" /\ pc' = [pc EXCEPT ![c] = "gone"] /\ i \in Inbounds
      /\ global' = global + 1 /\ permits' = [permits EXCEPT ![i] = @ + 1]
  BY DispatchAssumption DEF Release, Go
<1>2. global' + Cardinality(HoldsGlobal') = GlobalMax
  <2>1. HoldsGlobal' = HoldsGlobal \ {c} /\ c \in HoldsGlobal
    BY <1>1 DEF TypeOK, HoldsGlobal
  <2>2. Cardinality(HoldsGlobal') = Cardinality(HoldsGlobal) - 1
    BY <2>1, HoldersFinite, Remove
  <2>3. global \in Nat
    BY DispatchAssumption DEF TypeOK
  <2> QED
    BY <1>1, <2>2, <2>3, HoldersFinite DEF PermitsConserved
<1>3. ASSUME NEW j \in Inbounds
      PROVE  permits'[j] + Cardinality(HoldsPermit(j)') = InboundMax[j]
  <2>1. CASE j = i
    <3>1. HoldsPermit(j)' = HoldsPermit(j) \ {c} /\ c \in HoldsPermit(j)
      BY <1>1, <2>1 DEF TypeOK, HoldsGlobal, HoldsPermit
    <3>2. Cardinality(HoldsPermit(j)') = Cardinality(HoldsPermit(j)) - 1
      BY <3>1, HoldersFinite, Remove
    <3>3. permits[j] \in Nat /\ permits'[j] = permits[j] + 1
      BY <1>1, <2>1 DEF TypeOK
    <3> QED
      BY <3>2, <3>3, HoldersFinite DEF PermitsConserved
  <2>2. CASE j # i
    <3>1. HoldsPermit(j)' = HoldsPermit(j)
      BY <1>1, <2>2 DEF TypeOK, HoldsGlobal, HoldsPermit
    <3> QED
      BY <1>1, <2>2, <3>1 DEF TypeOK, PermitsConserved
  <2> QED
    BY <2>1, <2>2
<1> QED
  BY <1>2, <1>3 DEF PermitsConserved

\* No step leaks or invents a permit.
LEMMA PermitsStep == ASSUME IInv, [Next]_vars PROVE PermitsConserved'
<1>1. ASSUME NEW c \in Conns, Accept(c) \/ Admit(c) \/ Release(c) PROVE PermitsConserved'
  BY <1>1, AcceptPermits, AdmitPermits, ReleasePermits
<1>2. ASSUME NEW c \in Conns,
             \/ Handle(c) \/ Refuse(c) \/ \E g \in Tags : Route(c, g)
             \/ Track(c) \/ ConnectFails(c) \/ ConnectOk(c) \/ RelayEnds(c) \/ RelayFails(c)
             \/ Drop(c) \/ DropRemoved(c) \/ DropBusy(c) \/ Archive(c)
      PROVE  PermitsConserved'
  <2>1. UNCHANGED <<global, permits>>
    BY <1>2 DEF Handle, Refuse, Route, Track, ConnectFails, ConnectOk, RelayEnds,
                RelayFails, Drop, DropRemoved, DropBusy, Archive, limits
  <2>2. \E to \in Served : pc[c] \in Served /\ pc' = [pc EXCEPT ![c] = to]
    BY <1>2 DEF Handle, Refuse, Route, Track, ConnectFails, ConnectOk, RelayEnds,
                RelayFails, Drop, DropRemoved, DropBusy, Archive, Go, Served, Pcs
  <2> QED
    BY <2>1, <2>2, PermitsKept
<1>3. ASSUME NEW c \in Conns, Transfer(c) PROVE PermitsConserved'
  BY <1>3, PermitsUntouched DEF Transfer, limits
<1>4. CASE Control
  BY <1>4, PermitsUntouched
  DEF Control, ReadLock, ReadUnlock, CloseAll, SweepPut, SweepEnd, ResetTotal,
      ResetOutbound, Close, Age, SweepTake, limits
<1>5. CASE Shutdown
  BY <1>5, PermitsUntouched
  DEF Shutdown, Signal, Drained, Deadline, Finish, StopListening, limits
<1>6. CASE UNCHANGED vars
  BY <1>6, PermitsUntouched DEF vars, limits
<1> QED
  BY <1>1, <1>2, <1>3, <1>4, <1>5, <1>6 DEF Next, Task

-----------------------------------------------------------------------------
(* Types, the table and its lock.                                          *)

\* The types, without what PermitsConserved bounds.
TableType ==
  /\ pc \in [Conns -> Pcs]
  /\ tag \in [Conns -> Tags \cup {None}]
  /\ bytes \in [Conns -> 0..MaxBytes] /\ cell \in [Conns -> 0..MaxBytes]
  /\ idle \subseteq Conns /\ connections \subseteq Conns /\ listening \subseteq Inbounds
  /\ global \in Nat /\ permits \in [Inbounds -> Nat]
  /\ lock \in Conns \cup {None, "reader", "sweep"}
  /\ sweep \in (Conns \X Nat) \cup {None}
  /\ total \in Nat /\ outbound \in [Tags -> Nat] /\ resetting \in BOOLEAN
  /\ app \in {"running", "draining", "closing", "done"}

\* The limiters never hold more permits than they were given.
LEMMA TypeBounds == TableType /\ PermitsConserved => TypeOK
<1> SUFFICES ASSUME TableType, PermitsConserved PROVE TypeOK
  OBVIOUS
<1>1. global <= GlobalMax
  BY HoldersFinite, DispatchAssumption DEF TableType, PermitsConserved
<1>2. \A i \in Inbounds : permits[i] <= InboundMax[i]
  <2> SUFFICES ASSUME NEW i \in Inbounds PROVE permits[i] <= InboundMax[i]
    OBVIOUS
  <2>1. permits[i] \in Nat /\ permits[i] + Cardinality(HoldsPermit(i)) = InboundMax[i]
    BY DEF TableType, PermitsConserved
  <2> QED
    BY <2>1, HoldersFinite
<1> QED
  BY <1>1, <1>2, DispatchAssumption DEF TableType, TypeOK

\* The same after a step.
LEMMA TypeBoundsNext == (TableType /\ PermitsConserved => TypeOK)'
BY TypeBounds, PTL

\* A task that moves on without touching table, lock or accounts.
LEMMA QuietMove ==
  ASSUME IInv, NEW c \in Conns, NEW from, NEW to \in Pcs, Go(c, from, to),
         UNCHANGED <<tag, bytes, cell, idle, listening, tracker, accounts, app>>,
         global' \in Nat, permits' \in [Inbounds -> Nat],
         from # "archive", to # "archive",
         to \in {"connect", "relay", "drop"} => from \in {"connect", "relay"},
         to # "new", to = "admit" => from = "new", to = "handle" => from = "admit",
         to = "route" => from = "handle", to # "insert"
  PROVE  (TableType /\ LockHeld /\ Tracked)'
<1> USE DEF IInv
<1>1. TableType'
  BY DEF TypeOK, TableType, Go, tracker, accounts
<1>2. \A d \in Conns : pc'[d] = IF d = c THEN to ELSE pc[d]
  BY DEF TypeOK, Go
<1>3. LockHeld'
  BY <1>2 DEF LockHeld, Go, tracker
<1>4. Tracked'
  BY <1>2 DEF Tracked, Go, Pcs, tracker
<1> QED
  BY <1>1, <1>3, <1>4

\* A connection's own steps.
LEMMA TaskTable ==
  ASSUME IInv, NEW c \in Conns, Task(c) PROVE (TableType /\ LockHeld /\ Tracked)'
<1> USE DEF IInv
<1>t. /\ global \in Nat /\ permits \in [Inbounds -> Nat] /\ MaxBytes \in Nat
      /\ Inbound[c] \in Inbounds
  BY DispatchAssumption DEF TypeOK
<1>1. CASE Accept(c)
  <2>1. global' \in Nat
    BY <1>1, <1>t DEF Accept
  <2> QED
    BY <1>1, <1>t, <2>1, QuietMove DEF Accept, data, Pcs
<1>2. CASE Admit(c)
  <2>1. permits' \in [Inbounds -> Nat] /\ global' \in Nat
    BY <1>2, <1>t DEF Admit
  <2> QED
    BY <1>2, <2>1, QuietMove DEF Admit, data, Pcs
<1>3. CASE Release(c)
  <2>1. permits' \in [Inbounds -> Nat] /\ global' \in Nat
    BY <1>3, <1>t DEF Release
  <2> QED
    BY <1>3, <2>1, QuietMove DEF Release, data, Pcs
<1>4. CASE Handle(c) \/ Refuse(c)
  BY <1>4, <1>t, QuietMove DEF Handle, Refuse, limits, data, Pcs
<1>5. CASE ConnectFails(c) \/ ConnectOk(c) \/ RelayFails(c)
  BY <1>5, <1>t, QuietMove DEF ConnectFails, ConnectOk, RelayFails, limits, data, Pcs
<1>6. CASE DropRemoved(c) \/ DropBusy(c)
  BY <1>6, <1>t, QuietMove DEF DropRemoved, DropBusy, limits, data, Pcs
<1>7. ASSUME NEW g \in Tags, Route(c, g) PROVE (TableType /\ LockHeld /\ Tracked)'
  <2>1. TableType'
    BY <1>7 DEF Route, Go, TypeOK, TableType, Pcs, limits, tracker, accounts, data
  <2>2. LockHeld'
    BY <1>7 DEF Route, Go, TypeOK, LockHeld, tracker
  <2>3. Tracked'
    <3>1. \A d \in Conns : /\ pc'[d] = IF d = c THEN "insert" ELSE pc[d]
                           /\ tag'[d] = IF d = c THEN g ELSE tag[d]
      BY <1>7 DEF Route, Go, TypeOK
    <3>2. pc[c] = "route" /\ UNCHANGED <<cell, connections, lock, sweep>>
      BY <1>7 DEF Route, Go, tracker
    <3>3. sweep # None => sweep[1] \in Conns
      BY DispatchAssumption DEF TypeOK
    <3> QED
      BY <3>1, <3>2, <3>3 DEF Tracked
  <2> QED
    BY <2>1, <2>2, <2>3
<1>8. CASE Track(c)
  <2>1. TableType'
    BY <1>8 DEF Track, Go, TypeOK, TableType, Pcs, limits, tracker, accounts, data
  <2>2. LockHeld'
    BY <1>8 DEF Track, Go, TypeOK, LockHeld
  <2>3. Tracked'
    BY <1>8 DEF Track, Go, TypeOK, Tracked, data
  <2> QED
    BY <2>1, <2>2, <2>3
<1>9. CASE Transfer(c)
  <2>1. bytes' \in [Conns -> 0..MaxBytes]
    BY <1>9, <1>t DEF Transfer, TypeOK
  <2> QED
    BY <1>9, <2>1 DEF Transfer, TypeOK, TableType, LockHeld, Tracked, limits, tracker, accounts
<1>10. CASE RelayEnds(c)
  <2>1. cell' \in [Conns -> 0..MaxBytes]
    BY <1>10 DEF RelayEnds, TypeOK
  <2>2. TableType'
    BY <1>10, <2>1 DEF RelayEnds, Go, TypeOK, TableType, Pcs, limits, tracker, accounts
  <2>3. LockHeld'
    BY <1>10 DEF RelayEnds, Go, TypeOK, LockHeld, tracker
  <2>4. Tracked'
    BY <1>10 DEF RelayEnds, Go, TypeOK, Tracked, tracker
  <2> QED
    BY <2>2, <2>3, <2>4
<1>11. CASE Drop(c)
  <2>1. total' \in Nat
    BY <1>11, <1>t DEF Drop, TypeOK
  <2>2. TableType'
    BY <1>11, <2>1 DEF Drop, Go, TypeOK, TableType, Pcs, limits, data
  <2>3. LockHeld'
    BY <1>11, DispatchAssumption DEF Drop, Go, TypeOK, LockHeld
  <2>4. Tracked'
    BY <1>11 DEF Drop, Go, TypeOK, Tracked, data
  <2> QED
    BY <2>2, <2>3, <2>4
<1>12. CASE Archive(c)
  <2>1. tag[c] \in Tags /\ cell[c] \in Nat /\ lock = c
    BY <1>12, <1>t DEF Archive, Go, Tracked, LockHeld, TypeOK
  <2>2. outbound' \in [Tags -> Nat]
    BY <1>12, <2>1 DEF Archive, TypeOK
  <2>3. TableType'
    BY <1>12, <2>2 DEF Archive, Go, TypeOK, TableType, Pcs, limits, data
  <2>4. LockHeld'
    BY <1>12, <2>1, DispatchAssumption DEF Archive, Go, TypeOK, LockHeld
  <2>5. Tracked'
    BY <1>12 DEF Archive, Go, TypeOK, Tracked, data
  <2> QED
    BY <2>3, <2>4, <2>5
<1> QED
  BY <1>1, <1>2, <1>3, <1>4, <1>5, <1>6, <1>7, <1>8, <1>9, <1>10, <1>11, <1>12 DEF Task

\* The control calls.
LEMMA ControlTable == ASSUME IInv, Control PROVE (TableType /\ LockHeld /\ Tracked)'
<1> USE DEF IInv
<1>t. /\ global \in Nat /\ permits \in [Inbounds -> Nat] /\ MaxBytes \in Nat
  BY DispatchAssumption DEF TypeOK
<1>1. CASE ReadLock \/ ReadUnlock \/ SweepEnd
  <2>1. TableType'
    BY <1>1 DEF ReadLock, ReadUnlock, SweepEnd, TypeOK, TableType, limits, data, accounts
  <2>2. LockHeld'
    BY <1>1, DispatchAssumption DEF ReadLock, ReadUnlock, SweepEnd, LockHeld
  <2>3. Tracked'
    BY <1>1 DEF ReadLock, ReadUnlock, SweepEnd, Tracked, data
  <2> QED
    BY <2>1, <2>2, <2>3
<1>2. CASE CloseAll \/ \E c \in Conns : Close(c)
  <2>1. TableType'
    BY <1>2 DEF CloseAll, Close, TypeOK, TableType, limits, data, accounts
  <2>2. LockHeld'
    BY <1>2 DEF CloseAll, Close, LockHeld
  <2>3. Tracked'
    BY <1>2 DEF CloseAll, Close, Tracked, data
  <2> QED
    BY <2>1, <2>2, <2>3
<1>3. CASE ResetTotal \/ ResetOutbound
  <2>1. total' \in Nat /\ outbound' \in [Tags -> Nat] /\ resetting' \in BOOLEAN
    <3>1. CASE ResetTotal
      BY <3>1 DEF ResetTotal, TypeOK
    <3>2. CASE ResetOutbound
      BY <3>2 DEF ResetOutbound, TypeOK
    <3> QED
      BY <1>3, <3>1, <3>2
  <2>2. UNCHANGED <<pc, data, limits, tracker, app>>
    BY <1>3 DEF ResetTotal, ResetOutbound
  <2> QED
    BY <1>t, <2>1, <2>2 DEF TypeOK, TableType, LockHeld, Tracked, limits, data, tracker
<1>4. ASSUME NEW c \in Conns, Age(c) PROVE (TableType /\ LockHeld /\ Tracked)'
  BY <1>4 DEF Age, TypeOK, TableType, LockHeld, Tracked, limits, tracker, accounts
<1>5. ASSUME NEW c \in Conns, SweepTake(c) PROVE (TableType /\ LockHeld /\ Tracked)'
  <2>1. cell[c] \in Nat /\ total' \in Nat
    BY <1>5, <1>t DEF SweepTake, TypeOK
  <2>2. TableType'
    BY <1>5, <2>1 DEF SweepTake, TypeOK, TableType, limits, data
  <2>3. LockHeld'
    BY <1>5, DispatchAssumption DEF SweepTake, LockHeld
  <2>4. Tracked'
    BY <1>5, <2>1 DEF SweepTake, Tracked, data
  <2> QED
    BY <2>2, <2>3, <2>4
<1>6. CASE SweepPut
  <2>1. tag[sweep[1]] \in Tags /\ sweep[2] \in Nat
    BY <1>6 DEF SweepPut, TypeOK, Tracked
  <2>2. outbound' \in [Tags -> Nat]
    BY <1>6, <2>1 DEF SweepPut, TypeOK
  <2>3. TableType'
    BY <1>6, <2>2 DEF SweepPut, TypeOK, TableType, limits, data
  <2>4. LockHeld' /\ Tracked'
    BY <1>6 DEF SweepPut, LockHeld, Tracked, data
  <2> QED
    BY <2>3, <2>4
<1> QED
  BY <1>1, <1>2, <1>3, <1>4, <1>5, <1>6 DEF Control

\* The shutdown.
LEMMA ShutdownTable == ASSUME IInv, Shutdown PROVE (TableType /\ LockHeld /\ Tracked)'
<1> USE DEF IInv
<1>t. global \in Nat
  BY DispatchAssumption DEF TypeOK
<1>1. CASE Signal \/ Drained \/ Deadline
  BY <1>1, <1>t DEF Signal, Drained, Deadline, TypeOK, TableType, LockHeld, Tracked, limits,
                    data, tracker, accounts
<1>2. ASSUME NEW i \in Inbounds, StopListening(i) PROVE (TableType /\ LockHeld /\ Tracked)'
  BY <1>2, <1>t DEF StopListening, TypeOK, TableType, LockHeld, Tracked, data, tracker, accounts
<1>3. CASE Finish
  BY <1>3, <1>t DEF Finish, TypeOK, TableType, LockHeld, Tracked, limits, data, accounts
<1> QED
  BY <1>1, <1>2, <1>3 DEF Shutdown

\* Every step keeps the types and the table's discipline.
LEMMA TableStep == ASSUME IInv, [Next]_vars PROVE (TableType /\ LockHeld /\ Tracked)'
<1>1. CASE UNCHANGED vars
  <2>1. global \in Nat
    BY DispatchAssumption DEF IInv, TypeOK
  <2> QED
    BY <1>1, <2>1 DEF IInv, TypeOK, TableType, LockHeld, Tracked, vars, limits, data,
                      tracker, accounts
<1> QED
  BY <1>1, TaskTable, ControlTable, ShutdownTable DEF Next

-----------------------------------------------------------------------------
(* The accounts.                                                           *)

\* What has left the table stays out of it, so its sum only grows.
LEMMA AccountsKept ==
  ASSUME IInv, UNCHANGED <<cell, total, outbound>>,
         connections' \subseteq connections, Pending' = Pending
  PROVE  Accounted'
<1> DEFINE A == Sum(cell, Conns \ connections)
           B == Sum(cell, Conns \ connections')
<1>1. TypeOK
  BY DEF IInv
<1>2. A <= B /\ A \in Nat /\ B \in Nat
  BY <1>1, CellsFinite, SumSubset
<1>3. Sum(outbound, Tags) \in Nat /\ total \in Nat /\ Pending \in Nat
  BY <1>1, OutboundFinite, DispatchAssumption DEF TypeOK, Pending
<1>4. total <= A /\ Sum(outbound, Tags) + Pending <= A
  BY DEF IInv, Accounted
<1>5. total <= B /\ Sum(outbound, Tags) + Pending <= B
  <2> HIDE DEF A, B
  <2> QED
    BY <1>2, <1>3, <1>4
<1> QED
  BY <1>5 DEF Accounted

\* Nothing is pending while the table's lock is free.
LEMMA NothingPending ==
  ASSUME IInv, lock \in {None, "reader", "sweep"}, sweep = None PROVE Pending = 0
BY DispatchAssumption DEF Pending

\* What is pending is a number of bytes.
LEMMA PendingNat == ASSUME IInv PROVE Pending \in Nat
BY DispatchAssumption DEF IInv, TypeOK, Pending

\* track puts in an entry that has counted nothing.
LEMMA TrackAccounts == ASSUME IInv, NEW c \in Conns, Track(c) PROVE Accounted'
<1> USE DEF IInv
<1> DEFINE S == Conns \ connections
<1>1. c \in S /\ cell[c] = 0 /\ UNCHANGED <<cell, total, outbound, lock, sweep>>
  BY DEF Track, Go, Tracked, data, accounts
<1>2. Conns \ connections' = S \ {c}
  BY DEF Track
<1>3. Sum(cell, S) = cell[c] + Sum(cell, S \ {c})
  BY <1>1, CellsFinite, SumSplit
<1>4. Sum(cell, S \ {c}) \in Nat
  BY CellsFinite
<1>5. Sum(cell, S \ {c}) = Sum(cell, S)
  BY <1>1, <1>3, <1>4
<1> QED
  BY <1>1, <1>2, <1>5 DEF Accounted, Pending

\* add_upload and add_download: the cell rises from zero, nothing else.
LEMMA RelayEndsAccounts == ASSUME IInv, NEW c \in Conns, RelayEnds(c) PROVE Accounted'
<1> USE DEF IInv
<1> DEFINE S == Conns \ connections
           k == bytes[c]
<1>1. /\ cell' = [cell EXCEPT ![c] = k] /\ cell[c] = 0 /\ k \in Nat
      /\ UNCHANGED <<total, outbound, connections, lock, sweep>>
  BY DispatchAssumption DEF RelayEnds, Go, Tracked, TypeOK, tracker, accounts
<1>2. lock # c
  BY DEF RelayEnds, Go, LockHeld
<1>3. Pending' = Pending
  BY <1>1, <1>2 DEF Pending, TypeOK
<1>4. /\ IsFiniteSet(S) /\ Sum(cell, S) \in Nat /\ \A x \in S : cell[x] \in Nat
  BY CellsFinite
<1>5. Sum(cell', S) \in Nat /\ Sum(cell, S) <= Sum(cell', S)
  <2>1. CASE c \in S
    <3>1. \A x \in S \ {c} : cell'[x] = cell[x]
      BY <1>1 DEF TypeOK
    <3>2. cell'[c] = cell[c] + k
      BY <1>1 DEF TypeOK
    <3>3. Sum(cell', S) = Sum(cell, S) + k
      <4>1. k \in Nat /\ IsFiniteSet(S)
        BY <1>1, <1>4
      <4>2. \A x \in S : cell[x] \in Nat
        BY <1>4
      <4> HIDE DEF S, k
      <4> QED
        BY <4>1, <4>2, <2>1, <3>1, <3>2, SumRaise
    <3> QED
      BY <1>1, <1>4, <3>3
  <2>2. CASE c \notin S
    <3>1. \A x \in S : cell'[x] = cell[x]
      BY <1>1, <2>2 DEF TypeOK
    <3>2. Sum(cell', S) = Sum(cell, S)
      BY <1>4, <3>1, SumSame
    <3> QED
      BY <1>4, <3>2
  <2> QED
    BY <2>1, <2>2
<1>6. Sum(outbound, Tags) \in Nat /\ total \in Nat /\ Pending \in Nat
  BY OutboundFinite, PendingNat DEF TypeOK
<1>7. total <= Sum(cell, S) /\ Sum(outbound, Tags) + Pending <= Sum(cell, S)
  BY DEF Accounted
<1>8. total <= Sum(cell', S) /\ Sum(outbound, Tags) + Pending <= Sum(cell', S)
  BY <1>4, <1>5, <1>6, <1>7
<1> QED
  BY <1>1, <1>3, <1>8 DEF Accounted

\* An entry leaves the table and its count goes to the totals: both halves of
\* remove_and_archive, by the guard's drop or by close_idle.
LEMMA LeavesTable ==
  ASSUME IInv, NEW c \in connections, UNCHANGED <<cell, outbound>>,
         connections' = connections \ {c}, total' = total + cell[c],
         Pending = 0, Pending' = cell[c]
  PROVE  Accounted'
<1> USE DEF IInv
<1> DEFINE S == Conns \ connections
           U == Conns \ connections'
<1>1. c \in U /\ S = U \ {c} /\ c \in Conns
  BY DEF TypeOK
<1>2. /\ IsFiniteSet(U) /\ \A x \in U : cell[x] \in Nat
      /\ Sum(cell, U) \in Nat /\ Sum(cell, S) \in Nat
  BY CellsFinite
<1>3. Sum(cell, U) = cell[c] + Sum(cell, S)
  <2> HIDE DEF S, U
  <2> QED
    BY <1>1, <1>2, SumSplit
<1>4. Sum(outbound, Tags) \in Nat /\ total \in Nat /\ cell[c] \in Nat
  BY <1>1, <1>2, OutboundFinite DEF TypeOK
<1>5. total <= Sum(cell, S) /\ Sum(outbound, Tags) + 0 <= Sum(cell, S)
  BY DEF Accounted
<1>6. total + cell[c] <= Sum(cell, U) /\ Sum(outbound, Tags) + cell[c] <= Sum(cell, U)
  BY <1>2, <1>3, <1>4, <1>5
<1> QED
  BY <1>6 DEF Accounted

\* accumulate_outbound_traffic: what was pending is in the account.
LEMMA ReachesAccount ==
  ASSUME IInv, NEW g \in Tags, NEW k \in Nat, UNCHANGED <<cell, connections, total>>,
         outbound' = [outbound EXCEPT ![g] = @ + k], Pending = k, Pending' = 0
  PROVE  Accounted'
<1> USE DEF IInv
<1>1. IsFiniteSet(Tags) /\ Sum(outbound, Tags) \in Nat
  BY OutboundFinite
<1>2. \A x \in Tags : outbound[x] \in Nat
  BY OutboundFinite
<1>3. \A x \in Tags \ {g} : outbound'[x] = outbound[x]
  BY DEF TypeOK
<1>4. outbound'[g] = outbound[g] + k
  BY DEF TypeOK
<1>5. \A h : (\A x \in Tags \ {g} : h[x] = outbound[x]) /\ h[g] = outbound[g] + k
        => Sum(h, Tags) = Sum(outbound, Tags) + k
  BY <1>1, <1>2, SumRaise
<1>6. Sum(outbound', Tags) = Sum(outbound, Tags) + k
  BY <1>3, <1>4, <1>5
<1>7. Sum(cell, Conns \ connections) \in Nat
  BY CellsFinite
<1>8. total <= Sum(cell, Conns \ connections)
      /\ Sum(outbound, Tags) + k <= Sum(cell, Conns \ connections)
  BY DEF Accounted
<1>9. Sum(outbound', Tags) + 0 <= Sum(cell, Conns \ connections)
  BY <1>1, <1>6, <1>7, <1>8
<1> QED
  BY <1>8, <1>9 DEF Accounted

\* reset_traffic, either half.
LEMMA ResetAccounts == ASSUME IInv, ResetTotal \/ ResetOutbound PROVE Accounted'
<1> USE DEF IInv
<1>1. Sum(cell, Conns \ connections) \in Nat
  BY CellsFinite
<1>2. Sum(outbound, Tags) \in Nat /\ Pending \in Nat
  BY OutboundFinite, PendingNat
<1>3. UNCHANGED <<cell, connections, lock, sweep>> /\ Pending' = Pending
  BY DEF ResetTotal, ResetOutbound, data, tracker, Pending
<1>4. CASE ResetTotal
  <2>1. total' = 0 /\ UNCHANGED outbound
    BY <1>4 DEF ResetTotal
  <2> QED
    BY <1>1, <1>3, <2>1 DEF Accounted
<1>5. CASE ResetOutbound
  <2>1. \A g \in Tags : outbound'[g] = 0
    BY <1>5 DEF ResetOutbound
  <2>2. Sum(outbound', Tags) = 0
    BY <2>1, SumZero, DispatchAssumption
  <2>3. UNCHANGED total
    BY <1>5 DEF ResetOutbound
  <2>4. 0 + Pending <= Sum(cell, Conns \ connections)
    BY <1>1, <1>2 DEF Accounted
  <2> QED
    BY <1>3, <2>2, <2>3, <2>4 DEF Accounted
<1> QED
  BY <1>4, <1>5

\* No step puts into an account what no connection counted, or puts it twice.
LEMMA AccountsStep == ASSUME IInv, [Next]_vars PROVE Accounted'
<1> USE DEF IInv
<1>q. ASSUME UNCHANGED <<cell, connections, lock, sweep, total, outbound>> PROVE Accounted'
  BY <1>q DEF Accounted, Pending
<1>1. ASSUME NEW c \in Conns,
             \/ Accept(c) \/ Admit(c) \/ Release(c) \/ Handle(c) \/ Refuse(c)
             \/ \E g \in Tags : Route(c, g)
             \/ ConnectFails(c) \/ ConnectOk(c) \/ Transfer(c) \/ RelayFails(c)
             \/ DropRemoved(c) \/ DropBusy(c) \/ Age(c)
      PROVE  Accounted'
  BY <1>1, <1>q DEF Accept, Admit, Release, Handle, Refuse, Route, ConnectFails, ConnectOk,
                    Transfer, RelayFails, DropRemoved, DropBusy, Age, data, tracker, accounts
<1>2. CASE Signal \/ Drained \/ Deadline \/ \E i \in Inbounds : StopListening(i)
  BY <1>2, <1>q DEF Signal, Drained, Deadline, StopListening, data, tracker, accounts
<1>3. ASSUME NEW c \in Conns, Track(c) \/ RelayEnds(c) PROVE Accounted'
  BY <1>3, TrackAccounts, RelayEndsAccounts
<1>4. ASSUME NEW c \in Conns, Drop(c) PROVE Accounted'
  <2>1. sweep = None /\ lock = None
    BY <1>4, DispatchAssumption DEF Drop, LockHeld
  <2>2. Pending = 0 /\ Pending' = cell[c]
    BY <1>4, <2>1, NothingPending DEF Drop, Pending, data
  <2> QED
    BY <1>4, <2>2, LeavesTable DEF Drop, data
<1>5. ASSUME NEW c \in Conns, Archive(c) PROVE Accounted'
  <2>1. lock = c /\ tag[c] \in Tags /\ cell[c] \in Nat
    BY <1>5, DispatchAssumption DEF Archive, Go, LockHeld, Tracked, TypeOK
  <2>2. sweep = None
    BY <2>1, DispatchAssumption DEF LockHeld
  <2>3. Pending = cell[c] /\ Pending' = 0
    BY <1>5, <2>1, <2>2, DispatchAssumption DEF Archive, Pending
  <2> QED
    BY <1>5, <2>1, <2>3, ReachesAccount DEF Archive, data
<1>6. CASE ReadLock \/ ReadUnlock \/ SweepEnd
  <2>1. Pending' = Pending
    BY <1>6, DispatchAssumption DEF ReadLock, ReadUnlock, SweepEnd, Pending
  <2> QED
    BY <1>6, <2>1, AccountsKept DEF ReadLock, ReadUnlock, SweepEnd, data, accounts
<1>7. CASE CloseAll \/ Finish \/ \E c \in Conns : Close(c)
  <2>1. UNCHANGED <<cell, total, outbound, lock, sweep>> /\ connections' \subseteq connections
    BY <1>7 DEF CloseAll, Finish, Close, data, accounts
  <2>2. Pending' = Pending
    BY <2>1 DEF Pending
  <2> QED
    BY <2>1, <2>2, AccountsKept
<1>8. ASSUME NEW c \in Conns, SweepTake(c) PROVE Accounted'
  <2>1. Pending = 0
    BY <1>8, NothingPending DEF SweepTake
  <2>2. Pending' = cell[c]
    <3>1. lock' = "sweep" /\ sweep' = <<c, cell[c]>> /\ cell[c] \in Nat
      BY <1>8, DispatchAssumption DEF SweepTake, TypeOK
    <3>2. lock' \notin Conns /\ sweep' # None
      BY <3>1, DispatchAssumption
    <3>3. sweep'[2] = cell[c]
      BY <3>1
    <3> QED
      BY <3>2, <3>3 DEF Pending
  <2> QED
    BY <1>8, <2>1, <2>2, LeavesTable DEF SweepTake, data
<1>9. CASE SweepPut
  <2>1. lock = "sweep" /\ tag[sweep[1]] \in Tags /\ sweep[2] \in Nat
    BY <1>9 DEF SweepPut, LockHeld, Tracked, TypeOK
  <2>2. Pending = sweep[2] /\ Pending' = 0
    BY <1>9, <2>1, DispatchAssumption DEF SweepPut, Pending
  <2> QED
    BY <1>9, <2>1, <2>2, ReachesAccount DEF SweepPut, data
<1>10. CASE ResetTotal \/ ResetOutbound
  BY <1>10, ResetAccounts
<1>11. CASE UNCHANGED vars
  BY <1>11, <1>q DEF vars, data, tracker, accounts
<1> QED
  BY <1>1, <1>2, <1>3, <1>4, <1>5, <1>6, <1>7, <1>8, <1>9, <1>10, <1>11
  DEF Next, Task, Control, Shutdown

-----------------------------------------------------------------------------
\* An instance starts with all its permits and empty accounts.
LEMMA InitIInv == Init => IInv
<1> SUFFICES ASSUME Init PROVE IInv
  OBVIOUS
<1>1. TypeOK
  <2>1. resetting \in BOOLEAN /\ app \in {"running", "draining", "closing", "done"}
    BY DEF Init
  <2>2. pc \in [Conns -> Pcs] /\ tag \in [Conns -> Tags \cup {None}]
    BY DEF Init, Pcs
  <2>3. /\ global \in 0..GlobalMax /\ permits \in [Inbounds -> Nat]
        /\ \A i \in Inbounds : permits[i] <= InboundMax[i]
    BY DispatchAssumption DEF Init
  <2> QED
    BY <2>1, <2>2, <2>3, DispatchAssumption DEF Init, TypeOK
<1>2. PermitsConserved
  <2>1. HoldsGlobal = {} /\ \A i \in Inbounds : HoldsPermit(i) = {}
    BY DEF Init, HoldsGlobal, HoldsPermit
  <2>2. /\ Cardinality(HoldsGlobal) = 0
        /\ \A i \in Inbounds : Cardinality(HoldsPermit(i)) = 0
    BY <2>1, FS_EmptySet
  <2> QED
    BY <2>2, DispatchAssumption DEF Init, PermitsConserved
<1>3. LockHeld /\ Tracked
  BY DispatchAssumption DEF Init, LockHeld, Tracked
<1>4. Accounted
  <2>1. Sum(outbound, Tags) = 0
    BY SumZero, DispatchAssumption DEF Init
  <2>2. Pending = 0
    BY DispatchAssumption DEF Init, Pending
  <2>3. Sum(cell, Conns \ connections) \in Nat /\ total = 0
    BY <1>1, CellsFinite DEF Init
  <2> QED
    BY <2>1, <2>2, <2>3 DEF Accounted
<1> QED
  BY <1>1, <1>2, <1>3, <1>4 DEF IInv

\* Every step keeps the invariant.
LEMMA NextStep == ASSUME IInv, [Next]_vars PROVE IInv'
<1>1. PermitsConserved' /\ (TableType /\ LockHeld /\ Tracked)' /\ Accounted'
  BY PermitsStep, TableStep, AccountsStep
<1>2. TypeOK'
  BY <1>1, TypeBoundsNext
<1> QED
  BY <1>1, <1>2 DEF IInv

\* The invariant holds in every reachable state.
THEOREM Invariance == Spec => []IInv
<1>1. Init => IInv
  BY InitIInv
<1>2. IInv /\ [Next]_vars => IInv'
  BY NextStep
<1> QED
  BY <1>1, <1>2, PTL DEF Spec

\* The limiters, the table and the accounts keep their types; no limiter ever
\* has more permits than it was made with.
THEOREM TypeCorrect == Spec => []TypeOK
<1>1. IInv => TypeOK
  BY DEF IInv
<1> QED
  BY <1>1, Invariance, PTL

\* Every way out of admission and dispatch gives back exactly the permits the
\* connection took, for any number of connections, inbounds and limits.
THEOREM Permits == Spec => []PermitsConserved
<1>1. IInv => PermitsConserved
  BY DEF IInv
<1> QED
  BY <1>1, Invariance, PTL

\* No traffic is archived twice, for any number of connections and outbounds
\* and whatever control calls interleave.
THEOREM Archived == Spec => []ArchivedOnce
<1>1. IInv => ArchivedOnce
  <2> SUFFICES ASSUME IInv PROVE ArchivedOnce
    OBVIOUS
  <2>1. /\ Sum(outbound, Tags) \in Nat /\ Pending \in Nat
        /\ Sum(cell, Conns \ connections) \in Nat
    BY OutboundFinite, PendingNat, CellsFinite DEF IInv
  <2>2. Sum(outbound, Tags) <= Sum(cell, Conns \ connections)
    BY <2>1 DEF IInv, Accounted
  <2> QED
    BY <2>2, ArchivedOnceSums DEF IInv, Accounted
<1> QED
  BY <1>1, Invariance, PTL
=============================================================================

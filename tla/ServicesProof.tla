--------------------------- MODULE ServicesProof ---------------------------
(***************************************************************************)
(* The services around the path of a connection, for every value of their  *)
(* constants.  The services share no state, so that an invariant of one is *)
(* an invariant of them side by side; the one of the cache is in           *)
(* DnsCacheProof, and there are four more.                                 *)
(*                                                                         *)
(* Resolvers: who is asked in turn is responsible for the host, and who is *)
(* not asked any more has failed.                                          *)
(* DERP: whoever replaces a connection holds the lock until the old one    *)
(* has its order to stop, and its key stays free meanwhile.  QUIC: who     *)
(* makes or authenticates the manager's connection holds the mutex, so     *)
(* that the flag is about that connection; numbers drawn within one round  *)
(* differ.  Reload: unless something raced, one reload is at work and the  *)
(* router it has put into service is the one it has built.                 *)
(***************************************************************************)
EXTENDS Services, DnsCacheProof

-----------------------------------------------------------------------------
(* The resolvers.                                                          *)

\* The servers of the stage that is asked, in turn.
ResChain == Res!Chain(IF stage = "main" THEN conf.servers ELSE conf.fallback, query)

ResFresh ==
  /\ stage = "main" /\ queue = <<>> /\ racing = {} /\ failed = {} /\ refused = {}

\* Whoever asks servers was not answered by the layers above.
ResBelow ==
  /\ ~(conf.fake /\ query \notin conf.excluded) /\ query \notin conf.hosts

ResRacing ==
  /\ stage = "main" /\ refused = {} /\ conf.mode = "race" /\ conf.servers # <<>>
  /\ racing # {} /\ racing \cup failed = Res!Ids(conf.servers) /\ racing \cap failed = {}

\* A server alone is asked without a race.
ResAlone ==
  /\ conf.mode = "race" /\ stage = "main" /\ failed = {} /\ refused = {}
  /\ Len(conf.servers) = 1 /\ queue = <<conf.servers[1].id>>

\* The main servers have been passed over or have failed.
ResPassed ==
  \/ Res!FilteredDomain \/ refused # {} \/ Res!Responsible(conf.servers, query) \subseteq failed

\* Who is left of the servers of a stage has not failed, who is not has.
ResInTurn ==
  /\ conf.mode = "race" => conf.servers = <<>>
  /\ queue = ResChain \/ (Len(ResChain) = 2 /\ queue = <<ResChain[2]>> /\ ResChain[1] \in failed)
  /\ \A i \in DOMAIN queue : queue[i] \notin failed
  /\ stage = "main" =>
       /\ ~Res!FilteredDomain /\ refused = {}
       /\ failed \subseteq Res!Ids(conf.servers) \cup {"system"}
  /\ stage = "fallback" => Res!FallsBack /\ ResPassed

ResPhases ==
  /\ asked # "done" => source = None /\ raw = <<>> /\ answer = <<>>
  /\ asked = "new" => ResFresh
  /\ asked \in {"race", "chain"} => ResBelow
  /\ asked = "race" => ResRacing
  /\ asked = "chain" => ResAlone \/ ResInTurn

ResInv == Res!TypeOK /\ ResPhases /\ Res!AnswersRight

\* What the configurations promise of their lists of servers.
LEMMA ResConstants ==
  /\ MaxAddrs \in Nat \ {0} /\ None \notin {"system", "hosts", "fake"}
  /\ \A c \in Configs : /\ Res!IsServerList(c.servers) /\ Res!IsServerList(c.fallback)
                        /\ Res!Ids(c.servers) \cap Res!Ids(c.fallback) = {}
BY ServicesAssumption DEF Res!ResolversAssumption

LEMMA ServerList ==
  ASSUME NEW l, Res!IsServerList(l)
  PROVE  /\ Len(l) \in Nat /\ DOMAIN l = 1..Len(l) /\ (l = <<>> <=> Len(l) = 0)
         /\ \A i, j \in 1..Len(l) : l[i].id = l[j].id => i = j
         /\ \A i \in 1..Len(l) : l[i].id \in Res!Ids(l)
         /\ Res!Ids(l) \cap {"system", "hosts", "fake", None} = {}
<1>1. l \in Seq(Res!ToSet(l))
  BY DEF Res!IsServerList
<1>2. Len(l) \in Nat /\ DOMAIN l = 1..Len(l) /\ (l = <<>> <=> Len(l) = 0)
  BY <1>1
<1> QED
  BY <1>2 DEF Res!IsServerList, Res!Ids

\* Chain asks exactly the servers that are responsible, none of them twice.
ChainOf(C, R) ==
  \/ \E u : C = <<u>> /\ R = {u}
  \/ \E u, v : u # v /\ C = <<u, v>> /\ R = {u, v}

LEMMA ChainAsks ==
  ASSUME NEW l, Res!IsServerList(l), NEW h
  PROVE  /\ ChainOf(Res!Chain(l, h), Res!Responsible(l, h))
         /\ l # <<>> => Res!Responsible(l, h) \subseteq Res!Ids(l)
         /\ l = <<>> => Res!Responsible(l, h) = {"system"}
<1>1. CASE l = <<>>
  BY <1>1 DEF ChainOf, Res!Chain, Res!Responsible
<1>2. CASE l # <<>>
  <2> DEFINE plain == Res!Plain(l)
             match == Res!Match(l, h)
             d == Res!Default(l)
             m == Res!First(match)
             R == {i \in DOMAIN l :
                     \/ h \in l[i].domains /\ ~ \E j \in 1..(i - 1) : h \in l[j].domains
                     \/ l[i].domains = {} /\ ~ \E j \in 1..(i - 1) : l[j].domains = {}
                     \/ i = Len(l) /\ \A j \in DOMAIN l : l[j].domains # {}}
  <2>1. /\ Len(l) \in Nat \ {0} /\ DOMAIN l = 1..Len(l)
        /\ \A i, j \in 1..Len(l) : l[i].id = l[j].id => i = j
    BY <1>2, ServerList
  <2>2. Res!Responsible(l, h) = {l[i].id : i \in R}
    BY <1>2 DEF Res!Responsible
  <2>3. Res!Chain(l, h) = IF match = {} \/ m = d THEN <<l[d].id>> ELSE <<l[m].id, l[d].id>>
    BY <1>2 DEF Res!Chain
  <2>p. /\ plain = {i \in 1..Len(l) : l[i].domains = {}}
        /\ match = {i \in 1..Len(l) : h \in l[i].domains}
    BY <2>1 DEF Res!Plain, Res!Match
  <2>f. ASSUME NEW S, S \subseteq 1..Len(l), S # {}
        PROVE  Res!First(S) \in S /\ \A j \in S : Res!First(S) <= j
    <3>0. S \subseteq Nat
      BY <2>f, <2>1
    <3>1. \E x \in S : \A y \in S : x <= y
      BY <2>f, <3>0, Least
    <3> QED
      BY <3>1 DEF Res!First
  <2>4. match # {} => m \in match /\ \A j \in match : m <= j
    BY <2>f, <2>p
  <2>5. /\ d \in 1..Len(l)
        /\ plain # {} => d \in plain /\ \A j \in plain : d <= j
        /\ plain = {} => d = Len(l)
    <3>1. CASE plain # {}
      <4>1. d = Res!First(plain) /\ plain \subseteq 1..Len(l)
        BY <3>1, <2>p DEF Res!Default
      <4>2. d \in plain /\ \A j \in plain : d <= j
        BY <3>1, <4>1, <2>f
      <4> QED
        BY <3>1, <4>1, <4>2
    <3>2. CASE plain = {}
      BY <3>2, <2>1 DEF Res!Default
    <3> QED
      BY <3>1, <3>2
  <2> HIDE DEF plain, match, d, m
  <2>6. d \in R
    <3>1. CASE plain # {}
      <4>a. d \in 1..Len(l)
        BY <2>5
      <4>0. \A j \in 1..(d - 1) : j \in 1..Len(l) /\ ~(d <= j)
        BY <2>1, <4>a
      <4>1. d \in plain /\ \A j \in 1..(d - 1) : j \in 1..Len(l) /\ j \notin plain
        BY <3>1, <4>0, <2>5
      <4> QED
        BY <4>1, <2>1, <2>5, <2>p
    <3>2. CASE plain = {}
      BY <3>2, <2>5, <2>1, <2>p
    <3> QED
      BY <3>1, <3>2
  <2>7. match # {} => m \in R
    <3> SUFFICES ASSUME match # {} PROVE m \in R
      OBVIOUS
    <3>a. m \in 1..Len(l)
      BY <2>4, <2>p
    <3>b. \A j \in 1..(m - 1) : j \in 1..Len(l) /\ ~(m <= j)
      BY <2>1, <3>a
    <3>1. m \in match /\ \A j \in 1..(m - 1) : j \in 1..Len(l) /\ j \notin match
      BY <2>4, <3>b
    <3> QED
      BY <3>1, <2>1, <2>p
  <2>8. ASSUME NEW i \in R PROVE i = d \/ (match # {} /\ i = m)
    <3>1. CASE h \in l[i].domains /\ ~ \E j \in 1..(i - 1) : h \in l[j].domains
      <4>1. i \in match /\ m \in match /\ m <= i /\ m \in Nat /\ i \in Nat /\ 1 <= m
        BY <3>1, <2>1, <2>4, <2>p
      <4>2. ~(m \in 1..(i - 1))
        BY <3>1, <4>1, <2>p
      <4> QED
        BY <4>1, <4>2
    <3>2. CASE l[i].domains = {} /\ ~ \E j \in 1..(i - 1) : l[j].domains = {}
      <4>0. i \in plain
        BY <3>2, <2>1, <2>p
      <4>a. d \in plain /\ d <= i
        BY <4>0, <2>5
      <4>b. l[d].domains = {} /\ d \in 1..Len(l) /\ i \in 1..Len(l)
        BY <4>0, <4>a, <2>p
      <4>1. d <= i /\ d \in Nat /\ i \in Nat /\ 1 <= d
        BY <4>a, <4>b, <2>1
      <4>2. ~(d \in 1..(i - 1))
        BY <3>2, <4>b
      <4> QED
        BY <4>1, <4>2
    <3>3. CASE i = Len(l) /\ \A j \in DOMAIN l : l[j].domains # {}
      <4>1. plain = {}
        BY <3>3, <2>1, <2>p
      <4> QED
        BY <3>3, <4>1, <2>5
    <3> QED
      BY <3>1, <3>2, <3>3
  <2>9. CASE match = {} \/ m = d
    <3>1. R = {d}
      BY <2>6, <2>8, <2>9
    <3>2. {l[i].id : i \in R} = {l[d].id}
      BY <3>1
    <3>3. Res!Responsible(l, h) = {l[d].id} /\ Res!Chain(l, h) = <<l[d].id>>
      BY <2>2, <2>3, <2>9, <3>2
    <3> QED
      BY <1>2, <2>5, <3>3, ServerList DEF ChainOf
  <2>10. CASE ~(match = {} \/ m = d)
    <3>1. R = {m, d}
      BY <2>6, <2>7, <2>8, <2>10
    <3>2. {l[i].id : i \in R} = {l[m].id, l[d].id}
      BY <3>1
    <3>3. m \in 1..Len(l) /\ l[m].id # l[d].id
      BY <2>1, <2>4, <2>5, <2>10, <2>p
    <3>4. Res!Responsible(l, h) = {l[m].id, l[d].id} /\ Res!Chain(l, h) = <<l[m].id, l[d].id>>
      BY <2>2, <2>3, <2>10, <3>2
    <3> QED
      BY <1>2, <2>5, <3>3, <3>4, ServerList DEF ChainOf
  <2> QED
    BY <2>9, <2>10
<1> QED
  BY <1>1, <1>2

\* Two filters that share nothing and leave nothing out share a list among them.
LEMMA KeepSplit ==
  ASSUME NEW H, NEW q \in Seq(H), NEW S, NEW T, S \cap T = {}, H \subseteq S \cup T
  PROVE  Len(Keep(q, S)) + Len(Keep(q, T)) = Len(q)
<1> DEFINE f == CHOOSE g : Keeping(g, q, S, Len(q))
           e == CHOOSE g : Keeping(g, q, T, Len(q))
           Good(i) == /\ f[i] \in Seq(H) /\ e[i] \in Seq(H)
                      /\ Len(f[i]) + Len(e[i]) = i
           B == {i \in 0..Len(q) : ~Good(i)}
<1>n. Len(q) \in Nat
  OBVIOUS
<1>1. Keep(q, S) = f[Len(q)] /\ Keep(q, T) = e[Len(q)]
  BY DEF Keep, Keeping
<1>2. Keeping(f, q, S, Len(q)) /\ Keeping(e, q, T, Len(q))
  BY <1>n, KeepingExists
<1> HIDE DEF f, e
<1>3. ASSUME B # {} PROVE FALSE
  <2>1. PICK n \in B : \A y \in B : n <= y
    <3> HIDE DEF Good
    <3> B \subseteq Nat
      BY <1>n
    <3> HIDE DEF B
    <3> QED
      BY <1>3, Least
  <2>2. n \in 0..Len(q) /\ ~Good(n)
    OBVIOUS
  <2>3. f[n] = IF n = 0 THEN <<>>
               ELSE IF q[n] \in S THEN Append(f[n - 1], q[n]) ELSE f[n - 1]
    BY <1>n, <1>2, <2>2, KeepingAt
  <2>4. e[n] = IF n = 0 THEN <<>>
               ELSE IF q[n] \in T THEN Append(e[n - 1], q[n]) ELSE e[n - 1]
    BY <1>n, <1>2, <2>2, KeepingAt
  <2>5. CASE n = 0
    BY <2>2, <2>3, <2>4, <2>5
  <2>6. CASE n # 0
    <3>1. n - 1 \in 0..Len(q) /\ n \in Nat /\ n - 1 \in Nat /\ ~(n <= n - 1) /\ n \in 1..Len(q)
      BY <1>n, <2>2, <2>6
    <3>2. Good(n - 1)
      <4>1. n - 1 \notin B
        BY <2>1, <3>1
      <4> QED
        BY <3>1, <4>1
    <3>3. q[n] \in H
      BY <3>1
    <3>4. CASE q[n] \in S
      <4>1. f[n] = Append(f[n - 1], q[n]) /\ e[n] = e[n - 1]
        BY <2>3, <2>4, <2>6, <3>4
      <4>2. f[n - 1] \in Seq(H) /\ e[n - 1] \in Seq(H)
        BY <3>2
      <4>3. f[n] \in Seq(H) /\ Len(f[n]) = Len(f[n - 1]) + 1 /\ Len(f[n - 1]) \in Nat
        BY <3>3, <4>1, <4>2
      <4>a. Len(e[n - 1]) \in Nat
        BY <4>2
      <4>b. Len(f[n - 1]) + Len(e[n - 1]) = n - 1
        BY <3>2
      <4>4. \A a, b \in Nat : a + b = n - 1 => (a + 1) + b = n /\ a + (b + 1) = n
        BY <3>1
      <4>c. Len(f[n - 1]) \in Nat /\ Len(e[n - 1]) \in Nat
        BY <4>3, <4>a
      <4>d. (Len(f[n - 1]) + 1) + Len(e[n - 1]) = n
        BY <4>4, <4>c, <4>b
      <4>5. Len(f[n]) + Len(e[n]) = n
        BY <4>1, <4>3, <4>d
      <4> QED
        BY <2>2, <4>1, <4>2, <4>3, <4>5
    <3>5. CASE q[n] \in T
      <4>1. e[n] = Append(e[n - 1], q[n]) /\ f[n] = f[n - 1]
        BY <2>3, <2>4, <2>6, <3>5
      <4>2. e[n - 1] \in Seq(H) /\ f[n - 1] \in Seq(H)
        BY <3>2
      <4>3. e[n] \in Seq(H) /\ Len(e[n]) = Len(e[n - 1]) + 1 /\ Len(e[n - 1]) \in Nat
        BY <3>3, <4>1, <4>2
      <4>a. Len(f[n - 1]) \in Nat
        BY <4>2
      <4>b. Len(f[n - 1]) + Len(e[n - 1]) = n - 1
        BY <3>2
      <4>4. \A a, b \in Nat : a + b = n - 1 => (a + 1) + b = n /\ a + (b + 1) = n
        BY <3>1
      <4>c. Len(f[n - 1]) \in Nat /\ Len(e[n - 1]) \in Nat
        BY <4>3, <4>a
      <4>d. Len(f[n - 1]) + (Len(e[n - 1]) + 1) = n
        BY <4>4, <4>c, <4>b
      <4>5. Len(f[n]) + Len(e[n]) = n
        BY <4>1, <4>3, <4>d
      <4> QED
        BY <2>2, <4>1, <4>2, <4>3, <4>5
    <3> QED
      BY <3>3, <3>4, <3>5
  <2> QED
    BY <2>5, <2>6
<1>4. Good(Len(q))
  <2> HIDE DEF Good
  <2>1. Len(q) \in 0..Len(q) /\ B = {}
    BY <1>n, <1>3
  <2> QED
    BY <2>1
<1> QED
  BY <1>1, <1>4

LEMMA AnswersAre ==
  ASSUME NEW a PROVE a \in Res!Answers <=> a \in Seq(Res!Addrs) /\ Len(a) \in 1..MaxAddrs
<1>1. MaxAddrs \in Nat
  BY ResConstants
<1>2. ASSUME a \in Res!Answers PROVE a \in Seq(Res!Addrs) /\ Len(a) \in 1..MaxAddrs
  <2>1. PICK n \in 1..MaxAddrs : a \in [1..n -> Res!Addrs]
    BY <1>2 DEF Res!Answers
  <2>2. n \in Nat
    BY <1>1, <2>1
  <2> QED
    BY <2>1, <2>2
<1>3. ASSUME a \in Seq(Res!Addrs), Len(a) \in 1..MaxAddrs PROVE a \in Res!Answers
  <2>1. a \in [1..Len(a) -> Res!Addrs]
    BY <1>3
  <2> QED
    BY <1>3, <2>1 DEF Res!Answers
<1> QED
  BY <1>2, <1>3

\* Two filtered lists, one after the other.
LEMMA Joined ==
  ASSUME NEW H, NEW x \in Seq(H), NEW y \in Seq(H)
  PROVE  /\ x \o y \in Seq(H) /\ Len(x \o y) = Len(x) + Len(y)
         /\ ToSet(x \o y) = ToSet(x) \cup ToSet(y)
         /\ \A i \in 1..Len(x \o y) : \/ i <= Len(x) /\ (x \o y)[i] \in ToSet(x)
                                      \/ i > Len(x) /\ (x \o y)[i] \in ToSet(y)
<1> DEFINE z == x \o y
<1>1. /\ z \in Seq(H) /\ Len(z) = Len(x) + Len(y) /\ Len(x) \in Nat /\ Len(y) \in Nat
      /\ \A i \in 1..Len(z) : z[i] = IF i <= Len(x) THEN x[i] ELSE y[i - Len(x)]
  OBVIOUS
<1> HIDE DEF z
<1>d. DOMAIN z = 1..Len(z)
  BY <1>1
<1>2. ASSUME NEW i \in 1..Len(z)
      PROVE  \/ i <= Len(x) /\ z[i] \in ToSet(x)
             \/ i > Len(x) /\ z[i] \in ToSet(y)
  <2>1. CASE i <= Len(x)
    <3>1. i \in 1..Len(x) /\ z[i] = x[i]
      BY <1>1, <2>1
    <3> QED
      BY <2>1, <3>1 DEF ToSet
  <2>2. CASE ~(i <= Len(x))
    <3>1. i > Len(x) /\ i - Len(x) \in 1..Len(y) /\ z[i] = y[i - Len(x)]
      BY <1>1, <2>2
    <3> QED
      BY <3>1 DEF ToSet
  <2> QED
    BY <2>1, <2>2
<1>3. ToSet(z) \subseteq ToSet(x) \cup ToSet(y)
  BY <1>2, <1>d DEF ToSet
<1>4. ASSUME NEW i \in 1..Len(x) PROVE x[i] \in ToSet(z)
  <2>1. i \in 1..Len(z) /\ z[i] = x[i]
    BY <1>1
  <2> QED
    BY <1>d, <2>1 DEF ToSet
<1>5. ASSUME NEW i \in 1..Len(y) PROVE y[i] \in ToSet(z)
  <2>1. i + Len(x) \in 1..Len(z) /\ ~(i + Len(x) <= Len(x)) /\ (i + Len(x)) - Len(x) = i
    BY <1>1
  <2>2. z[i + Len(x)] = y[i]
    BY <1>1, <2>1
  <2> QED
    BY <1>d, <2>1, <2>2 DEF ToSet
<1>6. DOMAIN x = 1..Len(x) /\ DOMAIN y = 1..Len(y)
  OBVIOUS
<1>7. ToSet(x) \cup ToSet(y) \subseteq ToSet(z)
  BY <1>4, <1>5, <1>6 DEF ToSet
<1>8. ToSet(z) = ToSet(x) \cup ToSet(y)
  BY <1>3, <1>7
<1> QED
  BY <1>1, <1>2, <1>8 DEF z

\* The preferred family first, no address lost or added.
ResOrdered(a) ==
  \A i, j \in DOMAIN a : i < j =>
    /\ conf.prefer = "ipv4" => ~(a[i] = "v6" /\ a[j] # "v6")
    /\ conf.prefer = "ipv6" => ~(a[i] # "v6" /\ a[j] = "v6")

LEMMA PreferFacts ==
  ASSUME NEW a \in Res!Answers
  PROVE  /\ Res!Prefer(a) \in Res!Answers
         /\ Len(Res!Prefer(a)) = Len(a) /\ Res!ToSet(Res!Prefer(a)) = Res!ToSet(a)
         /\ ResOrdered(Res!Prefer(a))
<1> DEFINE six == Keep(a, Res!V6)
           four == Keep(a, Res!V4)
<1>1. a \in Seq(Res!Addrs) /\ Len(a) \in 1..MaxAddrs
  BY AnswersAre
<1>t. \A s : Res!ToSet(s) = ToSet(s)
  BY DEF Res!ToSet, ToSet
<1>2. /\ six \in Seq(Res!Addrs) /\ ToSet(six) = ToSet(a) \cap Res!V6
      /\ four \in Seq(Res!Addrs) /\ ToSet(four) = ToSet(a) \cap Res!V4
  BY <1>1, KeepFacts
<1>3. /\ Len(four) + Len(six) = Len(a) /\ Len(six) + Len(four) = Len(a)
      /\ Len(four) \in Nat /\ Len(six) \in Nat
  <2>1. /\ Res!V4 \cap Res!V6 = {} /\ Res!Addrs \subseteq Res!V4 \cup Res!V6
    BY DEF Res!V4, Res!V6, Res!Addrs
  <2>2. Len(four) + Len(six) = Len(a)
    BY <1>1, <2>1, KeepSplit
  <2> HIDE DEF four, six
  <2> QED
    BY <1>2, <2>2
<1>4. ToSet(a) = ToSet(four) \cup ToSet(six)
  <2>1. ToSet(a) \subseteq Res!Addrs
    BY <1>1 DEF ToSet
  <2> QED
    BY <1>2, <2>1 DEF Res!Addrs
<1>5. Res!Prefer(a) = IF conf.prefer = "none" THEN a
                      ELSE IF conf.prefer = "ipv4" THEN four \o six ELSE six \o four
  BY DEF Res!Prefer, Res!Keep, Keep
<1> HIDE DEF four, six
<1>6. /\ \A u \in ToSet(four) : u # "v6"
      /\ \A u \in ToSet(six) : u = "v6"
  BY <1>2 DEF Res!V4, Res!V6
<1>7. CASE conf.prefer = "none"
  BY <1>5, <1>7 DEF ResOrdered
<1>8. CASE conf.prefer = "ipv4"
  <2> DEFINE z == four \o six
  <2>s. four \in Seq(Res!Addrs) /\ six \in Seq(Res!Addrs)
    BY <1>2
  <2>j. /\ z \in Seq(Res!Addrs) /\ Len(z) = Len(four) + Len(six)
        /\ ToSet(z) = ToSet(four) \cup ToSet(six)
    BY <2>s, Joined
  <2>k. \A i \in 1..Len(z) : \/ i <= Len(four) /\ z[i] \in ToSet(four)
                             \/ i > Len(four) /\ z[i] \in ToSet(six)
    BY <2>s, Joined
  <2>2. Res!Prefer(a) = z
    BY <1>5, <1>8
  <2> HIDE DEF z
  <2>l. Len(z) = Len(a)
    BY <2>j, <1>3
  <2>t. ToSet(z) = ToSet(a)
    BY <2>j, <1>4
  <2>1. z \in Seq(Res!Addrs) /\ Len(z) = Len(a) /\ ToSet(z) = ToSet(a)
    BY <2>j, <2>l, <2>t
  <2>3. DOMAIN z = 1..Len(z) /\ Len(z) \in Nat
    BY <2>1
  <2>4. ASSUME NEW i \in 1..Len(z), NEW j \in 1..Len(z), i < j, z[i] = "v6" PROVE z[j] = "v6"
    <3>1. i > Len(four)
      BY <2>k, <2>4, <1>6
    <3>2. ~(j <= Len(four))
      BY <3>1, <2>3, <2>4, <1>3
    <3> QED
      BY <3>2, <2>k, <1>6
  <2>5. ResOrdered(z)
    BY <2>3, <2>4, <1>8 DEF ResOrdered
  <2>6. z \in Res!Answers
    BY <1>1, <2>1, AnswersAre
  <2> QED
    BY <2>1, <2>2, <2>5, <2>6, <1>t
<1>9. CASE conf.prefer \notin {"none", "ipv4"}
  <2> DEFINE z == six \o four
  <2>s. four \in Seq(Res!Addrs) /\ six \in Seq(Res!Addrs)
    BY <1>2
  <2>j. /\ z \in Seq(Res!Addrs) /\ Len(z) = Len(six) + Len(four)
        /\ ToSet(z) = ToSet(six) \cup ToSet(four)
    BY <2>s, Joined
  <2>k. \A i \in 1..Len(z) : \/ i <= Len(six) /\ z[i] \in ToSet(six)
                             \/ i > Len(six) /\ z[i] \in ToSet(four)
    BY <2>s, Joined
  <2>2. Res!Prefer(a) = z
    BY <1>5, <1>9
  <2> HIDE DEF z
  <2>l. Len(z) = Len(a)
    BY <2>j, <1>3
  <2>t. ToSet(z) = ToSet(a)
    BY <2>j, <1>4
  <2>1. z \in Seq(Res!Addrs) /\ Len(z) = Len(a) /\ ToSet(z) = ToSet(a)
    BY <2>j, <2>l, <2>t
  <2>3. DOMAIN z = 1..Len(z) /\ Len(z) \in Nat
    BY <2>1
  <2>4. ASSUME NEW i \in 1..Len(z), NEW j \in 1..Len(z), i < j, z[i] # "v6" PROVE z[j] # "v6"
    <3>1. i > Len(six)
      BY <2>k, <2>4, <1>6
    <3>2. ~(j <= Len(six))
      BY <3>1, <2>3, <2>4, <1>3
    <3> QED
      BY <3>2, <2>k, <1>6
  <2>5. ResOrdered(z)
    BY <2>3, <2>4, <1>9 DEF ResOrdered
  <2>6. z \in Res!Answers
    BY <1>1, <2>1, AnswersAre
  <2> QED
    BY <2>1, <2>2, <2>5, <2>6, <1>t
<1> QED
  BY <1>7, <1>8, <1>9

\* What a configuration says of its servers.
LEMMA ResLists ==
  ASSUME conf \in Configs
  PROVE  /\ Res!IsServerList(conf.servers) /\ Res!IsServerList(conf.fallback)
         /\ Res!Ids(conf.servers) \cap Res!Ids(conf.fallback) = {}
         /\ Res!Servers \cap {"hosts", "fake", None} = {}
<1>1. /\ Res!IsServerList(conf.servers) /\ Res!IsServerList(conf.fallback)
      /\ Res!Ids(conf.servers) \cap Res!Ids(conf.fallback) = {}
  BY ResConstants
<1>2. /\ Res!Ids(conf.servers) \cap {"system", "hosts", "fake", None} = {}
      /\ Res!Ids(conf.fallback) \cap {"system", "hosts", "fake", None} = {}
  BY <1>1, ServerList
<1>3. {"system"} \cap {"hosts", "fake", None} = {}
  BY ResConstants
<1> QED
  BY <1>1, <1>2, <1>3 DEF Res!Servers

\* One configuration and one host: the same servers.
LEMMA ResSame ==
  ASSUME conf' = conf, query' = query
  PROVE  /\ Res!Servers' = Res!Servers /\ Res!MainEligible' = Res!MainEligible
         /\ Res!Eligible' = Res!Eligible
         /\ (Res!FallsBack' <=> Res!FallsBack) /\ (Res!FilteredDomain' <=> Res!FilteredDomain)
         /\ (ResBelow' <=> ResBelow)
<1>1. Res!Servers' = Res!Servers
  BY DEF Res!Servers
<1>2. Res!FallsBack' <=> Res!FallsBack
  BY DEF Res!FallsBack
<1>3. Res!FilteredDomain' <=> Res!FilteredDomain
  BY <1>2 DEF Res!FilteredDomain
<1>4. Res!MainEligible' = Res!MainEligible
  BY DEF Res!MainEligible
<1>5. Res!Eligible' = Res!Eligible
  BY <1>2, <1>3, <1>4 DEF Res!Eligible
<1>6. ResBelow' <=> ResBelow
  BY DEF ResBelow
<1> QED
  BY <1>1, <1>2, <1>3, <1>4, <1>5, <1>6

\* The servers of a list are asked in turn: who they are.
LEMMA ResAsks ==
  ASSUME conf \in Configs, NEW l \in {conf.servers, conf.fallback}
  PROVE  /\ ChainOf(Res!Chain(l, query), Res!Responsible(l, query))
         /\ Res!Responsible(l, query) \subseteq Res!Servers
         /\ Res!ToSet(Res!Chain(l, query)) = Res!Responsible(l, query)
<1>1. Res!IsServerList(l)
  BY ResLists
<1>2. /\ ChainOf(Res!Chain(l, query), Res!Responsible(l, query))
      /\ l # <<>> => Res!Responsible(l, query) \subseteq Res!Ids(l)
      /\ l = <<>> => Res!Responsible(l, query) = {"system"}
  BY <1>1, ChainAsks
<1>3. Res!Ids(l) \cup {"system"} \subseteq Res!Servers
  BY DEF Res!Servers
<1>4. ASSUME NEW u PROVE Res!ToSet(<<u>>) = {u}
  BY DEF Res!ToSet
<1>5. ASSUME NEW u, NEW v PROVE Res!ToSet(<<u, v>>) = {u, v}
  BY DEF Res!ToSet
<1>6. Res!ToSet(Res!Chain(l, query)) = Res!Responsible(l, query)
  BY <1>2, <1>4, <1>5 DEF ChainOf
<1> QED
  BY <1>2, <1>3, <1>6

\* A call that has not begun.
LEMMA ResInit == Res!Init => ResInv
<1> SUFFICES ASSUME Res!Init PROVE ResInv
  OBVIOUS
<1>1. /\ conf \in Configs /\ query \in Queries /\ asked = "new" /\ stage = "main"
      /\ queue = <<>> /\ racing = {} /\ failed = {} /\ refused = {}
      /\ source = None /\ raw = <<>> /\ answer = <<>>
  BY DEF Res!Init
<1>2. Res!ToSet(queue) = {}
  BY <1>1 DEF Res!ToSet
<1>3. Res!TypeOK
  BY <1>1, <1>2 DEF Res!TypeOK
<1>4. ResPhases
  BY <1>1 DEF ResPhases, ResFresh
<1>5. Res!AnswersRight
  BY <1>1 DEF Res!AnswersRight
<1> QED
  BY <1>3, <1>4, <1>5 DEF ResInv

\* What a returned answer is made of.
LEMMA ResReturns ==
  ASSUME NEW who, NEW a \in Res!Answers, Res!Return(who, a), conf' = conf
  PROVE  /\ raw' \in Res!Answers /\ answer' \in Res!Answers
         /\ Len(answer') = Len(raw') /\ Res!ToSet(answer') = Res!ToSet(raw')
         /\ ResOrdered(answer)'
         /\ asked' = "done" /\ source' = who /\ raw' = a
         /\ stage' = stage /\ queue' = queue /\ racing' = racing
<1>1. /\ asked' = "done" /\ source' = who /\ raw' = a /\ answer' = Res!Prefer(a)
      /\ stage' = stage /\ queue' = queue /\ racing' = racing
  BY DEF Res!Return
<1>2. /\ Res!Prefer(a) \in Res!Answers /\ Len(Res!Prefer(a)) = Len(a)
      /\ Res!ToSet(Res!Prefer(a)) = Res!ToSet(a) /\ ResOrdered(Res!Prefer(a))
  BY PreferFacts
<1>3. ResOrdered(answer)'
  BY <1>1, <1>2 DEF ResOrdered
<1> QED
  BY <1>1, <1>2, <1>3

\* An answer that was returned is right if its source is.
LEMMA ResRight ==
  ASSUME Res!TypeOK, ResPhases, asked # "done", NEW who, NEW a \in Res!Answers,
         Res!Return(who, a), conf' = conf, query' = query, failed' = failed, refused' \subseteq Res!Servers,
         who \in Res!Servers \cup {"hosts", "fake"},
         (who = "fake") <=> (conf.fake /\ query \notin conf.excluded),
         (who = "hosts") <=> (query \in conf.hosts /\ who # "fake"),
         who \notin {"fake", "hosts"} =>
           who \in Res!Eligible \ failed /\ (Res!OnTrial => ~Res!Filtered(a))
  PROVE  ResInv'
<1>1. /\ raw' \in Res!Answers /\ answer' \in Res!Answers
      /\ Len(answer') = Len(raw') /\ Res!ToSet(answer') = Res!ToSet(raw')
      /\ ResOrdered(answer)'
      /\ asked' = "done" /\ source' = who /\ raw' = a
      /\ stage' = stage /\ queue' = queue /\ racing' = racing
  BY ResReturns
<1>2. /\ Res!Servers' = Res!Servers /\ Res!Eligible' = Res!Eligible
      /\ (Res!FallsBack' <=> Res!FallsBack)
  BY ResSame
<1>3. Res!TypeOK'
  BY <1>1, <1>2 DEF Res!TypeOK
<1>4. who # None
  BY ResConstants, ResLists DEF Res!TypeOK
<1>5. Res!OnTrial' => Res!OnTrial
  BY <1>1, <1>2 DEF Res!OnTrial
<1>6. Res!Filtered(raw)' => Res!Filtered(a)
  BY <1>1 DEF Res!Filtered
<1>7. Res!AnswersRight'
  BY <1>1, <1>2, <1>4, <1>5, <1>6 DEF Res!AnswersRight, ResOrdered
<1>8. ResPhases'
  BY <1>1 DEF ResPhases
<1> QED
  BY <1>3, <1>7, <1>8 DEF ResInv

\* The servers of a stage come to be asked.
LEMMA ResAsk ==
  ASSUME Res!TypeOK, ResPhases, ResBelow, asked # "done", NEW st \in {"main", "fallback"},
         Res!Ask(st), conf' = conf, query' = query,
         failed' \subseteq Res!Servers, refused' \subseteq Res!Servers,
         conf.mode = "race" => conf.servers = <<>>,
         st = "main" => /\ ~Res!FilteredDomain /\ refused' = {} /\ failed' = {},
         st = "fallback" =>
           /\ Res!FallsBack /\ Res!Responsible(conf.fallback, query) \cap failed' = {}
           /\ \/ Res!FilteredDomain \/ refused' # {}
              \/ Res!Responsible(conf.servers, query) \subseteq failed'
  PROVE  ResInv'
<1> DEFINE l == IF st = "main" THEN conf.servers ELSE conf.fallback
<1>1. /\ asked' = "chain" /\ stage' = st /\ queue' = Res!Chain(l, query)
      /\ racing' = racing /\ source' = source /\ raw' = raw /\ answer' = answer
  BY DEF Res!Ask
<1>2. conf \in Configs
  BY DEF Res!TypeOK
<1>3. /\ Res!ToSet(queue') = Res!Responsible(l, query) /\ Res!ToSet(queue') \subseteq Res!Servers
  BY <1>1, <1>2, ResAsks
<1>4. ResChain' = queue'
  BY <1>1 DEF ResChain
<1>5. /\ Res!Servers' = Res!Servers /\ (Res!FallsBack' <=> Res!FallsBack)
      /\ (Res!FilteredDomain' <=> Res!FilteredDomain) /\ (ResBelow' <=> ResBelow)
  BY ResSame
<1>6. Res!TypeOK'
  BY <1>1, <1>3, <1>5 DEF Res!TypeOK
<1>7. \A i \in DOMAIN queue' : queue'[i] \notin failed'
  <2>1. Res!Responsible(l, query) \cap failed' = {}
    OBVIOUS
  <2> HIDE DEF l
  <2> QED
    BY <1>3, <2>1 DEF Res!ToSet
<1>8. ResPassed' <=> \/ Res!FilteredDomain \/ refused' # {}
                     \/ Res!Responsible(conf.servers, query) \subseteq failed'
  BY <1>5 DEF ResPassed
<1>9. ResInTurn'
  BY <1>1, <1>4, <1>5, <1>7, <1>8 DEF ResInTurn
<1>10. ResPhases'
  BY <1>1, <1>5, <1>9 DEF ResPhases
<1>11. Res!AnswersRight'
  BY <1>1 DEF Res!AnswersRight
<1> QED
  BY <1>6, <1>10, <1>11 DEF ResInv

\* Down the layers to the servers.
LEMMA ResStart == ASSUME ResInv, Res!Resolve PROVE ResInv'
<1>1. /\ Res!TypeOK /\ ResPhases /\ asked = "new" /\ conf \in Configs
      /\ ResFresh /\ source = None /\ raw = <<>> /\ answer = <<>>
  BY DEF ResInv, Res!Resolve, ResPhases, Res!TypeOK
<1>2. conf' = conf /\ query' = query /\ failed' = {} /\ refused' = {}
  BY <1>1 DEF Res!Resolve, ResFresh
<1>a. <<"v4">> \in Res!Answers
  <2>1. <<"v4">> \in Seq(Res!Addrs) /\ Len(<<"v4">>) \in 1..MaxAddrs
    BY ResConstants DEF Res!Addrs, Res!V4
  <2> QED
    BY <2>1, AnswersAre
<1>s. "fake" \notin Res!Servers /\ "hosts" \notin Res!Servers
  BY <1>1, ResLists
<1>3. CASE conf.fake /\ query \notin conf.excluded
  <2>1. Res!Return("fake", <<"v4">>)
    BY <1>1, <1>3 DEF Res!Resolve
  <2> QED
    BY <1>1, <1>2, <1>3, <1>a, <2>1, ResRight DEF ResFresh
<1>4. CASE ~(conf.fake /\ query \notin conf.excluded) /\ query \in conf.hosts
  <2>1. Res!Return("hosts", <<"v4">>)
    BY <1>1, <1>4 DEF Res!Resolve
  <2> QED
    BY <1>1, <1>2, <1>4, <1>a, <2>1, ResRight DEF ResFresh
<1>5. CASE ResBelow /\ conf.mode = "race" /\ conf.servers # <<>>
  <2>1. /\ Len(conf.servers) \in Nat \ {0} /\ DOMAIN conf.servers = 1..Len(conf.servers)
        /\ conf.servers[1].id \in Res!Ids(conf.servers)
    <3>1. Res!IsServerList(conf.servers)
      BY <1>1, ResLists
    <3>2. Len(conf.servers) \in Nat \ {0} /\ DOMAIN conf.servers = 1..Len(conf.servers)
      BY <1>5, <3>1, ServerList
    <3>3. 1 \in 1..Len(conf.servers)
      BY <3>2
    <3> QED
      BY <3>2, <3>3 DEF Res!Ids
  <2>2. /\ Res!Servers' = Res!Servers /\ (ResBelow' <=> ResBelow)
    BY <1>2, ResSame
  <2>i. Res!Ids(conf.servers) \subseteq Res!Servers
    BY DEF Res!Servers
  <2>3. CASE Len(conf.servers) > 1
    <3>1. /\ asked' = "race" /\ racing' = Res!Ids(conf.servers) /\ stage' = stage
          /\ queue' = queue /\ source' = source /\ raw' = raw /\ answer' = answer
      BY <1>5, <2>3 DEF Res!Resolve, ResBelow
    <3>2. Res!TypeOK'
      BY <1>1, <1>2, <2>2, <2>i, <3>1 DEF Res!TypeOK
    <3>3. ResRacing'
      BY <1>1, <1>2, <1>5, <2>1, <3>1 DEF ResRacing, ResFresh
    <3> QED
      BY <1>1, <1>5, <2>2, <3>1, <3>2, <3>3 DEF ResInv, ResPhases, Res!AnswersRight
  <2>4. CASE ~(Len(conf.servers) > 1)
    <3>1. /\ asked' = "chain" /\ queue' = <<conf.servers[1].id>> /\ stage' = stage
          /\ racing' = racing /\ source' = source /\ raw' = raw /\ answer' = answer
      BY <1>5, <2>4 DEF Res!Resolve, ResBelow
    <3>2. Res!ToSet(queue') \subseteq Res!Servers
      BY <2>1, <2>i, <3>1 DEF Res!ToSet
    <3>3. Res!TypeOK'
      BY <1>1, <1>2, <2>2, <3>1, <3>2 DEF Res!TypeOK
    <3>n. \A n \in Nat \ {0} : ~(n > 1) => n = 1
      OBVIOUS
    <3>4. Len(conf.servers) = 1
      BY <2>1, <2>4, <3>n
    <3>5. ResAlone'
      BY <1>1, <1>2, <1>5, <3>1, <3>4 DEF ResAlone, ResFresh
    <3> QED
      BY <1>1, <1>5, <2>2, <3>1, <3>3, <3>5 DEF ResInv, ResPhases, Res!AnswersRight
  <2> QED
    BY <2>3, <2>4
<1>6. CASE ResBelow /\ ~(conf.mode = "race" /\ conf.servers # <<>>)
  <2> DEFINE st == IF Res!FilteredDomain THEN "fallback" ELSE "main"
  <2>1. Res!Ask(st)
    <3>1. ~(conf.mode = "race" /\ Len(conf.servers) > 1)
      <4>1. Res!IsServerList(conf.servers)
        BY <1>1, ResLists
      <4>2. conf.servers = <<>> => Len(conf.servers) = 0
        BY <4>1, ServerList
      <4> QED
        BY <1>6, <4>2
    <3> QED
      BY <1>6, <3>1 DEF Res!Resolve, ResBelow
  <2>2. Res!FilteredDomain => Res!FallsBack
    BY DEF Res!FilteredDomain
  <2>3. CASE Res!FilteredDomain
    BY <1>1, <1>2, <1>6, <2>1, <2>2, <2>3, ResAsk
  <2>4. CASE ~Res!FilteredDomain
    BY <1>1, <1>2, <1>6, <2>1, <2>4, ResAsk
  <2> QED
    BY <2>3, <2>4
<1> QED
  BY <1>3, <1>4, <1>5, <1>6 DEF ResBelow

\* The race: someone answers, or fails.
LEMMA ResRace ==
  ASSUME ResInv, NEW u \in racing,
         Res!RaceLost(u) \/ \E a \in Res!Answers : Res!RaceWon(u, a)
  PROVE  ResInv'
<1>1. /\ Res!TypeOK /\ ResPhases /\ asked = "race" /\ conf \in Configs
      /\ ResRacing /\ ResBelow /\ source = None /\ raw = <<>> /\ answer = <<>>
  BY DEF ResInv, Res!RaceLost, Res!RaceWon, ResPhases, Res!TypeOK
<1>2. conf' = conf /\ query' = query /\ refused' = refused
  BY DEF Res!RaceLost, Res!RaceWon
<1>3. u \in Res!Servers /\ u \notin failed /\ refused \subseteq Res!Servers
  BY <1>1 DEF Res!TypeOK, ResRacing
<1>4. ~Res!FallsBack /\ ~Res!FilteredDomain
  BY <1>1 DEF Res!FallsBack, Res!FilteredDomain, ResRacing
<1>5. Res!MainEligible = Res!Ids(conf.servers)
  BY <1>1 DEF Res!MainEligible, ResRacing
<1>6. u \notin {"hosts", "fake", None}
  BY <1>1, <1>3, ResLists
<1>7. ASSUME NEW a \in Res!Answers, Res!RaceWon(u, a) PROVE ResInv'
  <2>1. Res!Return(u, a) /\ failed' = failed
    BY <1>7 DEF Res!RaceWon
  <2>2. u \in Res!Eligible \ failed
    BY <1>1, <1>3, <1>4, <1>5 DEF Res!Eligible, ResRacing
  <2>3. ~Res!OnTrial
    BY <1>4 DEF Res!OnTrial
  <2> QED
    BY <1>1, <1>2, <1>3, <1>6, <2>1, <2>2, <2>3, ResRight DEF ResBelow
<1>8. ASSUME Res!RaceLost(u) PROVE ResInv'
  <2>1. /\ failed' = failed \cup {u} /\ racing' = racing \ {u}
        /\ asked' = IF racing = {u} THEN "done" ELSE "race"
        /\ stage' = stage /\ queue' = queue /\ source' = source /\ raw' = raw /\ answer' = answer
    BY <1>8 DEF Res!RaceLost
  <2>2. /\ Res!Servers' = Res!Servers /\ (ResBelow' <=> ResBelow)
        /\ Res!MainEligible' = Res!MainEligible /\ (Res!FallsBack' <=> Res!FallsBack)
    BY <1>2, ResSame
  <2>3. Res!TypeOK'
    BY <1>1, <1>2, <1>3, <2>1, <2>2 DEF Res!TypeOK
  <2>4. racing' \cup failed' = Res!Ids(conf.servers) /\ racing' \cap failed' = {}
    BY <1>1, <2>1 DEF ResRacing
  <2>5. CASE racing = {u}
    <3>1. asked' = "done" /\ Res!MainEligible' \subseteq failed'
      BY <1>5, <2>1, <2>2, <2>4, <2>5
    <3>2. source' = None /\ raw' = <<>> /\ answer' = <<>> /\ DOMAIN answer' = {}
      BY <1>1, <2>1
    <3>3. None # "fake" /\ None # "hosts"
      BY ResConstants
    <3>4. Res!AnswersRight'
      BY <1>1, <1>2, <1>4, <2>2, <3>1, <3>2, <3>3 DEF Res!AnswersRight, ResBelow
    <3> QED
      BY <2>3, <3>1, <3>2, <3>4 DEF ResInv, ResPhases
  <2>6. CASE racing # {u}
    <3>1. asked' = "race" /\ racing' # {}
      BY <2>1, <2>6
    <3>2. ResRacing'
      BY <1>1, <1>2, <2>1, <2>4, <3>1 DEF ResRacing
    <3> QED
      BY <1>1, <2>1, <2>2, <2>3, <3>1, <3>2 DEF ResInv, ResPhases, Res!AnswersRight
  <2> QED
    BY <2>5, <2>6
<1> QED
  BY <1>7, <1>8

\* Who is asked in turn: those responsible at this stage that have not failed yet.
ResStage == Res!Responsible(IF stage = "main" THEN conf.servers ELSE conf.fallback, query)

LEMMA ResQueue ==
  ASSUME Res!TypeOK, ResInTurn
  PROVE  \/ \E u : /\ queue = <<u>> /\ u \in ResStage \ failed /\ ResStage \subseteq failed \cup {u}
         \/ \E u, v : /\ queue = <<u, v>> /\ ResChain = <<u, v>> /\ u # v
                      /\ ResStage = {u, v} /\ u \notin failed /\ v \notin failed
<1>1. conf \in Configs /\ stage \in {"main", "fallback"}
  BY DEF Res!TypeOK
<1>2. ChainOf(ResChain, ResStage)
  <2>1. CASE stage = "main"
    BY <1>1, <2>1, ResAsks DEF ResChain, ResStage
  <2>2. CASE stage # "main"
    BY <1>1, <2>2, ResAsks DEF ResChain, ResStage
  <2> QED
    BY <2>1, <2>2
<1>3. \A i \in DOMAIN queue : queue[i] \notin failed
  BY DEF ResInTurn
<1>4. CASE \E u : ResChain = <<u>> /\ ResStage = {u}
  <2>1. PICK u : ResChain = <<u>> /\ ResStage = {u}
    BY <1>4
  <2>2. Len(ResChain) = 1
    BY <2>1
  <2>3. queue = <<u>>
    BY <2>1, <2>2 DEF ResInTurn
  <2>4. u \notin failed
    BY <1>3, <2>3
  <2> QED
    BY <2>1, <2>3, <2>4
<1>5. CASE \E u, v : u # v /\ ResChain = <<u, v>> /\ ResStage = {u, v}
  <2>1. PICK u, v : u # v /\ ResChain = <<u, v>> /\ ResStage = {u, v}
    BY <1>5
  <2>2. ResChain[1] = u /\ ResChain[2] = v
    BY <2>1
  <2>3. CASE queue = ResChain
    <3>1. queue = <<u, v>> /\ u \notin failed /\ v \notin failed
      BY <1>3, <2>1, <2>3
    <3> QED
      BY <2>1, <3>1
  <2>4. CASE queue # ResChain
    <3>1. queue = <<v>> /\ u \in failed
      BY <2>2, <2>4 DEF ResInTurn
    <3>2. v \notin failed
      BY <1>3, <3>1
    <3> QED
      BY <2>1, <3>1, <3>2
  <2> QED
    BY <2>3, <2>4
<1> QED
  BY <1>2, <1>4, <1>5 DEF ChainOf

\* Those asked in turn may answer for the host, unless they have failed.
LEMMA ResTurns ==
  ASSUME ResInv, asked = "chain"
  PROVE  /\ Res!TypeOK /\ ResPhases /\ conf \in Configs /\ ResBelow
         /\ source = None /\ raw = <<>> /\ answer = <<>>
         /\ Head(queue) \in Res!Eligible \ failed /\ Head(queue) \in Res!Servers
         /\ Head(queue) \notin {"hosts", "fake", None}
         /\ failed \subseteq Res!Servers /\ refused \subseteq Res!Servers
         /\ Res!ToSet(queue) \subseteq Res!Servers
<1>1. /\ Res!TypeOK /\ ResPhases /\ conf \in Configs /\ ResBelow
      /\ source = None /\ raw = <<>> /\ answer = <<>>
      /\ failed \subseteq Res!Servers /\ refused \subseteq Res!Servers
      /\ Res!ToSet(queue) \subseteq Res!Servers
  BY DEF ResInv, ResPhases, Res!TypeOK
<1>2. ASSUME ResAlone PROVE Head(queue) \in Res!Eligible \ failed
  <2>1. Head(queue) = conf.servers[1].id /\ conf.servers # <<>> /\ 1 \in 1..Len(conf.servers)
    BY <1>2 DEF ResAlone
  <2>2. Head(queue) \in Res!Ids(conf.servers)
    BY <1>1, <2>1, ResLists, ServerList
  <2>3. ~Res!FilteredDomain /\ Res!MainEligible = Res!Ids(conf.servers)
    BY <1>2, <2>1 DEF ResAlone, Res!FilteredDomain, Res!FallsBack, Res!MainEligible
  <2> QED
    BY <1>2, <2>2, <2>3 DEF Res!Eligible, ResAlone
<1>3. ASSUME ResInTurn PROVE Head(queue) \in Res!Eligible \ failed
  <2>1. Head(queue) \in ResStage \ failed
    BY <1>1, <1>3, ResQueue
  <2>2. ResStage \subseteq Res!Eligible
    <3>1. CASE stage = "main"
      BY <1>3, <3>1 DEF ResInTurn, ResStage, Res!Eligible, Res!MainEligible
    <3>2. CASE stage = "fallback"
      BY <1>3, <3>2 DEF ResInTurn, ResStage, Res!Eligible
    <3> QED
      BY <1>1, <3>1, <3>2 DEF Res!TypeOK
  <2> QED
    BY <2>1, <2>2
<1>4. Head(queue) \in Res!Eligible \ failed
  BY <1>1, <1>2, <1>3 DEF ResPhases
<1>5. queue # <<>>
  <2>1. ASSUME ResInTurn PROVE queue # <<>>
    BY <1>1, <2>1, ResQueue
  <2> QED
    BY <1>1, <2>1 DEF ResPhases, ResAlone
<1>6. Head(queue) \in Res!ToSet(queue)
  <2>1. ASSUME NEW u, queue = <<u>> PROVE Head(queue) \in Res!ToSet(queue)
    BY <2>1 DEF Res!ToSet
  <2>2. ASSUME NEW u, NEW v, queue = <<u, v>> PROVE Head(queue) \in Res!ToSet(queue)
    BY <2>2 DEF Res!ToSet
  <2>3. ASSUME ResInTurn PROVE Head(queue) \in Res!ToSet(queue)
    BY <1>1, <2>1, <2>2, <2>3, ResQueue
  <2> QED
    BY <1>1, <2>1, <2>3 DEF ResPhases, ResAlone
<1>7. Head(queue) \in Res!Servers /\ Head(queue) \notin {"hosts", "fake", None}
  BY <1>1, <1>6, ResLists
<1> QED
  BY <1>1, <1>4, <1>7

\* While main servers of a fallback configuration are asked, no other has failed.
LEMMA ResTrial ==
  ASSUME ResInv, asked = "chain", Res!OnTrial
  PROVE  /\ ResInTurn /\ stage = "main" /\ Res!FallsBack /\ refused = {}
         /\ ~(conf.mode = "race")
         /\ Res!Responsible(conf.fallback, query) \cap (failed \cup {Head(queue)}) = {}
<1>1. Res!FallsBack /\ stage = "main" /\ conf.mode = "fallback" /\ conf.fallback # <<>>
  BY DEF Res!OnTrial, Res!FallsBack
<1>2. ResInTurn
  BY <1>1 DEF ResInv, ResPhases, ResAlone
<1>3. conf \in Configs /\ Res!TypeOK
  BY DEF ResInv, Res!TypeOK
<1>4. /\ Res!IsServerList(conf.servers) /\ Res!IsServerList(conf.fallback)
      /\ Res!Ids(conf.servers) \cap Res!Ids(conf.fallback) = {}
  BY <1>3, ResLists
<1>5. Res!Responsible(conf.fallback, query) \subseteq Res!Ids(conf.fallback)
  BY <1>1, <1>4, ChainAsks
<1>6. "system" \notin Res!Ids(conf.fallback)
  BY <1>4, ServerList
<1>7. Head(queue) \in Res!Ids(conf.servers) \cup {"system"}
  <2>1. Head(queue) \in ResStage
    BY <1>2, <1>3, ResQueue
  <2>2. ResStage = Res!Responsible(conf.servers, query)
    BY <1>1 DEF ResStage
  <2>3. Res!Responsible(conf.servers, query) \subseteq Res!Ids(conf.servers) \cup {"system"}
    BY <1>4, ChainAsks
  <2> QED
    BY <2>1, <2>2, <2>3
<1>8. failed \subseteq Res!Ids(conf.servers) \cup {"system"} /\ refused = {}
  BY <1>1, <1>2 DEF ResInTurn
<1> QED
  BY <1>1, <1>2, <1>4, <1>5, <1>6, <1>7, <1>8

\* Someone who is asked in turn answers.
LEMMA ResAnswers ==
  ASSUME ResInv, NEW a \in Res!Answers, Res!ChainAnswers(a) PROVE ResInv'
<1>1. asked = "chain" /\ conf' = conf /\ query' = query /\ failed' = failed
  BY DEF Res!ChainAnswers
<1>2. /\ Res!TypeOK /\ ResPhases /\ conf \in Configs /\ ResBelow
      /\ Head(queue) \in Res!Eligible \ failed /\ Head(queue) \in Res!Servers
      /\ Head(queue) \notin {"hosts", "fake", None}
      /\ failed \subseteq Res!Servers /\ refused \subseteq Res!Servers
  BY <1>1, ResTurns
<1>3. CASE Res!OnTrial /\ Res!Filtered(a)
  <2>1. Res!Ask("fallback") /\ refused' = refused \cup {Head(queue)}
    BY <1>3 DEF Res!ChainAnswers
  <2>2. /\ Res!FallsBack /\ ~(conf.mode = "race")
        /\ Res!Responsible(conf.fallback, query) \cap failed' = {}
    BY <1>1, <1>3, ResTrial
  <2>3. refused' # {} /\ refused' \subseteq Res!Servers /\ failed' \subseteq Res!Servers
    BY <1>1, <1>2, <2>1
  <2> QED
    BY <1>1, <1>2, <2>1, <2>2, <2>3, ResAsk
<1>4. CASE ~(Res!OnTrial /\ Res!Filtered(a))
  <2>1. Res!Return(Head(queue), a) /\ refused' = refused
    BY <1>4 DEF Res!ChainAnswers
  <2> QED
    BY <1>1, <1>2, <1>4, <2>1, ResRight DEF ResBelow
<1> QED
  BY <1>3, <1>4

\* Someone who is asked in turn fails.
LEMMA ResFails == ASSUME ResInv, Res!ChainFails PROVE ResInv'
<1>1. /\ asked = "chain" /\ conf' = conf /\ query' = query /\ refused' = refused
      /\ failed' = failed \cup {Head(queue)}
  BY DEF Res!ChainFails
<1>2. /\ Res!TypeOK /\ ResPhases /\ conf \in Configs /\ ResBelow
      /\ source = None /\ raw = <<>> /\ answer = <<>>
      /\ Head(queue) \in Res!Servers
      /\ failed \subseteq Res!Servers /\ refused \subseteq Res!Servers
      /\ Res!ToSet(queue) \subseteq Res!Servers
  BY <1>1, ResTurns
<1>3. failed' \subseteq Res!Servers
  BY <1>1, <1>2
<1>s. /\ Res!Servers' = Res!Servers /\ Res!MainEligible' = Res!MainEligible
      /\ (Res!FallsBack' <=> Res!FallsBack) /\ (Res!FilteredDomain' <=> Res!FilteredDomain)
      /\ (ResBelow' <=> ResBelow)
  BY <1>1, ResSame
<1>l. (\E u : queue = <<u>>) \/ (\E u, v : queue = <<u, v>>)
  <2>1. ASSUME ResInTurn PROVE (\E u : queue = <<u>>) \/ (\E u, v : queue = <<u, v>>)
    BY <1>2, <2>1, ResQueue
  <2> QED
    BY <1>1, <1>2, <2>1 DEF ResPhases, ResAlone
<1>4. CASE Len(queue) > 1
  <2>1. /\ queue' = Tail(queue) /\ asked' = asked /\ stage' = stage /\ racing' = racing
        /\ source' = source /\ raw' = raw /\ answer' = answer
    BY <1>4 DEF Res!ChainFails
  <2>2. ~ \E u : queue = <<u>>
    <3>1. \A u : queue = <<u>> => Len(queue) = 1
      OBVIOUS
    <3> QED
      BY <1>4, <3>1
  <2>3. ResInTurn
    BY <1>1, <1>2, <2>2 DEF ResPhases, ResAlone
  <2>4. PICK u, v : /\ queue = <<u, v>> /\ ResChain = <<u, v>> /\ u # v
                    /\ ResStage = {u, v} /\ u \notin failed /\ v \notin failed
    BY <1>2, <2>2, <2>3, ResQueue
  <2>5. queue' = <<v>> /\ Head(queue) = u /\ failed' = failed \cup {u}
    BY <1>1, <2>1, <2>4
  <2>6. ResChain' = ResChain /\ Len(ResChain) = 2 /\ ResChain[2] = v /\ ResChain[1] = u
    BY <1>1, <2>1, <2>4 DEF ResChain
  <2>7. \A i \in DOMAIN queue' : queue'[i] \notin failed'
    BY <2>4, <2>5
  <2>8. ResPassed => ResPassed'
    BY <1>1, <1>s DEF ResPassed
  <2>9. stage = "main" => failed' \subseteq Res!Ids(conf.servers) \cup {"system"}
    <3>1. stage = "main" => ResStage \subseteq Res!Ids(conf.servers) \cup {"system"}
      BY <1>2, ResLists, ChainAsks DEF ResStage
    <3> QED
      BY <2>3, <2>4, <2>5, <3>1 DEF ResInTurn
  <2>10. ResInTurn'
    BY <1>1, <1>s, <2>1, <2>3, <2>5, <2>6, <2>7, <2>8, <2>9 DEF ResInTurn
  <2>11. Res!ToSet(queue') \subseteq Res!Servers
    <3>1. v \in Res!ToSet(queue)
      BY <2>4 DEF Res!ToSet
    <3>2. Res!ToSet(<<v>>) = {v}
      BY DEF Res!ToSet
    <3> QED
      BY <1>2, <2>5, <3>1, <3>2
  <2>12. Res!TypeOK'
    BY <1>1, <1>2, <1>3, <1>s, <2>1, <2>11 DEF Res!TypeOK
  <2> QED
    BY <1>1, <1>2, <1>s, <2>1, <2>10, <2>12 DEF ResInv, ResPhases, Res!AnswersRight
<1>5. CASE ~(Len(queue) > 1)
  <2>1. PICK u : queue = <<u>>
    <3>1. \A x, y : queue = <<x, y>> => Len(queue) = 2
      OBVIOUS
    <3> QED
      BY <1>5, <1>l, <3>1
  <2>2. Head(queue) = u
    BY <2>1
  <2>3. ASSUME ResInTurn PROVE ResStage \subseteq failed'
    <3>1. \A x, y : queue # <<x, y>>
      BY <2>1
    <3> QED
      BY <1>1, <1>2, <2>1, <2>2, <2>3, <3>1, ResQueue
  <2>4. CASE Res!OnTrial
    <3>1. Res!Ask("fallback")
      BY <1>5, <2>4 DEF Res!ChainFails
    <3>2. /\ ResInTurn /\ stage = "main" /\ Res!FallsBack /\ ~(conf.mode = "race")
          /\ Res!Responsible(conf.fallback, query) \cap failed' = {}
      BY <1>1, <2>4, ResTrial
    <3>3. Res!Responsible(conf.servers, query) \subseteq failed'
      BY <2>3, <3>2 DEF ResStage
    <3> QED
      BY <1>1, <1>2, <1>3, <3>1, <3>2, <3>3, ResAsk
  <2>5. CASE ~Res!OnTrial
    <3>1. /\ asked' = "done" /\ queue' = <<>> /\ stage' = stage /\ racing' = racing
          /\ source' = None /\ raw' = <<>> /\ answer' = <<>>
      BY <1>2, <1>5, <2>5 DEF Res!ChainFails
    <3>2. Res!ToSet(queue') = {} /\ DOMAIN answer' = {}
      BY <3>1 DEF Res!ToSet
    <3>3. Res!TypeOK'
      BY <1>1, <1>2, <1>3, <1>s, <3>1, <3>2 DEF Res!TypeOK
    <3>4. /\ Res!FallsBack => Res!Responsible(conf.fallback, query) \subseteq failed'
          /\ Res!FilteredDomain \/ refused' # {} \/ Res!MainEligible \subseteq failed'
      <4>1. CASE ResAlone
        <5>1. ~Res!FallsBack
          BY <4>1 DEF ResAlone, Res!FallsBack
        <5>2. /\ Len(conf.servers) = 1 /\ u = conf.servers[1].id /\ conf.mode = "race"
              /\ conf.servers # <<>> /\ DOMAIN conf.servers = 1..1
          BY <1>2, <2>1, <4>1, ResLists, ServerList DEF ResAlone
        <5>3. Res!MainEligible = {u}
          BY <5>2 DEF Res!MainEligible, Res!Ids
        <5> QED
          BY <1>1, <2>2, <5>1, <5>3
      <4>2. CASE ResInTurn /\ stage = "main"
        <5>1. ~Res!FallsBack /\ Res!MainEligible = ResStage
          BY <2>5, <4>2 DEF Res!OnTrial, ResInTurn, Res!MainEligible, ResStage
        <5> QED
          BY <2>3, <4>2, <5>1
      <4>3. CASE ResInTurn /\ stage = "fallback"
        <5>1. Res!FallsBack /\ ResPassed /\ conf.mode # "race"
          BY <4>3 DEF ResInTurn, Res!FallsBack
        <5>2. ResStage = Res!Responsible(conf.fallback, query)
          BY <4>3 DEF ResStage
        <5>3. Res!MainEligible = Res!Responsible(conf.servers, query)
          BY <5>1 DEF Res!MainEligible
        <5> QED
          BY <1>1, <2>3, <4>3, <5>1, <5>2, <5>3 DEF ResPassed
      <4> QED
        BY <1>1, <1>2, <4>1, <4>2, <4>3 DEF ResPhases, Res!TypeOK
    <3>5. None # "fake" /\ None # "hosts"
      BY ResConstants
    <3>6. Res!AnswersRight'
      BY <1>1, <1>2, <1>s, <3>1, <3>2, <3>4, <3>5 DEF Res!AnswersRight, ResBelow
    <3> QED
      BY <3>1, <3>3, <3>6 DEF ResInv, ResPhases
  <2> QED
    BY <2>4, <2>5
<1> QED
  BY <1>4, <1>5

LEMMA ResKept == ASSUME ResInv, Res!Next PROVE ResInv'
BY ResStart, ResRace, ResAnswers, ResFails DEF Res!Next

-----------------------------------------------------------------------------
(* The DERP relay.                                                         *)

\* A tabled connection has registered and has not cleaned up, and is under its
\* own key.
DerpTabled ==
  \A k \in Relay!Keys : clients[k] # None =>
    /\ DerpKey[clients[k]] = k
    /\ derp_pc[clients[k]] \in {"present", "loop", "forward", "note", "cleanup"}

\* Who replaces a connection holds the lock, and the key is free meanwhile.
DerpLocked ==
  /\ \A c \in DerpConns : derp_pc[c] = "replace" => writer = c
  /\ writer # None => derp_pc[writer] = "replace" /\ clients[DerpKey[writer]] = None
  /\ writer = None => replaced = None
  /\ \A c \in DerpConns : derp_pc[c] = "forward" => dst[c] \in Relay!Keys

Told(c) == \E i \in DOMAIN chan[c] : chan[c][i] = "shutdown"

Listed == {c \in DerpConns : \E k \in Relay!Keys : clients[k] = c}
Registered == {"present", "loop", "forward", "note", "cleanup", "gone", "done"}

\* A connection that was replaced is about to be told to stop, has been told, or
\* has ended; it will not serve again.
DerpReached ==
  /\ \A c \in ousted : derp_pc[c] \in Registered
  /\ \A c \in ousted \cap Relay!Serving : c = replaced \/ Told(c)

DerpInv == Relay!TypeOK /\ DerpTabled /\ DerpLocked /\ DerpReached

Channel == UNION {[1..n -> Relay!Msgs] : n \in 0..DerpCap}

\* A channel is a sequence that is not longer than its capacity.
LEMMA ChannelFacts ==
  /\ \A q \in Channel : q \in Seq(Relay!Msgs) /\ Len(q) <= DerpCap
  /\ \A q \in Seq(Relay!Msgs) : Len(q) <= DerpCap => q \in Channel
<1>c. DerpCap \in Nat
  BY ServicesAssumption DEF Relay!DerpAssumption
<1>1. ASSUME NEW q \in Channel PROVE q \in Seq(Relay!Msgs) /\ Len(q) <= DerpCap
  <2>1. PICK n \in 0..DerpCap : q \in [1..n -> Relay!Msgs]
    BY DEF Channel
  <2>2. n \in Nat /\ n <= DerpCap
    BY <1>c
  <2>3. q \in Seq(Relay!Msgs)
    BY <2>1, <2>2
  <2>4. Len(q) = n
    BY <2>1, <2>2, <2>3
  <2> QED
    BY <2>2, <2>3, <2>4
<1>2. ASSUME NEW q \in Seq(Relay!Msgs), Len(q) <= DerpCap PROVE q \in Channel
  <2>1. Len(q) \in 0..DerpCap /\ q \in [1..Len(q) -> Relay!Msgs]
    BY <1>c, <1>2
  <2> QED
    BY <2>1 DEF Channel
<1> QED
  BY <1>1, <1>2

\* What a channel with room holds after a send, and one that was read from.
LEMMA ChannelSteps ==
  /\ \A q \in Channel : \A m \in Relay!Msgs :
       Len(q) < DerpCap =>
         /\ Append(q, m) \in Channel
         /\ \E i \in DOMAIN Append(q, m) : Append(q, m)[i] = m
         /\ \A i \in DOMAIN q : i \in DOMAIN Append(q, m) /\ Append(q, m)[i] = q[i]
  /\ \A q \in Channel : q # <<>> =>
       /\ Tail(q) \in Channel
       /\ \A i \in DOMAIN q : q[i] # Head(q) => i - 1 \in DOMAIN Tail(q) /\ Tail(q)[i - 1] = q[i]
  /\ <<>> \in Channel
<1>c. DerpCap \in Nat
  BY ServicesAssumption DEF Relay!DerpAssumption
<1>1. ASSUME NEW q \in Channel, NEW m \in Relay!Msgs, Len(q) < DerpCap
      PROVE  /\ Append(q, m) \in Channel
             /\ \E i \in DOMAIN Append(q, m) : Append(q, m)[i] = m
             /\ \A i \in DOMAIN q : i \in DOMAIN Append(q, m) /\ Append(q, m)[i] = q[i]
  <2>1. q \in Seq(Relay!Msgs) /\ Len(q) \in Nat
    BY ChannelFacts
  <2>2. Append(q, m) \in Seq(Relay!Msgs) /\ Len(Append(q, m)) = Len(q) + 1
    BY <2>1
  <2>3. Append(q, m) \in Channel
    <3>1. Len(Append(q, m)) <= DerpCap
      BY <1>c, <1>1, <2>1, <2>2
    <3> QED
      BY <2>2, <3>1, ChannelFacts
  <2>4. Len(q) + 1 \in DOMAIN Append(q, m) /\ Append(q, m)[Len(q) + 1] = m
    BY <2>1, <2>2
  <2>5. \A i \in DOMAIN q : i \in DOMAIN Append(q, m) /\ Append(q, m)[i] = q[i]
    BY <2>1, <2>2
  <2> QED
    BY <2>3, <2>4, <2>5
<1>2. ASSUME NEW q \in Channel, q # <<>>
      PROVE  /\ Tail(q) \in Channel
             /\ \A i \in DOMAIN q :
                  q[i] # Head(q) => i - 1 \in DOMAIN Tail(q) /\ Tail(q)[i - 1] = q[i]
  <2>1. q \in Seq(Relay!Msgs) /\ Len(q) \in Nat /\ Len(q) <= DerpCap /\ Len(q) # 0
    BY <1>2, ChannelFacts
  <2>2. Tail(q) \in Seq(Relay!Msgs) /\ Len(Tail(q)) = Len(q) - 1
    BY <2>1
  <2>3. Tail(q) \in Channel
    <3>1. Len(Tail(q)) <= DerpCap
      BY <1>c, <2>1, <2>2
    <3> QED
      BY <2>2, <3>1, ChannelFacts
  <2>4. ASSUME NEW i \in DOMAIN q, q[i] # Head(q)
        PROVE  i - 1 \in DOMAIN Tail(q) /\ Tail(q)[i - 1] = q[i]
    <3>1. i \in 1..Len(q) /\ i # 1
      BY <2>1, <2>4
    <3>2. i - 1 \in 1..Len(q) - 1
      BY <2>1, <3>1
    <3> QED
      BY <2>1, <2>2, <3>1, <3>2
  <2> QED
    BY <2>3, <2>4
<1>3. <<>> \in Channel
  <2>1. <<>> \in Seq(Relay!Msgs) /\ Len(<<>>) <= DerpCap
    BY <1>c
  <2> QED
    BY <2>1, ChannelFacts
<1> QED
  BY <1>1, <1>2, <1>3

\* try_send loses nothing that is there, and is heard where there is room.
LEMMA SentFacts ==
  ASSUME Relay!TypeOK, NEW cs, NEW m \in Relay!Msgs, chan' = Relay!Sent(cs, m)
  PROVE  /\ chan' \in [DerpConns -> Channel]
         /\ \A c \in DerpConns : Told(c) => Told(c)'
         /\ \A c \in DerpConns : m = "shutdown" /\ c \in cs \cap Relay!Serving /\ Relay!HasRoom(c) => Told(c)'
<1>t. chan \in [DerpConns -> Channel]
  BY DEF Relay!TypeOK, Channel
<1>1. ASSUME NEW c \in DerpConns
      PROVE  /\ chan'[c] \in Channel
             /\ Told(c) => Told(c)'
             /\ m = "shutdown" /\ c \in cs \cap Relay!Serving /\ Relay!HasRoom(c) => Told(c)'
  <2>1. CASE c \in cs \cap Relay!Serving /\ Relay!HasRoom(c)
    <3>1. chan'[c] = Append(chan[c], m) /\ chan[c] \in Channel /\ Len(chan[c]) < DerpCap
      BY <1>t, <2>1 DEF Relay!Sent, Relay!HasRoom
    <3>2. /\ chan'[c] \in Channel
          /\ \E i \in DOMAIN chan'[c] : chan'[c][i] = m
          /\ \A i \in DOMAIN chan[c] : i \in DOMAIN chan'[c] /\ chan'[c][i] = chan[c][i]
      BY <3>1, ChannelSteps
    <3> QED
      BY <3>2 DEF Told
  <2>2. CASE ~(c \in cs \cap Relay!Serving /\ Relay!HasRoom(c))
    <3>1. chan'[c] = chan[c] /\ chan[c] \in Channel
      BY <1>t, <2>2 DEF Relay!Sent
    <3> QED
      BY <2>2, <3>1 DEF Told
  <2> QED
    BY <2>1, <2>2
<1>2. chan' \in [DerpConns -> Channel]
  <2>1. chan' = [c \in DerpConns |-> chan'[c]]
    BY DEF Relay!Sent
  <2> QED
    BY <1>1, <2>1
<1> QED
  BY <1>1, <1>2

\* A connection goes on.
LEMMA DerpGoto ==
  ASSUME Relay!TypeOK, NEW c \in DerpConns, NEW from,
         NEW to \in {"accept", "info", "register", "replace", "present", "loop",
                     "forward", "note", "cleanup", "gone", "done"},
         Relay!Goto(c, from, to)
  PROVE  /\ derp_pc[c] = from
         /\ derp_pc' \in [DerpConns -> {"accept", "info", "register", "replace", "present", "loop",
                                        "forward", "note", "cleanup", "gone", "done"}]
         /\ \A d \in DerpConns : derp_pc'[d] = IF d = c THEN to ELSE derp_pc[d]
BY DEF Relay!TypeOK, Relay!Goto

\* A step that leaves the table alone, makes nobody serve who did not, and
\* takes no order to stop from whoever goes on serving.
LEMMA DerpFrame ==
  ASSUME DerpInv, NEW c \in DerpConns,
         UNCHANGED <<clients, writer, replaced, ousted>>,
         derp_pc' \in [DerpConns -> {"accept", "info", "register", "replace", "present", "loop",
                                    "forward", "note", "cleanup", "gone", "done"}],
         chan' \in [DerpConns -> Channel], dst' \in [DerpConns -> Relay!Keys \cup {None}],
         \A d \in DerpConns : d # c => derp_pc'[d] = derp_pc[d] /\ dst'[d] = dst[d],
         derp_pc[c] # "replace", derp_pc'[c] # "replace",
         c \in Listed => derp_pc'[c] \in {"present", "loop", "forward", "note", "cleanup"},
         derp_pc'[c] = "forward" => dst'[c] \in Relay!Keys,
         c \in Relay!Serving' => c \in Relay!Serving,
         derp_pc[c] \in Registered => derp_pc'[c] \in Registered,
         \A d \in Relay!Serving' : Told(d) => Told(d)'
  PROVE  DerpInv'
<1> USE DEF DerpInv
<1>1. Relay!TypeOK'
  BY DEF Relay!TypeOK, Channel
<1>2. DerpTabled'
  <2>1. ASSUME NEW k \in Relay!Keys, clients[k] # None
        PROVE  /\ DerpKey[clients[k]] = k
               /\ derp_pc'[clients[k]] \in {"present", "loop", "forward", "note", "cleanup"}
    <3>1. clients[k] \in DerpConns
      BY <2>1 DEF Relay!TypeOK
    <3>2. clients[k] = c => c \in Listed
      BY DEF Listed
    <3> QED
      BY <2>1, <3>1, <3>2 DEF DerpTabled
  <2> QED
    BY <2>1 DEF DerpTabled
<1>3. DerpLocked'
  BY DEF DerpLocked, Relay!TypeOK
<1>4. DerpReached'
  <2>1. ASSUME NEW d \in ousted PROVE derp_pc'[d] \in Registered
    BY DEF DerpReached, Relay!TypeOK
  <2>2. ASSUME NEW d \in ousted \cap Relay!Serving' PROVE d = replaced \/ Told(d)'
    <3>1. d \in Relay!Serving
      BY <2>2 DEF Relay!Serving
    <3> QED
      BY <2>2, <3>1 DEF DerpReached
  <2> QED
    BY <2>1, <2>2 DEF DerpReached
<1> QED
  BY <1>1, <1>2, <1>3, <1>4

LEMMA DerpKept == ASSUME DerpInv, Relay!Next PROVE DerpInv'
<1> USE DEF DerpInv
<1>n. None \notin DerpConns /\ \A c \in DerpConns : DerpKey[c] \in Relay!Keys
  BY ServicesAssumption DEF Relay!DerpAssumption, Relay!Keys
<1>t. /\ clients \in [Relay!Keys -> DerpConns \cup {None}]
      /\ chan \in [DerpConns -> Channel] /\ dst \in [DerpConns -> Relay!Keys \cup {None}]
      /\ ousted \subseteq DerpConns /\ writer \in DerpConns \cup {None}
  BY DEF Relay!TypeOK, Channel
<1>s. \A c \in DerpConns : c \in Listed =>
        derp_pc[c] \in {"present", "loop", "forward", "note", "cleanup"}
  BY <1>n DEF Listed, DerpTabled
<1>1. ASSUME NEW c \in DerpConns, Relay!Upgrade(c) \/ Relay!Handshake(c) PROVE DerpInv'
  <2>1. /\ UNCHANGED <<clients, writer, replaced, chan, dst, ousted>>
        /\ derp_pc[c] \in {"accept", "info"}
    BY <1>1, DerpGoto DEF Relay!Upgrade, Relay!Handshake, Relay!Goto
  <2>2. PICK to \in {"info", "register", "done"} : derp_pc' = [derp_pc EXCEPT ![c] = to]
    BY <1>1 DEF Relay!Upgrade, Relay!Handshake, Relay!Goto
  <2>3. /\ derp_pc' \in [DerpConns -> {"accept", "info", "register", "replace", "present", "loop",
                                       "forward", "note", "cleanup", "gone", "done"}]
        /\ \A d \in DerpConns : derp_pc'[d] = IF d = c THEN to ELSE derp_pc[d]
    BY <2>2 DEF Relay!TypeOK
  <2>4. c \notin Relay!Serving' /\ c \notin Listed
    BY <1>s, <2>1, <2>3 DEF Relay!Serving
  <2>5. \A d \in DerpConns : Told(d)' <=> Told(d)
    BY <2>1 DEF Told
  <2>6. (\A d \in Relay!Serving' : d \in DerpConns) /\ derp_pc[c] \notin Registered
    BY <2>1 DEF Relay!Serving, Registered
  <2> QED
    BY <1>t, <2>1, <2>3, <2>4, <2>5, <2>6, DerpFrame
<1>2. ASSUME NEW c \in DerpConns, Relay!Register(c), clients[DerpKey[c]] = None PROVE DerpInv'
  <2>1. /\ writer = None /\ clients' = [clients EXCEPT ![DerpKey[c]] = c]
        /\ UNCHANGED <<writer, replaced, chan, dst, ousted>>
        /\ Relay!Goto(c, "register", "present")
    BY <1>2 DEF Relay!Register, Relay!Unlocked
  <2>2. /\ derp_pc[c] = "register"
        /\ derp_pc' \in [DerpConns -> {"accept", "info", "register", "replace", "present", "loop",
                                       "forward", "note", "cleanup", "gone", "done"}]
        /\ \A d \in DerpConns : derp_pc'[d] = IF d = c THEN "present" ELSE derp_pc[d]
    BY <2>1, DerpGoto
  <2>3. Relay!TypeOK'
    BY <2>1, <2>2 DEF Relay!TypeOK
  <2>4. DerpTabled'
    BY <1>n, <1>t, <2>1, <2>2 DEF DerpTabled
  <2>5. DerpLocked'
    BY <2>1, <2>2 DEF DerpLocked
  <2>6. ASSUME NEW d \in ousted'
        PROVE  /\ derp_pc'[d] \in Registered
               /\ d \in Relay!Serving' => d = replaced' \/ Told(d)'
    <3>1. d # c /\ d \in DerpConns /\ d \in ousted
      BY <1>t, <2>1, <2>2 DEF DerpReached, Registered
    <3>2. d \in Relay!Serving' => d \in Relay!Serving
      BY <2>2, <3>1 DEF Relay!Serving
    <3> QED
      BY <2>1, <2>2, <3>1, <3>2 DEF DerpReached, Told
  <2> QED
    BY <2>3, <2>4, <2>5, <2>6 DEF DerpReached
<1>3. ASSUME NEW c \in DerpConns, Relay!Register(c), clients[DerpKey[c]] # None PROVE DerpInv'
  <2>1. /\ writer = None /\ clients' = [clients EXCEPT ![DerpKey[c]] = None]
        /\ writer' = c /\ replaced' = clients[DerpKey[c]]
        /\ ousted' = ousted \cup {clients[DerpKey[c]]}
        /\ UNCHANGED <<chan, dst>>
        /\ Relay!Goto(c, "register", "replace")
    BY <1>3 DEF Relay!Register, Relay!Unlocked
  <2>2. /\ derp_pc[c] = "register"
        /\ derp_pc' \in [DerpConns -> {"accept", "info", "register", "replace", "present", "loop",
                                       "forward", "note", "cleanup", "gone", "done"}]
        /\ \A d \in DerpConns : derp_pc'[d] = IF d = c THEN "replace" ELSE derp_pc[d]
    BY <2>1, DerpGoto
  <2>o. clients[DerpKey[c]] \in DerpConns /\ derp_pc[clients[DerpKey[c]]] \in Registered
    BY <1>n, <1>t, <1>3 DEF DerpTabled, Registered
  <2>3. Relay!TypeOK'
    BY <1>n, <2>o, <2>1, <2>2 DEF Relay!TypeOK
  <2>4. DerpTabled'
    BY <1>n, <1>t, <2>1, <2>2 DEF DerpTabled
  <2>5. DerpLocked'
    BY <1>n, <1>t, <2>1, <2>2 DEF DerpLocked
  <2>6. ASSUME NEW d \in ousted'
        PROVE  /\ derp_pc'[d] \in Registered
               /\ d \in Relay!Serving' => d = replaced' \/ Told(d)'
    <3>1. d # c /\ d \in DerpConns /\ (d \in ousted \/ d = replaced')
      BY <1>t, <2>o, <2>1, <2>2 DEF DerpReached, Registered
    <3>2. d \in Relay!Serving' => d \in Relay!Serving
      BY <2>2, <3>1 DEF Relay!Serving
    <3>3. d # replaced
      BY <1>n, <2>1, <3>1 DEF DerpLocked
    <3> QED
      BY <2>o, <2>1, <2>2, <3>1, <3>2, <3>3 DEF DerpReached, Told
  <2> QED
    BY <2>3, <2>4, <2>5, <2>6 DEF DerpReached
<1>4. ASSUME NEW c \in DerpConns, Relay!Replace(c) PROVE DerpInv'
  <2>1. /\ clients' = [clients EXCEPT ![DerpKey[c]] = c]
        /\ writer' = None /\ replaced' = None /\ chan' = Relay!Sent({replaced}, "shutdown")
        /\ replaced \notin Relay!Serving \/ Relay!HasRoom(replaced)
        /\ UNCHANGED <<dst, ousted>>
        /\ Relay!Goto(c, "replace", "present")
    BY <1>4 DEF Relay!Replace
  <2>2. /\ derp_pc[c] = "replace"
        /\ derp_pc' \in [DerpConns -> {"accept", "info", "register", "replace", "present", "loop",
                                       "forward", "note", "cleanup", "gone", "done"}]
        /\ \A d \in DerpConns : derp_pc'[d] = IF d = c THEN "present" ELSE derp_pc[d]
    BY <2>1, DerpGoto
  <2>3. writer = c /\ clients[DerpKey[c]] = None
    BY <1>n, <2>2 DEF DerpLocked
  <2>4. /\ chan' \in [DerpConns -> Channel]
        /\ \A d \in DerpConns : Told(d) => Told(d)'
        /\ \A d \in DerpConns :
             d \in {replaced} \cap Relay!Serving /\ Relay!HasRoom(d) => Told(d)'
    <3>1. "shutdown" \in Relay!Msgs
      BY DEF Relay!Msgs
    <3> QED
      BY <2>1, <3>1, SentFacts
  <2>5. Relay!TypeOK'
    BY <1>n, <2>1, <2>2, <2>4 DEF Relay!TypeOK, Channel
  <2>6. DerpTabled'
    BY <1>n, <1>t, <2>1, <2>2 DEF DerpTabled
  <2>7. DerpLocked'
    BY <1>n, <2>1, <2>2, <2>3 DEF DerpLocked
  <2>8. ASSUME NEW d \in ousted'
        PROVE  /\ derp_pc'[d] \in Registered
               /\ d \in Relay!Serving' => d = replaced' \/ Told(d)'
    <3>1. d # c /\ d \in DerpConns /\ d \in ousted
      BY <1>t, <2>1, <2>2 DEF DerpReached, Registered
    <3>2. d \in Relay!Serving' => d \in Relay!Serving
      BY <2>2, <3>1 DEF Relay!Serving
    <3>3. d \in Relay!Serving /\ d = replaced => Told(d)'
      BY <2>1, <2>4, <3>1
    <3> QED
      BY <2>1, <2>2, <2>4, <3>1, <3>2, <3>3 DEF DerpReached
  <2> QED
    BY <2>5, <2>6, <2>7, <2>8 DEF DerpReached
<1>5. ASSUME NEW c \in DerpConns, Relay!Cleanup(c) PROVE DerpInv'
  <2>1. /\ writer = None /\ clients' = [clients EXCEPT ![DerpKey[c]] = None]
        /\ UNCHANGED <<writer, replaced, chan, dst, ousted>>
        /\ Relay!Goto(c, "cleanup", "gone")
    BY <1>5 DEF Relay!Cleanup, Relay!Unlocked
  <2>2. /\ derp_pc[c] = "cleanup"
        /\ derp_pc' \in [DerpConns -> {"accept", "info", "register", "replace", "present", "loop",
                                       "forward", "note", "cleanup", "gone", "done"}]
        /\ \A d \in DerpConns : derp_pc'[d] = IF d = c THEN "gone" ELSE derp_pc[d]
    BY <2>1, DerpGoto
  <2>3. clients[DerpKey[c]] \in DerpConns \cup {None}
    BY <1>n, <1>t
  <2>4. Relay!TypeOK'
    BY <1>n, <2>1, <2>2, <2>3 DEF Relay!TypeOK
  <2>5. DerpTabled'
    BY <1>n, <1>t, <2>1, <2>2 DEF DerpTabled
  <2>6. DerpLocked'
    BY <1>n, <2>1, <2>2 DEF DerpLocked
  <2>7. ASSUME NEW d \in ousted
        PROVE  /\ derp_pc'[d] \in Registered
               /\ d \in Relay!Serving' => d = replaced \/ Told(d)'
    <3>1. d \in DerpConns /\ (d \in Relay!Serving' => d \in Relay!Serving)
      BY <1>t, <2>2 DEF Relay!Serving
    <3>2. Told(d)' <=> Told(d)
      BY <2>1 DEF Told
    <3> QED
      BY <2>2, <3>1, <3>2 DEF DerpReached, Registered
  <2> QED
    BY <2>1, <2>4, <2>5, <2>6, <2>7 DEF DerpReached
\* What is sent with try_send takes no order to stop away.
<1>6. ASSUME NEW c \in DerpConns,
             Relay!BroadcastPeerPresent(c) \/ Relay!BroadcastPeerGone(c) \/ Relay!ForwardPacket(c)
      PROVE  DerpInv'
  <2>1. /\ UNCHANGED <<clients, writer, replaced, ousted>>
        /\ dst' = dst \/ dst' = [dst EXCEPT ![c] = None]
        /\ \E cs : \E m \in Relay!Msgs : chan' = Relay!Sent(cs, m)
    BY <1>6 DEF Relay!BroadcastPeerPresent, Relay!BroadcastPeerGone, Relay!ForwardPacket, Relay!Msgs
  <2>2. \/ Relay!Goto(c, "present", "loop")
        \/ Relay!Goto(c, "gone", "done")
        \/ Relay!Goto(c, "forward", "loop")
    BY <1>6 DEF Relay!BroadcastPeerPresent, Relay!BroadcastPeerGone, Relay!ForwardPacket
  <2>3. /\ derp_pc' \in [DerpConns -> {"accept", "info", "register", "replace", "present", "loop",
                                       "forward", "note", "cleanup", "gone", "done"}]
        /\ \A d \in DerpConns : d # c => derp_pc'[d] = derp_pc[d]
        /\ <<derp_pc[c], derp_pc'[c]>> \in {<<"present", "loop">>, <<"gone", "done">>,
                                            <<"forward", "loop">>}
    BY <2>2, DerpGoto
  <2>4. chan' \in [DerpConns -> Channel] /\ \A d \in DerpConns : Told(d) => Told(d)'
    BY <2>1, SentFacts
  <2>5. c \in Listed => derp_pc'[c] \in {"present", "loop", "forward", "note", "cleanup"}
    BY <1>s, <2>3
  <2>6. c \in Relay!Serving' => c \in Relay!Serving
    BY <2>3 DEF Relay!Serving
  <2>7. /\ dst' \in [DerpConns -> Relay!Keys \cup {None}]
        /\ \A d \in DerpConns : d # c => dst'[d] = dst[d]
    BY <1>t, <2>1
  <2>8. \A d \in Relay!Serving' : d \in DerpConns
    BY DEF Relay!Serving
  <2>9. derp_pc[c] # "replace" /\ derp_pc'[c] \notin {"replace", "forward"} /\ derp_pc'[c] \in Registered
    BY <2>3 DEF Registered
  <2> QED
    BY <2>1, <2>3, <2>4, <2>5, <2>6, <2>7, <2>8, <2>9, DerpFrame
<1>7. ASSUME NEW c \in DerpConns, Relay!ReadFrame(c) \/ Relay!NotePreferred(c) PROVE DerpInv'
  <2>1. /\ UNCHANGED <<clients, writer, replaced, ousted, chan>>
        /\ \/ Relay!Goto(c, "loop", "forward") /\ \E k \in Relay!Keys : dst' = [dst EXCEPT ![c] = k]
           \/ Relay!Goto(c, "loop", "note") /\ dst' = dst
           \/ Relay!Goto(c, "note", "loop") /\ dst' = dst
    BY <1>7 DEF Relay!ReadFrame, Relay!NotePreferred
  <2>2. /\ derp_pc' \in [DerpConns -> {"accept", "info", "register", "replace", "present", "loop",
                                       "forward", "note", "cleanup", "gone", "done"}]
        /\ \A d \in DerpConns : d # c => derp_pc'[d] = derp_pc[d]
        /\ derp_pc[c] \in {"loop", "note"} /\ derp_pc'[c] \in {"loop", "forward", "note"}
    BY <2>1, DerpGoto
  <2>3. /\ dst' \in [DerpConns -> Relay!Keys \cup {None}]
        /\ \A d \in DerpConns : d # c => dst'[d] = dst[d]
        /\ derp_pc'[c] = "forward" => dst'[c] \in Relay!Keys
    BY <1>t, <2>1, DerpGoto
  <2>4. c \in Relay!Serving /\ derp_pc'[c] \in Registered
    BY <2>2 DEF Relay!Serving, Registered
  <2>5. \A d \in Relay!Serving' : Told(d) => Told(d)'
    BY <2>1 DEF Told
  <2> QED
    BY <1>t, <2>1, <2>2, <2>3, <2>4, <2>5, DerpFrame
<1>8. ASSUME NEW c \in DerpConns, Relay!ReadFails(c) \/ Relay!RecvMsg(c) PROVE DerpInv'
  <2>1. UNCHANGED <<clients, writer, replaced, ousted, dst>>
    BY <1>8 DEF Relay!ReadFails, Relay!RecvMsg
  <2>2. CASE Relay!Break(c, "loop")
    <3>1. Relay!Goto(c, "loop", "cleanup") /\ chan' = [chan EXCEPT ![c] = <<>>]
      BY <2>2 DEF Relay!Break
    <3>2. /\ derp_pc' \in [DerpConns -> {"accept", "info", "register", "replace", "present", "loop",
                                         "forward", "note", "cleanup", "gone", "done"}]
          /\ \A d \in DerpConns : d # c => derp_pc'[d] = derp_pc[d]
          /\ derp_pc[c] = "loop" /\ derp_pc'[c] = "cleanup"
      BY <3>1, DerpGoto
    <3>3. chan' \in [DerpConns -> Channel] /\ \A d \in DerpConns : d # c => chan'[d] = chan[d]
      BY <1>t, <3>1, ChannelSteps
    <3>4. /\ c \notin Relay!Serving' /\ derp_pc'[c] \in Registered
          /\ \A d \in Relay!Serving' : d \in DerpConns
      BY <3>2 DEF Relay!Serving, Registered
    <3>5. \A d \in Relay!Serving' : Told(d) => Told(d)'
      BY <3>3, <3>4 DEF Told
    <3> QED
      BY <1>t, <2>1, <3>2, <3>3, <3>4, <3>5, DerpFrame
  <2>3. CASE /\ derp_pc[c] = "loop" /\ chan[c] # <<>> /\ Head(chan[c]) # "shutdown"
             /\ chan' = [chan EXCEPT ![c] = Tail(@)] /\ UNCHANGED derp_pc
    <3>1. chan[c] \in Channel
      BY <1>t
    <3>2. /\ Tail(chan[c]) \in Channel
          /\ \A i \in DOMAIN chan[c] : chan[c][i] # Head(chan[c]) =>
               i - 1 \in DOMAIN Tail(chan[c]) /\ Tail(chan[c])[i - 1] = chan[c][i]
      BY <2>3, <3>1, ChannelSteps
    <3>3. chan' \in [DerpConns -> Channel] /\ chan'[c] = Tail(chan[c])
          /\ \A d \in DerpConns : d # c => chan'[d] = chan[d]
      BY <1>t, <2>3, <3>2
    <3>4. \A d \in DerpConns : Told(d) => Told(d)'
      <4>1. ASSUME Told(c) PROVE Told(c)'
        <5>1. PICK i \in DOMAIN chan[c] : chan[c][i] = "shutdown"
          BY <4>1 DEF Told
        <5>2. i - 1 \in DOMAIN chan'[c] /\ chan'[c][i - 1] = "shutdown"
          BY <2>3, <3>2, <3>3, <5>1
        <5> QED
          BY <5>2 DEF Told
      <4>2. \A d \in DerpConns : d # c => (Told(d)' <=> Told(d))
        BY <3>3 DEF Told
      <4> QED
        BY <4>1, <4>2
    <3>5. \A d \in Relay!Serving' : d \in DerpConns
      BY DEF Relay!Serving
    <3>6. c \in Relay!Serving /\ derp_pc' \in [DerpConns -> {"accept", "info", "register", "replace",
            "present", "loop", "forward", "note", "cleanup", "gone", "done"}]
      BY <2>3 DEF Relay!Serving, Relay!TypeOK
    <3> QED
      BY <1>t, <2>1, <2>3, <3>3, <3>4, <3>5, <3>6, DerpFrame
  <2> QED
    BY <1>8, <2>2, <2>3 DEF Relay!ReadFails, Relay!RecvMsg
<1> QED
  BY <1>1, <1>2, <1>3, <1>4, <1>5, <1>6, <1>7, <1>8 DEF Relay!Next

LEMMA DerpInit == Relay!Init => DerpInv
<1> SUFFICES ASSUME Relay!Init PROVE DerpInv
  OBVIOUS
<1>1. Relay!TypeOK
  <2>1. chan \in [DerpConns -> Channel]
    BY ChannelSteps DEF Relay!Init
  <2> QED
    BY <2>1 DEF Relay!Init, Relay!TypeOK, Channel
<1>2. DerpTabled /\ DerpLocked
  BY DEF Relay!Init, DerpTabled, DerpLocked
<1>3. ousted = {}
  BY DEF Relay!Init
<1> QED
  BY <1>1, <1>2, <1>3 DEF DerpInv, DerpReached

-----------------------------------------------------------------------------
(* The QUIC outbounds.                                                     *)

InUse == {"open", "stream", "udp"}

\* The mutex is held by the one who makes or authenticates the manager's
\* connection; the flag says that this connection was authenticated.
QuicHeld ==
  /\ \A t \in Callers : quic_pc[t] \in {"create", "authenticate"} => lock = t
  /\ \A t \in Callers : quic_pc[t] = "authenticate" => at[t] = connection
  /\ authenticated => connection \in admitted
  /\ \A t \in Callers : quic_pc[t] \in InUse => at[t] \in admitted

\* Sessions and answers carry numbers that were drawn.
QuicDrawn ==
  /\ \A t \in Callers : quic_pc[t] = "udp" => nth[t] \in 1..drawn
  /\ \A c \in Quic!Conns : inbox[c] \subseteq 1..drawn
  /\ misread => drawn > (IF tuic THEN ShortIds ELSE LongIds)

QuicInv == Quic!TypeOK /\ QuicHeld /\ QuicDrawn

\* Numbers tell sessions apart until they have been used up.
LEMMA NumbersApart ==
  ASSUME NEW L \in Nat \ {0}, NEW n \in 1..L, NEW m \in 1..L, n % L = m % L
  PROVE  n = m
<1>1. ASSUME NEW x \in 1..L PROVE x % L = IF x = L THEN 0 ELSE x
  <2>1. CASE x = L
    BY <2>1
  <2>2. CASE x < L
    BY <2>2
  <2> QED
    BY <2>1, <2>2
<1> QED
  BY <1>1

LEMMA QuicTypes == ASSUME QuicInv, Quic!Next PROVE Quic!TypeOK'
<1> USE DEF QuicInv
<1>c. MaxConns \in Nat \ {0} /\ MaxIds \in Nat
  BY ServicesAssumption DEF Quic!QuicAssumption
<1>1. ASSUME NEW t \in Callers, Quic!Reuse(t) PROVE Quic!TypeOK'
  BY <1>1 DEF Quic!Reuse, Quic!Goto, Quic!TypeOK, Quic!manager, Quic!udp
<1>2. ASSUME NEW t \in Callers, Quic!NoReuse(t) PROVE Quic!TypeOK'
  BY <1>2 DEF Quic!NoReuse, Quic!Goto, Quic!TypeOK, Quic!manager, Quic!udp
<1>3. ASSUME NEW t \in Callers, Quic!Create(t) PROVE Quic!TypeOK'
  <2>1. made + 1 \in 0..MaxConns /\ made + 1 \in Quic!Conns
    BY <1>c, <1>3 DEF Quic!Create, Quic!TypeOK, Quic!Conns
  <2> QED
    BY <1>3, <2>1 DEF Quic!Create, Quic!Goto, Quic!TypeOK, Quic!udp
<1>4. ASSUME NEW t \in Callers, Quic!GiveUp(t) PROVE Quic!TypeOK'
  <2>1. 0 \in 0..MaxConns
    BY <1>c
  <2> QED
    BY <1>4, <2>1 DEF Quic!GiveUp, Quic!TypeOK, Quic!manager, Quic!udp
<1>5. ASSUME NEW t \in Callers, Quic!Admit(t) PROVE Quic!TypeOK'
  BY <1>5 DEF Quic!Admit, Quic!Goto, Quic!TypeOK, Quic!udp
<1>6. ASSUME NEW t \in Callers, Quic!OpenStream(t) PROVE Quic!TypeOK'
  BY <1>6 DEF Quic!OpenStream, Quic!Goto, Quic!TypeOK, Quic!manager, Quic!udp
<1>7. ASSUME NEW t \in Callers, Quic!OpenUdp(t) PROVE Quic!TypeOK'
  <2>1. drawn + 1 \in 0..MaxIds
    BY <1>c, <1>7 DEF Quic!OpenUdp, Quic!TypeOK
  <2> QED
    BY <1>7, <2>1 DEF Quic!OpenUdp, Quic!Goto, Quic!TypeOK, Quic!manager
<1>8. ASSUME NEW t \in Callers, Quic!End(t) PROVE Quic!TypeOK'
  <2>1. 0 \in 0..MaxConns /\ 0 \in 0..MaxIds
    BY <1>c
  <2> QED
    BY <1>8, <2>1 DEF Quic!End, Quic!TypeOK, Quic!manager
<1>9. ASSUME NEW t \in Callers, Quic!Reply(t) PROVE Quic!TypeOK'
  <2>1. nth[t] \in 1..drawn /\ drawn \in 0..MaxIds
    BY <1>9 DEF Quic!Reply, QuicDrawn, Quic!TypeOK
  <2>2. nth[t] \in 1..MaxIds
    BY <1>c, <2>1
  <2>3. inbox' \in [Quic!Conns -> SUBSET (1..MaxIds)]
    BY <1>9, <2>2 DEF Quic!Reply, Quic!TypeOK
  <2> QED
    BY <1>9, <2>3 DEF Quic!Reply, Quic!TypeOK, Quic!manager
<1>10. ASSUME NEW t \in Callers, Quic!Recv(t) PROVE Quic!TypeOK'
  <2>1. PICK n \in inbox[at[t]] :
          /\ inbox' = [inbox EXCEPT ![at[t]] = @ \ {n}]
          /\ misread' = (misread \/ (n # nth[t] /\ Quic!Number(n) = Quic!Number(nth[t])))
    BY <1>10 DEF Quic!Recv
  <2>2. inbox' \in [Quic!Conns -> SUBSET (1..MaxIds)]
    BY <2>1 DEF Quic!TypeOK
  <2>3. misread' \in BOOLEAN
    BY <2>1, Zenon
  <2> QED
    BY <1>10, <2>2, <2>3 DEF Quic!Recv, Quic!TypeOK, Quic!manager
<1>11. ASSUME NEW c \in Quic!Conns, Quic!Close(c) PROVE Quic!TypeOK'
  <2>1. inbox' \in [Quic!Conns -> SUBSET (1..MaxIds)]
    BY <1>11 DEF Quic!Close, Quic!TypeOK
  <2> QED
    BY <1>11, <2>1 DEF Quic!Close, Quic!TypeOK, Quic!manager
<1> QED
  BY <1>1, <1>2, <1>3, <1>4, <1>5, <1>6, <1>7, <1>8, <1>9, <1>10, <1>11
  DEF Quic!Next, Quic!AuthenticationSent, Quic!AuthenticationConfirmed

\* Only who holds the mutex touches the manager.
LEMMA QuicHolds == ASSUME QuicInv, Quic!Next PROVE QuicHeld'
<1> USE DEF QuicInv
<1>n. None \notin Callers
  BY ServicesAssumption DEF Quic!QuicAssumption
<1>1. ASSUME NEW t \in Callers, Quic!Reuse(t) PROVE QuicHeld'
  BY <1>n, <1>1 DEF Quic!Reuse, Quic!Goto, Quic!TypeOK, Quic!manager, QuicHeld, InUse
<1>2. ASSUME NEW t \in Callers, Quic!NoReuse(t) PROVE QuicHeld'
  BY <1>n, <1>2 DEF Quic!NoReuse, Quic!Goto, Quic!TypeOK, Quic!manager, QuicHeld, InUse
<1>3. ASSUME NEW t \in Callers, Quic!Create(t) PROVE QuicHeld'
  BY <1>3 DEF Quic!Create, Quic!Goto, Quic!TypeOK, QuicHeld, InUse
<1>4. ASSUME NEW t \in Callers, Quic!GiveUp(t) PROVE QuicHeld'
  BY <1>n, <1>4 DEF Quic!GiveUp, Quic!TypeOK, Quic!manager, QuicHeld, InUse
<1>5. ASSUME NEW t \in Callers, Quic!Admit(t) PROVE QuicHeld'
  BY <1>n, <1>5 DEF Quic!Admit, Quic!Goto, Quic!TypeOK, QuicHeld, InUse
<1>6. ASSUME NEW t \in Callers, Quic!OpenStream(t) \/ Quic!OpenUdp(t) PROVE QuicHeld'
  BY <1>6 DEF Quic!OpenStream, Quic!OpenUdp, Quic!Goto, Quic!TypeOK, Quic!manager, QuicHeld, InUse
<1>7. ASSUME NEW t \in Callers, Quic!End(t) PROVE QuicHeld'
  BY <1>7 DEF Quic!End, Quic!TypeOK, Quic!manager, QuicHeld, InUse
<1>8. ASSUME NEW t \in Callers, Quic!Reply(t) \/ Quic!Recv(t) PROVE QuicHeld'
  BY <1>8 DEF Quic!Reply, Quic!Recv, Quic!manager, QuicHeld
<1>9. ASSUME NEW c \in Quic!Conns, Quic!Close(c) PROVE QuicHeld'
  BY <1>9 DEF Quic!Close, Quic!manager, QuicHeld
<1> QED
  BY <1>1, <1>2, <1>3, <1>4, <1>5, <1>6, <1>7, <1>8, <1>9
  DEF Quic!Next, Quic!AuthenticationSent, Quic!AuthenticationConfirmed

\* Two sessions of one number were drawn a whole round apart.
LEMMA QuicDraws == ASSUME QuicInv, Quic!Next PROVE QuicDrawn'
<1> USE DEF QuicInv
<1>c. ShortIds \in Nat \ {0} /\ LongIds \in Nat \ {0} /\ drawn \in Nat
  BY ServicesAssumption DEF Quic!QuicAssumption, Quic!TypeOK
<1>1. ASSUME NEW t \in Callers,
             Quic!Reuse(t) \/ Quic!NoReuse(t) \/ Quic!Create(t) \/ Quic!GiveUp(t)
             \/ Quic!Admit(t) \/ Quic!OpenStream(t)
      PROVE  QuicDrawn'
  <2>1. UNCHANGED <<tuic, drawn, nth, inbox, misread>>
    BY <1>1 DEF Quic!Reuse, Quic!NoReuse, Quic!Create, Quic!GiveUp, Quic!Admit,
                Quic!OpenStream, Quic!udp
  <2>2. \A u \in Callers : quic_pc'[u] = "udp" => quic_pc[u] = "udp"
    BY <1>1 DEF Quic!Reuse, Quic!NoReuse, Quic!Create, Quic!GiveUp, Quic!Admit,
                Quic!OpenStream, Quic!Goto, Quic!TypeOK
  <2> QED
    BY <2>1, <2>2 DEF QuicDrawn
<1>2. ASSUME NEW t \in Callers, Quic!OpenUdp(t) PROVE QuicDrawn'
  <2>1. drawn' = drawn + 1 /\ UNCHANGED <<tuic, inbox, misread>>
    BY <1>2 DEF Quic!OpenUdp
  <2>2. \A u \in Callers : quic_pc'[u] = "udp" => nth'[u] \in 1..drawn'
    BY <1>c, <1>2, <2>1 DEF Quic!OpenUdp, Quic!Goto, Quic!TypeOK, QuicDrawn
  <2>3. 1..drawn \subseteq 1..drawn'
    BY <1>c, <2>1
  <2>4. misread' => drawn' > (IF tuic' THEN ShortIds ELSE LongIds)
    BY <1>c, <2>1 DEF QuicDrawn
  <2> QED
    BY <2>1, <2>2, <2>3, <2>4 DEF QuicDrawn
<1>3. ASSUME NEW t \in Callers, Quic!End(t) PROVE QuicDrawn'
  BY <1>3 DEF Quic!End, Quic!TypeOK, QuicDrawn
<1>4. ASSUME NEW t \in Callers, Quic!Reply(t) PROVE QuicDrawn'
  <2>1. nth[t] \in 1..drawn
    BY <1>4 DEF Quic!Reply, QuicDrawn
  <2> QED
    BY <1>4, <2>1 DEF Quic!Reply, Quic!TypeOK, QuicDrawn
<1>5. ASSUME NEW t \in Callers, Quic!Recv(t) PROVE QuicDrawn'
  <2>1. PICK n \in inbox[at[t]] :
          /\ inbox' = [inbox EXCEPT ![at[t]] = @ \ {n}]
          /\ misread' = (misread \/ (n # nth[t] /\ Quic!Number(n) = Quic!Number(nth[t])))
    BY <1>5 DEF Quic!Recv
  <2>2. UNCHANGED <<tuic, quic_pc, drawn, nth>> /\ quic_pc[t] = "udp"
    BY <1>5 DEF Quic!Recv
  <2>3. at[t] \in Quic!Conns
    BY <2>2 DEF QuicHeld, InUse, Quic!TypeOK
  <2>4. n \in 1..drawn /\ nth[t] \in 1..drawn
    BY <2>2, <2>3 DEF QuicDrawn
  <2>5. \A c \in Quic!Conns : inbox'[c] \subseteq 1..drawn
    BY <2>1 DEF QuicDrawn, Quic!TypeOK
  <2>6. ASSUME n # nth[t], Quic!Number(n) = Quic!Number(nth[t]), NEW L \in Nat \ {0},
               L = IF tuic THEN ShortIds ELSE LongIds
        PROVE  drawn > L
    <3>1. n % L = nth[t] % L
      BY <2>6 DEF Quic!Number
    <3> SUFFICES ASSUME drawn <= L PROVE FALSE
      BY <1>c
    <3>2. n \in 1..L /\ nth[t] \in 1..L
      BY <1>c, <2>4
    <3> QED
      BY <2>6, <3>1, <3>2, NumbersApart
  <2>7. misread' => drawn > (IF tuic THEN ShortIds ELSE LongIds)
    BY <1>c, <2>1, <2>6 DEF QuicDrawn
  <2> QED
    BY <2>2, <2>5, <2>7 DEF QuicDrawn
<1>6. ASSUME NEW c \in Quic!Conns, Quic!Close(c) PROVE QuicDrawn'
  BY <1>6 DEF Quic!Close, Quic!TypeOK, QuicDrawn
<1> QED
  BY <1>1, <1>2, <1>3, <1>4, <1>5, <1>6
  DEF Quic!Next, Quic!AuthenticationSent, Quic!AuthenticationConfirmed

LEMMA QuicInit == Quic!Init => QuicInv
<1> SUFFICES ASSUME Quic!Init PROVE QuicInv
  OBVIOUS
<1>1. MaxConns \in Nat \ {0} /\ MaxIds \in Nat
  BY ServicesAssumption DEF Quic!QuicAssumption
<1>2. 0 \in 0..MaxConns /\ 0 \in 0..MaxIds
  BY <1>1
<1>3. Quic!TypeOK
  BY <1>2 DEF Quic!Init, Quic!TypeOK
<1> QED
  BY <1>3 DEF Quic!Init, QuicInv, QuicHeld, QuicDrawn, InUse

-----------------------------------------------------------------------------
(* The reload of the configuration.                                        *)

\* Whatever is in service, being put there or held back, builds as a whole.
ReloadBuilds ==
  /\ 0 \in valid \cap dns
  /\ {router, outbounds} \subseteq valid /\ resolver \in valid \cap dns
  /\ \A r \in Config!Reloaders :
       /\ reload_pc[r] # "idle" => built[r] \in valid
       /\ reload_pc[r] = "resolver" => built[r] \in dns
  /\ refreshed => held \in valid

\* A save that is under way is one that the bound on edits allows.
ReloadBounded == torn => file < MaxVersion

\* Unless something has raced there is one reload at a time, and it leaves the
\* outbounds of the router that it has put into service.
ReloadAlone ==
  ~raced =>
    /\ \A r, s \in Config!Reloaders :
         reload_pc[r] # "idle" /\ reload_pc[s] # "idle" => r = s
    /\ \A r \in Config!Reloaders : reload_pc[r] = "outbounds" => router = built[r]
    /\ Config!Quiet => router = outbounds

ReloadInv == Config!TypeOK /\ ReloadBounded /\ ReloadBuilds /\ ReloadAlone

\* What a load leaves behind, whether it succeeds or not.
LEMMA LoadKeeps ==
  ASSUME ReloadInv, NEW r \in Config!Reloaders, NEW v \in Config!Versions,
         Config!Load(r, v),
         UNCHANGED <<valid, dns, router, outbounds, resolver, refreshed, held, rebuilt>>
  PROVE  /\ reload_pc' \in [Config!Reloaders -> {"idle", "resolver", "router", "outbounds"}]
         /\ built' \in [Config!Reloaders -> Config!Versions] /\ raced' \in BOOLEAN
         /\ ReloadBuilds' /\ ReloadAlone'
<1> USE DEF ReloadInv
<1>1. CASE UNCHANGED <<reload_pc, built, raced>>
  BY <1>1 DEF ReloadBuilds, ReloadAlone, Config!TypeOK, Config!Quiet
<1>2. CASE v \in valid /\ Config!Build(r, v)
  <2>1. /\ reload_pc[r] = "idle" /\ v \in valid
        /\ reload_pc' = [reload_pc EXCEPT ![r] = Config!FirstPart(r, v)]
        /\ built' = [built EXCEPT ![r] = v]
        /\ raced' = (~Config!Quiet \/ refreshed \/ rebuilt)
    BY <1>2 DEF Config!Load, Config!Build
  <2>2. /\ Config!FirstPart(r, v) \in {"resolver", "router"}
        /\ Config!FirstPart(r, v) = "resolver" => v \in dns
    BY DEF Config!FirstPart
  <2>3. /\ reload_pc' \in [Config!Reloaders -> {"idle", "resolver", "router", "outbounds"}]
        /\ built' \in [Config!Reloaders -> Config!Versions]
    BY <2>1, <2>2 DEF Config!TypeOK
  <2>4. raced' \in BOOLEAN
    BY <2>1, Zenon
  <2>5. ReloadBuilds'
    BY <2>1, <2>2 DEF ReloadBuilds, Config!TypeOK
  <2>6. ASSUME ~raced'
        PROVE  /\ \A s \in Config!Reloaders : s # r => reload_pc'[s] = "idle"
               /\ reload_pc'[r] \in {"resolver", "router"}
    BY <2>1, <2>2, <2>6 DEF Config!Quiet, Config!TypeOK
  <2>7. ReloadAlone'
    BY <2>6 DEF ReloadAlone, Config!Quiet
  <2> QED
    BY <2>3, <2>4, <2>5, <2>7
<1> QED
  BY <1>1, <1>2 DEF Config!Load

LEMMA ReloadKept == ASSUME ReloadInv, Config!Next PROVE ReloadInv'
<1> USE DEF ReloadInv
<1>v. /\ MaxVersion \in Nat /\ 0 \in Config!Versions
      /\ file \in Config!Versions /\ Config!Elsewhere \in Config!Versions
  BY ServicesAssumption
  DEF Config!ReloadAssumption, Config!Versions, Config!Elsewhere, Config!TypeOK
<1>w. "watch" \in Config!Reloaders /\ "hup" \in Config!Reloaders /\ "api" \in Config!Reloaders
  BY DEF Config!Reloaders
<1>1. CASE Config!Truncate \/ Config!WriteFile \/ Config!Debounced
  <2>1. file' \in 0..MaxVersion
    BY <1>1, <1>v DEF Config!Truncate, Config!WriteFile, Config!Debounced, Config!TypeOK,
                      Config!edits, ReloadBounded
  <2>2. UNCHANGED <<valid, dns, router, outbounds, resolver, reload_pc, built, refreshed,
                    held, rebuilt, raced>>
    BY <1>1 DEF Config!Truncate, Config!WriteFile, Config!Debounced, Config!edits,
                Config!parts, Config!others
  <2>3. /\ torn' \in BOOLEAN /\ changed' \in BOOLEAN /\ recent' \in BOOLEAN
        /\ missed' \in BOOLEAN
    BY <1>1 DEF Config!Truncate, Config!WriteFile, Config!Debounced, Config!edits, Config!TypeOK
  <2>4. Config!TypeOK'
    BY <2>1, <2>2, <2>3 DEF Config!TypeOK
  <2>5. ReloadBuilds' /\ ReloadAlone'
    BY <2>2 DEF ReloadBuilds, ReloadAlone, Config!Quiet
  <2>6. ReloadBounded'
    BY <1>1 DEF Config!Truncate, Config!WriteFile, Config!Debounced, Config!edits, ReloadBounded
  <2> QED
    BY <2>4, <2>5, <2>6
<1>2. CASE Config!Sighup \/ Config!PatchConfigs
  <2>1. PICK r \in Config!Reloaders, v \in Config!Versions :
          /\ Config!Load(r, v)
          /\ UNCHANGED <<Config!edits, Config!watching, Config!parts, Config!others>>
    BY <1>2, <1>v, <1>w DEF Config!Sighup, Config!PatchConfigs
  <2>2. /\ UNCHANGED <<valid, dns, router, outbounds, resolver, refreshed, held, rebuilt>>
        /\ UNCHANGED <<file, torn, changed, recent, missed>>
    BY <2>1 DEF Config!edits, Config!watching, Config!parts, Config!others
  <2> QED
    BY <2>1, <2>2, LoadKeeps DEF Config!TypeOK, ReloadBounded
<1>3. CASE Config!Poll
  <2>1. /\ UNCHANGED <<valid, dns, router, outbounds, resolver, refreshed, held, rebuilt>>
        /\ UNCHANGED <<file, torn>> /\ changed' = FALSE
    BY <1>3 DEF Config!Poll, Config!edits, Config!parts, Config!others
  <2>2. recent' \in BOOLEAN /\ missed' \in BOOLEAN
    BY <1>3 DEF Config!Poll, Config!TypeOK
  <2>3. CASE Config!Load("watch", file)
    BY <1>v, <1>w, <2>1, <2>2, <2>3, LoadKeeps DEF Config!TypeOK, ReloadBounded
  <2>4. CASE UNCHANGED <<reload_pc, built, raced>>
    BY <2>1, <2>2, <2>4 DEF Config!TypeOK, ReloadBounded, ReloadBuilds, ReloadAlone, Config!Quiet
  <2> QED
    BY <1>3, <2>3, <2>4 DEF Config!Poll
<1>4. ASSUME NEW r \in Config!Reloaders, Config!SwapStep(r) PROVE ReloadInv'
  <2>1. UNCHANGED <<valid, dns, file, torn, changed, recent, missed, refreshed, held, rebuilt, raced>>
    BY <1>4 DEF Config!SwapStep, Config!UpdateResolver, Config!UpdateRouter,
                Config!UpdateOutboundManager, Config!edits, Config!watching, Config!others
  <2>2. built[r] \in Config!Versions
    BY DEF Config!TypeOK
  <2>3. CASE Config!UpdateResolver(r)
    <3>1. /\ reload_pc[r] = "resolver" /\ resolver' = built[r]
          /\ reload_pc' = [reload_pc EXCEPT ![r] = "router"]
          /\ UNCHANGED <<router, outbounds, built>>
      BY <2>3 DEF Config!UpdateResolver, Config!Swap
    <3>2. Config!TypeOK'
      BY <2>1, <2>2, <3>1 DEF Config!TypeOK
    <3>3. ReloadBuilds'
      BY <2>1, <3>1 DEF ReloadBuilds, Config!TypeOK
    <3>4. ReloadAlone'
      BY <2>1, <3>1 DEF ReloadAlone, Config!Quiet, Config!TypeOK
    <3> QED
      BY <2>1, <3>2, <3>3, <3>4 DEF ReloadBounded
  <2>4. CASE Config!UpdateRouter(r)
    <3>1. /\ reload_pc[r] = "router" /\ router' = built[r]
          /\ reload_pc' = [reload_pc EXCEPT ![r] = "outbounds"]
          /\ UNCHANGED <<resolver, outbounds, built>>
      BY <2>4 DEF Config!UpdateRouter, Config!Swap
    <3>2. Config!TypeOK'
      BY <2>1, <2>2, <3>1 DEF Config!TypeOK
    <3>3. ReloadBuilds'
      BY <2>1, <3>1 DEF ReloadBuilds, Config!TypeOK
    <3>4. ReloadAlone'
      BY <2>1, <3>1 DEF ReloadAlone, Config!Quiet, Config!TypeOK
    <3> QED
      BY <2>1, <3>2, <3>3, <3>4 DEF ReloadBounded
  <2>5. CASE Config!UpdateOutboundManager(r)
    <3>1. /\ reload_pc[r] = "outbounds" /\ outbounds' = built[r]
          /\ reload_pc' = [reload_pc EXCEPT ![r] = "idle"]
          /\ built' = [built EXCEPT ![r] = 0]
          /\ UNCHANGED <<resolver, router>>
      BY <2>5 DEF Config!UpdateOutboundManager, Config!Swap
    <3>2. Config!TypeOK'
      BY <1>v, <2>1, <2>2, <3>1 DEF Config!TypeOK
    <3>3. ReloadBuilds'
      BY <2>1, <3>1 DEF ReloadBuilds, Config!TypeOK
    <3>4. ReloadAlone'
      BY <2>1, <3>1 DEF ReloadAlone, Config!Quiet, Config!TypeOK
    <3> QED
      BY <2>1, <3>2, <3>3, <3>4 DEF ReloadBounded
  <2> QED
    BY <1>4, <2>3, <2>4, <2>5 DEF Config!SwapStep
<1>5. CASE Config!ReadRouter
  <2>1. /\ refreshed' = TRUE /\ held' = router
        /\ UNCHANGED <<valid, dns, file, torn, changed, recent, missed, router, outbounds,
                       resolver, reload_pc, built, rebuilt, raced>>
    BY <1>5 DEF Config!ReadRouter, Config!edits, Config!watching, Config!parts
  <2>2. Config!TypeOK'
    BY <2>1 DEF Config!TypeOK
  <2>3. ReloadBuilds' /\ ReloadAlone'
    BY <2>1 DEF ReloadBuilds, ReloadAlone, Config!Quiet
  <2> QED
    BY <2>1, <2>2, <2>3 DEF ReloadBounded
<1>6. CASE Config!WriteRouter
  <2>1. /\ refreshed /\ refreshed' = FALSE /\ router' = held /\ held' = 0
        /\ raced' = (raced \/ held # router)
        /\ UNCHANGED <<valid, dns, file, torn, changed, recent, missed, outbounds,
                       resolver, reload_pc, built, rebuilt>>
    BY <1>6 DEF Config!WriteRouter, Config!edits, Config!watching
  <2>2. raced' \in BOOLEAN
    BY <2>1, Zenon
  <2>3. Config!TypeOK'
    BY <1>v, <2>1, <2>2 DEF Config!TypeOK
  <2>4. ReloadBuilds'
    BY <2>1 DEF ReloadBuilds
  <2>5. ~raced' => ~raced /\ router' = router
    BY <2>1
  <2>6. ReloadAlone'
    BY <2>1, <2>5 DEF ReloadAlone, Config!Quiet
  <2> QED
    BY <2>1, <2>3, <2>4, <2>6 DEF ReloadBounded
<1>7. CASE Config!RebuildOutbounds
  <2>1. /\ rebuilt' = TRUE
        /\ UNCHANGED <<valid, dns, file, torn, changed, recent, missed, router, outbounds,
                       resolver, reload_pc, built, refreshed, held, raced>>
    BY <1>7 DEF Config!RebuildOutbounds, Config!edits, Config!watching, Config!parts
  <2>2. Config!TypeOK'
    BY <2>1 DEF Config!TypeOK
  <2>3. ReloadBuilds' /\ ReloadAlone'
    BY <2>1 DEF ReloadBuilds, ReloadAlone, Config!Quiet
  <2> QED
    BY <2>1, <2>2, <2>3 DEF ReloadBounded
<1>8. CASE Config!SwapRebuilt
  <2>1. /\ rebuilt' = FALSE /\ outbounds' = 0 /\ raced' = (raced \/ router # 0)
        /\ UNCHANGED <<valid, dns, file, torn, changed, recent, missed, router,
                       resolver, reload_pc, built, refreshed, held>>
    BY <1>8 DEF Config!SwapRebuilt, Config!edits, Config!watching
  <2>2. raced' \in BOOLEAN
    BY <2>1, Zenon
  <2>3. Config!TypeOK'
    BY <1>v, <2>1, <2>2 DEF Config!TypeOK
  <2>4. ReloadBuilds'
    BY <2>1 DEF ReloadBuilds
  <2>5. ~raced' => ~raced /\ router = 0
    BY <2>1
  <2>6. ReloadAlone'
    BY <2>1, <2>5 DEF ReloadAlone, Config!Quiet
  <2> QED
    BY <2>1, <2>3, <2>4, <2>6 DEF ReloadBounded
<1> QED
  BY <1>1, <1>2, <1>3, <1>4, <1>5, <1>6, <1>7, <1>8 DEF Config!Next

LEMMA ReloadInit == Config!Init => ReloadInv
<1> SUFFICES ASSUME Config!Init PROVE ReloadInv
  OBVIOUS
<1>1. 0 \in Config!Versions /\ 0 \in 0..MaxVersion
  BY ServicesAssumption DEF Config!ReloadAssumption, Config!Versions, Config!Elsewhere
<1>2. Config!TypeOK
  BY <1>1 DEF Config!Init, Config!TypeOK
<1> QED
  BY <1>2 DEF Config!Init, ReloadInv, ReloadBounded, ReloadBuilds, ReloadAlone

-----------------------------------------------------------------------------
(* The theorems: of every behaviour of the services.                       *)

\* An invariant of a service is one of the services side by side.
LEMMA ServicesSteps ==
  ASSUME ServicesNext \/ UNCHANGED servicesVars
  PROVE  /\ Next \/ UNCHANGED vars
         /\ Res!Next \/ UNCHANGED resolverVars
         /\ Relay!Next \/ UNCHANGED derpVars
         /\ Quic!Next \/ UNCHANGED quicVars
         /\ Config!Next \/ UNCHANGED reloadVars
BY DEF ServicesNext, CacheStep, ResolversStep, DerpStep, QuicStep, ReloadStep, Only, servicesVars

\* The cache among the other services.
THEOREM CacheInvariance == ServicesSpec => []IInv
<1>1. ServicesInit => IInv
  BY InitIInv DEF ServicesInit
<1>2. IInv /\ [ServicesNext]_servicesVars => IInv'
  BY ServicesSteps, NextStep
<1> QED
  BY <1>1, <1>2, PTL DEF ServicesSpec

\* The resolvers, for any configurations and any length of answers.
THEOREM ResInvariance == ServicesSpec => []ResInv
<1>1. ServicesInit => ResInv
  BY ResInit DEF ServicesInit
<1>2. ResInv /\ [ServicesNext]_servicesVars => ResInv'
  <2> SUFFICES ASSUME ResInv, [ServicesNext]_servicesVars PROVE ResInv'
    OBVIOUS
  <2>1. CASE Res!Next
    BY <2>1, ResKept
  <2>2. CASE UNCHANGED resolverVars
    <3>1. /\ conf' = conf /\ asked' = asked /\ query' = query /\ stage' = stage
          /\ queue' = queue /\ racing' = racing /\ failed' = failed /\ refused' = refused
          /\ source' = source /\ raw' = raw /\ answer' = answer
      BY <2>2 DEF resolverVars
    <3>2. /\ Res!Servers' = Res!Servers /\ Res!MainEligible' = Res!MainEligible
          /\ Res!Eligible' = Res!Eligible
          /\ (Res!FallsBack' <=> Res!FallsBack) /\ (Res!FilteredDomain' <=> Res!FilteredDomain)
          /\ (ResBelow' <=> ResBelow)
      BY <3>1, ResSame
    <3>3. Res!TypeOK'
      BY <3>1, <3>2 DEF ResInv, Res!TypeOK
    <3>4. ResPhases'
      BY <3>1, <3>2 DEF ResInv, ResPhases, ResFresh, ResRacing, ResAlone, ResInTurn, ResPassed,
                        ResChain
    <3>5. (Res!OnTrial' <=> Res!OnTrial) /\ (Res!Filtered(raw)' <=> Res!Filtered(raw))
      BY <3>1, <3>2 DEF Res!OnTrial, Res!Filtered
    <3>6. Res!AnswersRight'
      BY <3>1, <3>2, <3>5 DEF ResInv, Res!AnswersRight
    <3> QED
      BY <3>3, <3>4, <3>6 DEF ResInv
  <2> QED
    BY <2>1, <2>2, ServicesSteps
<1> QED
  BY <1>1, <1>2, PTL DEF ServicesSpec

\* Whatever servers answer and fail in whatever order, what a call returns is
\* right for its configuration: the source, the filter, the error and the order
\* of the addresses.
THEOREM ResolversRight == ServicesSpec => []AnswersRight
<1>1. ResInv => AnswersRight
  BY DEF ResInv, AnswersRight
<1> QED
  BY <1>1, ResInvariance, PTL

\* The DERP relay, for any number of connections and keys and any capacity of
\* their channels.
THEOREM DerpInvariance == ServicesSpec => []DerpInv
<1>1. ServicesInit => DerpInv
  BY DerpInit DEF ServicesInit
<1>2. DerpInv /\ [ServicesNext]_servicesVars => DerpInv'
  <2> SUFFICES ASSUME DerpInv, [ServicesNext]_servicesVars PROVE DerpInv'
    OBVIOUS
  <2>1. CASE Relay!Next
    BY <2>1, DerpKept
  <2>2. CASE UNCHANGED derpVars
    BY <2>2 DEF derpVars, DerpInv, Relay!TypeOK, DerpTabled, DerpLocked, DerpReached, Told,
                Relay!Serving, Listed
  <2> QED
    BY <2>1, <2>2, ServicesSteps
<1> QED
  BY <1>1, <1>2, PTL DEF ServicesSpec

\* No entry of the relay's table outlives its connection, and one that a newer
\* connection of its key takes out of the table is told to stop, whatever
\* registers, cleans up and fails in between.
THEOREM DerpTable == ServicesSpec => []TableSound
<1>1. DerpInv => TableSound
  BY DEF DerpInv, DerpTabled, DerpReached, Told, TableSound, Relay!TableSound
<1> QED
  BY <1>1, DerpInvariance, PTL

\* The QUIC outbounds, for any number of calls, connections and numbers.
THEOREM QuicInvariance == ServicesSpec => []QuicInv
<1>1. ServicesInit => QuicInv
  BY QuicInit DEF ServicesInit
<1>2. QuicInv /\ [ServicesNext]_servicesVars => QuicInv'
  <2> SUFFICES ASSUME QuicInv, [ServicesNext]_servicesVars PROVE QuicInv'
    OBVIOUS
  <2>1. CASE Quic!Next
    BY <2>1, QuicTypes, QuicHolds, QuicDraws DEF QuicInv
  <2>2. CASE UNCHANGED quicVars
    BY <2>2 DEF quicVars, QuicInv, Quic!TypeOK, QuicHeld, QuicDrawn
  <2> QED
    BY <2>1, <2>2, ServicesSteps
<1> QED
  BY <1>1, <1>2, PTL DEF ServicesSpec

\* Whoever was cut short while it held the manager's mutex, nothing is opened
\* on a connection that was not authenticated.
THEOREM QuicAuthenticated == ServicesSpec => []AuthenticatedBeforeUse
<1>1. QuicInv => AuthenticatedBeforeUse
  BY DEF QuicInv, QuicHeld, InUse, AuthenticatedBeforeUse, Quic!AuthenticatedBeforeUse
<1> QED
  BY <1>1, QuicInvariance, PTL

\* As long as the numbers of a protocol have not been used up, no UDP session
\* takes the answer to another one.
THEOREM QuicOwners == ServicesSpec => []AnswersToOwner
<1>1. QuicInv => AnswersToOwner
  BY DEF QuicInv, QuicDrawn, AnswersToOwner, Quic!AnswersToOwner
<1> QED
  BY <1>1, QuicInvariance, PTL

\* The reload, for any number of versions.
THEOREM ReloadInvariance == ServicesSpec => []ReloadInv
<1>1. ServicesInit => ReloadInv
  BY ReloadInit DEF ServicesInit
<1>2. ReloadInv /\ [ServicesNext]_servicesVars => ReloadInv'
  <2> SUFFICES ASSUME ReloadInv, [ServicesNext]_servicesVars PROVE ReloadInv'
    OBVIOUS
  <2>1. CASE Config!Next
    BY <2>1, ReloadKept
  <2>2. CASE UNCHANGED reloadVars
    BY <2>2 DEF reloadVars, ReloadInv, Config!TypeOK, ReloadBounded, ReloadBuilds, ReloadAlone,
                Config!Quiet
  <2> QED
    BY <2>1, <2>2, ServicesSteps
<1> QED
  BY <1>1, <1>2, PTL DEF ServicesSpec

\* What is in service builds as a whole; router and outbounds are of one
\* configuration whenever no reload is at work, races excepted.
THEOREM ReloadMixes == ServicesSpec => []MixedOnlyByRace
<1>1. ReloadInv => MixedOnlyByRace
  BY DEF ReloadInv, ReloadBuilds, ReloadAlone, MixedOnlyByRace, Config!MixedOnlyByRace
<1> QED
  BY <1>1, ReloadInvariance, PTL

\* The state of every service keeps its types.
THEOREM ServicesTypes == ServicesSpec => []TypesOK
<1>1. IInv /\ ResInv /\ DerpInv /\ QuicInv /\ ReloadInv => TypesOK
  BY DEF IInv, ResInv, DerpInv, QuicInv, ReloadInv, TypesOK
<1> QED
  BY <1>1, CacheInvariance, ResInvariance, DerpInvariance, QuicInvariance, ReloadInvariance, PTL
=============================================================================

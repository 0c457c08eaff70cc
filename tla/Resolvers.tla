----------------------------- MODULE Resolvers -----------------------------
(***************************************************************************)
(* What is under the DNS cache: the layers that build_resolver stacks      *)
(* (src/src/dns/resolver.rs, src/src/dns/hosts.rs).  From the outside in:  *)
(* preferred family, FakeIP, hosts, and one of split, race and fallback    *)
(* over the upstream servers.                                              *)
(*                                                                         *)
(* One call of resolve under one configuration.  A configuration is a      *)
(* record; a server has an id and the hosts that its domain rules match,   *)
(* none if it has no rules.  An upstream answers with a non-empty sequence *)
(* of addresses or fails; in a race they answer in any order.              *)
(***************************************************************************)
EXTENDS Naturals, Sequences, SequencesExt, Lists

CONSTANTS
  Configs,     \* configurations
  Hosts,
  MaxAddrs,    \* bound on the addresses of an answer
  None

Ids(servers) == {servers[i].id : i \in DOMAIN servers}

\* Every entry of a list of servers has an id of its own.
IsServerList(servers) ==
  /\ servers \in Seq(ToSet(servers))
  /\ \A i, j \in DOMAIN servers : servers[i].id = servers[j].id => i = j
  /\ Ids(servers) \cap {"system", "hosts", "fake", None} = {}

ResolversAssumption ==
  /\ MaxAddrs \in Nat \ {0} /\ None \notin Hosts \cup {"system", "hosts", "fake"}
  /\ \A c \in Configs :
       /\ IsServerList(c.servers) /\ IsServerList(c.fallback)
       /\ Ids(c.servers) \cap Ids(c.fallback) = {}

\* "cn" is an IPv4 address that the filter of the configuration names.
V4 == {"v4", "cn"}
V6 == {"v6"}
Addrs == V4 \cup V6
Answers == UNION {[1..n -> Addrs] : n \in 1..MaxAddrs}

VARIABLES
  conf,      \* the configuration
  host,      \* the host asked for
  pc,        \* "new", "chain", "race", "done"
  stage,     \* whose servers are asked: "main" or "fallback"
  queue,     \* servers still to ask, one after the other
  racing,    \* servers asked at once that have not answered
  failed,    \* servers that have failed
  refused,   \* servers whose answer was filtered
  source,    \* who answered: a server, "hosts", "fake", or None
  raw,       \* the answer it gave
  answer     \* the answer of the call

vars == <<conf, host, pc, stage, queue, racing, failed, refused, source, raw, answer>>

Servers == Ids(conf.servers) \cup Ids(conf.fallback) \cup {"system"}

TypeOK ==
  /\ conf \in Configs /\ host \in Hosts
  /\ pc \in {"new", "chain", "race", "done"} /\ stage \in {"main", "fallback"}
  /\ \A u \in ToSet(queue) \cup racing \cup failed \cup refused :
       u \in Servers
  /\ source \in Servers \cup {"hosts", "fake", None}
  /\ raw \in Answers \cup {<<>>} /\ answer \in Answers \cup {<<>>}

Init ==
  /\ conf \in Configs /\ host \in Hosts
  /\ pc = "new" /\ stage = "main"
  /\ queue = <<>> /\ racing = {} /\ failed = {} /\ refused = {}
  /\ source = None /\ raw = <<>> /\ answer = <<>>

-----------------------------------------------------------------------------
(* The servers that a list of them asks for a host, in turn: the first     *)
(* whose rules match, then the default, which is the first without rules   *)
(* or else the last with rules.  The same server is not asked twice.       *)
First(S) == CHOOSE i \in S : \A j \in S : i <= j
Plain(servers) == {i \in DOMAIN servers : servers[i].domains = {}}
Match(servers, h) == {i \in DOMAIN servers : h \in servers[i].domains}
Default(servers) == IF Plain(servers) # {} THEN First(Plain(servers)) ELSE Len(servers)

Chain(servers, h) ==
  IF servers = <<>> THEN <<"system">>
  ELSE IF Match(servers, h) = {} \/ First(Match(servers, h)) = Default(servers)
  THEN <<servers[Default(servers)].id>>
  ELSE <<servers[First(Match(servers, h))].id, servers[Default(servers)].id>>

\* Slip: the preferred family is put first and the other one is left out.
PreferOnly(a) ==
  LET first == Keep(a, IF conf.prefer = "ipv6" THEN V6 ELSE V4)
  IN IF conf.prefer = "none" THEN a ELSE first

\* PreferIpv4Resolver, PreferIpv6Resolver.
Prefer(a) ==
  LET six == Keep(a, V6)
      four == Keep(a, V4)
  IN IF conf.prefer = "none" THEN a
     ELSE IF conf.prefer = "ipv4" THEN four \o six ELSE six \o four

Return(who, a) ==
  /\ pc' = "done" /\ source' = who /\ raw' = a /\ answer' = Prefer(a)
  /\ UNCHANGED <<stage, queue, racing>>

Ask(st) ==
  /\ pc' = "chain" /\ stage' = st
  /\ queue' = Chain(IF st = "main" THEN conf.servers ELSE conf.fallback, host)
  /\ UNCHANGED <<racing, source, raw, answer>>

\* There are servers to fall back to, and so a FallbackResolver.
FallsBack == conf.mode = "fallback" /\ conf.fallback # <<>>
FilteredDomain == FallsBack /\ host \in conf.filterDomains

\* The layers down to the servers.
Resolve ==
  /\ pc = "new"
  /\ IF conf.fake /\ host \notin conf.excluded THEN Return("fake", <<"v4">>)
     ELSE IF host \in conf.hosts THEN Return("hosts", <<"v4">>)
     ELSE IF conf.mode = "race" /\ Len(conf.servers) > 1
     THEN /\ pc' = "race" /\ racing' = Ids(conf.servers)
          /\ UNCHANGED <<stage, queue, source, raw, answer>>
     ELSE IF conf.mode = "race" /\ conf.servers # <<>>
     THEN /\ pc' = "chain" /\ queue' = <<conf.servers[1].id>>
          /\ UNCHANGED <<stage, racing, source, raw, answer>>
     ELSE Ask(IF FilteredDomain THEN "fallback" ELSE "main")
  /\ UNCHANGED <<conf, host, failed, refused>>

-----------------------------------------------------------------------------
(* Race: the first that does not fail wins, the others run on unheard.     *)

RaceWon(u, a) ==
  /\ pc = "race" /\ u \in racing
  /\ Return(u, a)
  /\ UNCHANGED <<conf, host, failed, refused>>

\* Slip: the first answer decides, also if it is a failure.
RaceLostAtOnce(u) ==
  /\ pc = "race" /\ u \in racing
  /\ failed' = failed \cup {u}
  /\ racing' = {} /\ pc' = "done"
  /\ UNCHANGED <<conf, host, stage, queue, refused, source, raw, answer>>

RaceLost(u) ==
  /\ pc = "race" /\ u \in racing
  /\ failed' = failed \cup {u}
  /\ racing' = racing \ {u}
  /\ pc' = IF racing = {u} THEN "done" ELSE "race"
  /\ UNCHANGED <<conf, host, stage, queue, refused, source, raw, answer>>

-----------------------------------------------------------------------------
(* Split, and fallback over two of them.                                   *)

\* The main servers of a FallbackResolver are asked.
OnTrial == FallsBack /\ stage = "main"

\* should_fallback_ip.
Filtered(a) == conf.filterIps /\ "cn" \in ToSet(a)

ChainAnswers(a) ==
  /\ pc = "chain"
  /\ IF OnTrial /\ Filtered(a)
     THEN Ask("fallback") /\ refused' = refused \cup {Head(queue)}
     ELSE Return(Head(queue), a) /\ UNCHANGED refused
  /\ UNCHANGED <<conf, host, failed>>

ChainFails ==
  /\ pc = "chain"
  /\ failed' = failed \cup {Head(queue)}
  /\ IF Len(queue) > 1
     THEN /\ queue' = Tail(queue)
          /\ UNCHANGED <<pc, stage, racing, source, raw, answer>>
     ELSE IF OnTrial THEN Ask("fallback")
     ELSE /\ pc' = "done" /\ queue' = <<>>
          /\ UNCHANGED <<stage, racing, source, raw, answer>>
  /\ UNCHANGED <<conf, host, refused>>

Next ==
  \/ Resolve
  \/ \E u \in racing : RaceLost(u) \/ \E a \in Answers : RaceWon(u, a)
  \/ \E a \in Answers : ChainAnswers(a)
  \/ ChainFails

Spec == Init /\ [][Next]_vars

-----------------------------------------------------------------------------
(* Properties.                                                             *)

\* The servers of a list that may answer for h: one whose rules name it before the
\* others do, or one that is there for hosts that no rule names.
Responsible(servers, h) ==
  LET named(i) == h \in servers[i].domains
      general(i) == servers[i].domains = {}
      Before(i, P(_)) == \E j \in 1..(i - 1) : P(j) IN
  IF servers = <<>> THEN {"system"}
  ELSE {servers[i].id : i \in {i \in DOMAIN servers :
          \/ named(i) /\ ~Before(i, named)
          \/ general(i) /\ ~Before(i, general)
          \/ i = Len(servers) /\ \A j \in DOMAIN servers : ~general(j)}}

MainEligible ==
  IF conf.mode = "race" /\ conf.servers # <<>> THEN Ids(conf.servers)
  ELSE Responsible(conf.servers, host)
Eligible ==
  (IF FilteredDomain THEN {} ELSE MainEligible)
  \cup (IF FallsBack THEN Responsible(conf.fallback, host) ELSE {})

(* What a call returns is right for its configuration, in whatever order   *)
(* servers answer and fail.  A server answers that is responsible for the  *)
(* host, and only if neither FakeIP nor the hosts map does (in this        *)
(* order); it is not the main server of a fallback configuration if the    *)
(* answer has an address in the filter.  There is an error only when every *)
(* server that is responsible has failed, the main ones of a fallback      *)
(* configuration excepted where a filter passed them over.  And the family *)
(* preferred comes first with no address lost or added.                    *)
AnswersRight ==
  pc = "done" =>
    /\ (source = "fake") <=> (conf.fake /\ host \notin conf.excluded)
    /\ (source = "hosts") <=> (host \in conf.hosts /\ source # "fake")
    /\ source \notin {"fake", "hosts", None} =>
         /\ source \in Eligible \ failed
         /\ OnTrial => ~Filtered(raw)
    /\ source = None =>
         /\ FallsBack => Responsible(conf.fallback, host) \subseteq failed
         /\ FilteredDomain \/ refused # {} \/ MainEligible \subseteq failed
    /\ Len(answer) = Len(raw) /\ ToSet(answer) = ToSet(raw)
    /\ \A i, j \in DOMAIN answer : i < j =>
         /\ conf.prefer = "ipv4" => ~(answer[i] = "v6" /\ answer[j] # "v6")
         /\ conf.prefer = "ipv6" => ~(answer[i] # "v6" /\ answer[j] = "v6")
=============================================================================

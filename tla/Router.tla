------------------------------- MODULE Router -------------------------------
(***************************************************************************)
(* The routing table (src/src/router/mod.rs) with its tries (trie.rs).     *)
(*                                                                         *)
(* Router::new enters the rules in the order of the configuration.  The    *)
(* values of domain-suffix and ip-cidr rules also go into a trie of labels *)
(* (the last label first) and one of bits; a route takes the first rule of *)
(* the trie or of a scan of all other rules, whichever comes first.  The   *)
(* other kinds of rules (keywords, ports, and / or / not, rule sets, ...)  *)
(* are here the set of targets they match.                                 *)
(*                                                                         *)
(* A name is a sequence of labels as it is written, in lower case (both    *)
(* sides are folded); an address is a number of Bits bits.  IPv4 and IPv6  *)
(* have a trie each and differ in Bits only.                               *)
(***************************************************************************)
EXTENDS Naturals, Sequences, FiniteSets, SequencesExt

CONSTANTS
  Labels, MaxLabels,   \* names have up to MaxLabels labels
  Bits,
  MaxRules

RouterAssumption == MaxLabels \in Nat /\ Bits \in Nat /\ MaxRules \in Nat

VARIABLES
  rules,         \* rules, in the order of the configuration
  domain_trie,   \* node (its path) -> its value, 0 if none
  ip_trie

vars == <<rules, domain_trie, ip_trie>>

Pow2[n \in 0..Bits] == IF n = 0 THEN 1 ELSE 2 * Pow2[n - 1]

Names == UNION {[1..n -> Labels] : n \in 1..MaxLabels}
Addresses == 0..(Pow2[Bits] - 1)
Targets == [kind : {"name"}, of : Names] \cup [kind : {"ip"}, of : Addresses]
\* IpNet keeps the bits of the address beyond its length.
Nets == [addr : Addresses, len : 0..Bits]
Rules == [kind : {"suffix"}, values : SUBSET Names]
         \cup [kind : {"cidr"}, values : SUBSET Nets]
         \cup [kind : {"other"}, values : SUBSET Targets]

Nodes(trie) == DOMAIN trie

IsTrie(trie) ==
  \A q \in Nodes(trie) : /\ trie[q] \in 0..Len(rules)
                         /\ q # <<>> => Front(q) \in Nodes(trie)

TypeOK == rules \in Seq(Rules) /\ IsTrie(domain_trie) /\ IsTrie(ip_trie)

-----------------------------------------------------------------------------
(* The tries.                                                              *)

NewTrie == [q \in {<<>>} |-> 0]
Value(trie, q) == IF q \in Nodes(trie) THEN trie[q] ELSE 0

\* insert, for all values of rule idx: the first rule keeps the node.
Insert(trie, paths, idx) ==
  [q \in Nodes(trie) \cup UNION {Prefixes(p) : p \in paths} |->
     IF q \in paths /\ Value(trie, q) = 0 THEN idx ELSE Value(trie, q)]

\* The nodes on the way down, until a child is missing.
Walk(trie, path) == {q \in Prefixes(path) : Prefixes(q) \subseteq Nodes(trie)}

Least(S) == IF S = {} THEN 0 ELSE CHOOSE i \in S : \A j \in S : i <= j

\* Slip: the longest match, as find and longest_prefix_match have it.
LongestMatch(trie, path) ==
  LET with == {q \in Walk(trie, path) : trie[q] # 0} IN
  IF with = {} THEN 0
  ELSE trie[CHOOSE q \in with : \A r \in with : Len(r) <= Len(q)]

\* find_first_match and first_prefix_match.
FirstMatch(trie, path) == Least({trie[q] : q \in Walk(trie, path)} \ {0})

\* split('.').rev(), octets_to_bits.
NamePath(name) == Reverse(name)
BitPath(addr) == [i \in 1..Bits |-> (addr \div Pow2[Bits - i]) % 2]
NetPath(net) == SubSeq(BitPath(net.addr), 1, net.len)

-----------------------------------------------------------------------------
(* Router::new.                                                            *)

Init == rules = <<>> /\ domain_trie = NewTrie /\ ip_trie = NewTrie

Add(kind, values) ==
  /\ Len(rules) < MaxRules
  /\ rules' = Append(rules, [kind |-> kind, values |-> values])

AddDomainSuffix(S) ==
  /\ Add("suffix", S)
  /\ domain_trie' = Insert(domain_trie, {NamePath(n) : n \in S}, Len(rules) + 1)
  /\ UNCHANGED ip_trie

AddIpCidr(S) ==
  /\ Add("cidr", S)
  /\ ip_trie' = Insert(ip_trie, {NetPath(n) : n \in S}, Len(rules) + 1)
  /\ UNCHANGED domain_trie

AddOther(S) ==
  /\ Add("other", S)
  /\ UNCHANGED <<domain_trie, ip_trie>>

\* Rules with one or two values; others that match one target or all.
Next ==
  \/ \E m, n \in Names : AddDomainSuffix({m, n})
  \/ \E m, n \in Nets : AddIpCidr({m, n})
  \/ \E t \in Targets : AddOther({t})
  \/ AddOther(Targets)

Spec == Init /\ [][Next]_vars

-----------------------------------------------------------------------------
(* route_with_rule: the index of the selected rule, 0 for the default.     *)

Scan(t) == Least({i \in DOMAIN rules : rules[i].kind = "other" /\ t \in rules[i].values})

Selected(t) ==
  LET found == IF t.kind = "name" THEN FirstMatch(domain_trie, NamePath(t.of))
               ELSE FirstMatch(ip_trie, BitPath(t.of))
  IN Least({found, Scan(t)} \ {0})

-----------------------------------------------------------------------------
(* matches_session, each rule for itself.                                  *)

\* Equal, or ends with "." and the suffix.
HasSuffix(name, suffix) == IsSuffix(suffix, name)

InNet(net, addr) == net.addr \div Pow2[Bits - net.len] = addr \div Pow2[Bits - net.len]

Matches(r, t) ==
  \/ r.kind = "suffix" /\ t.kind = "name" /\ \E n \in r.values : HasSuffix(t.of, n)
  \/ r.kind = "cidr" /\ t.kind = "ip" /\ \E n \in r.values : InNet(n, t.of)
  \/ r.kind = "other" /\ t \in r.values

(* The tries change nothing but the speed: a session takes the first rule  *)
(* of the configuration that matches it by itself, however suffixes and    *)
(* nets nest, repeat and mix with rules of other kinds.                    *)
RoutesFirstMatch ==
  \A t \in Targets : Selected(t) = Least({i \in DOMAIN rules : Matches(rules[i], t)})
=============================================================================

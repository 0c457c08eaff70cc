----------------------------- MODULE MCServices -----------------------------
(* Small instances of the services.                                        *)
EXTENDS Services

CONSTANTS t3, h1, h2

\* Two calls ask for one host and a third for another.
MCWants == [t \in Tasks |-> IF t = t3 THEN {h2} ELSE {h1}]

-----------------------------------------------------------------------------
(* Configurations of the resolvers: every mode with and without rules,     *)
(* defaults and filters, and every stack of layers over one server.        *)
Server(id, domains) == [id |-> id, domains |-> domains]
ServerLists ==
  {<<>>, <<Server("a", {})>>, <<Server("a", {"h"}), Server("b", {})>>,
   <<Server("a", {"h"}), Server("b", {"k"})>>, <<Server("a", {}), Server("b", {"h"})>>}
FallbackLists ==
  {<<>>, <<Server("f", {})>>, <<Server("f", {"h"}), Server("g", {})>>}
Stacked ==
  [mode : {"split"}, servers : {<<Server("a", {})>>}, fallback : {<<>>},
   filterDomains : {{}}, filterIps : {FALSE}, hosts : {{}, {"h"}}, fake : BOOLEAN,
   excluded : {{}, {"h"}}, prefer : {"none", "ipv4", "ipv6"}]
Bare(mode, fallbacks, domains, ips) ==
  [mode : mode, servers : ServerLists, fallback : fallbacks, filterDomains : domains,
   filterIps : ips, hosts : {{}}, fake : {FALSE}, excluded : {{}}, prefer : {"none"}]
MCConfigs ==
  Stacked \cup Bare({"split", "race"}, {<<>>}, {{}}, {FALSE})
          \cup Bare({"fallback"}, FallbackLists, {{}, {"h"}}, BOOLEAN)

\* Two connections of one key and one of another.
MCDerpKey == [c \in DerpConns |-> IF c = "c3" THEN "k2" ELSE "k1"]
=============================================================================

--------------------------- MODULE MCRuleProvider ---------------------------
(* A rule provider on its own: one matching thread, before and after a     *)
(* restart of the process, and no task that outlives a reload.             *)
EXTENDS RuleProvider

MCSpec == Init /\ [][Next /\ ~strays']_vars
=============================================================================

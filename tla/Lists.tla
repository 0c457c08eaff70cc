------------------------------- MODULE Lists -------------------------------
(* Lists as the DNS code cuts them: Vec::retain and Iterator::filter.      *)
EXTENDS Naturals, Sequences

\* The members of q that are in S, in their order.
Keep(q, S) ==
  LET kept[i \in 0..Len(q)] ==
        IF i = 0 THEN <<>>
        ELSE IF q[i] \in S THEN Append(kept[i - 1], q[i]) ELSE kept[i - 1]
  IN  kept[Len(q)]
=============================================================================

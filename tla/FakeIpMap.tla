----------------------------- MODULE FakeIpMap -----------------------------
(***************************************************************************)
(* What FakeIpPool promises: one atomic, one-to-one assignment of addresses*)
(* to names.  allocate answers with the address a name has, or gives it    *)
(* one, taking that address from the name that had it; lookup answers with *)
(* the name an address belongs to at that moment.                          *)
(***************************************************************************)
CONSTANTS
  Tasks,   \* callers
  Keys,    \* names: a domain and the address family asked for
  Addrs,   \* fake addresses
  None     \* no name, no address

VARIABLES
  map,     \* the address of each name, or None
  ans      \* the last answer: <<task, key, addr>>

Init ==
  /\ map = [k \in Keys |-> None]
  /\ ans = <<None, None, None>>

\* The name has an address.
Known(t, k, a) ==
  /\ ans' = <<t, k, a>>
  /\ map[k] = a
  /\ UNCHANGED map

\* The name has none: it takes a, from another name if need be.
Assign(t, k, a) ==
  /\ ans' = <<t, k, a>>
  /\ map[k] = None
  /\ map' = [x \in Keys |-> IF x = k THEN a
                            ELSE IF map[x] = a THEN None ELSE map[x]]

\* The address belongs to nobody.
Unknown(t, a) ==
  /\ ans' = <<t, None, a>>
  /\ \A k \in Keys : map[k] # a
  /\ UNCHANGED map

\* A step is the answer of one call.
Next ==
  LET t == ans'[1]
      k == ans'[2]
      a == ans'[3]
  IN  /\ t \in Tasks
      /\ a \in Addrs
      /\ \/ k \in Keys /\ (Known(t, k, a) \/ Assign(t, k, a))
         \/ Unknown(t, a)

Spec == Init /\ [][Next]_<<map, ans>>
=============================================================================

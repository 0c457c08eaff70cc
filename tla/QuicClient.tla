----------------------------- MODULE QuicClient -----------------------------
(***************************************************************************)
(* The QUIC outbounds, TUIC (src/src/proxy/outbound/tuic/mod.rs) and       *)
(* Hysteria2 (src/src/proxy/outbound/hysteria2/): all connections of an    *)
(* outbound share one QUIC connection, made and authenticated by whoever   *)
(* needs it first, under the mutex of its manager.                         *)
(*                                                                         *)
(* The dispatcher gives up a call at any await (its time-out, a closed     *)
(* client), so that a manager may be left with a connection that is not    *)
(* authenticated.  UDP sessions share the datagrams of the connection:     *)
(* each session's recv takes the next one, whosever it is, and drops what  *)
(* does not carry its number.  TUIC has its numbers from a 32-bit counter  *)
(* cut to 16 bits, Hysteria2 from a 32-bit counter.                        *)
(***************************************************************************)
EXTENDS Naturals, FiniteSets

CONSTANTS
  Callers,     \* calls of connect and connect_udp
  MaxConns,    \* bound on the QUIC connections made
  MaxIds,      \* bound on the session numbers drawn
  ShortIds,    \* how many numbers TUIC's 16 bits tell apart
  LongIds,     \* how many a counter of 32 bits tells apart
  None

QuicAssumption ==
  /\ IsFiniteSet(Callers) /\ None \notin Callers
  /\ MaxConns \in Nat \ {0} /\ MaxIds \in Nat
  /\ ShortIds \in Nat \ {0} /\ LongIds \in Nat /\ ShortIds <= LongIds

Conns == 1..MaxConns

VARIABLES
  tuic,            \* the protocol is TUIC
  connection,      \* the manager's connection, 0 if none was made
  authenticated,   \* the manager's flag
  made,            \* how many connections have been made
  alive,           \* connections that are not closed
  admitted,        \* connections on which authenticating has succeeded
  lock,            \* the caller that holds the manager's mutex, or None
  pc,              \* caller -> where it is
  at,              \* caller -> the connection it uses, 0 if none
  drawn,           \* session numbers drawn from the counter
  nth,             \* UDP session -> the how-manieth number it drew
  inbox,           \* connection -> draws of the sessions with an answer not yet read
  misread          \* a session has taken the answer to another one as its own

vars == <<tuic, connection, authenticated, made, alive, admitted, lock, pc, at,
          drawn, nth, inbox, misread>>

TypeOK ==
  /\ tuic \in BOOLEAN /\ connection \in 0..MaxConns /\ authenticated \in BOOLEAN
  /\ made \in 0..MaxConns /\ alive \subseteq Conns /\ admitted \subseteq Conns
  /\ lock \in Callers \cup {None}
  /\ pc \in [Callers -> {"idle", "create", "authenticate", "open", "stream", "udp"}]
  /\ at \in [Callers -> 0..MaxConns]
  /\ drawn \in 0..MaxIds /\ nth \in [Callers -> 0..MaxIds]
  /\ inbox \in [Conns -> SUBSET (1..MaxIds)]
  /\ misread \in BOOLEAN

Init ==
  /\ tuic \in BOOLEAN
  /\ connection = 0 /\ authenticated = FALSE
  /\ made = 0 /\ alive = {} /\ admitted = {}
  /\ lock = None
  /\ pc = [t \in Callers |-> "idle"]
  /\ at = [t \in Callers |-> 0]
  /\ drawn = 0
  /\ nth = [t \in Callers |-> 0]
  /\ inbox = [c \in Conns |-> {}]
  /\ misread = FALSE

Goto(t, from, to) == pc[t] = from /\ pc' = [pc EXCEPT ![t] = to]

udp == <<drawn, nth, inbox, misread>>
manager == <<connection, authenticated, made, admitted>>

-----------------------------------------------------------------------------
(* Getting an authenticated connection, under the mutex.                   *)

\* The manager's connection is not closed: it is used, or authenticated first if that
\* was cut short.  Callers wait for the mutex where they are.
Reuse(t) ==
  /\ lock = None /\ connection \in alive
  /\ at' = [at EXCEPT ![t] = connection]
  /\ \/ authenticated /\ Goto(t, "idle", "open") /\ UNCHANGED lock
     \/ ~authenticated /\ Goto(t, "idle", "authenticate") /\ lock' = t
  /\ UNCHANGED <<tuic, manager, alive, udp>>

NoReuse(t) ==
  /\ lock = None /\ connection \notin alive
  /\ Goto(t, "idle", "create") /\ lock' = t
  /\ UNCHANGED <<tuic, manager, alive, at, udp>>

\* Slip: the flag of the old connection stays for the new one.
CreateKeepsFlag(t) ==
  /\ made < MaxConns
  /\ Goto(t, "create", "authenticate")
  /\ made' = made + 1 /\ alive' = alive \cup {made + 1}
  /\ connection' = made + 1
  /\ at' = [at EXCEPT ![t] = made + 1]
  /\ UNCHANGED <<tuic, authenticated, admitted, lock, udp>>

Create(t) ==
  /\ made < MaxConns
  /\ Goto(t, "create", "authenticate")
  /\ made' = made + 1 /\ alive' = alive \cup {made + 1}
  /\ connection' = made + 1 /\ authenticated' = FALSE
  /\ at' = [at EXCEPT ![t] = made + 1]
  /\ UNCHANGED <<tuic, admitted, lock, udp>>

\* The flag is set and the mutex released.
Admit(t) ==
  /\ Goto(t, "authenticate", "open") /\ lock' = None
  /\ at[t] \in alive
  /\ authenticated' = TRUE
  /\ admitted' = admitted \cup {at[t]}
  /\ UNCHANGED <<tuic, connection, made, alive, at, udp>>

\* TUIC has sent its frame and does not wait for a verdict ...
AuthenticationSent(t) == tuic /\ Admit(t)

\* ... Hysteria2 has read the server's consent.
AuthenticationConfirmed(t) == ~tuic /\ Admit(t)

\* Connecting or authenticating fails, or the dispatcher gives the call up: the mutex
\* is released and the manager stays as it is.
GiveUp(t) ==
  /\ pc[t] \in {"create", "authenticate"}
  /\ lock' = None
  /\ pc' = [pc EXCEPT ![t] = "idle"]
  /\ at' = [at EXCEPT ![t] = 0]
  /\ UNCHANGED <<tuic, manager, alive, udp>>

-----------------------------------------------------------------------------
(* Using it.                                                               *)

\* connect: a stream is opened and the request written.
OpenStream(t) ==
  /\ at[t] \in alive
  /\ Goto(t, "open", "stream")
  /\ UNCHANGED <<tuic, manager, alive, lock, at, udp>>

\* connect_udp: the session takes the next number.
OpenUdp(t) ==
  /\ drawn < MaxIds /\ drawn' = drawn + 1
  /\ Goto(t, "open", "udp")
  /\ nth' = [nth EXCEPT ![t] = drawn + 1]
  /\ UNCHANGED <<tuic, manager, alive, lock, at, inbox, misread>>

\* The stream or the session ends, or could not be opened; answers on the way remain.
End(t) ==
  /\ pc[t] \in {"open", "stream", "udp"}
  /\ pc' = [pc EXCEPT ![t] = "idle"]
  /\ at' = [at EXCEPT ![t] = 0]
  /\ nth' = [nth EXCEPT ![t] = 0]
  /\ UNCHANGED <<tuic, manager, alive, lock, drawn, inbox, misread>>

\* The number that the datagrams of the session with the n-th draw carry.
Number(n) == IF tuic THEN n % ShortIds ELSE n % LongIds

\* The server answers a session that has sent something; the answer may come too late.
Reply(t) ==
  /\ pc[t] = "udp" /\ at[t] \in alive
  /\ inbox' = [inbox EXCEPT ![at[t]] = @ \cup {nth[t]}]
  /\ UNCHANGED <<tuic, manager, alive, lock, pc, at, drawn, nth, misread>>

\* Slip: recv takes whatever comes.
RecvUnfiltered(t) ==
  /\ pc[t] = "udp"
  /\ \E n \in inbox[at[t]] :
       /\ inbox' = [inbox EXCEPT ![at[t]] = @ \ {n}]
       /\ misread' = (misread \/ n # nth[t])
  /\ UNCHANGED <<tuic, manager, alive, lock, pc, at, drawn, nth>>

\* recv takes the next datagram of the connection and looks at its number.
Recv(t) ==
  /\ pc[t] = "udp"
  /\ \E n \in inbox[at[t]] :
       /\ inbox' = [inbox EXCEPT ![at[t]] = @ \ {n}]
       /\ misread' = (misread \/ (n # nth[t] /\ Number(n) = Number(nth[t])))
  /\ UNCHANGED <<tuic, manager, alive, lock, pc, at, drawn, nth>>

\* The connection is closed: idle, by the server, or by the network.
Close(c) ==
  /\ c \in alive
  /\ alive' = alive \ {c}
  /\ inbox' = [inbox EXCEPT ![c] = {}]
  /\ UNCHANGED <<tuic, manager, lock, pc, at, drawn, nth, misread>>

Next ==
  \/ \E t \in Callers :
       \/ Reuse(t) \/ NoReuse(t) \/ Create(t) \/ GiveUp(t)
       \/ AuthenticationSent(t) \/ AuthenticationConfirmed(t)
       \/ OpenStream(t) \/ OpenUdp(t) \/ End(t) \/ Reply(t) \/ Recv(t)
  \/ \E c \in Conns : Close(c)

Spec == Init /\ [][Next]_vars

-----------------------------------------------------------------------------
(* Properties.                                                             *)

(* Nothing is opened on a connection that was not authenticated, whoever   *)
(* of those that share it was to do that and was cut short or failed, and  *)
(* whatever the connection before it was.                                  *)
AuthenticatedBeforeUse ==
  \A t \in Callers : pc[t] \in {"open", "stream", "udp"} => at[t] \in admitted

(* A UDP session takes no answer to another one for its own, unless the    *)
(* numbers of its protocol have been used up and start again.              *)
AnswersToOwner ==
  misread => drawn > (IF tuic THEN ShortIds ELSE LongIds)
=============================================================================

------------------------------- MODULE Lease -------------------------------
(***************************************************************************)
(* What a server promises about sessions, and all that a client may rely   *)
(* on: a V1_SESSION_START gives its sender a session, if the sender has    *)
(* one or there is room; until the lifetime has passed since the latest    *)
(* start it is not taken away; after that it may be, at any tick.          *)
(* SessionLife is shown to implement this.                                 *)
(***************************************************************************)
EXTENDS Integers, FiniteSets

CONSTANTS Client, MAX_SESSIONS, Lifetime

VARIABLE lease         \* per client: the age of its session, in ticks

None == -1             \* no session
Holders(l) == {c \in Client : l[c] # None}
CanStart(l, c) == l[c] # None \/ Cardinality(Holders(l)) < MAX_SESSIONS
Started(l, c) == [l EXCEPT ![c] = 0]

\* Ages beyond the lifetime are all alike.
Expired(l) == {c \in Client : l[c] > Lifetime}
Aged(l, dropped) ==
  [c \in Client |-> IF l[c] = None \/ c \in dropped THEN None
                    ELSE IF c \in Expired(l) THEN l[c] ELSE l[c] + 1]

Init == lease = [c \in Client |-> None]
Start(c) == CanStart(lease, c) /\ lease' = Started(lease, c)
Tick == \E dropped \in SUBSET Expired(lease) : lease' = Aged(lease, dropped)
Next == Tick \/ \E c \in Client : Start(c)
Spec == Init /\ [][Next]_lease

=============================================================================

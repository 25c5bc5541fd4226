--------------------------- MODULE LoginSessions ---------------------------
(***************************************************************************)
(* What refresh tokens promise a client and an operator, with no table, no *)
(* clock and no request: a session is continued with one token at a time,  *)
(* a token that cannot be exchanged any more never can be again, and no    *)
(* token of a session that was declared over can.                          *)
(*                                                                         *)
(* RefreshRotation implements this while requests of a session do not      *)
(* overlap.                                                                *)
(***************************************************************************)
CONSTANT Token

VARIABLES
    live,   \* per session, named by its first token: the tokens it goes on with
    dead,   \* the tokens that can no longer be exchanged
    over    \* the sessions that a logout or a replay has ended

vars == <<live, dead, over>>

Init ==
    /\ live = [s \in Token |-> {}]
    /\ dead = {}
    /\ over = {}

\* A client gets a token to go on with: at login the first one of its session,
\* later the successor of the one it has spent.
Hand(s, t) ==
    /\ s \notin over
    /\ live[s] = {}
    /\ t \notin dead
    /\ \A q \in Token : t \notin live[q]
    /\ live' = [live EXCEPT ![s] = {t}]
    /\ UNCHANGED <<dead, over>>

\* Tokens are spent, revoked, or reach their expiry.
Kill(T) ==
    /\ dead' = dead \cup T
    /\ live' = [s \in Token |-> live[s] \ T]

Lose(T) == Kill(T) /\ UNCHANGED over

\* A logout has answered, or a replay was found: nothing of the session is left.
End(s, T) ==
    /\ Kill(T)
    /\ live'[s] = {}
    /\ over' = over \cup {s}

Next ==
    \/ \E s, t \in Token : Hand(s, t)
    \/ \E T \in SUBSET Token : Lose(T) \/ \E s \in Token : End(s, T)

Spec == Init /\ [][Next]_vars
=============================================================================

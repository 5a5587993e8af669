-------------------------- MODULE ExclusiveLease --------------------------
(***************************************************************************)
(* What the connection manager promises to the code that leases            *)
(* connections from it: a connection has at most one holder, it is open    *)
(* when it is handed out, and nothing disconnects it until its holder gives *)
(* it up, even though connections nobody holds come and go freely.          *)
(***************************************************************************)
CONSTANTS Holders, Conns, None

VARIABLES
    held,    \* the connection each holder has, or None
    open,    \* connections that are connected
    closed   \* connections disconnected by the last step

vars == <<held, open, closed>>

Init ==
    /\ held = [h \in Holders |-> None]
    /\ open = {}
    /\ closed = {}

(* Connections may be opened and closed at any time, except that those still
   held after the step are neither closed nor replaced. *)
Undisturbed ==
    /\ open' \subseteq Conns
    /\ closed' \subseteq Conns
    /\ \A h \in Holders : held[h] # None /\ held'[h] # None =>
        held[h] \in open' \ closed'

(* A connection that nobody holds is handed out, open. *)
Take(h, c) ==
    /\ held[h] = None
    /\ \A g \in Holders : held[g] # c
    /\ held' = [held EXCEPT ![h] = c]
    /\ c \in open'
    /\ Undisturbed

(* Some holders, one or at the end of a transaction all, give up theirs. *)
GiveUp(S) ==
    /\ held' = [h \in Holders |-> IF h \in S THEN None ELSE held[h]]
    /\ Undisturbed

Next ==
    \/ \E h \in Holders, c \in Conns : Take(h, c)
    \/ \E S \in SUBSET Holders : GiveUp(S)

Spec == Init /\ [][Next]_vars
=============================================================================

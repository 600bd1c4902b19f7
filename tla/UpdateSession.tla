--------------------------- MODULE UpdateSession ----------------------------
(***************************************************************************)
(* What an Update promises vCenter: it logs in at most once, its session   *)
(* is opened and closed by nobody but itself while it runs, and when it    *)
(* returns the session is closed, unless a reply about it was lost.        *)
(* VcCollector implements this when Updates of one object do not overlap.  *)
(***************************************************************************)
CONSTANT Update

VARIABLES
    phase,        \* phase[u]: "new", "active" or "done"
    session,      \* session[u]: "none", "open" or "closed"
    lost          \* lost[u]: a reply about the session was lost

vars == <<phase, session, lost>>

Init ==
    /\ phase   = [u \in Update |-> "new"]
    /\ session = [u \in Update |-> "none"]
    /\ lost    = [u \in Update |-> FALSE]

Start(u) ==
    /\ phase[u] = "new"
    /\ phase' = [phase EXCEPT ![u] = "active"]
    /\ UNCHANGED <<session, lost>>

(* The login, whose reply may get lost.  *)
Open(u) ==
    /\ phase[u] = "active" /\ session[u] = "none"
    /\ session' = [session EXCEPT ![u] = "open"]
    /\ \E l \in {lost[u], TRUE} : lost' = [lost EXCEPT ![u] = l]
    /\ UNCHANGED phase

(* A reply to a later request gets lost.  *)
Lose(u) ==
    /\ phase[u] = "active"
    /\ lost' = [lost EXCEPT ![u] = TRUE]
    /\ UNCHANGED <<phase, session>>

(* The return, with the logout if there is a session to close.  *)
End(u) ==
    /\ phase[u] = "active"
    /\ phase' = [phase EXCEPT ![u] = "done"]
    /\ \/ /\ session[u] = "open"
          /\ session' = [session EXCEPT ![u] = "closed"]
          /\ UNCHANGED lost
       \/ /\ session[u] # "open" \/ lost[u]
          /\ UNCHANGED <<session, lost>>
       \/ /\ lost' = [lost EXCEPT ![u] = TRUE]
          /\ UNCHANGED session

Next == \E u \in Update : Start(u) \/ Open(u) \/ Lose(u) \/ End(u)

Spec == Init /\ [][Next]_vars
=============================================================================

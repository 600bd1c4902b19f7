--------------------------- MODULE ScrapeService ----------------------------
(***************************************************************************)
(* What the metrics path promises a client.  Every request is answered:    *)
(* with 400 if it filters by a collector that is unknown or off; with 503  *)
(* only if it does not filter and MaxRequests others like it are being     *)
(* answered; otherwise with 200 and, for each collector asked for, one     *)
(* success value.  ScrapeHandler implements this.                          *)
(***************************************************************************)
EXTENDS Naturals, FiniteSets

CONSTANTS Request, Enabled, Filter, MaxRequests, Nothing

VARIABLES
    asked,        \* asked[r]: the filters of the open request, or Nothing
    answer        \* answer[r]: status and success values, or Nothing

vars == <<asked, answer>>

Init ==
    /\ asked  = [r \in Request |-> Nothing]
    /\ answer = [r \in Request |-> Nothing]

Pending(r) == asked[r] # Nothing /\ answer[r] = Nothing

(* One success value for each collector.  *)
Reports(collectors) ==
    {{[collector |-> c, value |-> value[c]] : c \in collectors} :
        value \in [collectors -> {0, 1}]}

Ask(r, f) ==
    /\ asked[r] = Nothing
    /\ f \subseteq Enabled
    /\ asked' = [asked EXCEPT ![r] = f]
    /\ UNCHANGED answer

AskWrong(r, f) ==
    /\ asked[r] = Nothing
    /\ ~ f \subseteq Enabled
    /\ asked'  = [asked EXCEPT ![r] = f]
    /\ answer' = [answer EXCEPT ![r] = [code |-> 400, report |-> {}]]

Others(r) == {s \in Request \ {r} : Pending(s) /\ asked[s] = {}}

Busy(r) ==
    /\ Pending(r) /\ asked[r] = {}
    /\ MaxRequests > 0 /\ Cardinality(Others(r)) >= MaxRequests
    /\ answer' = [answer EXCEPT ![r] = [code |-> 503, report |-> {}]]
    /\ UNCHANGED asked

Report(r) ==
    /\ Pending(r)
    /\ \E report \in Reports(IF asked[r] = {} THEN Enabled ELSE asked[r]) :
          answer' = [answer EXCEPT ![r] = [code |-> 200, report |-> report]]
    /\ UNCHANGED asked

Forget(r) ==
    /\ answer[r] # Nothing
    /\ asked'  = [asked EXCEPT ![r] = Nothing]
    /\ answer' = [answer EXCEPT ![r] = Nothing]

Next ==
    \E r \in Request :
        \/ \E f \in SUBSET Filter : Ask(r, f) \/ AskWrong(r, f)
        \/ Busy(r) \/ Report(r) \/ Forget(r)

Safety == Init /\ [][Next]_vars

Spec == Safety /\ \A r \in Request : WF_vars(Busy(r) \/ Report(r))
=============================================================================

--------------------------- MODULE VcUpdateProofs ---------------------------
(***************************************************************************)
(* Proofs about VcCollector for any number of Updates that overlap as they *)
(* like: what can end the process, which views are left behind, how an     *)
(* Update uses the cache, and what it reports for its items; and for       *)
(* Updates of one object that do not overlap, that what they report is     *)
(* exact.                                                                  *)
(***************************************************************************)
EXTENDS VcCollectorProofs

USE DEF world, server, locals, At

-----------------------------------------------------------------------------
(***************************************************************************)
(* What can end the process.  The field of an object holds nil only before *)
(* its first login or after one that failed; an Update that is past its    *)
(* own login has stored a client, and without faults nobody stores nil     *)
(* over it.  What is left are the panics of one Update alone.              *)
(***************************************************************************)
NeverNil ==
    ~ faults =>
        /\ alive \/ DataPanic
        /\ \A u \in Update :
              /\ fate[u] # "panic"
              /\ pc[u] = "assign" => held[u] # NoClient
              /\ pc[u] \in Inside => client[Of[u]] # NoClient

NilInv == Kinds /\ NeverNil

(* Inside Update no step stores to the field or ends the process.  *)
LEMMA InsideKinds ==
    ASSUME Kinds, NEW u \in Update, InsideEffect(u)
    PROVE  Kinds'
<1>1. client[Of[u]] \in Client
  BY CollectorAssumption DEF Kinds
<1>2. PICK p \in Inside : pc' = [pc EXCEPT ![u] = p]
  BY DEF InsideEffect
<1>3. p \in Places
  BY DEF Places
<1>4. pc' \in [Update -> Places]
  BY <1>2, <1>3 DEF Kinds
<1>5. held' \in [Update -> Client]
  BY <1>1 DEF InsideEffect, Kinds, Read
<1>6. fate' \in [Update -> {"ok", "failed", "panic", "odd"}] /\ lost' \in [Update -> BOOLEAN]
  <2>1. PICK f \in {fate[u], "failed", "odd"} : fate' = [fate EXCEPT ![u] = f]
    BY DEF InsideEffect
  <2> QED
    BY <2>1 DEF InsideEffect, Kinds
<1> QED
  BY <1>4, <1>5, <1>6 DEF InsideEffect, Kinds

(***************************************************************************)
(* The other steps, by what they do to the variables of Kinds.             *)
(***************************************************************************)
EdgeEffect(u) ==
    /\ alive
    /\ \/ /\ pc[u] = "new"
          /\ pc' = [pc EXCEPT ![u] = "connect"]
          /\ UNCHANGED <<fate, client, held, session, lost, alive, faults>>
       \/ /\ pc[u] = "connect"
          /\ pc' = [pc EXCEPT ![u] = "done"]
          /\ fate' = [fate EXCEPT ![u] = "failed"]
          /\ UNCHANGED <<client, held, session, lost, alive, faults>>
       \/ /\ pc[u] = "connect" /\ url' = "empty"
          /\ alive' = FALSE
          /\ UNCHANGED <<pc, fate, client, held, session, lost, faults>>
       \/ /\ pc[u] = "connect"
          /\ pc' = [pc EXCEPT ![u] = "assign"]
          /\ \/ held' = [held EXCEPT ![u] = u]
             \/ faults /\ held' = [held EXCEPT ![u] = NoClient]
          /\ session' = session \/ session' = [session EXCEPT ![u] = "open"]
          /\ lost' = lost \/ lost' = [lost EXCEPT ![u] = TRUE]
          /\ UNCHANGED <<fate, client, alive, faults>>
       \/ /\ pc[u] = "assign"
          /\ client' = [client EXCEPT ![Of[u]] = held[u]]
          /\ \/ held[u] # NoClient /\ pc' = [pc EXCEPT ![u] = "manager"] /\ fate' = fate
             \/ /\ held[u] = NoClient
                /\ pc' = [pc EXCEPT ![u] = "done"]
                /\ fate' = [fate EXCEPT ![u] = "failed"]
          /\ UNCHANGED <<held, session, lost, alive, faults>>
       \/ /\ pc[u] \in Inside /\ client[Of[u]] = NoClient
          /\ pc' = [pc EXCEPT ![u] = "logout"]
          /\ fate' = fate \/ fate' = [fate EXCEPT ![u] = "panic"]
          /\ alive' \in {alive, FALSE}
          /\ UNCHANGED <<client, held, session, lost, faults>>
       \/ /\ pc[u] = "logoutrpc"
          /\ pc' = [pc EXCEPT ![u] = "done"]
          /\ alive' = (fate[u] \notin {"panic", "odd"})
          /\ session' = session \/ session' = [session EXCEPT ![held[u]] = "closed"]
          /\ lost' = lost \/ lost' = [lost EXCEPT ![held[u]] = TRUE]
          /\ UNCHANGED <<fate, client, held, faults>>

EdgeActionsOf(u) ==
    \/ Begin(u) \/ BadURL(u) \/ NilURL(u) \/ Login(u) \/ LoginFail(u) \/ Assign(u)
    \/ ReadNil(u) \/ LogoutNil(u) \/ LogoutAnswer(u)

(* These are the operations at the ends of an Update and those that read a *)
(* nil client.                                                             *)
LEMMA EdgeActionsEffect ==
    ASSUME Kinds, NEW u \in Update, EdgeActionsOf(u)
    PROVE  EdgeEffect(u)
<1> USE DEF Go
<1>a. lost \in [Update -> BOOLEAN] /\ pc \in [Update -> Places] /\ faults \in BOOLEAN
  BY DEF Kinds
<1>1. CASE Begin(u)
  BY <1>1 DEF Begin, EdgeEffect
<1>2. CASE BadURL(u)
  BY <1>2 DEF BadURL, EdgeEffect
<1>3. CASE Login(u)
  BY <1>3 DEF Login, EdgeEffect
<1>4. CASE LoginFail(u)
  BY <1>4 DEF LoginFail, EdgeEffect
<1>5. CASE Assign(u)
  BY <1>5 DEF Assign, EdgeEffect
<1>6. CASE ReadNil(u)
  BY <1>6 DEF ReadNil, Read, Inside, EdgeEffect
<1>7. CASE LogoutNil(u)
  <2>1. pc[u] = "logout" /\ pc' = pc /\ pc[u] \in Inside
    BY <1>7 DEF LogoutNil, Inside
  <2>2. pc' = [pc EXCEPT ![u] = "logout"]
    BY <1>a, <2>1
  <2> QED
    BY <1>7, <2>1, <2>2 DEF LogoutNil, Read, EdgeEffect
<1>8. CASE LogoutAnswer(u)
  <2>1. /\ pc[u] = "logoutrpc" /\ pc' = [pc EXCEPT ![u] = "done"]
        /\ alive /\ alive' = (fate[u] \notin {"panic", "odd"})
        /\ UNCHANGED <<fate, client, held, faults>>
    BY <1>8 DEF LogoutAnswer
  <2>2. session' = session \/ session' = [session EXCEPT ![held[u]] = "closed"]
    BY <1>8 DEF LogoutAnswer, Close
  <2>3. lost' = lost \/ lost' = [lost EXCEPT ![held[u]] = @ \/ faults]
    BY <1>8 DEF LogoutAnswer
  <2>4. lost' = lost \/ lost' = [lost EXCEPT ![held[u]] = TRUE]
    <3>1. CASE faults = TRUE
      BY <2>3, <3>1
    <3>2. CASE faults = FALSE
      BY <2>3, <3>2, <1>a
    <3> QED
      BY <1>a, <3>1, <3>2
  <2> QED
    BY <2>1, <2>2, <2>4 DEF EdgeEffect
<1>9. CASE NilURL(u)
  BY <1>9 DEF NilURL, EdgeEffect
<1> QED
  BY <1>1, <1>2, <1>3, <1>4, <1>5, <1>6, <1>7, <1>8, <1>9 DEF EdgeActionsOf

(* They keep the types.  *)
LEMMA EdgeKinds ==
    ASSUME Kinds, NEW u \in Update, EdgeEffect(u)
    PROVE  Kinds'
<1>1. u \in Client /\ NoClient \in Client /\ Of[u] \in Collector /\ held[u] \in Client
  BY CollectorAssumption DEF Client, Kinds
<1>2. {"new", "connect", "assign", "manager", "logout", "done"} \subseteq Places
  BY DEF Places, Inside
<1>3. pc' \in [Update -> Places]
  BY <1>2 DEF EdgeEffect, Kinds
<1>4. fate' \in [Update -> {"ok", "failed", "panic", "odd"}]
  BY DEF EdgeEffect, Kinds
<1>5. client' \in [Collector -> Client]
  BY <1>1 DEF EdgeEffect, Kinds
<1>6. held' \in [Update -> Client]
  BY <1>1 DEF EdgeEffect, Kinds
<1>7. session' \in [Update -> {"none", "open", "closed"}] /\ lost' \in [Update -> BOOLEAN]
  BY DEF EdgeEffect, Kinds
<1>8. faults' \in BOOLEAN
  BY DEF EdgeEffect, Kinds
<1> QED
  BY <1>3, <1>4, <1>5, <1>6, <1>7, <1>8 DEF Kinds

(* Every step of an Update is one or the other.  *)
LEMMA StepEffect ==
    ASSUME Kinds, NEW u \in Update, Begin(u) \/ Step(u)
    PROVE  InsideEffect(u) \/ EdgeEffect(u)
BY EdgeActionsEffect, InsideActionsEffect DEF EdgeActionsOf, InsideActions, Step

LEMMA NilInit == Init => NilInv
BY SerialInit DEF SerialInv, NilInv, NeverNil, Init, Inside

(* A failed login, the only one that stores nil, needs faults.  *)
LEMMA NilStep == NilInv /\ [Next]_vars => NilInv'
<1> SUFFICES ASSUME NilInv, [Next]_vars PROVE NilInv'
  OBVIOUS
<1>0. Kinds
  BY DEF NilInv
<1>1. ASSUME NEW u \in Update, InsideEffect(u) PROVE NilInv'
  <2>1. Kinds'
    BY <1>0, <1>1, InsideKinds
  <2>2. pc[u] \in Inside /\ alive /\ UNCHANGED <<client, alive, faults>>
    BY <1>1 DEF InsideEffect
  <2>3. PICK p \in Inside : pc' = [pc EXCEPT ![u] = p]
    BY <1>1 DEF InsideEffect
  <2>4. /\ \A v \in Update \ {u} : pc'[v] = pc[v] /\ held'[v] = held[v]
        /\ pc'[u] = p /\ p # "assign"
    BY <1>0, <1>1, <2>3 DEF InsideEffect, Kinds, Inside
  <2>5. \A v \in Update : fate'[v] = "panic" => fate[v] = "panic"
    <3>1. PICK f \in {fate[u], "failed", "odd"} : fate' = [fate EXCEPT ![u] = f]
      BY <1>1 DEF InsideEffect
    <3> QED
      BY <1>0, <3>1 DEF Kinds
  <2> QED
    BY <2>1, <2>2, <2>4, <2>5 DEF NilInv, NeverNil
<1>2. ASSUME NEW u \in Update, EdgeEffect(u) PROVE NilInv'
  <2>1. Kinds'
    BY <1>0, <1>2, EdgeKinds
  <2>8. faults' = faults
    BY <1>2 DEF EdgeEffect
  <2>2. SUFFICES ASSUME ~ faults PROVE NeverNil'
    BY <2>1, <2>8 DEF NilInv, NeverNil
  <2>3. \A v \in Update :
              /\ fate[v] # "panic"
              /\ pc[v] = "assign" => held[v] # NoClient
              /\ pc[v] \in Inside => client[Of[v]] # NoClient
    BY <2>2 DEF NilInv, NeverNil
  <2>4. alive' \/ DataPanic'
    <3>1. CASE pc[u] = "logoutrpc" /\ pc' = [pc EXCEPT ![u] = "done"] /\ fate' = fate
               /\ alive' = (fate[u] \notin {"panic", "odd"})
      BY <1>0, <2>3, <3>1 DEF DataPanic, Kinds
    <3>2. CASE url' = "empty"
      BY <3>2 DEF DataPanic
    <3> QED
      BY <1>2, <2>3, <3>1, <3>2 DEF EdgeEffect
  <2>5. ASSUME NEW v \in Update PROVE fate'[v] # "panic"
    BY <1>0, <1>2, <2>3 DEF EdgeEffect, Kinds
  <2>a. \A v \in Update \ {u} : pc'[v] = pc[v] /\ held'[v] = held[v]
    BY <1>0, <1>2 DEF EdgeEffect, Kinds
  <2>b. pc'[u] = "assign" => held'[u] # NoClient
    <3>1. SUFFICES ASSUME pc'[u] = "assign" PROVE held'[u] # NoClient
      OBVIOUS
    <3>2. held' = [held EXCEPT ![u] = u]
      BY <1>0, <1>2, <2>2, <3>1 DEF EdgeEffect, Kinds
    <3> QED
      BY <1>0, <3>2, CollectorAssumption DEF Kinds
  <2>6. ASSUME NEW v \in Update, pc'[v] = "assign" PROVE held'[v] # NoClient
    BY <2>3, <2>6, <2>a, <2>b
  <2>7. ASSUME NEW v \in Update, pc'[v] \in Inside PROVE client'[Of[v]] # NoClient
    <3>a. \/ client' = client
          \/ pc[u] = "assign" /\ client' = [client EXCEPT ![Of[u]] = held[u]]
      BY <1>2 DEF EdgeEffect
    <3>b. client \in [Collector -> Client]
      BY <1>0 DEF Kinds
    <3>1. \A c \in Collector :
            \/ client'[c] = client[c] \/ client'[c] # NoClient
            \/ pc[u] = "assign" /\ held[u] = NoClient
      BY <3>a, <3>b
    <3>2. \A c \in Collector : client'[c] = client[c] \/ client'[c] # NoClient
      BY <2>3, <3>1
    <3>3. CASE pc[v] \in Inside
      BY <2>3, <3>2, <3>3, CollectorAssumption
    <3>4. CASE pc[v] \notin Inside
      <4>1. v = u /\ pc[u] = "assign" /\ held[u] # NoClient
            /\ client' = [client EXCEPT ![Of[u]] = held[u]]
        BY <1>0, <1>2, <2>3, <2>7, <3>4 DEF EdgeEffect, Kinds, Inside
      <4> QED
        BY <1>0, <4>1, CollectorAssumption DEF Kinds
    <3> QED
      BY <3>3, <3>4
  <2> QED
    BY <2>4, <2>5, <2>6, <2>7 DEF NeverNil
<1>3. CASE UNCHANGED vars
  BY <1>0, <1>3 DEF vars, NilInv, NeverNil, DataPanic, Kinds
<1> QED
  BY <1>0, <1>1, <1>2, <1>3, StepEffect DEF Next, Stopped

(* However Updates of one object overlap, the process ends only if some    *)
(* request failed or one of them alone would have ended it.                *)
THEOREM CrashesNeedFaults == Spec => []CrashNeedsFault
<1>1. NilInv => CrashNeedsFault
  BY DEF NilInv, NeverNil, CrashNeedsFault
<1> QED
  BY NilInit, NilStep, <1>1, PTL DEF Spec

-----------------------------------------------------------------------------
(***************************************************************************)
(* Which views are left behind.  A view lives in an open session.  From    *)
(* CreateContainerView to destroyView it belongs to the session u still    *)
(* holds in a local, whatever becomes of c.client; any other view is one   *)
(* about which a reply was lost.                                           *)
(***************************************************************************)
ViewHeld(u) ==
    view[u] # NoClient =>
        /\ session[view[u]] = "open"
        /\ IF pc[u] \in {"retrieve", "destroy"} THEN view[u] = held[u] ELSE lost[u]

ViewInv ==
    /\ Kinds
    /\ view \in [Update -> Client]
    /\ \A u \in Update : ViewHeld(u)

(* The steps of u that leave all views alone.  *)
ViewsAlone(u) ==
    /\ view' = view
    /\ pc[u] \notin {"retrieve", "destroy"} /\ pc'[u] \notin {"retrieve", "destroy"}
    /\ session' = session \/ session' = [session EXCEPT ![u] = "open"]
    /\ lost' = lost \/ lost' = [lost EXCEPT ![u] = TRUE]
    /\ \A v \in Update \ {u} : pc'[v] = pc[v] /\ held'[v] = held[v]

(* All but the four that create, use or destroy a view or end a session.  *)
LEMMA AloneActions ==
    ASSUME Kinds, NEW u \in Update,
           \/ Begin(u) \/ BadURL(u) \/ NilURL(u) \/ Login(u) \/ LoginFail(u) \/ Assign(u)
           \/ ReadNil(u) \/ Manager(u) \/ Root(u) \/ Pool(u) \/ PoolAnswer(u)
           \/ LookupParents(u) \/ Lookup(u) \/ Walk(u) \/ Labels(u) \/ Host(u)
           \/ HostAnswer(u) \/ OddItem(u) \/ LogoutNil(u) \/ Logout(u)
    PROVE  ViewsAlone(u)
<1> USE DEF Go, Use
<1>a. pc \in [Update -> Places] /\ held \in [Update -> Client]
  BY DEF Kinds
<1>b. \A p : pc' = [pc EXCEPT ![u] = p] =>
        pc'[u] = p /\ \A v \in Update \ {u} : pc'[v] = pc[v]
  BY <1>a
<1>c. \A c : held' = held \/ held' = [held EXCEPT ![u] = c] =>
        \A v \in Update \ {u} : held'[v] = held[v]
  BY <1>a
<1>1. CASE Begin(u)
  BY <1>1, <1>b DEF Begin, ViewsAlone
<1>2. CASE BadURL(u)
  BY <1>2, <1>b DEF BadURL, ViewsAlone
<1>3. CASE Login(u)
  BY <1>3, <1>b, <1>c DEF Login, ViewsAlone
<1>4. CASE LoginFail(u)
  BY <1>4, <1>b, <1>c DEF LoginFail, ViewsAlone
<1>5. CASE Assign(u)
  BY <1>5, <1>b DEF Assign, ViewsAlone
<1>6. CASE ReadNil(u)
  BY <1>6, <1>b DEF ReadNil, ViewsAlone
<1>7. CASE Manager(u)
  BY <1>7, <1>b, <1>c DEF Manager, ViewsAlone
<1>8. CASE Root(u)
  BY <1>8, <1>b DEF Root, ViewsAlone
<1>9. CASE Pool(u)
  BY <1>9, <1>b, <1>c DEF Pool, ViewsAlone
<1>10. CASE PoolAnswer(u)
  BY <1>10, <1>b DEF PoolAnswer, ViewsAlone
<1>11. CASE LookupParents(u)
  BY <1>11, <1>b, <1>c DEF LookupParents, ViewsAlone
<1>12. CASE Lookup(u)
  <2>1. \E p \in {"host", "labels", "walk"} : pc' = [pc EXCEPT ![u] = p]
    BY <1>12, ReturnedGoes DEF Lookup
  <2>2. pc[u] = "lookup" /\ UNCHANGED <<session, view, lost, held>>
    BY <1>12 DEF Lookup
  <2> QED
    BY <2>1, <2>2, <1>b DEF ViewsAlone
<1>13. CASE Walk(u)
  <2>1. \E p \in {"host", "labels", "walk"} : pc' = [pc EXCEPT ![u] = p]
    BY <1>13, <1>a, ReturnedGoes DEF Walk
  <2>2. pc[u] = "walk" /\ UNCHANGED <<session, view, lost, held>>
    BY <1>13 DEF Walk
  <2> QED
    BY <2>1, <2>2, <1>b DEF ViewsAlone
<1>14. CASE Host(u)
  BY <1>14, <1>b, <1>c DEF Host, ViewsAlone
<1>15. CASE HostAnswer(u)
  <2>1. \E p \in {"pool", "parents", "logout"} : pc' = [pc EXCEPT ![u] = p]
    BY <1>15, NextItemGoes DEF HostAnswer
  <2>2. pc[u] = "hostrpc" /\ UNCHANGED <<session, view, lost, held>>
    BY <1>15 DEF HostAnswer
  <2> QED
    BY <2>1, <2>2, <1>b DEF ViewsAlone
<1>16. CASE LogoutNil(u)
  BY <1>16 DEF LogoutNil, ViewsAlone
<1>17. CASE Logout(u)
  BY <1>17, <1>b, <1>c DEF Logout, ViewsAlone
<1>18. CASE Labels(u)
  <2>1. \E p \in {"pool", "parents", "logout"} : pc' = [pc EXCEPT ![u] = p]
    BY <1>18, NextItemGoes DEF Labels
  <2>2. pc[u] = "labels" /\ UNCHANGED <<session, view, lost, held>>
    BY <1>18 DEF Labels
  <2> QED
    BY <2>1, <2>2, <1>b DEF ViewsAlone
<1>19. CASE OddItem(u)
  BY <1>19, <1>b DEF OddItem, ViewsAlone
<1>20. CASE NilURL(u)
  BY <1>20 DEF NilURL, ViewsAlone
<1> QED
  BY <1>1, <1>2, <1>3, <1>4, <1>5, <1>6, <1>7, <1>8, <1>9, <1>10, <1>11, <1>12, <1>13,
     <1>14, <1>15, <1>16, <1>17, <1>18, <1>19, <1>20

LEMMA ViewInit == Init => ViewInv
BY SerialInit DEF SerialInv, ViewInv, ViewHeld, Init, Client

(* A view changes hands in CreateView, DestroyView and LogoutAnswer only;  *)
(* in each, a view that stays behind is one whose reply was lost.          *)
LEMMA ViewStep == ViewInv /\ [Next]_vars => ViewInv'
<1> SUFFICES ASSUME ViewInv, [Next]_vars PROVE ViewInv'
  OBVIOUS
<1>0. Kinds /\ view \in [Update -> Client] /\ \A u \in Update : ViewHeld(u)
  BY DEF ViewInv
<1>1. /\ pc \in [Update -> Places] /\ held \in [Update -> Client] /\ faults \in BOOLEAN
      /\ session \in [Update -> {"none", "open", "closed"}] /\ lost \in [Update -> BOOLEAN]
  BY <1>0 DEF Kinds
<1>2. \A u \in Update : u \in Client /\ u # NoClient
  BY CollectorAssumption DEF Client
<1>3. \A u \in Update : view[u] # NoClient => view[u] \in Update
  BY <1>0 DEF Client
<1>4. ASSUME NEW u \in Update, Begin(u) \/ Step(u) PROVE Kinds'
  BY <1>0, <1>4, StepEffect, InsideKinds, EdgeKinds
<1>5. ASSUME NEW u \in Update, Kinds', ViewsAlone(u) PROVE ViewInv'
  <2>1. \A v \in Update : session[v] = "open" => session'[v] = "open"
    BY <1>1, <1>5 DEF ViewsAlone
  <2>2. \A v \in Update : lost[v] => lost'[v]
    BY <1>1, <1>5 DEF ViewsAlone
  <2>3. ASSUME NEW v \in Update PROVE ViewHeld(v)'
    <3>1. view'[v] = view[v]
      BY <1>5 DEF ViewsAlone
    <3>2. CASE v = u
      BY <1>0, <1>3, <1>5, <2>1, <2>2, <3>1, <3>2 DEF ViewHeld, ViewsAlone
    <3>3. CASE v # u
      BY <1>0, <1>3, <1>5, <2>1, <2>2, <3>1, <3>3 DEF ViewHeld, ViewsAlone
    <3> QED
      BY <3>2, <3>3
  <2>4. view' \in [Update -> Client]
    BY <1>0, <1>5 DEF ViewsAlone
  <2> QED
    BY <1>5, <2>3, <2>4 DEF ViewInv
<1>6. ASSUME NEW u \in Update, CreateView(u) PROVE ViewInv'
  <2>1. Kinds'
    BY <1>4, <1>6 DEF Step
  <2>2. pc[u] = "view" /\ UNCHANGED <<session, held>>
    BY <1>6 DEF CreateView
  <2>3. \A v \in Update \ {u} : pc'[v] = pc[v] /\ view'[v] = view[v] /\ lost'[v] = lost[v]
    BY <1>0, <1>1, <1>6 DEF CreateView, Go
  <2>4. \/ pc'[u] = "retrieve" /\ view'[u] = held[u] /\ session[held[u]] = "open"
        \/ pc'[u] = "logout" /\ view'[u] = view[u] /\ lost'[u] = lost[u]
        \/ pc'[u] = "logout" /\ view'[u] = held[u] /\ session[held[u]] = "open" /\ lost'[u]
    BY <1>0, <1>1, <1>6 DEF CreateView, Go, Answered
  <2>5. view' \in [Update -> Client]
    BY <1>0, <1>1, <1>6 DEF CreateView
  <2>6. ViewHeld(u)'
    BY <1>0, <2>2, <2>4 DEF ViewHeld
  <2>7. \A v \in Update \ {u} : ViewHeld(v)'
    BY <1>0, <2>2, <2>3 DEF ViewHeld
  <2> QED
    BY <2>1, <2>5, <2>6, <2>7 DEF ViewInv
<1>7. ASSUME NEW u \in Update, RetrieveItems(u) PROVE ViewInv'
  <2>1. Kinds'
    BY <1>4, <1>7 DEF Step
  <2>2. pc[u] = "retrieve" /\ UNCHANGED <<session, held, view, lost>>
    BY <1>7 DEF RetrieveItems
  <2>3. pc'[u] = "destroy" /\ \A v \in Update \ {u} : pc'[v] = pc[v]
    BY <1>1, <1>7 DEF RetrieveItems, Go
  <2> QED
    BY <1>0, <2>1, <2>2, <2>3 DEF ViewInv, ViewHeld
<1>8. ASSUME NEW u \in Update, DestroyView(u) PROVE ViewInv'
  <2>1. Kinds'
    BY <1>4, <1>8 DEF Step
  <2>2. pc[u] = "destroy" /\ UNCHANGED <<session, held>>
    BY <1>8 DEF DestroyView
  <2>3. \E p \in {"pool", "parents", "logout"} : pc' = [pc EXCEPT ![u] = p]
    BY <1>8, NextItemGoes DEF DestroyView, Go
  <2>4. \A v \in Update \ {u} : pc'[v] = pc[v] /\ view'[v] = view[v] /\ lost'[v] = lost[v]
    BY <1>0, <1>1, <1>8, <2>3 DEF DestroyView
  <2>5. \/ view'[u] = NoClient
        \/ /\ faults \/ session[held[u]] # "open"
           /\ view' = view /\ lost' = [lost EXCEPT ![u] = @ \/ faults]
    BY <1>0, <1>8 DEF DestroyView, Answered, Refused
  <2>6. view' \in [Update -> Client]
    BY <1>0, <1>8 DEF DestroyView, Client
  <2>7. ViewHeld(u)'
    <3>1. pc'[u] \notin {"retrieve", "destroy"}
      BY <1>1, <2>3
    <3>2. CASE view'[u] = NoClient
      BY <3>2 DEF ViewHeld
    <3>3. CASE view'[u] # NoClient
      <4>1. /\ faults \/ session[held[u]] # "open"
            /\ view' = view /\ lost' = [lost EXCEPT ![u] = @ \/ faults]
        BY <2>5, <3>3
      <4>2. view[u] = held[u] /\ session[view[u]] = "open"
        BY <1>0, <2>2, <3>3, <4>1 DEF ViewHeld
      <4>3. faults = TRUE
        BY <1>1, <4>1, <4>2
      <4>4. lost'[u]
        BY <1>1, <4>1, <4>3
      <4> QED
        BY <2>2, <3>1, <4>1, <4>2, <4>4 DEF ViewHeld
    <3> QED
      BY <3>2, <3>3
  <2>8. \A v \in Update \ {u} : ViewHeld(v)'
    BY <1>0, <2>2, <2>4 DEF ViewHeld
  <2> QED
    BY <2>1, <2>6, <2>7, <2>8 DEF ViewInv
<1>9. ASSUME NEW u \in Update, LogoutAnswer(u) PROVE ViewInv'
  <2>1. Kinds'
    BY <1>4, <1>9 DEF Step
  <2>2. pc[u] = "logoutrpc" /\ pc' = [pc EXCEPT ![u] = "done"] /\ held' = held
    BY <1>9 DEF LogoutAnswer, Go
  <2>3. \A v \in Update : /\ pc'[v] \in {"retrieve", "destroy"} <=> pc[v] \in {"retrieve", "destroy"}
    BY <1>1, <2>2
  <2>4. CASE Close(held[u]) /\ lost' = lost
    <3>1. \A v \in Update : view'[v] = IF view[v] = held[u] THEN NoClient ELSE view[v]
      BY <2>4 DEF Close
    <3>2. \A v \in Update : v # held[u] => session'[v] = session[v]
      BY <1>1, <2>4 DEF Close
    <3>3. view' \in [Update -> Client]
      BY <1>0, <2>4 DEF Close, Client
    <3>4. ASSUME NEW v \in Update PROVE ViewHeld(v)'
      BY <1>0, <1>3, <2>2, <2>3, <2>4, <3>1, <3>2 DEF ViewHeld
    <3> QED
      BY <2>1, <3>3, <3>4 DEF ViewInv
  <2>5. CASE UNCHANGED <<session, view>> /\ lost' = [lost EXCEPT ![held[u]] = @ \/ faults]
    <3>1. \A v \in Update : lost[v] => lost'[v]
      BY <1>1, <2>5
    <3>2. ASSUME NEW v \in Update PROVE ViewHeld(v)'
      BY <1>0, <2>2, <2>3, <2>5, <3>1 DEF ViewHeld
    <3> QED
      BY <1>0, <2>1, <2>5, <3>2 DEF ViewInv
  <2> QED
    BY <1>9, <2>4, <2>5 DEF LogoutAnswer
<1>10. CASE UNCHANGED vars
  BY <1>0, <1>10 DEF vars, ViewInv, ViewHeld, Kinds
<1>11. ASSUME NEW u \in Update, Begin(u) \/ Step(u) PROVE ViewInv'
  <2>1. Kinds'
    BY <1>4, <1>11
  <2> QED
    BY <1>0, <1>5, <1>6, <1>7, <1>8, <1>9, <1>11, <2>1, AloneActions DEF Step
<1> QED
  BY <1>10, <1>11 DEF Next, Stopped

(* An Update that has returned leaves no container view behind, however    *)
(* others replaced or closed the client of its object, unless a reply      *)
(* about the view or its session was lost.                                 *)
THEOREM ViewsLeftNeedLoss == Spec => []ViewsDestroyed
<1>1. ViewInv => ViewsDestroyed
  BY DEF ViewInv, ViewHeld, ViewsDestroyed
<1> QED
  BY ViewInit, ViewStep, <1>1, PTL DEF Spec

-----------------------------------------------------------------------------
(***************************************************************************)
(* The cache, as ParentsCacheProofs knows it.  Its definitions are those   *)
(* of Parents, instantiated once more.                                     *)
(***************************************************************************)
Proved == INSTANCE ParentsCacheProofs

(* VcCollector assumes of its constants what ParentsCache does.  *)
LEMMA CacheConstants ==
    /\ NoRef \notin Mor
    /\ Key \subseteq Mor
    /\ "NONE" \notin Name /\ "ERROR" \notin Name
    /\ MaxVersion \in Nat \ {0}
    /\ Proved!IsFiniteSet(Mor)
    /\ Inventory0 \in [Mor -> Proved!Entity]
    /\ Proved!Acyclic(Inventory0)
<1>1. Proved!IsFiniteSet(Mor)
  BY CacheAssumption DEF IsFiniteSet, Proved!IsFiniteSet
<1>2. Inventory0 \in [Mor -> Proved!Entity]
  BY CacheAssumption DEF Parents!Entity, Proved!Entity
<1>3. Proved!Cardinality(Mor) = Parents!Cardinality(Mor)
  BY DEF Parents!Cardinality, Proved!Cardinality
<1>4. Proved!Acyclic(Inventory0)
  BY <1>3, CacheAssumption DEF Proved!Acyclic, Parents!Acyclic, Proved!Up, Parents!Up
<1> QED
  BY CacheAssumption, <1>1, <1>2, <1>4

(* The operations of the cache, under either name.  *)
LEMMA SameCacheSteps ==
    ASSUME NEW u
    PROVE  /\ Parents!Flush(u)        <=> Proved!Flush(u)
           /\ Parents!LookupRoot(u)   <=> Proved!LookupRoot(u)
           /\ Parents!Retrieve(u)     <=> Proved!Retrieve(u)
           /\ Parents!RetrieveFail(u) <=> Proved!RetrieveFail(u)
           /\ Parents!Add(u)          <=> Proved!Add(u)
           /\ \A m : /\ Parents!LookupHit(u, m)  <=> Proved!LookupHit(u, m)
                     /\ Parents!LookupMiss(u, m) <=> Proved!LookupMiss(u, m)
<1> USE DEF Parents!Walking, Proved!Walking, Parents!Empty, Proved!Empty,
            Parents!Idle, Proved!Idle, Parents!NoParents, Proved!NoParents,
            Parents!ErrorParents, Proved!ErrorParents, Parents!ghosts, Proved!ghosts,
            Parents!inventory, Proved!inventory, Parents!version, Proved!version
<1>1. Parents!Flush(u) <=> Proved!Flush(u)
  BY DEF Parents!Flush, Proved!Flush
<1>2. Parents!LookupRoot(u) <=> Proved!LookupRoot(u)
  BY DEF Parents!LookupRoot, Proved!LookupRoot
<1>3. Parents!Retrieve(u) <=> Proved!Retrieve(u)
  BY DEF Parents!Retrieve, Proved!Retrieve, Parents!Note, Proved!Note,
         Parents!Last, Proved!Last
<1>4. Parents!RetrieveFail(u) <=> Proved!RetrieveFail(u)
  BY DEF Parents!RetrieveFail, Proved!RetrieveFail
<1>5. Parents!Add(u) <=> Proved!Add(u)
  BY DEF Parents!Add, Proved!Add
<1>6. ASSUME NEW m
      PROVE  /\ Parents!LookupHit(u, m)  <=> Proved!LookupHit(u, m)
             /\ Parents!LookupMiss(u, m) <=> Proved!LookupMiss(u, m)
  BY DEF Parents!LookupHit, Proved!LookupHit, Parents!LookupMiss, Proved!LookupMiss
<1> QED
  BY <1>1, <1>2, <1>3, <1>4, <1>5, <1>6

(* The cache begins empty, which is accurate.  *)
LEMMA CacheInit == Init => Proved!AccurateInv
<1>1. Parents!Init <=> Proved!Init
  BY DEF Parents!Init, Proved!Init, Parents!Empty, Proved!Empty,
         Parents!Idle, Proved!Idle, Parents!NoParents, Proved!NoParents
<1> QED
  BY <1>1, CacheConstants, Proved!AccurateInit DEF Init

-----------------------------------------------------------------------------
(***************************************************************************)
(* The steps of an Update, by what they do to the loop over its items.     *)
(***************************************************************************)
Early == {"new", "connect", "assign", "manager", "root", "view", "retrieve", "destroy"}
Loop  == {"pool", "poolrpc", "parents", "lookup", "walk", "labels", "host", "hostrpc"}
Late  == {"logout", "logoutrpc", "done"}

(* Outside the loop, or out of it after an error.  *)
Aside(u) ==
    /\ \E p \in Early \cup Late :
          /\ pc' = [pc EXCEPT ![u] = p]
          /\ p \in Early => pc[u] \in Early
          /\ p \in Late /\ fate'[u] = "ok" => pc[u] \in Late /\ fate[u] = "ok"
    /\ \A v \in Update \ {u} : fate'[v] = fate[v]
    /\ UNCHANGED <<cacheVars, item, pool, out>>

Opens(u) ==
    /\ pc[u] = "new"
    /\ Parents!Flush(u)
    /\ pc' = [pc EXCEPT ![u] = "connect"]
    /\ UNCHANGED <<fate, item, pool, out>>

(* Into the loop.  *)
Enters(u) ==
    /\ pc[u] = "destroy" /\ fate[u] = "ok"
    /\ NextItem(u, 1)
    /\ UNCHANGED <<fate, cacheVars, pool, out>>

(* A read of c.client between two requests of an item.  *)
Passes(u) ==
    /\ \/ pc[u] = "pool"    /\ pc' = [pc EXCEPT ![u] = "poolrpc"]
       \/ pc[u] = "parents" /\ pc' = [pc EXCEPT ![u] = "lookup"]
       \/ pc[u] = "host"    /\ pc' = [pc EXCEPT ![u] = "hostrpc"]
    /\ UNCHANGED <<fate, cacheVars, item, pool, out>>

(* Each operation is one of those, or answers a request of the loop, or    *)
(* makes the labels of an item.                                            *)
LEMMA LoopSteps ==
    ASSUME Kinds, NEW u \in Update, Begin(u) \/ Step(u)
    PROVE  \/ Aside(u) \/ Opens(u) \/ Enters(u) \/ Passes(u)
           \/ PoolAnswer(u) \/ Lookup(u) \/ Walk(u) \/ Labels(u) \/ HostAnswer(u)
<1> USE DEF Go, Early, Late
<1>a. pc \in [Update -> Places] /\ fate \in [Update -> {"ok", "failed", "panic", "odd"}]
  BY DEF Kinds
<1>1. CASE Begin(u)
  BY <1>1 DEF Begin, Opens
<1>2. CASE BadURL(u)
  BY <1>a, <1>2 DEF BadURL, Aside
<1>3. CASE Login(u)
  BY <1>a, <1>3 DEF Login, Aside
<1>4. CASE LoginFail(u)
  BY <1>a, <1>4 DEF LoginFail, Aside
<1>5. CASE Assign(u)
  <2>1. pc[u] = "assign" /\ UNCHANGED <<cacheVars, item, pool, out>>
    BY <1>5 DEF Assign
  <2>2. \/ pc' = [pc EXCEPT ![u] = "manager"] /\ fate' = fate
        \/ pc' = [pc EXCEPT ![u] = "done"] /\ fate' = [fate EXCEPT ![u] = "failed"]
    BY <1>5 DEF Assign
  <2> QED
    BY <1>a, <2>1, <2>2 DEF Aside
<1>6. CASE ReadNil(u)
  BY <1>a, <1>6 DEF ReadNil, Aside
<1>7. CASE Manager(u)
  BY <1>7 DEF Manager, Use, Aside
<1>8. CASE Root(u)
  BY <1>8 DEF Root, Aside
<1>9. CASE CreateView(u)
  <2>1. pc[u] = "view" /\ UNCHANGED <<cacheVars, item, pool, out>>
    BY <1>9 DEF CreateView
  <2>2. \/ pc' = [pc EXCEPT ![u] = "retrieve"] /\ fate' = fate
        \/ pc' = [pc EXCEPT ![u] = "logout"] /\ fate' = [fate EXCEPT ![u] = "failed"]
    BY <1>9 DEF CreateView, Fail
  <2> QED
    BY <1>a, <2>1, <2>2 DEF Aside
<1>10. CASE RetrieveItems(u)
  <2>1. /\ pc[u] = "retrieve" /\ pc' = [pc EXCEPT ![u] = "destroy"]
        /\ UNCHANGED <<cacheVars, item, pool, out>>
        /\ fate' = fate \/ fate' = [fate EXCEPT ![u] = "failed"]
    BY <1>10 DEF RetrieveItems, Fail
  <2> QED
    BY <1>a, <2>1 DEF Aside
<1>11. CASE DestroyView(u)
  <2>1. pc[u] = "destroy" /\ UNCHANGED <<cacheVars, pool, out, fate>>
    BY <1>11 DEF DestroyView
  <2>2. CASE fate[u] = "failed" /\ pc' = [pc EXCEPT ![u] = "logout"] /\ item' = item
    BY <1>a, <2>1, <2>2 DEF Aside
  <2>3. CASE fate[u] = "ok" /\ NextItem(u, 1)
    BY <2>1, <2>3 DEF Enters
  <2> QED
    BY <1>11, <2>2, <2>3 DEF DestroyView
<1>12. CASE Pool(u) \/ LookupParents(u) \/ Host(u)
  BY <1>12 DEF Pool, LookupParents, Host, Use, Passes
<1>13. CASE LogoutNil(u)
  <2>1. pc[u] = "logout" /\ pc' = pc /\ UNCHANGED <<cacheVars, fate, item, pool, out>>
    BY <1>13 DEF LogoutNil
  <2>2. pc' = [pc EXCEPT ![u] = "logout"]
    BY <1>a, <2>1
  <2> QED
    BY <2>1, <2>2 DEF Aside
<1>14. CASE Logout(u)
  BY <1>14 DEF Logout, Use, Aside
<1>15. CASE LogoutAnswer(u)
  BY <1>15 DEF LogoutAnswer, Aside
<1>16. CASE OddItem(u)
  <2>1. /\ pc' = [pc EXCEPT ![u] = "logout"] /\ fate' = [fate EXCEPT ![u] = "odd"]
        /\ UNCHANGED <<cacheVars, item, pool, out>>
    BY <1>16 DEF OddItem
  <2> QED
    BY <1>a, <2>1 DEF Aside
<1>17. CASE NilURL(u)
  <2>1. pc[u] = "connect" /\ pc' = pc /\ UNCHANGED <<cacheVars, fate, item, pool, out>>
    BY <1>17 DEF NilURL
  <2>2. pc' = [pc EXCEPT ![u] = "connect"]
    BY <1>a, <2>1
  <2> QED
    BY <2>1, <2>2 DEF Aside
<1> QED
  BY <1>1, <1>2, <1>3, <1>4, <1>5, <1>6, <1>7, <1>8, <1>9, <1>10, <1>11, <1>12, <1>13,
     <1>14, <1>15, <1>16, <1>17 DEF Step

(* The ways a lookup comes to an answer, and the ways it goes on.  *)
Answers(u) ==
    /\ pc[u] = "lookup"
    /\ \/ MeParent(u) = NoRef /\ Parents!LookupRoot(u)
       \/ MeParent(u) # NoRef /\ Parents!LookupHit(u, MeParent(u))
    /\ Returned(u)
    /\ UNCHANGED <<fate, item, pool, out>>

Climbs(u) ==
    /\ \/ /\ pc[u] = "lookup" /\ MeParent(u) # NoRef
          /\ Parents!LookupMiss(u, MeParent(u))
          /\ pc' = [pc EXCEPT ![u] = "walk"]
       \/ /\ pc[u] = "walk"
          /\ Parents!Retrieve(u)
          /\ pc' = pc
    /\ UNCHANGED <<fate, item, pool, out>>

Arrives(u) ==
    /\ pc[u] = "walk"
    /\ \/ Refused(held[u]) /\ Parents!RetrieveFail(u)
       \/ Parents!Add(u)
    /\ Returned(u)
    /\ UNCHANGED <<fate, item, pool, out>>

(* Lookup and Walk sorted by that.  *)
LEMMA LookupSteps ==
    ASSUME NEW u \in Update, Lookup(u) \/ Walk(u)
    PROVE  Answers(u) \/ Climbs(u) \/ Arrives(u)
<1>1. CASE Lookup(u)
  BY <1>1 DEF Lookup, Answers, Climbs, Go
<1>2. CASE Walk(u)
  BY <1>2 DEF Walk, Climbs, Arrives
<1> QED
  BY <1>1, <1>2

-----------------------------------------------------------------------------
(***************************************************************************)
(* Where an Update is in its loop.  The item it is at is one the view      *)
(* lists and the Update does not skip; a VM, and nothing else, has a pool  *)
(* and a host to be read; the pool in hand is the item's own, or none; and a walk is for *)
(* the parent of that item.                                                *)
(***************************************************************************)
ItemAt(u) ==
    /\ pc[u] \in Loop =>
          item[u] \in 1 .. Len(Items[Of[u]]) /\ Reported(Of[u], item[u])
    /\ pc[u] \in {"pool", "poolrpc", "host", "hostrpc"} => Kind[Of[u]] = "vm"
    /\ pc[u] = "labels" => Kind[Of[u]] # "vm"
    /\ Kind[Of[u]] # "vm" => pool[u] = NoRef
    /\ pc[u] \in {"parents", "lookup", "walk", "labels", "host", "hostrpc"} =>
          pool[u] \in {NoRef, The(u).pool}
    /\ pc[u] = "walk" => MeParent(u) # NoRef /\ walk[u].key = MeParent(u)

UpdateInv ==
    /\ Kinds
    /\ Proved!AccurateInv
    /\ history = <<Inventory0>>
    /\ item \in [Update -> Nat]
    /\ pool \in [Update -> Mor \cup {NoRef}]
    /\ out \in [Update -> Seq(Sample)]
    /\ \A u \in Update : ItemAt(u)

(* What UpdateInv says of the variables ParentsCache shares.  *)
LEMMA CacheTypes ==
    ASSUME Proved!AccurateInv
    PROVE  /\ Parents!TypeOK
           /\ label \in [Update -> Parents!Parents \cup {Parents!ErrorParents}]
           /\ walk \in [Update -> [at : {"idle", "rpc", "add"}, key : Key \cup {NoRef},
                            cur : Mor \cup {NoRef}, res : Parents!Parents, start : Nat]]
<1>1. Proved!TypeOK
  BY DEF Proved!AccurateInv, Proved!TrueInv
<1>2. Parents!TypeOK
  BY <1>1 DEF Proved!TypeOK, Parents!TypeOK, Proved!Entity, Parents!Entity,
              Proved!Parents, Parents!Parents, Proved!ErrorParents, Parents!ErrorParents,
              Proved!Walking, Parents!Walking
<1> QED
  BY <1>2 DEF Parents!TypeOK

(* The inventory is the one the constants give.  *)
LEMMA Fixed ==
    ASSUME history = <<Inventory0>>
    PROVE  inventory = Inventory0 /\ inventory \in [Mor -> [name : Name, parent : Mor \cup {NoRef}]]
BY CacheAssumption DEF inventory, Parents!Entity

(* The item at hand, and where its parents are looked up.  *)
LEMMA TheItem ==
    ASSUME UpdateInv, NEW u \in Update, pc[u] \in Loop
    PROVE  /\ Of[u] \in Collector /\ The(u) \in Item
           /\ pc[u] \in {"lookup", "walk"} => MeParent(u) \in Key \cup {NoRef}
<1>1. Of[u] \in Collector /\ item[u] \in 1 .. Len(Items[Of[u]])
  BY CollectorAssumption DEF UpdateInv, ItemAt
<1>2. Items[Of[u]] \in Seq(Item)
  BY <1>1, ItemAssumption
<1>3. The(u) \in Item
  BY <1>1, <1>2 DEF The
<1>4. ASSUME pc[u] \in {"lookup", "walk"} PROVE MeParent(u) \in Key \cup {NoRef}
  <2>1. pool[u] \in {NoRef, The(u).pool}
    BY <1>4 DEF UpdateInv, ItemAt
  <2>2. CASE pool[u] = NoRef
    BY <1>3, <2>2 DEF MeParent, Item
  <2>3. CASE pool[u] # NoRef
    <3>1. Items[Of[u]][item[u]].pool # NoRef /\ pool[u] = Items[Of[u]][item[u]].pool
      BY <2>1, <2>3 DEF The
    <3>2. Inventory0[pool[u]].parent \in Key \cup {NoRef}
      BY <1>1, <3>1, ItemAssumption
    <3> QED
      BY <2>3, <3>2, Fixed DEF MeParent, UpdateInv
  <2> QED
    BY <2>2, <2>3
<1> QED
  BY <1>1, <1>3, <1>4

(***************************************************************************)
(* An Update uses the cache as ParentsCache says.                          *)
(***************************************************************************)
CacheMoves(u) ==
    \/ UNCHANGED cacheVars
    \/ Proved!Flush(u)
    \/ Proved!Lookup(u)
    \/ Proved!Step(u)

(* For what is looked up is a key the cache can hold.  *)
LEMMA UpdateMovesCache ==
    ASSUME UpdateInv, NEW u \in Update, Begin(u) \/ Step(u)
    PROVE  CacheMoves(u)
<1>0. Kinds
  BY DEF UpdateInv
<1>1. CASE Aside(u) \/ Enters(u) \/ Passes(u) \/ PoolAnswer(u)
           \/ Labels(u) \/ HostAnswer(u)
  BY <1>1 DEF Aside, Enters, Passes, PoolAnswer, Labels, HostAnswer, CacheMoves
<1>2. CASE Opens(u)
  BY <1>2, SameCacheSteps DEF Opens, CacheMoves
<1>3. ASSUME pc[u] \in {"lookup", "walk"}, MeParent(u) # NoRef PROVE MeParent(u) \in Key
  BY <1>3, TheItem DEF Loop
<1>4. CASE Answers(u)
  BY <1>3, <1>4, SameCacheSteps DEF Answers, CacheMoves, Proved!Lookup
<1>5. CASE Climbs(u)
  BY <1>3, <1>5, SameCacheSteps DEF Climbs, CacheMoves, Proved!Lookup, Proved!Step
<1>6. CASE Arrives(u)
  BY <1>6, SameCacheSteps DEF Arrives, CacheMoves, Proved!Step
<1> QED
  BY <1>0, <1>1, <1>2, <1>4, <1>5, <1>6, LoopSteps, LookupSteps

(* So the cache keeps what ParentsCacheProofs shows, and the inventory is  *)
(* left alone.                                                             *)
LEMMA CacheKept ==
    ASSUME Proved!AccurateInv, NEW u \in Update, CacheMoves(u)
    PROVE  /\ Proved!AccurateInv'
           /\ history' = history
           /\ \A v \in Update \ {u} : label'[v] = label[v] /\ walk'[v] = walk[v]
<1>1. [Proved!Next]_(Proved!cacheVars)
  BY DEF CacheMoves, Proved!Next, Proved!cacheVars, cacheVars
<1>2. Proved!AccurateInv'
  BY <1>1, CacheConstants, Proved!AccurateStep
<1>3. label \in [Update -> Parents!Parents \cup {Parents!ErrorParents}]
      /\ walk \in [Update -> [at : {"idle", "rpc", "add"}, key : Key \cup {NoRef},
                            cur : Mor \cup {NoRef}, res : Parents!Parents, start : Nat]]
  BY CacheTypes
<1> USE DEF Proved!ghosts
<1>4. CASE UNCHANGED cacheVars
  BY <1>2, <1>4 DEF cacheVars
<1>5. CASE Proved!Flush(u)
  BY <1>2, <1>3, <1>5 DEF Proved!Flush
<1>6. CASE Proved!LookupRoot(u)
  BY <1>2, <1>3, <1>6 DEF Proved!LookupRoot
<1>7. ASSUME NEW m, Proved!LookupHit(u, m) \/ Proved!LookupMiss(u, m)
      PROVE  /\ history' = history
             /\ \A v \in Update \ {u} : label'[v] = label[v] /\ walk'[v] = walk[v]
  BY <1>3, <1>7 DEF Proved!LookupHit, Proved!LookupMiss
<1>8. CASE Proved!Retrieve(u)
  BY <1>2, <1>3, <1>8 DEF Proved!Retrieve
<1>9. CASE Proved!RetrieveFail(u)
  BY <1>2, <1>3, <1>9 DEF Proved!RetrieveFail
<1>10. CASE Proved!Add(u)
  BY <1>2, <1>3, <1>10 DEF Proved!Add
<1> QED
  BY <1>2, <1>4, <1>5, <1>6, <1>7, <1>8, <1>9, <1>10
  DEF CacheMoves, Proved!Lookup, Proved!Step

-----------------------------------------------------------------------------
(* The loop goes on to the next item it does not skip, or is over.  *)
Advances(u, i) ==
    /\ \A v \in Update \ {u} : pc'[v] = pc[v] /\ item'[v] = item[v]
    /\ \/ /\ pc'[u] = "logout"
          /\ item'[u] = item[u]
          /\ From(Of[u], i) = {}
       \/ /\ pc'[u] = IF Kind[Of[u]] = "vm" THEN "pool" ELSE "parents"
          /\ item'[u] \in From(Of[u], i)
          /\ \A k \in From(Of[u], i) : item'[u] <= k

(* NextItem goes on in this way.  *)
LEMMA NextItemAdvances ==
    ASSUME pc \in [Update -> Places], item \in [Update -> Nat], NEW u \in Update,
           NEW i \in Nat, NextItem(u, i)
    PROVE  Advances(u, i) /\ item' \in [Update -> Nat]
<1>1. From(Of[u], i) \subseteq Nat
  BY DEF From
<1>2. CASE From(Of[u], i) = {}
  BY <1>2 DEF NextItem, Go, Advances
<1>3. CASE From(Of[u], i) # {}
  <2>1. PICK j \in From(Of[u], i) :
            /\ \A k \in From(Of[u], i) : j <= k
            /\ item' = [item EXCEPT ![u] = j]
            /\ pc' = [pc EXCEPT ![u] = IF Kind[Of[u]] = "vm" THEN "pool" ELSE "parents"]
    BY <1>3 DEF NextItem, Go
  <2> QED
    BY <1>1, <2>1 DEF Advances
<1> QED
  BY <1>2, <1>3

(* One record more for u, and on.  *)
SampleOf(u, parents, host) ==
    [item    |-> item[u],
     parents |-> parents,
     pool    |-> IF pool[u] = NoRef THEN "NONE" ELSE inventory[pool[u]].name,
     host    |-> host]

Finishes(u, parents, host) ==
    /\ out' \in [Update -> Seq(Sample)]
    /\ \A v \in Update \ {u} : out'[v] = out[v]
    /\ out'[u] = Append(out[u], SampleOf(u, parents, host))
    /\ item' \in [Update -> Nat]
    /\ Advances(u, item[u] + 1)

(* Emit and NextItem together.  *)
LEMMA EmitFinishes ==
    ASSUME UpdateInv, NEW u \in Update,
           NEW parents \in Parents!Parents \cup {Parents!ErrorParents},
           NEW host \in Name \cup {"NONE"},
           Emit(u, parents, host), NextItem(u, item[u] + 1)
    PROVE  Finishes(u, parents, host)
<1>1. /\ pc \in [Update -> Places] /\ item \in [Update -> Nat]
      /\ pool \in [Update -> Mor \cup {NoRef}] /\ out \in [Update -> Seq(Sample)]
      /\ inventory \in [Mor -> [name : Name, parent : Mor \cup {NoRef}]]
  BY Fixed DEF UpdateInv, Kinds
<1>2. SampleOf(u, parents, host) \in Sample
  BY <1>1 DEF SampleOf, Sample
<1>3. out' = [out EXCEPT ![u] = Append(out[u], SampleOf(u, parents, host))]
  BY DEF Emit, SampleOf
<1>4. out[u] \in Seq(Sample) /\ Append(out[u], SampleOf(u, parents, host)) \in Seq(Sample)
  BY <1>1, <1>2
<1>5. /\ out' \in [Update -> Seq(Sample)]
      /\ \A v \in Update \ {u} : out'[v] = out[v]
      /\ out'[u] = Append(out[u], SampleOf(u, parents, host))
  <2> HIDE DEF SampleOf
  <2> QED
    BY <1>1, <1>3, <1>4
<1>6. Advances(u, item[u] + 1) /\ item' \in [Update -> Nat]
  BY <1>1, NextItemAdvances
<1> QED
  BY <1>5, <1>6 DEF Finishes

(* getParents has returned: the VM's host is next, or the labels.  *)
LEMMA ReturnedThen ==
    ASSUME NEW u \in Update, pc \in [Update -> Places], Returned(u)
    PROVE  /\ pc'[u] = IF Kind[Of[u]] = "vm" THEN "host" ELSE "labels"
           /\ \A v \in Update \ {u} : pc'[v] = pc[v]
BY DEF Returned, Go

(* The item is done once its labels are made.  *)
LEMMA LabelsFinishes ==
    ASSUME UpdateInv, NEW u \in Update, Labels(u)
    PROVE  Finishes(u, label[u], "NONE")
<1>1. label[u] \in Parents!Parents \cup {Parents!ErrorParents}
  BY CacheTypes DEF UpdateInv
<1> QED
  BY <1>1, EmitFinishes DEF Labels

(* So is a VM when its host has been read, or could not be.  *)
LEMMA HostFinishes ==
    ASSUME UpdateInv, NEW u \in Update, HostAnswer(u)
    PROVE  \E host \in Name \cup {"NONE"} :
              /\ Finishes(u, label[u], host)
              /\ \/ /\ The(u).host # NoRef /\ Answered(held[u])
                    /\ host = inventory[The(u).host].name
                 \/ /\ The(u).host = NoRef \/ Refused(held[u])
                    /\ host = "NONE"
<1>1. label[u] \in Parents!Parents \cup {Parents!ErrorParents}
  BY CacheTypes DEF UpdateInv
<1>2. The(u) \in Item
  BY TheItem DEF HostAnswer, Loop
<1>3. CASE /\ The(u).host # NoRef /\ Answered(held[u])
           /\ Emit(u, label[u], inventory[The(u).host].name)
  <2>1. inventory[The(u).host].name \in Name
    BY <1>2, <1>3, Fixed DEF UpdateInv, Item
  <2>2. Finishes(u, label[u], inventory[The(u).host].name)
    BY <1>1, <1>3, <2>1, EmitFinishes DEF HostAnswer
  <2> QED
    BY <1>3, <2>1, <2>2
<1>4. CASE /\ The(u).host = NoRef \/ Refused(held[u])
           /\ Emit(u, label[u], "NONE")
  <2>1. Finishes(u, label[u], "NONE")
    BY <1>1, <1>4, EmitFinishes DEF HostAnswer
  <2> QED
    BY <1>4, <2>1
<1> QED
  BY <1>3, <1>4 DEF HostAnswer

-----------------------------------------------------------------------------
LEMMA UpdateInit == Init => UpdateInv
<1> SUFFICES ASSUME Init PROVE UpdateInv
  OBVIOUS
<1>1. Kinds /\ Proved!AccurateInv
  BY SerialInit, CacheInit DEF SerialInv
<1>2. history = <<Inventory0>>
  BY DEF Init, Parents!Init
<1>3. \A u \in Update : ItemAt(u)
  BY DEF Init, ItemAt, Loop
<1>4. out \in [Update -> Seq(Sample)]
  BY DEF Init
<1> QED
  BY <1>1, <1>2, <1>3, <1>4 DEF Init, UpdateInv

(* An item the loop is at after NextItem.  *)
LEMMA AtNext ==
    ASSUME NEW u \in Update, NEW i \in Nat, i >= 1, Advances(u, i),
           Kind[Of[u]] \in {"vm", "respool", "plain"},
           Kind[Of[u]] # "vm" => pool'[u] = NoRef
    PROVE  ItemAt(u)'
<1>1. CASE pc'[u] = "logout"
  BY <1>1 DEF ItemAt, Loop
<1>2. CASE pc'[u] # "logout"
  <2>1. /\ pc'[u] = IF Kind[Of[u]] = "vm" THEN "pool" ELSE "parents"
        /\ item'[u] \in From(Of[u], i)
    BY <1>2 DEF Advances
  <2>2. item'[u] \in 1 .. Len(Items[Of[u]]) /\ Reported(Of[u], item'[u])
    BY <2>1 DEF From
  <2>3. CASE Kind[Of[u]] = "vm"
    BY <2>1, <2>2, <2>3 DEF ItemAt
  <2>4. CASE Kind[Of[u]] # "vm"
    BY <2>1, <2>2, <2>4 DEF ItemAt
  <2> QED
    BY <2>3, <2>4
<1> QED
  BY <1>1, <1>2

(* One step of an Update keeps its own item, pool and walk together, and   *)
(* touches nobody else's.                                                  *)
LEMMA UpdateStep == UpdateInv /\ [Next]_vars => UpdateInv'
<1> SUFFICES ASSUME UpdateInv, [Next]_vars PROVE UpdateInv'
  OBVIOUS
<1>0. /\ Kinds /\ Proved!AccurateInv /\ history = <<Inventory0>>
      /\ item \in [Update -> Nat] /\ pool \in [Update -> Mor \cup {NoRef}]
      /\ out \in [Update -> Seq(Sample)] /\ pc \in [Update -> Places]
      /\ walk \in [Update -> [at : {"idle", "rpc", "add"}, key : Key \cup {NoRef},
                          cur : Mor \cup {NoRef}, res : Parents!Parents, start : Nat]]
  BY CacheTypes DEF UpdateInv, Kinds
<1>1. ASSUME NEW u \in Update, Begin(u) \/ Step(u) PROVE UpdateInv'
  <2>1. Kinds'
    BY <1>0, <1>1, StepEffect, InsideKinds, EdgeKinds
  <2>2. /\ Proved!AccurateInv' /\ history' = history
        /\ \A v \in Update \ {u} : label'[v] = label[v] /\ walk'[v] = walk[v]
    BY <1>0, <1>1, UpdateMovesCache, CacheKept
  <2>3. ItemAt(u) /\ Of[u] \in Collector /\ Kind[Of[u]] \in {"vm", "respool", "plain"}
    BY CollectorAssumption DEF UpdateInv
  <2>a. inventory' = inventory
    BY <2>2 DEF inventory
(* What remains to be shown once a step is known to move u alone.  *)
  <2>4. ASSUME \A v \in Update \ {u} : /\ pc'[v] = pc[v] /\ item'[v] = item[v]
                                       /\ pool'[v] = pool[v],
               item' \in [Update -> Nat], pool' \in [Update -> Mor \cup {NoRef}],
               out' \in [Update -> Seq(Sample)], ItemAt(u)'
        PROVE  UpdateInv'
    <3>1. ASSUME NEW v \in Update \ {u} PROVE ItemAt(v)'
      <4>1. pc'[v] = pc[v] /\ item'[v] = item[v] /\ pool'[v] = pool[v] /\ walk'[v] = walk[v]
        BY <2>2, <2>4
      <4>2. The(v)' = The(v) /\ MeParent(v)' = MeParent(v)
        BY <2>a, <4>1 DEF The, MeParent
      <4>3. ItemAt(v)
        BY DEF UpdateInv
      <4> QED
        BY <4>1, <4>2, <4>3 DEF ItemAt
    <3> QED
      BY <1>0, <2>1, <2>2, <2>4, <3>1 DEF UpdateInv
  <2>5. CASE Aside(u)
    <3>1. PICK p \in Early \cup Late : pc' = [pc EXCEPT ![u] = p]
      BY <2>5 DEF Aside
    <3>2. UNCHANGED <<item, pool, out>> /\ pc'[u] = p
          /\ \A v \in Update \ {u} : pc'[v] = pc[v]
      BY <1>0, <2>5, <3>1 DEF Aside
    <3>3. ItemAt(u)'
      BY <2>3, <3>2 DEF ItemAt, Early, Late, Loop
    <3> QED
      BY <1>0, <2>4, <3>2, <3>3
  <2>6. CASE Opens(u)
    <3>1. UNCHANGED <<item, pool, out>> /\ pc'[u] = "connect"
          /\ \A v \in Update \ {u} : pc'[v] = pc[v]
      BY <1>0, <2>6 DEF Opens
    <3>2. ItemAt(u)'
      BY <2>3, <3>1 DEF ItemAt, Loop
    <3> QED
      BY <1>0, <2>4, <3>1, <3>2
  <2>7. CASE Enters(u)
    <3>1. UNCHANGED <<pool, out>> /\ Advances(u, 1) /\ item' \in [Update -> Nat]
      BY <1>0, <2>7, NextItemAdvances DEF Enters
    <3>2. ItemAt(u)'
      BY <2>3, <3>1, AtNext DEF ItemAt
    <3> QED
      BY <1>0, <2>4, <3>1, <3>2 DEF Advances
  <2>8. CASE Passes(u)
    <3>1. UNCHANGED <<item, pool, out>> /\ \A v \in Update \ {u} : pc'[v] = pc[v]
      BY <1>0, <2>8 DEF Passes
    <3>2. \/ pc[u] = "pool"    /\ pc'[u] = "poolrpc"
          \/ pc[u] = "parents" /\ pc'[u] = "lookup"
          \/ pc[u] = "host"    /\ pc'[u] = "hostrpc"
      BY <1>0, <2>8 DEF Passes
    <3>3. The(u)' = The(u)
      BY <3>1 DEF The
    <3>4. ItemAt(u)'
      BY <2>3, <3>1, <3>2, <3>3 DEF ItemAt, Loop
    <3> QED
      BY <1>0, <2>4, <3>1, <3>4
  <2>9. CASE PoolAnswer(u)
    <3>1. pc[u] = "poolrpc" /\ UNCHANGED <<item, out>>
      BY <2>9 DEF PoolAnswer
    <3>2. pc'[u] = "parents" /\ \A v \in Update \ {u} : pc'[v] = pc[v]
      BY <1>0, <2>9 DEF PoolAnswer, Go
    <3>3. /\ pool'[u] \in {NoRef, The(u).pool}
          /\ \A v \in Update \ {u} : pool'[v] = pool[v]
      BY <1>0, <2>9 DEF PoolAnswer
    <3>4. The(u).pool \in Mor \cup {NoRef}
      BY <3>1, TheItem DEF Loop, Item
    <3>5. pool' \in [Update -> Mor \cup {NoRef}]
      BY <1>0, <2>9, <3>4 DEF PoolAnswer
    <3>6. The(u)' = The(u)
      BY <3>1 DEF The
    <3>7. ItemAt(u)'
      BY <2>3, <3>1, <3>2, <3>3, <3>6 DEF ItemAt, Loop
    <3> QED
      BY <1>0, <2>4, <3>1, <3>2, <3>3, <3>5, <3>7
  <2>10. CASE Answers(u) \/ Arrives(u)
    <3>1. pc[u] \in {"lookup", "walk"} /\ UNCHANGED <<item, pool, out>> /\ Returned(u)
      BY <2>10 DEF Answers, Arrives
    <3>2. /\ pc'[u] = IF Kind[Of[u]] = "vm" THEN "host" ELSE "labels"
          /\ \A v \in Update \ {u} : pc'[v] = pc[v]
      BY <1>0, <3>1, ReturnedThen
    <3>3. The(u)' = The(u)
      BY <3>1 DEF The
    <3>4. ItemAt(u)'
      <4>1. CASE pc'[u] = "host" /\ Kind[Of[u]] = "vm"
        BY <2>3, <3>1, <3>3, <4>1 DEF ItemAt, Loop
      <4>2. CASE pc'[u] = "labels" /\ Kind[Of[u]] # "vm"
        BY <2>3, <3>1, <3>3, <4>2 DEF ItemAt, Loop
      <4> QED
        BY <3>2, <4>1, <4>2
    <3> QED
      BY <1>0, <2>4, <3>1, <3>2, <3>4
  <2>11. CASE Climbs(u)
    <3>1. UNCHANGED <<item, pool, out>> /\ \A v \in Update \ {u} : pc'[v] = pc[v]
      BY <1>0, <2>11 DEF Climbs
    <3>2. pc[u] \in {"lookup", "walk"} /\ pc'[u] = "walk"
      BY <1>0, <2>11 DEF Climbs
    <3>3. The(u)' = The(u) /\ MeParent(u)' = MeParent(u)
      BY <2>a, <3>1 DEF The, MeParent
    <3>4. MeParent(u) # NoRef /\ walk'[u].key = MeParent(u)
      <4>1. CASE MeParent(u) # NoRef /\ Parents!LookupMiss(u, MeParent(u))
        BY <1>0, <4>1 DEF Parents!LookupMiss
      <4>2. CASE pc[u] = "walk" /\ Parents!Retrieve(u)
        <5>1. MeParent(u) # NoRef /\ walk[u].key = MeParent(u)
          BY <2>3, <4>2 DEF ItemAt
        <5>2. walk'[u].key = walk[u].key
          BY <1>0, <4>2 DEF Parents!Retrieve
        <5> QED
          BY <5>1, <5>2
      <4> QED
        BY <2>11, <4>1, <4>2 DEF Climbs
    <3>5. ItemAt(u)'
      BY <2>3, <3>1, <3>2, <3>3, <3>4 DEF ItemAt, Loop
    <3> QED
      BY <1>0, <2>4, <3>1, <3>5
  <2>12. CASE HostAnswer(u)
    <3>1. PICK host \in Name \cup {"NONE"} : Finishes(u, label[u], host)
      BY <2>12, HostFinishes
    <3>2. pc[u] = "hostrpc" /\ pool' = pool
      BY <2>12 DEF HostAnswer
    <3>3. Advances(u, item[u] + 1) /\ item[u] + 1 \in Nat /\ item[u] + 1 >= 1
      BY <1>0, <3>1 DEF Finishes
    <3>4. ItemAt(u)'
      <4>1. Kind[Of[u]] # "vm" => pool'[u] = NoRef
        BY <2>3, <3>2 DEF ItemAt
      <4> QED
        BY <2>3, <3>3, <4>1, AtNext
    <3> QED
      BY <1>0, <2>4, <3>1, <3>2, <3>3, <3>4 DEF Finishes, Advances
  <2>13. CASE Labels(u)
    <3>1. Finishes(u, label[u], "NONE")
      BY <2>13, LabelsFinishes
    <3>2. pc[u] = "labels" /\ pool' = pool
      BY <2>13 DEF Labels
    <3>3. Advances(u, item[u] + 1) /\ item[u] + 1 \in Nat /\ item[u] + 1 >= 1
      BY <1>0, <3>1 DEF Finishes
    <3>4. ItemAt(u)'
      <4>1. Kind[Of[u]] # "vm" => pool'[u] = NoRef
        BY <2>3, <3>2 DEF ItemAt
      <4> QED
        BY <2>3, <3>3, <4>1, AtNext
    <3> QED
      BY <1>0, <2>4, <3>1, <3>2, <3>3, <3>4 DEF Finishes, Advances
  <2> QED
    BY <1>0, <1>1, <2>5, <2>6, <2>7, <2>8, <2>9, <2>10, <2>11, <2>12, <2>13, LoopSteps, LookupSteps
<1>2. CASE UNCHANGED vars
  <2>1. UNCHANGED cacheVars /\ UNCHANGED <<pc, fate, client, held, session, lost, faults>>
        /\ UNCHANGED <<item, pool, out>>
    BY <1>2 DEF vars
  <2>2. Proved!AccurateInv'
    <3>1. [Proved!Next]_(Proved!cacheVars)
      BY <2>1 DEF Proved!cacheVars, cacheVars
    <3> QED
      BY <1>0, <3>1, CacheConstants, Proved!AccurateStep
  <2>3. Kinds'
    BY <1>0, <2>1 DEF Kinds
  <2>4. \A u \in Update : ItemAt(u)'
    BY <2>1 DEF cacheVars, UpdateInv, ItemAt, The, MeParent, inventory
  <2> QED
    BY <1>0, <2>1, <2>2, <2>3, <2>4 DEF cacheVars, UpdateInv
<1> QED
  BY <1>1, <1>2 DEF Next, Stopped

(* What decides whether a step can be taken or a request can fail.  *)
Switches ==
    /\ alive \in BOOLEAN /\ gaps \in BOOLEAN /\ faults \in BOOLEAN
    /\ url \in {"good", "bad", "empty"}

(* Only a panic changes one of them.  *)
LEMMA SwitchesStep == Kinds /\ Switches /\ [Next]_vars => Switches'
<1> SUFFICES ASSUME Kinds, Switches, [Next]_vars PROVE Switches'
  OBVIOUS
<1>1. ASSUME NEW u \in Update, Begin(u) \/ Step(u) PROVE Switches'
  <2>1. alive' \in BOOLEAN /\ faults' = faults
    BY <1>1, StepEffect DEF InsideEffect, EdgeEffect, Switches
  <2>2. url' = url /\ gaps' = gaps
    BY <1>1 DEF Begin, Step, BadURL, NilURL, Login, LoginFail, Assign, ReadNil, Manager, Root,
       CreateView, RetrieveItems, DestroyView, Pool, PoolAnswer, LookupParents, Lookup, Walk,
       Labels, Host, HostAnswer, OddItem, LogoutNil, Logout, LogoutAnswer, Use
  <2> QED
    BY <2>1, <2>2 DEF Switches
<1> QED
  BY <1>1 DEF Next, Stopped, vars, Switches

(* Every variable keeps its type, however Updates overlap; those of the    *)
(* cache keep the types ParentsCache gives them.                           *)
THEOREM UpdateTypeOK == Spec => []TypeOK
<1>1. Init => Switches
  BY CollectorAssumption DEF Init, Switches
<1>2. UpdateInv => Kinds
  BY DEF UpdateInv
<1>3. UpdateInv /\ ViewInv /\ Switches => TypeOK
  <2> SUFFICES ASSUME UpdateInv, ViewInv, Switches PROVE TypeOK
    OBVIOUS
  <2>1. Parents!TypeOK
    BY CacheTypes DEF UpdateInv
  <2> QED
    BY <2>1 DEF TypeOK, UpdateInv, ViewInv, Switches, Kinds, Places, Inside
<1> QED
  BY UpdateInit, UpdateStep, ViewInit, ViewStep, SwitchesStep, <1>1, <1>2, <1>3, PTL DEF Spec

-----------------------------------------------------------------------------
(***************************************************************************)
(* What an Update reports.  Its steps leave the other Updates' locals and  *)
(* answers alone, and send at most one more record, of the item at hand.   *)
(***************************************************************************)
Alone(u) ==
    /\ inventory' = inventory
    /\ \A v \in Update \ {u} :
          /\ pc'[v] = pc[v] /\ item'[v] = item[v] /\ pool'[v] = pool[v]
          /\ out'[v] = out[v] /\ label'[v] = label[v] /\ fate'[v] = fate[v]

(* Each step of an Update moves that Update alone.  *)
LEMMA StepAlone ==
    ASSUME UpdateInv, NEW u \in Update, Begin(u) \/ Step(u)
    PROVE  Alone(u)
<1>0. /\ Kinds /\ Proved!AccurateInv
      /\ item \in [Update -> Nat] /\ pool \in [Update -> Mor \cup {NoRef}]
      /\ out \in [Update -> Seq(Sample)] /\ pc \in [Update -> Places]
  BY DEF UpdateInv, Kinds
<1>1. inventory' = inventory /\ \A v \in Update \ {u} : label'[v] = label[v]
  BY <1>0, UpdateMovesCache, CacheKept DEF inventory
<1>2. Proved!AccurateInv'
  BY UpdateMovesCache, CacheKept, <1>0
<1>3. CASE Aside(u)
  BY <1>0, <1>1, <1>3 DEF Aside, Alone
<1>4. CASE Opens(u)
  BY <1>0, <1>1, <1>4 DEF Opens, Alone
<1>5. CASE Enters(u)
  BY <1>0, <1>1, <1>5, NextItemAdvances DEF Enters, Advances, Alone
<1>6. CASE Passes(u)
  BY <1>0, <1>1, <1>6 DEF Passes, Alone
<1>7. CASE PoolAnswer(u)
  BY <1>0, <1>1, <1>7 DEF PoolAnswer, Go, Alone
<1>8. CASE Answers(u) \/ Arrives(u)
  <2>1. UNCHANGED <<item, pool, out, fate>> /\ Returned(u)
    BY <1>8 DEF Answers, Arrives
  <2> QED
    BY <1>0, <1>1, <2>1, ReturnedThen DEF Alone
<1>9. CASE Climbs(u)
  BY <1>0, <1>1, <1>9 DEF Climbs, Alone
<1>10. CASE HostAnswer(u)
  <2>1. UNCHANGED <<pool, fate>>
    BY <1>10 DEF HostAnswer
  <2> QED
    BY <1>1, <1>10, <2>1, HostFinishes DEF Alone, Finishes, Advances
<1>11. CASE Labels(u)
  <2>1. UNCHANGED <<pool, fate>>
    BY <1>11 DEF Labels
  <2> QED
    BY <1>1, <1>11, <2>1, LabelsFinishes DEF Alone, Finishes, Advances
<1> QED
  BY <1>0, <1>3, <1>4, <1>5, <1>6, <1>7, <1>8, <1>9, <1>10, <1>11, LoopSteps, LookupSteps

(* An answer of getParents is the reference one, or "ERROR" when a request *)
(* of its walk was refused: the cache and the walk are accurate, and the   *)
(* inventory is the one they began in.                                     *)
LEMMA AnswerTrue ==
    ASSUME UpdateInv, UpdateInv', NEW u \in Update, Answers(u) \/ Arrives(u)
    PROVE  \/ label'[u] = ParentsOf(MeParent(u))
           \/ Refused(held[u]) /\ label'[u] = Parents!ErrorParents
<1>0. label \in [Update -> Parents!Parents \cup {Parents!ErrorParents}] /\ inventory = Inventory0
      /\ history = <<Inventory0>> /\ history' = <<Inventory0>>
  BY CacheTypes, Fixed DEF UpdateInv
<1>1. \A m : Proved!TrueParents(Inventory0, m) = Parents!TrueParents(Inventory0, m)
  <2>1. Proved!Cardinality(Mor) = Parents!Cardinality(Mor)
    BY DEF Parents!Cardinality, Proved!Cardinality
  <2> QED
    BY <2>1 DEF Proved!TrueParents, Parents!TrueParents, Proved!ParentsAmong,
       Parents!ParentsAmong, Proved!LabelAmong, Parents!LabelAmong, Proved!Chain,
       Parents!Chain, Proved!Up, Parents!Up
<1>2. \A m \in DOMAIN cache : cache[m] = Parents!TrueParents(Inventory0, m)
  <2>1. \A m \in DOMAIN cache : stamp[m] = 1
    BY <1>0 DEF UpdateInv, Proved!AccurateInv, Proved!TrueInv, Proved!StampOK, Proved!version
  <2> QED
    BY <1>0, <1>1, <2>1 DEF UpdateInv, Proved!AccurateInv, Proved!CacheAccurate,
       Proved!version, Proved!inventory
<1>3. \A m \in DOMAIN cache' : cache'[m] = Parents!TrueParents(Inventory0, m)
  <2>1. \A m \in DOMAIN cache' : stamp'[m] = 1
    BY <1>0 DEF UpdateInv, Proved!AccurateInv, Proved!TrueInv, Proved!StampOK, Proved!version
  <2> QED
    BY <1>0, <1>1, <2>1 DEF UpdateInv, Proved!AccurateInv, Proved!CacheAccurate,
       Proved!version, Proved!inventory
<1>4. CASE MeParent(u) = NoRef /\ Parents!LookupRoot(u)
  BY <1>0, <1>4 DEF Parents!LookupRoot, ParentsOf
<1>5. CASE MeParent(u) # NoRef /\ Parents!LookupHit(u, MeParent(u))
  <2>1. MeParent(u) \in DOMAIN cache /\ label'[u] = cache[MeParent(u)]
    BY <1>0, <1>5 DEF Parents!LookupHit
  <2> QED
    BY <1>0, <1>2, <1>5, <2>1 DEF ParentsOf
<1>6. CASE Refused(held[u]) /\ Parents!RetrieveFail(u)
  BY <1>0, <1>6 DEF Parents!RetrieveFail
<1>7. CASE pc[u] = "walk" /\ Parents!Add(u)
  <2>1. MeParent(u) # NoRef /\ walk[u].key = MeParent(u)
    BY <1>7 DEF UpdateInv, ItemAt
  <2>2. walk[u].key \in DOMAIN cache' /\ label'[u] = cache'[walk[u].key]
    BY <1>0, <1>7 DEF Parents!Add
  <2> QED
    BY <1>0, <1>3, <2>1, <2>2 DEF ParentsOf
<1> QED
  BY <1>4, <1>5, <1>6, <1>7 DEF Answers, Arrives

(***************************************************************************)
(* A record is true or degraded when the answers it was made from are.     *)
(***************************************************************************)
Honest(c, sample) ==
    LET it    == Items[c][sample.item]
        exact == Exact(c, sample.item)
    IN  /\ sample.pool \in {exact.pool, "NONE"}
        /\ sample.host \in {exact.host, "NONE"}
        /\ sample.parents \in
              {Parents!ErrorParents,
               IF sample.pool = exact.pool THEN exact.parents ELSE ParentsOf(it.parent)}

(* For the pool in hand is the item's, or none.  *)
LEMMA SampleHonest ==
    ASSUME UpdateInv, NEW u \in Update, NEW parents, NEW host,
           pc[u] \in {"labels", "hostrpc"},
           parents \in {Parents!ErrorParents, ParentsOf(MeParent(u))},
           host \in {IF Kind[Of[u]] = "vm" THEN NameOf(The(u).host) ELSE "NONE", "NONE"}
    PROVE  Honest(Of[u], SampleOf(u, parents, host))
<1> DEFINE s     == SampleOf(u, parents, host)
           it    == The(u)
           exact == Exact(Of[u], item[u])
<1>1. /\ s.item = item[u] /\ s.parents = parents /\ s.host = host
      /\ s.pool = IF pool[u] = NoRef THEN "NONE" ELSE inventory[pool[u]].name
  BY DEF SampleOf
<1>2. /\ exact.pool = IF Kind[Of[u]] = "vm" THEN NameOf(it.pool) ELSE "NONE"
      /\ exact.host = IF Kind[Of[u]] = "vm" THEN NameOf(it.host) ELSE "NONE"
      /\ exact.parents = ParentsOf(IF Kind[Of[u]] = "vm" /\ it.pool # NoRef
                                   THEN inventory[it.pool].parent ELSE it.parent)
  BY DEF Exact, The
<1>3. /\ Kind[Of[u]] # "vm" => pool[u] = NoRef
      /\ pool[u] \in {NoRef, it.pool}
  BY DEF UpdateInv, ItemAt
<1>4. it.pool \in Mor \cup {NoRef} /\ it = Items[Of[u]][item[u]]
  BY TheItem DEF Loop, Item, The
<1>5. \A m \in Mor : inventory[m].name # "NONE"
  BY Fixed, CacheAssumption DEF UpdateInv
<1> HIDE DEF s, it, exact
<1>6. s.pool \in {exact.pool, "NONE"} /\ s.host \in {exact.host, "NONE"}
  BY <1>1, <1>2, <1>3 DEF NameOf, it
<1>7. s.parents \in {Parents!ErrorParents,
               IF s.pool = exact.pool THEN exact.parents ELSE ParentsOf(it.parent)}
  <2>1. CASE pool[u] # NoRef
    <3>1. Kind[Of[u]] = "vm" /\ it.pool = pool[u] /\ it.pool # NoRef
      BY <1>3, <2>1
    <3>2. s.pool = exact.pool
      BY <1>1, <1>2, <2>1, <3>1 DEF NameOf
    <3>3. exact.parents = ParentsOf(MeParent(u))
      BY <1>2, <2>1, <3>1 DEF MeParent
    <3> QED
      BY <1>1, <3>2, <3>3
  <2>2. CASE pool[u] = NoRef
    <3>1. ParentsOf(MeParent(u)) = ParentsOf(it.parent)
      BY <2>2 DEF MeParent, it
    <3>2. s.pool = exact.pool => exact.parents = ParentsOf(it.parent)
      BY <1>1, <1>2, <1>4, <1>5, <2>2 DEF NameOf
    <3> QED
      BY <1>1, <3>1, <3>2
  <2> QED
    BY <2>1, <2>2
<1> QED
  BY <1>1, <1>4, <1>6, <1>7 DEF Honest, s, exact

(* What the answer of getParents still is when the labels are made.  *)
LabelHeld ==
    \A u \in Update : pc[u] \in {"labels", "host", "hostrpc"} =>
        label[u] \in {Parents!ErrorParents, ParentsOf(MeParent(u))}

HonestInv == UpdateInv /\ LabelHeld /\ TrueOrDegraded

(* This is TrueOrDegraded, record by record.  *)
LEMMA HonestIs ==
    TrueOrDegraded <=> \A u \in Update : \A k \in 1 .. Len(out[u]) : Honest(Of[u], out[u][k])
BY DEF TrueOrDegraded, Honest

(* What is sent was answered for the item at hand; what was sent before    *)
(* stays.                                                                  *)
LEMMA HonestStep == HonestInv /\ [Next]_vars => HonestInv'
<1> SUFFICES ASSUME HonestInv, [Next]_vars PROVE HonestInv'
  OBVIOUS
<1>0. UpdateInv /\ UpdateInv'
  BY UpdateStep DEF HonestInv
<1>a. /\ pc \in [Update -> Places] /\ out \in [Update -> Seq(Sample)]
      /\ label \in [Update -> Parents!Parents \cup {Parents!ErrorParents}]
  BY <1>0, CacheTypes DEF UpdateInv, Kinds
<1>b. \A u \in Update : \A k \in 1 .. Len(out[u]) : Honest(Of[u], out[u][k])
  BY HonestIs DEF HonestInv
<1>c. \A u \in Update : pc[u] \in {"labels", "host", "hostrpc"} =>
        label[u] \in {Parents!ErrorParents, ParentsOf(MeParent(u))}
  BY DEF HonestInv, LabelHeld
<1>1. ASSUME NEW u \in Update, Begin(u) \/ Step(u) PROVE HonestInv'
  <2>1. Alone(u)
    BY <1>0, <1>1, StepAlone
  <2>2. inventory' = inventory
    BY <2>1 DEF Alone
  <2>3. \A ref : ParentsOf(ref)' = ParentsOf(ref)
    BY <2>2 DEF ParentsOf
  <2>4. \A c, sample : Honest(c, sample)' <=> Honest(c, sample)
    BY <2>2 DEF Honest, Exact, ParentsOf, NameOf
(* What remains to be shown of the one Update that moves.  *)
  <2>5. ASSUME pc'[u] \in {"labels", "host", "hostrpc"} =>
                   label'[u] \in {Parents!ErrorParents, ParentsOf(MeParent(u)')},
               \A k \in 1 .. Len(out'[u]) : Honest(Of[u], out'[u][k])
        PROVE  HonestInv'
    <3>1. ASSUME NEW v \in Update, pc'[v] \in {"labels", "host", "hostrpc"}
          PROVE  label'[v] \in {Parents!ErrorParents, ParentsOf(MeParent(v)')}
      <4>1. CASE v = u
        BY <2>5, <3>1, <4>1
      <4>2. CASE v # u
        <5>1. pc'[v] = pc[v] /\ label'[v] = label[v] /\ MeParent(v)' = MeParent(v)
          BY <2>1, <4>2 DEF Alone, MeParent, The
        <5> QED
          BY <1>c, <3>1, <5>1
      <4> QED
        BY <4>1, <4>2
    <3>2. LabelHeld'
      <4>1. \A v \in Update : ParentsOf(MeParent(v))' = ParentsOf(MeParent(v)')
        BY <2>2 DEF ParentsOf
      <4> QED
        BY <3>1, <4>1 DEF LabelHeld
    <3>3. ASSUME NEW v \in Update, NEW k \in 1 .. Len(out'[v])
          PROVE  Honest(Of[v], out'[v][k])
      BY <1>b, <2>1, <2>5 DEF Alone
    <3>4. TrueOrDegraded'
      BY <2>4, <3>3, HonestIs DEF TrueOrDegraded, Honest
    <3> QED
      BY <1>0, <3>2, <3>4 DEF HonestInv
(* One more record, from honest answers.  *)
  <2>6. ASSUME NEW parents, NEW host, Finishes(u, parents, host),
               pc[u] \in {"labels", "hostrpc"},
               parents \in {Parents!ErrorParents, ParentsOf(MeParent(u))},
               host \in {IF Kind[Of[u]] = "vm" THEN NameOf(The(u).host) ELSE "NONE", "NONE"}
        PROVE  HonestInv'
    <3> DEFINE s == SampleOf(u, parents, host)
    <3>1. Honest(Of[u], s)
      BY <1>0, <2>6, SampleHonest
    <3>2. out'[u] = Append(out[u], s) /\ pc'[u] \notin {"labels", "host", "hostrpc"}
      BY <2>6 DEF Finishes, Advances
    <3> HIDE DEF s
    <3>3. ASSUME NEW k \in 1 .. Len(out'[u]) PROVE Honest(Of[u], out'[u][k])
      <4>1. out[u] \in Seq(Sample)
        BY <1>a
      <4>2. CASE k \in 1 .. Len(out[u])
        BY <1>b, <3>2, <4>1, <4>2
      <4>3. CASE k \notin 1 .. Len(out[u])
        <5>1. k = Len(out[u]) + 1
          BY <3>2, <4>1, <4>3
        <5>2. out'[u][k] = s
          BY <3>2, <4>1, <5>1
        <5> QED
          BY <3>1, <5>2
      <4> QED
        BY <4>2, <4>3
    <3> QED
      BY <2>5, <3>2, <3>3
  <2>7. CASE Aside(u) \/ Opens(u) \/ Enters(u) \/ PoolAnswer(u) \/ Climbs(u)
    <3>1. out'[u] = out[u]
      BY <2>7 DEF Aside, Opens, Enters, PoolAnswer, Climbs
    <3>2. pc'[u] \notin {"labels", "host", "hostrpc"}
      <4>1. CASE Aside(u)
        BY <1>a, <4>1 DEF Aside, Early, Late
      <4>2. CASE Enters(u)
        <5>1. Advances(u, 1)
          BY <1>0, <1>a, <4>2, NextItemAdvances DEF Enters, UpdateInv
        <5> QED
          BY <5>1 DEF Advances
      <4>3. CASE Opens(u) \/ PoolAnswer(u) \/ Climbs(u)
        BY <1>a, <4>3 DEF Opens, PoolAnswer, Climbs, Go
      <4> QED
        BY <2>7, <4>1, <4>2, <4>3
    <3> QED
      BY <1>b, <2>5, <3>1, <3>2
  <2>8. CASE Passes(u)
    <3>1. /\ out'[u] = out[u] /\ label'[u] = label[u]
          /\ pc'[u] \in {"labels", "host", "hostrpc"} => pc[u] \in {"labels", "host", "hostrpc"}
      BY <1>a, <2>8 DEF Passes, cacheVars
    <3>2. MeParent(u)' = MeParent(u)
      BY <2>2, <2>8 DEF Passes, MeParent, The
    <3> QED
      BY <1>b, <1>c, <2>5, <3>1, <3>2
  <2>9. CASE Answers(u) \/ Arrives(u)
    <3>1. /\ label'[u] \in {Parents!ErrorParents, ParentsOf(MeParent(u))}
          /\ UNCHANGED <<item, pool, out>>
      BY <1>0, <2>9, AnswerTrue DEF Answers, Arrives
    <3>2. MeParent(u)' = MeParent(u)
      BY <2>2, <3>1 DEF MeParent, The
    <3> QED
      BY <1>b, <2>5, <3>1, <3>2
  <2>10. CASE HostAnswer(u)
    <3>1. PICK host \in Name \cup {"NONE"} :
              /\ Finishes(u, label[u], host)
              /\ \/ /\ The(u).host # NoRef /\ Answered(held[u])
                    /\ host = inventory[The(u).host].name
                 \/ /\ The(u).host = NoRef \/ Refused(held[u])
                    /\ host = "NONE"
      BY <1>0, <2>10, HostFinishes
    <3>2. pc[u] = "hostrpc" /\ Kind[Of[u]] = "vm"
      BY <1>0, <2>10 DEF HostAnswer, UpdateInv, ItemAt
    <3>3. host \in {NameOf(The(u).host), "NONE"}
      BY <3>1 DEF NameOf
    <3> QED
      BY <1>c, <2>6, <3>1, <3>2, <3>3
  <2>11. CASE Labels(u)
    <3>1. Finishes(u, label[u], "NONE") /\ pc[u] = "labels"
      BY <1>0, <2>11, LabelsFinishes DEF Labels
    <3> QED
      BY <1>c, <2>6, <3>1
  <2> QED
    BY <1>0, <1>1, <2>7, <2>8, <2>9, <2>10, <2>11, LoopSteps, LookupSteps DEF UpdateInv
<1>2. CASE UNCHANGED vars
  <2>1. UNCHANGED <<pc, label, out, item, pool, history>>
    BY <1>2 DEF vars, cacheVars
  <2>2. LabelHeld'
    BY <2>1 DEF HonestInv, LabelHeld, ParentsOf, MeParent, The, inventory
  <2>3. TrueOrDegraded'
    <3>1. inventory' = inventory /\ out' = out
      BY <2>1 DEF inventory
    <3>2. \A c, sample : Honest(c, sample)' <=> Honest(c, sample)
      BY <3>1 DEF Honest, Exact, ParentsOf, NameOf
    <3>3. ASSUME NEW v \in Update, NEW k \in 1 .. Len(out'[v])
          PROVE  Honest(Of[v], out'[v][k])
      BY <1>b, <3>1
    <3> QED
      BY <3>2, <3>3, HonestIs DEF TrueOrDegraded, Honest
  <2> QED
    BY <1>0, <2>2, <2>3 DEF HonestInv
<1> QED
  BY <1>1, <1>2 DEF Next, Stopped

(* However Updates overlap and whatever is refused, a sample carries its   *)
(* own item's labels, each exact or the documented stand-in.               *)
THEOREM LabelsTrueOrDegraded == Spec => []TrueOrDegraded
<1>1. Init => HonestInv
  BY UpdateInit DEF Init, HonestInv, LabelHeld, TrueOrDegraded
<1>2. HonestInv => TrueOrDegraded
  BY DEF HonestInv
<1> QED
  BY <1>1, <1>2, HonestStep, PTL DEF Spec

-----------------------------------------------------------------------------
(***************************************************************************)
(* What an Update reports when no request fails and no other Update of its *)
(* object runs.  Its session stays open, so that every answer it waits for *)
(* comes: the pool in hand is the item's own, and its parents are still    *)
(* the reference ones when the labels are made.                            *)
(***************************************************************************)
PoolRead(u) ==
    pc[u] \in {"parents", "lookup", "walk", "labels", "host", "hostrpc"} =>
        pool[u] = IF Kind[Of[u]] = "vm" THEN The(u).pool ELSE NoRef

ParentsRead(u) ==
    pc[u] \in {"labels", "host", "hostrpc"} => label[u] = ParentsOf(MeParent(u))

SentExact(u) ==
    \A k \in 1 .. Len(out[u]) : out[u][k] = Exact(Of[u], out[u][k].item)

AllRead == ~ faults => \A u \in Update : PoolRead(u) /\ ParentsRead(u) /\ SentExact(u)

ExactInv == UpdateInv /\ SerialInv /\ AllRead

(* Nothing is refused.  *)
LEMMA NoneRefused ==
    ASSUME SerialInv, ~ faults, NEW u \in Update, pc[u] \in Inside
    PROVE  ~ Refused(held[u])
BY InsideConnected DEF SerialInv, OwnSession, Refused

(* A record is exact when its pool is and its other answers are.  *)
LEMMA SampleExact ==
    ASSUME UpdateInv, NEW u \in Update, PoolRead(u),
           pc[u] \in {"labels", "hostrpc"}
    PROVE  SampleOf(u, ParentsOf(MeParent(u)),
                    IF Kind[Of[u]] = "vm" THEN NameOf(The(u).host) ELSE "NONE")
             = Exact(Of[u], item[u])
<1>1. pool[u] = IF Kind[Of[u]] = "vm" THEN The(u).pool ELSE NoRef
  BY DEF PoolRead
<1>2. CASE Kind[Of[u]] = "vm"
  BY <1>1, <1>2 DEF SampleOf, Exact, MeParent, NameOf, The
<1>3. CASE Kind[Of[u]] # "vm"
  BY <1>1, <1>3 DEF SampleOf, Exact, MeParent, NameOf, The
<1> QED
  BY <1>2, <1>3

(* Every answer comes, under a session nobody else closes, and is the      *)
(* reference one.                                                          *)
LEMMA ExactStep == Serial /\ ExactInv /\ [Next]_vars => ExactInv'
<1> SUFFICES ASSUME Serial, ExactInv, [Next]_vars PROVE ExactInv'
  OBVIOUS
<1>0. UpdateInv /\ SerialInv /\ UpdateInv' /\ SerialInv'
  BY UpdateStep, SerialStep DEF ExactInv
<1>a. /\ pc \in [Update -> Places] /\ out \in [Update -> Seq(Sample)]
      /\ pool \in [Update -> Mor \cup {NoRef}]
  BY <1>0 DEF UpdateInv, Kinds
<1>1. ASSUME NEW u \in Update, Begin(u) \/ Step(u) PROVE ExactInv'
  <2>1. Alone(u) /\ faults' = faults
    BY <1>0, <1>1, StepAlone, StepEffect DEF UpdateInv, InsideEffect, EdgeEffect
  <2>2. inventory' = inventory
    BY <2>1 DEF Alone
  <2>3. \A ref : ParentsOf(ref)' = ParentsOf(ref)
    BY <2>2 DEF ParentsOf
  <2>4. \A c, i : Exact(c, i)' = Exact(c, i)
    BY <2>2 DEF Exact, ParentsOf, NameOf
  <2>5. SUFFICES ASSUME ~ faults PROVE \A v \in Update : PoolRead(v)' /\ ParentsRead(v)' /\ SentExact(v)'
    BY <1>0, <2>1 DEF ExactInv, AllRead
  <2>6. \A v \in Update : PoolRead(v) /\ ParentsRead(v) /\ SentExact(v)
    BY <2>5 DEF ExactInv, AllRead
  <2>7. ASSUME NEW v \in Update \ {u} PROVE PoolRead(v)' /\ ParentsRead(v)' /\ SentExact(v)'
    <3>1. /\ pc'[v] = pc[v] /\ pool'[v] = pool[v] /\ label'[v] = label[v] /\ out'[v] = out[v]
          /\ The(v)' = The(v) /\ MeParent(v)' = MeParent(v)
      BY <2>1 DEF Alone, The, MeParent
    <3>2. PoolRead(v) /\ ParentsRead(v) /\ SentExact(v)
      BY <2>6
    <3>3. PoolRead(v)'
      BY <3>1, <3>2 DEF PoolRead
    <3>4. ParentsOf(MeParent(v))' = ParentsOf(MeParent(v))
      BY <2>2, <3>1 DEF ParentsOf
    <3>5. ParentsRead(v)'
      BY <3>1, <3>2, <3>4 DEF ParentsRead
    <3>6. SentExact(v)'
      BY <2>4, <3>1, <3>2 DEF SentExact
    <3> QED
      BY <3>3, <3>5, <3>6
(* What remains to be shown of the one Update that moves, without          *)
(* another record sent ...                                                 *)
  <2>8. ASSUME out'[u] = out[u], PoolRead(u)', ParentsRead(u)'
        PROVE  \A v \in Update : PoolRead(v)' /\ ParentsRead(v)' /\ SentExact(v)'
    <3>1. SentExact(u)'
      BY <2>4, <2>6, <2>8 DEF SentExact
    <3> QED
      BY <2>7, <2>8, <3>1
(* ... and with one.  *)
  <2>9. ASSUME NEW parents, NEW host, Finishes(u, parents, host),
               pc[u] \in {"labels", "hostrpc"},
               parents = ParentsOf(MeParent(u)),
               host = IF Kind[Of[u]] = "vm" THEN NameOf(The(u).host) ELSE "NONE"
        PROVE  \A v \in Update : PoolRead(v)' /\ ParentsRead(v)' /\ SentExact(v)'
    <3> DEFINE s == SampleOf(u, parents, host)
    <3>1. s = Exact(Of[u], item[u])
      BY <1>0, <2>6, <2>9, SampleExact
    <3>2. s.item = item[u]
      BY DEF SampleOf
    <3>3. out'[u] = Append(out[u], s) /\ pc'[u] \in {"logout", "pool", "parents"}
          /\ (Kind[Of[u]] = "vm" => pc'[u] # "parents")
      BY <2>9 DEF Finishes, Advances
    <3>4. Kind[Of[u]] # "vm" => pool'[u] = NoRef
      BY <1>0 DEF UpdateInv, ItemAt
    <3> HIDE DEF s
    <3>5. ASSUME NEW k \in 1 .. Len(out'[u])
          PROVE  out'[u][k] = Exact(Of[u], out'[u][k].item)
      <4>1. out[u] \in Seq(Sample)
        BY <1>a
      <4>2. CASE k \in 1 .. Len(out[u])
        BY <2>6, <3>3, <4>1, <4>2 DEF SentExact
      <4>3. CASE k \notin 1 .. Len(out[u])
        <5>1. k = Len(out[u]) + 1
          BY <3>3, <4>1, <4>3
        <5>2. out'[u][k] = s
          BY <3>3, <4>1, <5>1
        <5> QED
          BY <3>1, <3>2, <5>2
      <4> QED
        BY <4>2, <4>3
    <3>6. SentExact(u)'
      BY <2>4, <3>5 DEF SentExact
    <3>7. PoolRead(u)' /\ ParentsRead(u)'
      BY <3>3, <3>4 DEF PoolRead, ParentsRead
    <3> QED
      BY <2>7, <3>6, <3>7
  <2>10. CASE Aside(u) \/ Opens(u)
    <3>1. out'[u] = out[u] /\ pc'[u] \in Early \cup Late
      BY <1>a, <2>10 DEF Aside, Opens, Early
    <3>2. PoolRead(u)' /\ ParentsRead(u)'
      BY <3>1 DEF PoolRead, ParentsRead, Early, Late
    <3> QED
      BY <2>8, <3>1, <3>2
  <2>11. CASE Enters(u)
    <3>1. out'[u] = out[u] /\ Advances(u, 1)
      BY <1>0, <1>a, <2>11, NextItemAdvances DEF Enters, UpdateInv
    <3>2. pc'[u] \in {"logout", "pool", "parents"} /\ (Kind[Of[u]] = "vm" => pc'[u] # "parents")
      BY <3>1 DEF Advances
    <3>3. Kind[Of[u]] # "vm" => pool'[u] = NoRef
      BY <1>0 DEF UpdateInv, ItemAt
    <3>4. PoolRead(u)' /\ ParentsRead(u)'
      BY <3>2, <3>3 DEF PoolRead, ParentsRead
    <3> QED
      BY <2>8, <3>1, <3>4
  <2>12. CASE Passes(u)
    <3>1. /\ out'[u] = out[u] /\ label'[u] = label[u] /\ pool'[u] = pool[u]
          /\ The(u)' = The(u) /\ MeParent(u)' = MeParent(u)
      BY <2>2, <2>12 DEF Passes, cacheVars, The, MeParent
    <3>2. \/ pc[u] = "pool"    /\ pc'[u] = "poolrpc"
          \/ pc[u] = "parents" /\ pc'[u] = "lookup"
          \/ pc[u] = "host"    /\ pc'[u] = "hostrpc"
      BY <1>a, <2>12 DEF Passes
    <3>3. PoolRead(u)'
      BY <2>6, <3>1, <3>2 DEF PoolRead
    <3>4. ParentsOf(MeParent(u))' = ParentsOf(MeParent(u))
      BY <2>2, <3>1 DEF ParentsOf
    <3>5. ParentsRead(u)'
      BY <2>6, <3>1, <3>2, <3>4 DEF ParentsRead
    <3> QED
      BY <2>8, <3>1, <3>3, <3>5
  <2>13. CASE PoolAnswer(u)
    <3>1. pc[u] = "poolrpc" /\ pc[u] \in Inside /\ UNCHANGED <<item, out>>
      BY <2>13 DEF PoolAnswer, Inside
    <3>2. pc'[u] = "parents"
      BY <1>a, <2>13 DEF PoolAnswer, Go
    <3>3. ~ Refused(held[u]) /\ Kind[Of[u]] = "vm"
      BY <1>0, <2>5, <3>1, NoneRefused DEF UpdateInv, ItemAt
    <3>4. pool'[u] = The(u).pool
      BY <1>a, <2>13, <3>3 DEF PoolAnswer
    <3>5. The(u)' = The(u)
      BY <3>1 DEF The
    <3>6. PoolRead(u)' /\ ParentsRead(u)'
      BY <3>2, <3>3, <3>4, <3>5 DEF PoolRead, ParentsRead
    <3> QED
      BY <2>8, <3>1, <3>6
  <2>14. CASE Climbs(u)
    <3>1. /\ out'[u] = out[u] /\ pool'[u] = pool[u] /\ The(u)' = The(u)
      BY <2>14 DEF Climbs, The
    <3>2. pc[u] \in {"lookup", "walk"} /\ pc'[u] = "walk"
      BY <1>a, <2>14 DEF Climbs
    <3>3. PoolRead(u)' /\ ParentsRead(u)'
      BY <2>6, <3>1, <3>2 DEF PoolRead, ParentsRead
    <3> QED
      BY <2>8, <3>1, <3>3
  <2>15. CASE Answers(u) \/ Arrives(u)
    <3>1. /\ pc[u] \in {"lookup", "walk"} /\ pc[u] \in Inside /\ Returned(u)
          /\ UNCHANGED <<item, pool, out>>
      BY <2>15 DEF Answers, Arrives, Inside
    <3>2. label'[u] = ParentsOf(MeParent(u))
      BY <1>0, <2>5, <2>15, <3>1, AnswerTrue, NoneRefused
    <3>3. The(u)' = The(u) /\ MeParent(u)' = MeParent(u)
      BY <2>2, <3>1 DEF The, MeParent
    <3>4. PoolRead(u)'
      BY <2>6, <3>1, <3>3 DEF PoolRead
    <3>5. ParentsOf(MeParent(u))' = ParentsOf(MeParent(u))
      BY <2>2, <3>3 DEF ParentsOf
    <3>6. ParentsRead(u)'
      BY <3>2, <3>5 DEF ParentsRead
    <3> QED
      BY <2>8, <3>1, <3>4, <3>6
  <2>16. CASE HostAnswer(u)
    <3>1. PICK host \in Name \cup {"NONE"} :
              /\ Finishes(u, label[u], host)
              /\ \/ /\ The(u).host # NoRef /\ Answered(held[u])
                    /\ host = inventory[The(u).host].name
                 \/ /\ The(u).host = NoRef \/ Refused(held[u])
                    /\ host = "NONE"
      BY <1>0, <2>16, HostFinishes
    <3>2. pc[u] = "hostrpc" /\ pc[u] \in Inside /\ Kind[Of[u]] = "vm"
      BY <1>0, <2>16 DEF HostAnswer, UpdateInv, ItemAt, Inside
    <3>3. host = NameOf(The(u).host) /\ label[u] = ParentsOf(MeParent(u))
      BY <1>0, <2>5, <2>6, <3>1, <3>2, NoneRefused DEF NameOf, ParentsRead
    <3> QED
      BY <2>9, <3>1, <3>2, <3>3
  <2>17. CASE Labels(u)
    <3>1. Finishes(u, label[u], "NONE") /\ pc[u] = "labels"
      BY <1>0, <2>17, LabelsFinishes DEF Labels
    <3>2. Kind[Of[u]] # "vm" /\ label[u] = ParentsOf(MeParent(u))
      BY <1>0, <2>6, <3>1 DEF UpdateInv, ItemAt, ParentsRead
    <3> QED
      BY <2>9, <3>1, <3>2
  <2> QED
    BY <1>0, <1>1, <2>10, <2>11, <2>12, <2>13, <2>14, <2>15, <2>16, <2>17, LoopSteps, LookupSteps
    DEF UpdateInv
<1>2. CASE UNCHANGED vars
  <2>1. UNCHANGED <<pc, label, out, item, pool, history, faults>>
    BY <1>2 DEF vars, cacheVars
  <2>2. inventory' = inventory
    BY <2>1 DEF inventory
  <2>3. \A u \in Update : PoolRead(u)' = PoolRead(u)
    BY <2>1 DEF PoolRead, The
  <2>4. \A u \in Update : ParentsRead(u)' = ParentsRead(u)
    BY <2>1, <2>2 DEF ParentsRead, ParentsOf, MeParent, The
  <2>5. \A c, i : Exact(c, i)' = Exact(c, i)
    BY <2>2 DEF Exact, ParentsOf, NameOf
  <2>6. \A u \in Update : SentExact(u) => SentExact(u)'
    BY <2>1, <2>5 DEF SentExact
  <2> QED
    BY <1>0, <2>1, <2>3, <2>4, <2>6 DEF ExactInv, AllRead
<1> QED
  BY <1>1, <1>2 DEF Next, Stopped

(* When Updates of one object do not overlap and no request fails by       *)
(* itself, every sample of every Update carries the reference labels of    *)
(* its item, however Updates of other collectors flush the cache meanwhile.*)
THEOREM SerialSuccessIsExact == Serial => (Spec => []SuccessIsExact)
<1> SUFFICES ASSUME Serial PROVE Spec => []SuccessIsExact
  OBVIOUS
<1>1. Init => ExactInv
  <2> SUFFICES ASSUME Init PROVE ExactInv
    OBVIOUS
  <2>1. UpdateInv /\ SerialInv
    BY UpdateInit, SerialInit
  <2>2. \A u \in Update : pc[u] = "new" /\ out[u] = <<>>
    BY DEF Init
  <2> QED
    BY <2>1, <2>2 DEF ExactInv, AllRead, PoolRead, ParentsRead, SentExact
<1>2. ExactInv => SuccessIsExact
  BY DEF ExactInv, AllRead, SentExact, SuccessIsExact
<1>3. ExactInv /\ [Next]_vars => ExactInv'
  BY ExactStep
<1> QED
  BY <1>1, <1>2, <1>3, PTL DEF Spec

-----------------------------------------------------------------------------
(***************************************************************************)
(* Which items an Update has sent: none before its loop, in the loop those *)
(* before the one at hand that it does not skip, and after the loop, if no *)
(* error ended it, all of them; each once, in the order of the view.       *)
(***************************************************************************)
Sent(u) == {out[u][k].item : k \in 1 .. Len(out[u])}

ToReport(u) == {i \in 1 .. Len(Items[Of[u]]) : Reported(Of[u], i)}

Before(u, i) == {j \in ToReport(u) : j < i}

Ordered(u) == \A j, k \in 1 .. Len(out[u]) : j < k => out[u][j].item < out[u][k].item

SentSoFar(u) ==
    /\ Ordered(u)
    /\ pc[u] \in Early => out[u] = <<>>
    /\ pc[u] \in Loop => Sent(u) = Before(u, item[u])
    /\ pc[u] \in Late /\ fate[u] = "ok" => Sent(u) = ToReport(u)

ItemsInv == UpdateInv /\ \A u \in Update : SentSoFar(u)

(* What is sent once the loop has gone on from all items before i.  *)
LEMMA AdvancesSent ==
    ASSUME NEW u \in Update, NEW i \in Nat, i >= 1, Advances(u, i),
           Sent(u)' = Before(u, i), Ordered(u)'
    PROVE  SentSoFar(u)'
<1>1. ToReport(u)' = ToReport(u) /\ \A j : Before(u, j)' = Before(u, j)
  BY DEF ToReport, Before, Reported
<1>2. CASE pc'[u] = "logout" /\ From(Of[u], i) = {}
  <2>1. Before(u, i) = ToReport(u)
    BY <1>2 DEF Before, ToReport, From
  <2> QED
    BY <1>1, <1>2, <2>1 DEF SentSoFar, Early, Loop
<1>3. CASE /\ pc'[u] \in {"pool", "parents"} /\ item'[u] \in From(Of[u], i)
           /\ \A k \in From(Of[u], i) : item'[u] <= k
  <2>1. Before(u, i) = Before(u, item'[u])
    BY <1>3 DEF Before, ToReport, From
  <2>2. Before(u, item[u])' = Before(u, item'[u])
    BY DEF ToReport, Before, Reported
  <2> QED
    BY <1>3, <2>1, <2>2 DEF SentSoFar, Early, Late
<1> QED
  BY <1>2, <1>3 DEF Advances

(* One record more, of the item at hand, and on.  *)
LEMMA FinishesSent ==
    ASSUME ItemsInv, NEW u \in Update, pc[u] \in Loop, NEW parents, NEW host,
           Finishes(u, parents, host)
    PROVE  SentSoFar(u)'
<1> DEFINE s == SampleOf(u, parents, host)
<1>1. out[u] \in Seq(Sample) /\ item[u] \in ToReport(u) /\ item[u] \in Nat
      /\ Ordered(u) /\ Sent(u) = Before(u, item[u])
  BY DEF ItemsInv, UpdateInv, ItemAt, ToReport, SentSoFar
<1>2. s.item = item[u] /\ out'[u] = Append(out[u], s)
  BY DEF Finishes, SampleOf
<1> HIDE DEF s
<1>3. /\ Len(out'[u]) = Len(out[u]) + 1 /\ Len(out[u]) \in Nat
      /\ \A k \in 1 .. Len(out[u]) : out'[u][k] = out[u][k]
      /\ out'[u][Len(out[u]) + 1] = s
  BY <1>1, <1>2
<1>4. \A k \in 1 .. Len(out[u]) : out[u][k].item \in Sent(u)
  BY DEF Sent
<1>5. \A i \in Sent(u) : i \in Nat /\ i < item[u]
  BY <1>1 DEF Before, ToReport
<1>6. Sent(u)' = Sent(u) \cup {item[u]}
  BY <1>2, <1>3 DEF Sent
<1>7. Before(u, item[u]) \cup {item[u]} = Before(u, item[u] + 1)
  BY <1>1 DEF Before, ToReport
<1>8. Ordered(u)'
  <2> SUFFICES ASSUME NEW j \in 1 .. Len(out'[u]), NEW k \in 1 .. Len(out'[u]), j < k
               PROVE  out'[u][j].item < out'[u][k].item
    BY DEF Ordered
  <2>1. j \in 1 .. Len(out[u]) /\ out'[u][j] = out[u][j]
    BY <1>3
  <2>2. CASE k \in 1 .. Len(out[u])
    BY <1>1, <1>3, <2>1, <2>2 DEF Ordered
  <2>3. CASE k \notin 1 .. Len(out[u])
    <3>1. k = Len(out[u]) + 1
      BY <1>3, <2>3
    <3>2. out'[u][k].item = item[u]
      BY <1>2, <1>3, <3>1
    <3>3. out'[u][j].item < item[u]
      BY <1>4, <1>5, <2>1
    <3> QED
      BY <3>2, <3>3
  <2> QED
    BY <2>2, <2>3
<1>9. Sent(u)' = Before(u, item[u] + 1)
  BY <1>1, <1>6, <1>7
<1>10. Advances(u, item[u] + 1) /\ item[u] + 1 \in Nat /\ item[u] + 1 >= 1
  BY <1>1 DEF Finishes
<1> QED
  BY <1>8, <1>9, <1>10, AdvancesSent

(* The loop sends the item at hand and goes on to the next one it reports. *)
LEMMA ItemsStep == ItemsInv /\ [Next]_vars => ItemsInv'
<1> SUFFICES ASSUME ItemsInv, [Next]_vars PROVE ItemsInv'
  OBVIOUS
<1>0. UpdateInv /\ UpdateInv' /\ \A v \in Update : SentSoFar(v)
  BY UpdateStep DEF ItemsInv
<1>a. /\ pc \in [Update -> Places] /\ out \in [Update -> Seq(Sample)]
      /\ item \in [Update -> Nat]
  BY <1>0 DEF UpdateInv, Kinds
<1>b. /\ Early \cap Loop = {} /\ Early \cap Late = {} /\ Loop \cap Late = {}
  BY DEF Early, Loop, Late
(* Of an Update whose sent records, item and kind of place stay.  *)
<1>c. ASSUME NEW v \in Update, out'[v] = out[v], item'[v] = item[v],
             pc'[v] \in Early => pc[v] \in Early,
             pc'[v] \in Loop => pc[v] \in Loop,
             pc'[v] \in Late /\ fate'[v] = "ok" => pc[v] \in Late /\ fate[v] = "ok"
      PROVE  SentSoFar(v)'
  <2>1. /\ Sent(v)' = Sent(v) /\ Ordered(v)' = Ordered(v)
        /\ ToReport(v)' = ToReport(v) /\ Before(v, item[v])' = Before(v, item[v])
    BY <1>c DEF Sent, Ordered, ToReport, Before, Reported
  <2> QED
    BY <1>0, <1>c, <2>1 DEF SentSoFar
<1>1. ASSUME NEW u \in Update, Begin(u) \/ Step(u) PROVE ItemsInv'
  <2>1. Alone(u)
    BY <1>0, <1>1, StepAlone
  <2>2. ASSUME SentSoFar(u)' PROVE ItemsInv'
    <3>1. ASSUME NEW v \in Update \ {u} PROVE SentSoFar(v)'
      BY <1>c, <2>1 DEF Alone
    <3> QED
      BY <1>0, <2>2, <3>1 DEF ItemsInv
  <2>3. CASE Aside(u)
    <3>1. /\ pc'[u] \in Early \cup Late
          /\ pc'[u] \in Early => pc[u] \in Early
          /\ pc'[u] \in Late /\ fate'[u] = "ok" => pc[u] \in Late /\ fate[u] = "ok"
          /\ UNCHANGED <<item, out>>
      BY <1>a, <2>3 DEF Aside
    <3> QED
      BY <1>b, <1>c, <2>2, <3>1
  <2>4. CASE Opens(u)
    <3>1. pc[u] \in Early /\ pc'[u] \in Early /\ UNCHANGED <<item, out>>
      BY <1>a, <2>4 DEF Opens, Early
    <3> QED
      BY <1>b, <1>c, <2>2, <3>1
  <2>5. CASE Passes(u) \/ PoolAnswer(u) \/ Climbs(u)
    <3>1. /\ pc[u] \in Loop /\ pc'[u] \in Loop /\ UNCHANGED <<item, out>>
      BY <1>a, <2>5 DEF Passes, PoolAnswer, Climbs, Go, Loop
    <3> QED
      BY <1>b, <1>c, <2>2, <3>1
  <2>6. CASE Enters(u)
    <3>1. out'[u] = <<>> /\ Advances(u, 1)
      BY <1>0, <1>a, <2>6, NextItemAdvances DEF Enters, SentSoFar, Early
    <3>2. Sent(u)' = {} /\ Ordered(u)'
      BY <3>1 DEF Sent, Ordered
    <3>3. Before(u, 1) = {}
      BY DEF Before, ToReport
    <3>4. Sent(u)' = Before(u, 1) /\ 1 \in Nat /\ 1 >= 1
      BY <3>2, <3>3
    <3>5. SentSoFar(u)'
      BY <3>1, <3>2, <3>4, AdvancesSent
    <3> QED
      BY <2>2, <3>5
  <2>7. CASE Answers(u) \/ Arrives(u)
    <3>1. pc[u] \in Loop /\ Returned(u) /\ UNCHANGED <<item, out>>
      BY <2>7 DEF Answers, Arrives, Loop
    <3>2. pc'[u] \in Loop
      BY <1>a, <3>1, ReturnedThen DEF Loop
    <3> QED
      BY <1>b, <1>c, <2>2, <3>1, <3>2
  <2>8. CASE HostAnswer(u)
    <3>1. PICK host \in Name \cup {"NONE"} : Finishes(u, label[u], host)
      BY <1>0, <2>8, HostFinishes
    <3>2. pc[u] \in Loop
      BY <2>8 DEF HostAnswer, Loop
    <3> QED
      BY <2>2, <3>1, <3>2, FinishesSent
  <2>9. CASE Labels(u)
    <3>1. Finishes(u, label[u], "NONE") /\ pc[u] \in Loop
      BY <1>0, <2>9, LabelsFinishes DEF Labels, Loop
    <3> QED
      BY <2>2, <3>1, FinishesSent
  <2> QED
    BY <1>0, <1>1, <2>3, <2>4, <2>5, <2>6, <2>7, <2>8, <2>9, LoopSteps, LookupSteps DEF UpdateInv
<1>2. CASE UNCHANGED vars
  <2>1. UNCHANGED <<pc, out, item, fate>>
    BY <1>2 DEF vars
  <2>2. \A u \in Update : SentSoFar(u)'
    BY <1>c, <2>1
  <2> QED
    BY <1>0, <2>2 DEF ItemsInv
<1> QED
  BY <1>1, <1>2 DEF Next, Stopped

(* An Update that ends without an error has sent every item of its view    *)
(* that it does not skip, once and in order, whatever others did meanwhile.*)
THEOREM ItemsAllSent == Spec => []AllItems
<1>1. Init => ItemsInv
  <2> SUFFICES ASSUME Init PROVE ItemsInv
    OBVIOUS
  <2>1. \A u \in Update : pc[u] = "new" /\ out[u] = <<>>
    BY DEF Init
  <2> QED
    BY UpdateInit, <2>1 DEF ItemsInv, SentSoFar, Ordered, Loop, Late
<1>2. ItemsInv => AllItems
  BY DEF ItemsInv, SentSoFar, AllItems, Sent, ToReport, Ordered, Late
<1> QED
  BY <1>1, <1>2, ItemsStep, PTL DEF Spec

-----------------------------------------------------------------------------
(***************************************************************************)
(* The cache of all Updates, as the system ParentsCache specifies.         *)
(***************************************************************************)
LEMMA ParentsStep ==
    UpdateInv /\ [Next]_vars => [Parents!Next]_(Parents!cacheVars)
<1> SUFFICES ASSUME UpdateInv, [Next]_vars PROVE [Parents!Next]_(Parents!cacheVars)
  OBVIOUS
<1>1. ASSUME NEW u \in Update, Begin(u) \/ Step(u)
      PROVE  [Parents!Next]_(Parents!cacheVars)
  <2>1. CASE UNCHANGED cacheVars
    BY <2>1 DEF cacheVars, Parents!cacheVars
  <2>2. CASE Proved!Flush(u)
    BY <2>2, SameCacheSteps DEF Parents!Next
  <2>3. CASE Proved!Lookup(u)
    <3>1. Parents!Lookup(u)
      BY <2>3, SameCacheSteps DEF Parents!Lookup, Proved!Lookup
    <3> QED
      BY <3>1 DEF Parents!Next
  <2>4. CASE Proved!Step(u)
    <3>1. Parents!Step(u)
      BY <2>4, SameCacheSteps DEF Parents!Step, Proved!Step
    <3> QED
      BY <3>1 DEF Parents!Next
  <2> QED
    BY <1>1, <2>1, <2>2, <2>3, <2>4, UpdateMovesCache DEF CacheMoves
<1>2. CASE UNCHANGED vars
  BY <1>2 DEF vars, cacheVars, Parents!cacheVars
<1> QED
  BY <1>1, <1>2 DEF Next, Stopped

(* However Updates overlap and whatever is refused, what they do to the    *)
(* cache is a behaviour of ParentsCache.                                   *)
THEOREM CacheAsSpecified == Spec => CacheSpec
<1>1. Init => Parents!Init
  BY DEF Init
<1> QED
  BY <1>1, UpdateInit, UpdateStep, ParentsStep, PTL DEF Spec, CacheSpec, Parents!Spec
=============================================================================

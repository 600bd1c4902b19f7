------------------------- MODULE VcCollectorProofs --------------------------
(***************************************************************************)
(* Proofs about VcCollector for any number of collector objects, Updates   *)
(* and items: when Updates of one object do not overlap, no Update goes    *)
(* through a nil client, each works under its own session, and the         *)
(* sessions are used as UpdateSession promises.                            *)
(***************************************************************************)
EXTENDS VcCollector, TLAPS

USE DEF world, server, locals, At

(* Where an Update is between a successful apiConnect and its return.      *)
Inside == {"manager", "root", "view", "retrieve", "destroy", "pool", "poolrpc",
           "parents", "lookup", "walk", "labels", "host", "hostrpc", "logout", "logoutrpc"}

Places == Inside \cup {"new", "connect", "assign", "done"}

Kinds ==
    /\ pc \in [Update -> Places]
    /\ fate \in [Update -> {"ok", "failed", "panic", "odd"}]
    /\ client \in [Collector -> Client]
    /\ held \in [Update -> Client]
    /\ session \in [Update -> {"none", "open", "closed"}]
    /\ lost \in [Update -> BOOLEAN]
    /\ faults \in BOOLEAN

(* At most one Update of an object runs.  *)
Exclusive ==
    \A u, v \in Update : u # v /\ Of[u] = Of[v] => ~ (Active(u) /\ Active(v))

(* What apiConnect knows before it assigns the field.  *)
Dialled ==
    \A u \in Update :
        /\ pc[u] \in {"new", "connect"} => session[u] = "none"
        /\ pc[u] = "assign" => /\ held[u] \in {u, NoClient}
                               /\ held[u] = u => session[u] = "open"
                               /\ session[u] = "open" => held[u] = u \/ lost[u]

(* Inductive when Serial holds.  OwnSession is what keeps c.client from    *)
(* being nil at every later use.                                           *)
SerialInv ==
    /\ Kinds
    /\ NilClientUnused
    /\ \A u \in Update : fate[u] # "panic"
    /\ Exclusive
    /\ Dialled
    /\ OwnSession
    /\ SessionsClosed

LEMMA InsideConnected ==
    ASSUME Kinds, NEW u \in Update
    PROVE  /\ Connected(u) <=> pc[u] \in Inside
           /\ Active(u) <=> pc[u] \in Inside \cup {"connect", "assign"}
BY DEF Kinds, Connected, Active, Inside, Places

LEMMA SerialInit == Init => SerialInv
BY CollectorAssumption
DEF Init, SerialInv, NilClientUnused, Kinds, Exclusive, Dialled, OwnSession, SessionsClosed,
    Connected, Active, Places, Client

(***************************************************************************)
(* A step inside Update that touches no field and no session but may read  *)
(* c.client again: it reads u's own client, and everything stays.          *)
(***************************************************************************)
LEMMA InsideStep ==
    ASSUME SerialInv, NEW u \in Update, pc[u] \in Inside,
           NEW p \in Inside, pc' = [pc EXCEPT ![u] = p],
           \E f \in {fate[u], "failed", "odd"} : fate' = [fate EXCEPT ![u] = f],
           alive, client' = client, session' = session,
           held' = held \/ held' = [held EXCEPT ![u] = Read(u)],
           lost' = lost \/ lost' = [lost EXCEPT ![u] = TRUE],
           alive' = alive, faults' = faults
    PROVE  SerialInv'
<1> USE DEF SerialInv, Kinds
<1>1. Read(u) = u
    BY InsideConnected DEF OwnSession, Read
<1>2. held' = held
  <2>1. held[u] = u
    BY InsideConnected DEF OwnSession
  <2>2. [held EXCEPT ![u] = u] = held
    BY <2>1
  <2> QED
    BY <1>1, <2>2
<1>3. \A v \in Update : v # u => pc'[v] = pc[v]
    OBVIOUS
<1>4. pc'[u] = p
    OBVIOUS
<1>11. Kinds'
  <2>1. pc' \in [Update -> Places]
    BY DEF Places
  <2>2. fate' \in [Update -> {"ok", "failed", "panic", "odd"}]
    OBVIOUS
  <2>3. lost' \in [Update -> BOOLEAN]
    OBVIOUS
  <2> QED
    BY <1>2, <2>1, <2>2, <2>3
<1>5. \A v \in Update : (Active(v)' <=> Active(v)) /\ (Connected(v)' <=> Connected(v))
    BY <1>3, <1>4 DEF Active, Connected, Inside
<1>6. Exclusive'
    BY <1>5 DEF Exclusive
<1>7. Dialled'
    BY <1>2, <1>3, <1>4 DEF Dialled, Inside
<1>8. OwnSession'
    BY <1>2, <1>5 DEF OwnSession
<1>9. SessionsClosed'
    BY <1>3, <1>4 DEF SessionsClosed, Inside
<1>10. \A v \in Update : fate'[v] # "panic"
    OBVIOUS
<1>12. NilClientUnused'
    BY DEF NilClientUnused
<1> QED
    BY <1>6, <1>7, <1>8, <1>9, <1>10, <1>11, <1>12

(* The loop goes on to another item or leaves for the logout.  *)
LEMMA NextItemGoes ==
    ASSUME NEW u, NEW i, NextItem(u, i)
    PROVE  \E p \in {"pool", "parents", "logout"} : pc' = [pc EXCEPT ![u] = p]
BY DEF NextItem, Go

(* getParents returns to the request for a VM's host or to the labels.     *)
LEMMA ReturnedGoes ==
    ASSUME NEW u, Returned(u)
    PROVE  \E p \in {"host", "labels"} : pc' = [pc EXCEPT ![u] = p]
BY DEF Returned, Go

-----------------------------------------------------------------------------
(* The operations that do no more than that.  *)
InsideActions(u) ==
    \/ Manager(u) \/ Root(u) \/ CreateView(u) \/ RetrieveItems(u)
    \/ DestroyView(u) \/ Pool(u) \/ PoolAnswer(u) \/ LookupParents(u)
    \/ Lookup(u) \/ Walk(u) \/ Labels(u) \/ Host(u) \/ HostAnswer(u)
    \/ OddItem(u) \/ Logout(u)

InsideEffect(u) ==
    /\ pc[u] \in Inside
    /\ \E p \in Inside : pc' = [pc EXCEPT ![u] = p]
    /\ \E f \in {fate[u], "failed", "odd"} : fate' = [fate EXCEPT ![u] = f]
    /\ held' = held \/ held' = [held EXCEPT ![u] = Read(u)]
    /\ lost' = lost \/ lost' = [lost EXCEPT ![u] = TRUE]
    /\ alive
    /\ UNCHANGED <<client, session, alive, faults>>

LEMMA InsideActionsEffect ==
    ASSUME Kinds, NEW u \in Update, InsideActions(u)
    PROVE  InsideEffect(u)
<1> USE DEF Inside, InsideEffect
<1>a. lost \in [Update -> BOOLEAN] /\ pc \in [Update -> Places] /\ faults \in BOOLEAN
      /\ (fate' = fate => fate' = [fate EXCEPT ![u] = fate[u]])
    BY DEF Kinds
<1>1. CASE Manager(u)
    BY <1>a, <1>1 DEF Manager, Use, Go
<1>2. CASE Root(u)
    BY <1>a, <1>2 DEF Root, Go
<1>3. CASE CreateView(u)
  <2>1. \/ pc' = [pc EXCEPT ![u] = "retrieve"]
        \/ pc' = [pc EXCEPT ![u] = "logout"]
    BY <1>3 DEF CreateView, Go
  <2>2. lost' = lost \/ lost' = [lost EXCEPT ![u] = TRUE]
    BY <1>3 DEF CreateView
  <2>3. fate' = fate \/ fate' = [fate EXCEPT ![u] = "failed"]
    BY <1>3 DEF CreateView, Fail
  <2>4. pc[u] = "view" /\ alive /\ UNCHANGED <<client, session, held, alive, faults>>
    BY <1>3 DEF CreateView
  <2> QED
    BY <1>a, <2>1, <2>2, <2>3, <2>4
<1>4. CASE RetrieveItems(u)
    BY <1>a, <1>4 DEF RetrieveItems, Go, Fail
<1>5. CASE DestroyView(u)
  <2>1. \E p \in {"pool", "parents", "logout"} : pc' = [pc EXCEPT ![u] = p]
    BY <1>5, NextItemGoes DEF DestroyView, Go
  <2>2. lost' = lost \/ lost' = [lost EXCEPT ![u] = TRUE]
  <3>1. lost' = lost \/ lost' = [lost EXCEPT ![u] = @ \/ faults]
    BY <1>5 DEF DestroyView
  <3>2. CASE faults = TRUE
    BY <3>1, <3>2
  <3>3. CASE faults = FALSE
    BY <3>1, <3>3, <1>a
  <3> QED
    BY <3>2, <3>3, <1>a
  <2>3. pc[u] = "destroy" /\ alive /\ UNCHANGED <<client, session, fate, held, alive, faults>>
    BY <1>5 DEF DestroyView
  <2> QED
    BY <1>a, <2>1, <2>2, <2>3
<1>6. CASE Pool(u)
    BY <1>a, <1>6 DEF Pool, Use, Go
<1>7. CASE PoolAnswer(u)
    BY <1>a, <1>7 DEF PoolAnswer, Go
<1>8. CASE LookupParents(u)
    BY <1>a, <1>8 DEF LookupParents, Use, Go
<1>9. CASE Lookup(u)
  <2>1. \E p \in {"host", "labels", "walk"} : pc' = [pc EXCEPT ![u] = p]
    BY <1>9, ReturnedGoes DEF Lookup, Go
  <2>2. pc[u] = "lookup" /\ alive /\ UNCHANGED <<client, session, lost, fate, held, alive, faults>>
    BY <1>9 DEF Lookup
  <2> QED
    BY <1>a, <2>1, <2>2
<1>10. CASE Walk(u)
  <2>1. \E p \in {"host", "labels", "walk"} : pc' = [pc EXCEPT ![u] = p]
    BY <1>10, <1>a, ReturnedGoes DEF Walk
  <2>2. pc[u] = "walk" /\ alive /\ UNCHANGED <<client, session, lost, fate, held, alive, faults>>
    BY <1>10 DEF Walk
  <2> QED
    BY <1>a, <2>1, <2>2
<1>11. CASE Host(u)
    BY <1>a, <1>11 DEF Host, Use, Go
<1>12. CASE HostAnswer(u)
  <2>1. \E p \in {"pool", "parents", "logout"} : pc' = [pc EXCEPT ![u] = p]
    BY <1>12, NextItemGoes DEF HostAnswer
  <2>2. pc[u] = "hostrpc" /\ alive /\ UNCHANGED <<client, session, lost, fate, held, alive, faults>>
    BY <1>12 DEF HostAnswer
  <2> QED
    BY <1>a, <2>1, <2>2
<1>13. CASE Logout(u)
    BY <1>a, <1>13 DEF Logout, Use, Go
<1>14. CASE Labels(u)
  <2>1. \E p \in {"pool", "parents", "logout"} : pc' = [pc EXCEPT ![u] = p]
    BY <1>14, NextItemGoes DEF Labels
  <2>2. pc[u] = "labels" /\ alive /\ UNCHANGED <<client, session, lost, fate, held, alive, faults>>
    BY <1>14 DEF Labels
  <2> QED
    BY <1>a, <2>1, <2>2
<1>15. CASE OddItem(u)
  <2>1. pc[u] \in {"parents", "labels", "hostrpc"} /\ alive
        /\ fate' = [fate EXCEPT ![u] = "odd"] /\ pc' = [pc EXCEPT ![u] = "logout"]
        /\ UNCHANGED <<client, session, lost, held, alive, faults>>
    BY <1>15 DEF OddItem, Go
  <2> QED
    BY <2>1
<1> QED
    BY <1>1, <1>2, <1>3, <1>4, <1>5, <1>6, <1>7, <1>8, <1>9, <1>10, <1>11, <1>12, <1>13,
       <1>14, <1>15
    DEF InsideActions

LEMMA InsideActionsInv ==
    ASSUME SerialInv, NEW u \in Update, InsideActions(u)
    PROVE  SerialInv'
BY InsideActionsEffect, InsideStep DEF SerialInv, InsideEffect

(* The other steps: the ends of Update, its login and its logout.  *)
LEMMA EdgeActions ==
    ASSUME SerialInv, Serial, NEW u \in Update,
           \/ Begin(u) \/ BadURL(u) \/ NilURL(u) \/ Login(u) \/ LoginFail(u)
           \/ Assign(u) \/ ReadNil(u) \/ LogoutNil(u) \/ LogoutAnswer(u)
    PROVE  SerialInv'
<1> USE DEF SerialInv, Kinds, Go
<1>0. u # NoClient /\ Of[u] \in Collector /\ u \in Client
    BY CollectorAssumption DEF Client
<1>a. \A v \in Update :
        /\ Connected(v) <=> pc[v] \in Inside
        /\ Active(v) <=> pc[v] \in Inside \cup {"connect", "assign"}
    BY InsideConnected
<1>b. pc[u] \in Inside => client[Of[u]] = u /\ held[u] = u /\ session[u] = "open"
    BY <1>a DEF OwnSession
<1> DEFINE Others == \A v \in Update \ {u} :
                        /\ pc'[v] = pc[v] /\ held'[v] = held[v]
                        /\ session'[v] = session[v] /\ lost'[v] = lost[v]
                        /\ fate'[v] = fate[v]
(* What remains to be shown once a step is known to touch u alone.  *)
<1>c. ASSUME Kinds', NilClientUnused', Others, fate'[u] # "panic",
             \A v \in Update \ {u} : Of[v] = Of[u] => ~ Active(v),
             \A c \in Collector : c # Of[u] => client'[c] = client[c],
             pc'[u] \in {"new", "connect"} => session'[u] = "none",
             pc'[u] = "assign" =>
                /\ held'[u] \in {u, NoClient}
                /\ held'[u] = u => session'[u] = "open"
                /\ session'[u] = "open" => held'[u] = u \/ lost'[u],
             pc'[u] \in Inside =>
                client'[Of[u]] = u /\ held'[u] = u /\ session'[u] = "open",
             pc'[u] = "done" => (session'[u] = "open" => lost'[u])
      PROVE  SerialInv'
  <2>1. \A v \in Update :
            /\ Connected(v)' <=> pc'[v] \in Inside
            /\ Active(v)' <=> pc'[v] \in Inside \cup {"connect", "assign"}
    BY <1>c DEF Connected, Active, Inside, Places
  <2>2. Exclusive'
    BY <1>a, <1>c, <2>1 DEF Exclusive
  <2>3. Dialled'
    BY <1>c DEF Dialled
  <2>4. OwnSession'
    <3> SUFFICES ASSUME NEW v \in Update, pc'[v] \in Inside
                 PROVE  client'[Of[v]] = v /\ held'[v] = v /\ session'[v] = "open"
      BY <2>1 DEF OwnSession
    <3>1. CASE v = u
      BY <1>c, <3>1
    <3>2. CASE v # u
      <4>1. pc[v] \in Inside /\ Of[v] # Of[u] /\ Of[v] \in Collector
        BY <1>a, <1>c, <3>2, CollectorAssumption
      <4> QED
        BY <1>a, <1>c, <3>2, <4>1 DEF OwnSession
    <3> QED
      BY <3>1, <3>2
  <2>5. SessionsClosed'
    BY <1>c DEF SessionsClosed
  <2>6. \A v \in Update : fate'[v] # "panic"
    BY <1>c
  <2> QED
    BY <1>c, <2>2, <2>3, <2>4, <2>5, <2>6
<1>d. pc[u] \in Inside \cup {"connect", "assign"} =>
        \A v \in Update \ {u} : Of[v] = Of[u] => ~ Active(v)
    BY <1>a DEF Exclusive
<1>e. alive' => NilClientUnused'
    BY DEF NilClientUnused
<1>1. CASE Begin(u)
  <2>1. \A v \in Update \ {u} : Of[v] = Of[u] => ~ Active(v)
    BY <1>1 DEF Begin
  <2>2. pc' = [pc EXCEPT ![u] = "connect"] /\ pc[u] = "new"
        /\ alive /\ UNCHANGED <<session, lost, fate, held, client, alive, faults>>
    BY <1>1 DEF Begin
  <2>3. session[u] = "none"
    BY <2>2 DEF Dialled
  <2>4. Kinds'
    BY <2>2 DEF Places
  <2> QED
    BY <1>c, <1>e, <2>1, <2>2, <2>3, <2>4 DEF Inside
<1>2. CASE BadURL(u)
  <2>1. pc' = [pc EXCEPT ![u] = "done"] /\ fate' = [fate EXCEPT ![u] = "failed"]
        /\ pc[u] = "connect" /\ alive
        /\ UNCHANGED <<session, lost, held, client, alive, faults>>
    BY <1>2 DEF BadURL
  <2>2. session[u] = "none"
    BY <2>1 DEF Dialled
  <2>3. Kinds'
    BY <2>1 DEF Places
  <2> QED
    BY <1>c, <1>d, <1>e, <2>1, <2>2, <2>3 DEF Inside
<1>3. CASE Login(u)
  <2>1. pc' = [pc EXCEPT ![u] = "assign"] /\ session' = [session EXCEPT ![u] = "open"]
        /\ held' = [held EXCEPT ![u] = u] /\ pc[u] = "connect" /\ alive
        /\ UNCHANGED <<lost, fate, client, alive, faults>>
    BY <1>3 DEF Login
  <2>2. Kinds'
    BY <1>0, <2>1 DEF Places
  <2> QED
    BY <1>c, <1>d, <1>e, <2>1, <2>2 DEF Inside
<1>4. CASE LoginFail(u)
  <2>1. pc' = [pc EXCEPT ![u] = "assign"] /\ held' = [held EXCEPT ![u] = NoClient]
        /\ pc[u] = "connect" /\ alive /\ UNCHANGED <<fate, client, alive, faults>>
    BY <1>4 DEF LoginFail
  <2>2. \/ UNCHANGED <<session, lost>>
        \/ /\ session' = [session EXCEPT ![u] = "open"]
           /\ lost' = [lost EXCEPT ![u] = TRUE]
    BY <1>4 DEF LoginFail
  <2>3. session[u] = "none"
    BY <2>1 DEF Dialled
  <2>4. Kinds'
    BY <2>1, <2>2 DEF Places, Client
  <2>5. held'[u] = NoClient /\ (session'[u] = "open" => lost'[u])
    BY <2>1, <2>2, <2>3
  <2> QED
    BY <1>0, <1>c, <1>d, <1>e, <2>1, <2>2, <2>4, <2>5 DEF Inside
<1>5. CASE Assign(u)
  <2>1. client' = [client EXCEPT ![Of[u]] = held[u]] /\ pc[u] = "assign"
        /\ alive /\ UNCHANGED <<session, lost, held, alive, faults>>
    BY <1>5 DEF Assign
  <2>2. /\ held[u] \in {u, NoClient}
        /\ held[u] = u => session[u] = "open"
        /\ session[u] = "open" => held[u] = u \/ lost[u]
    BY <2>1 DEF Dialled
  <2>3. CASE held[u] # NoClient
    <3>1. pc' = [pc EXCEPT ![u] = "manager"] /\ fate' = fate
      BY <1>5, <2>3 DEF Assign
    <3>2. Kinds'
      BY <1>0, <2>1, <3>1 DEF Places, Inside
    <3> QED
      BY <1>0, <1>c, <1>d, <1>e, <2>1, <2>2, <2>3, <3>1, <3>2
  <2>4. CASE held[u] = NoClient
    <3>1. pc' = [pc EXCEPT ![u] = "done"] /\ fate' = [fate EXCEPT ![u] = "failed"]
      BY <1>5, <2>4 DEF Assign
    <3>2. Kinds'
      BY <1>0, <2>1, <3>1 DEF Places
    <3> QED
      BY <1>0, <1>c, <1>d, <1>e, <2>1, <2>2, <2>4, <3>1, <3>2 DEF Inside
  <2> QED
    BY <2>3, <2>4
<1>6. CASE ReadNil(u)
    BY <1>0, <1>6, <1>b DEF ReadNil, Read, Inside
<1>7. CASE LogoutNil(u)
    BY <1>0, <1>7, <1>b DEF LogoutNil, Read, Inside
<1>8. CASE LogoutAnswer(u)
  <2>1. pc' = [pc EXCEPT ![u] = "done"] /\ pc[u] = "logoutrpc" /\ held[u] = u
        /\ session[u] = "open" /\ UNCHANGED <<fate, held, client, faults>>
        /\ alive' = (fate[u] \notin {"panic", "odd"})
    BY <1>8, <1>b DEF LogoutAnswer, Inside
  <2>2. \/ session' = [session EXCEPT ![u] = "closed"] /\ lost' = lost
        \/ lost' = [lost EXCEPT ![u] = TRUE] /\ session' = session
    <3>1. CASE Answered(held[u]) /\ Close(held[u]) /\ UNCHANGED lost
      BY <2>1, <3>1 DEF Close
    <3>2. CASE Refused(held[u]) /\ lost' = [lost EXCEPT ![held[u]] = @ \/ faults]
               /\ UNCHANGED session
      <4>1. faults = TRUE
        BY <2>1, <3>2 DEF Refused
      <4> QED
        BY <2>1, <3>2, <4>1
    <3> QED
      BY <1>8, <3>1, <3>2 DEF LogoutAnswer
  <2>3. Kinds'
    BY <2>1, <2>2 DEF Places
  <2>4. NilClientUnused' /\ fate'[u] # "panic"
    BY <2>1 DEF NilClientUnused, DataPanic
  <2>5. pc[u] \in Inside /\ pc'[u] = "done"
    BY <2>1 DEF Inside
  <2> QED
    BY <1>c, <1>d, <2>1, <2>2, <2>3, <2>4, <2>5 DEF Inside
<1>9. CASE NilURL(u)
  <2>1. url' = "empty" /\ UNCHANGED <<pc, fate, client, held, session, lost, faults>>
    BY <1>9 DEF NilURL
  <2>2. NilClientUnused'
    BY <2>1 DEF NilClientUnused, DataPanic
  <2>3. Kinds'
    BY <2>1
  <2> QED
    BY <2>1, <2>2, <2>3
    DEF Exclusive, Dialled, OwnSession, SessionsClosed, Active, Connected
<1> QED
    BY <1>1, <1>2, <1>3, <1>4, <1>5, <1>6, <1>7, <1>8, <1>9

LEMMA SerialStep == Serial /\ SerialInv /\ [Next]_vars => SerialInv'
<1> SUFFICES ASSUME Serial, SerialInv, [Next]_vars PROVE SerialInv'
    OBVIOUS
<1>1. ASSUME NEW u \in Update, Begin(u) PROVE SerialInv'
    BY <1>1, EdgeActions
<1>2. ASSUME NEW u \in Update, Step(u) PROVE SerialInv'
    BY <1>2, EdgeActions, InsideActionsInv DEF Step, InsideActions
<1>3. CASE UNCHANGED vars
    BY <1>3 DEF vars, SerialInv, NilClientUnused, DataPanic, Kinds, Exclusive, Dialled, OwnSession, SessionsClosed,
                Active, Connected
<1> QED
    BY <1>1, <1>2, <1>3 DEF Next, Stopped

(* As long as Updates of one object do not overlap, no nil client ends the *)
(* process, whatever fails: one that ends had no URL, or an item that      *)
(* lacked its data.                                                        *)
THEOREM SerialNilClientUnused == Serial => (Spec => []NilClientUnused)
<1> SUFFICES ASSUME Serial PROVE Spec => []NilClientUnused
    OBVIOUS
<1>1. SerialInv => NilClientUnused
    BY DEF SerialInv
<1>2. SerialInv /\ [Next]_vars => SerialInv'
    BY SerialStep
<1> QED
    BY SerialInit, <1>1, <1>2, PTL DEF Spec

(* Nor is a session used, or closed, by any Update but the one whose login *)
(* opened it: every request of an Update goes out under its own session.   *)
THEOREM SerialOwnSession == Serial => (Spec => []OwnSession)
<1> SUFFICES ASSUME Serial PROVE Spec => []OwnSession
    OBVIOUS
<1>1. SerialInv => OwnSession
    BY DEF SerialInv
<1>2. SerialInv /\ [Next]_vars => SerialInv'
    BY SerialStep
<1> QED
    BY SerialInit, <1>1, <1>2, PTL DEF Spec

(* A session outlives its Update only if a reply about it was lost.        *)
THEOREM SerialSessionsClosed == Serial => (Spec => []SessionsClosed)
<1> SUFFICES ASSUME Serial PROVE Spec => []SessionsClosed
    OBVIOUS
<1>1. SerialInv => SessionsClosed
    BY DEF SerialInv
<1>2. SerialInv /\ [Next]_vars => SerialInv'
    BY SerialStep
<1> QED
    BY SerialInit, <1>1, <1>2, PTL DEF Spec

-----------------------------------------------------------------------------
(* The refinement: phase is the pc with everything between Begin and the   *)
(* return made one, and vCenter's sessions are the same on both levels.    *)
Running == Inside \cup {"connect", "assign"}

LEMMA PhaseStep ==
    ASSUME NEW u \in Update, NEW p, pc \in [Update -> Places],
           pc' = [pc EXCEPT ![u] = p]
    PROVE  /\ pc[u] = "new" /\ p \in Running =>
                phase[u] = "new" /\ phase' = [phase EXCEPT ![u] = "active"]
           /\ pc[u] \in Running /\ p \in Running =>
                phase[u] = "active" /\ phase' = phase
           /\ pc[u] \in Running /\ p = "done" =>
                phase[u] = "active" /\ phase' = [phase EXCEPT ![u] = "done"]
<1>1. \A v \in Update : pc'[v] = IF v = u THEN p ELSE pc[v]
    OBVIOUS
<1>2. "new" \notin Running /\ "done" \notin Running
    BY DEF Running, Inside
<1> QED
    BY <1>1, <1>2 DEF phase

LEMMA SessionsInit == Init => Sessions!Init
BY DEF Init, Sessions!Init, phase

(* Each operation of VcCollector is one of UpdateSession, or leaves what   *)
(* UpdateSession speaks of alone.                                          *)
LEMMA SessionsStep ==
    SerialInv /\ [Next]_vars => [Sessions!Next]_(Sessions!vars)
<1> SUFFICES ASSUME SerialInv, [Next]_vars PROVE [Sessions!Next]_(Sessions!vars)
    OBVIOUS
<1> USE DEF Go, Sessions!vars, Sessions!Next
<1>0. Kinds /\ pc \in [Update -> Places] /\ lost \in [Update -> BOOLEAN]
      /\ faults \in BOOLEAN
    BY DEF SerialInv, Kinds
<1>1. ASSUME NEW u \in Update, Begin(u) PROVE Sessions!Start(u)
    BY <1>0, <1>1, PhaseStep DEF Begin, Sessions!Start, Running
<1>2. ASSUME NEW u \in Update, BadURL(u) PROVE Sessions!End(u)
  <2>1. session[u] = "none"
    BY <1>2 DEF BadURL, SerialInv, Dialled
  <2> QED
    BY <1>0, <1>2, <2>1, PhaseStep DEF BadURL, Sessions!End, Running
<1>3. ASSUME NEW u \in Update, Login(u) PROVE Sessions!Open(u)
  <2>1. session[u] = "none" /\ pc[u] = "connect"
    BY <1>3 DEF Login, SerialInv, Dialled
  <2>2. phase[u] = "active" /\ phase' = phase
    BY <1>0, <1>3, <2>1, PhaseStep DEF Login, Running
  <2>3. lost' = [lost EXCEPT ![u] = lost[u]] /\ session' = [session EXCEPT ![u] = "open"]
    BY <1>0, <1>3 DEF Login
  <2> QED
    BY <2>1, <2>2, <2>3 DEF Sessions!Open
<1>4. ASSUME NEW u \in Update, LoginFail(u)
      PROVE  Sessions!Open(u) \/ UNCHANGED Sessions!vars
  <2>1. session[u] = "none" /\ pc[u] = "connect"
    BY <1>4 DEF LoginFail, SerialInv, Dialled
  <2>2. phase[u] = "active" /\ phase' = phase
    BY <1>0, <1>4, <2>1, PhaseStep DEF LoginFail, Running
  <2> QED
    BY <1>4, <2>1, <2>2 DEF LoginFail, Sessions!Open
<1>5. ASSUME NEW u \in Update, Assign(u)
      PROVE  Sessions!End(u) \/ UNCHANGED Sessions!vars
  <2>1. pc[u] = "assign" /\ UNCHANGED <<session, lost>>
    BY <1>5 DEF Assign
  <2>2. CASE held[u] # NoClient
    <3>1. pc' = [pc EXCEPT ![u] = "manager"]
      BY <1>5, <2>2 DEF Assign
    <3> QED
      BY <1>0, <2>1, <3>1, PhaseStep DEF Running, Inside
  <2>3. CASE held[u] = NoClient
    <3>1. pc' = [pc EXCEPT ![u] = "done"]
      BY <1>5, <2>3 DEF Assign
    <3>2. session[u] # "open" \/ lost[u]
      BY <2>1, <2>3, CollectorAssumption DEF SerialInv, Dialled
    <3> QED
      BY <1>0, <2>1, <3>1, <3>2, PhaseStep DEF Running, Sessions!End
  <2> QED
    BY <2>2, <2>3
<1>6. ASSUME NEW u \in Update, InsideActions(u)
      PROVE  Sessions!Lose(u) \/ UNCHANGED Sessions!vars
  <2>1. InsideEffect(u)
    BY <1>0, <1>6, InsideActionsEffect
  <2>2. phase[u] = "active" /\ phase' = phase
    BY <1>0, <2>1, PhaseStep DEF InsideEffect, Running
  <2> QED
    BY <2>1, <2>2 DEF InsideEffect, Sessions!Lose
<1>7. ASSUME NEW u \in Update, ReadNil(u) PROVE FALSE
  <2>1. pc[u] \in Inside /\ client[Of[u]] = NoClient
    BY <1>7 DEF ReadNil, Read, Inside
  <2> QED
    BY <1>0, <2>1, InsideConnected, CollectorAssumption DEF SerialInv, OwnSession
<1>8. ASSUME NEW u \in Update, LogoutNil(u) PROVE FALSE
  <2>1. pc[u] \in Inside /\ client[Of[u]] = NoClient
    BY <1>8 DEF LogoutNil, Read, Inside
  <2> QED
    BY <1>0, <2>1, InsideConnected, CollectorAssumption DEF SerialInv, OwnSession
<1>9. ASSUME NEW u \in Update, LogoutAnswer(u) PROVE Sessions!End(u)
  <2>1. pc[u] = "logoutrpc" /\ pc[u] \in Inside /\ pc' = [pc EXCEPT ![u] = "done"]
    BY <1>9 DEF LogoutAnswer, Inside
  <2>2. held[u] = u /\ session[u] = "open"
    BY <1>0, <2>1, InsideConnected DEF SerialInv, OwnSession
  <2>3. phase[u] = "active" /\ phase' = [phase EXCEPT ![u] = "done"]
    BY <1>0, <2>1, PhaseStep DEF Running
  <2>4. CASE Answered(held[u]) /\ Close(held[u]) /\ UNCHANGED lost
    BY <2>2, <2>3, <2>4 DEF Close, Sessions!End
  <2>5. CASE Refused(held[u]) /\ lost' = [lost EXCEPT ![held[u]] = @ \/ faults]
             /\ UNCHANGED session
    <3>1. faults = TRUE
      BY <1>0, <2>2, <2>5 DEF Refused
    <3>2. lost' = [lost EXCEPT ![u] = TRUE]
      BY <2>2, <2>5, <3>1
    <3> QED
      BY <2>3, <2>5, <3>2 DEF Sessions!End
  <2> QED
    BY <1>9, <2>4, <2>5 DEF LogoutAnswer
<1>12. ASSUME NEW u \in Update, NilURL(u) PROVE UNCHANGED Sessions!vars
    BY <1>12 DEF NilURL, phase
<1>10. CASE UNCHANGED vars
    BY <1>10 DEF vars, phase
<1>11. CASE \E u \in Update : Begin(u) \/ Step(u)
  <2>1. PICK u \in Update : Begin(u) \/ Step(u)
    BY <1>11
  <2> QED
    BY <2>1, <1>1, <1>2, <1>3, <1>4, <1>5, <1>6, <1>7, <1>8, <1>9, <1>12 DEF Step, InsideActions
<1> QED
    BY <1>10, <1>11 DEF Next, Stopped

(* When Updates of one object do not overlap, the collector implements     *)
(* UpdateSession: one login each, used and closed by its own Update only,  *)
(* and closed on return, unless a reply about it was lost.                 *)
THEOREM SerialImplements == Serial => (Spec => SessionSpec)
<1> SUFFICES ASSUME Serial PROVE Spec => SessionSpec
    OBVIOUS
<1>1. SerialInv /\ [Next]_vars => SerialInv'
    BY SerialStep
<1> QED
    BY SerialInit, <1>1, SessionsInit, SessionsStep, PTL
    DEF Spec, SessionSpec, Sessions!Spec
=============================================================================

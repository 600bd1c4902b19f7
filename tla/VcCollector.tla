---------------------------- MODULE VcCollector -----------------------------
(***************************************************************************)
(* One Update of a vCenter collector (vc_esx.go, vc_vm.go, vc_spod.go,     *)
(* vc_datastores.go, vc_respool.go), from cache.Flush to the deferred      *)
(* apiDisconnect, and what it shares with the Updates that run beside it:  *)
(*                                                                         *)
(*  - the parents cache, with every Update of every collector;             *)
(*  - the collector object, whose client field each Update of the object   *)
(*    assigns in apiConnect and reads again at every later use, with the   *)
(*    other Updates of the same object (overlapping scrapes of the         *)
(*    unfiltered handler).  Nothing guards the field;                      *)
(*  - vCenter, which knows one session per login.                          *)
(*                                                                         *)
(* A client is named by the Update whose login made it: client[c] = u says *)
(* that c.client points to the client u's apiConnect stored, and session[u]*)
(* is that client's session on vCenter.  A read or write of the pointer is *)
(* one step.  The inventory is fixed here; ParentsCache changes it.        *)
(***************************************************************************)
EXTENDS Naturals, Sequences, FiniteSets

CONSTANTS
    Update,       \* the executions of an Update method
    Collector,    \* the collector objects
    Of,           \* Of[u]: the object u is an Update of
    Kind,         \* Kind[c]: "vm", "respool", or "plain" for the other three
    Items,        \* Items[c]: what vCenter's view lists for c, a sequence
    Serial,       \* whether Updates of one object never overlap
    Weather,      \* subset of BOOLEAN: may requests fail by themselves?
    NoClient,     \* the nil *govmomi.Client
    Mor, Key, Type, Name, Under, Inventory0, NoRef, MaxVersion  \* see ParentsCache

VARIABLES
    history, cache, walk, label, flushedAt, older, stamp,       \* see ParentsCache
    pc,           \* pc[u]: the statement u is at
    fate,         \* fate[u]: how the body of u ended: "ok", "failed", "panic"
                  \* (through a nil client) or "odd" (through data not there)
    client,       \* client[c]: the client field of collector object c
    held,         \* held[u]: the client u read last, used by the call u is in
    item,         \* item[u]: index of the item u is at
    pool,         \* pool[u]: what getVMPool returned for it, NoRef if nil
    out,          \* out[u]: the samples u has sent, one record for each item
    session,      \* session[u]: vCenter's session for u's login
    view,         \* view[u]: whether u's container view exists, and where
    lost,         \* history: a reply about u's session or view was lost
    alive,        \* FALSE once a panic has ended the process
    url,          \* --collector.vc.url: "good", "bad" (a parse error) or "empty"
    gaps,         \* whether items lack what Items says they may lack
    faults        \* whether requests may fail by themselves

Parents == INSTANCE ParentsCache

(* What ParentsCache assumes of its constants.  *)
ASSUME CacheAssumption ==
    /\ NoRef \notin Mor
    /\ Key \subseteq Mor
    /\ "NONE" \notin Name /\ "ERROR" \notin Name
    /\ MaxVersion \in Nat \ {0}
    /\ IsFiniteSet(Mor)
    /\ Inventory0 \in [Mor -> Parents!Entity]
    /\ Parents!Acyclic(Inventory0)

ASSUME CollectorAssumption ==
    /\ NoClient \notin Update
    /\ Of \in [Update -> Collector]
    /\ Kind \in [Collector -> {"vm", "respool", "plain"}]
    /\ Serial \in BOOLEAN
    /\ Weather \subseteq BOOLEAN

(***************************************************************************)
(* An item as v.Retrieve decodes it.  stats: a pool's summary has quick    *)
(* stats.  lacks: what is nil although the loop goes through it unchecked: *)
(* the "summary" of a pool or storage pod, read before any request about   *)
(* the item, or the "details" of a host (product, hardware) or VM (guest,  *)
(* config, a disk that is not flat), read after them.                      *)
(***************************************************************************)
Item == [parent : Key \cup {NoRef}, pool : Mor \cup {NoRef}, host : Mor \cup {NoRef},
         stats : BOOLEAN, lacks : {"nothing", "summary", "details"}]

ASSUME ItemAssumption ==
    /\ Items \in [Collector -> Seq(Item)]
    /\ \A c \in Collector : \A i \in 1 .. Len(Items[c]) :
          /\ Items[c][i].pool # NoRef =>
                Inventory0[Items[c][i].pool].parent \in Key \cup {NoRef}
          /\ Items[c][i].lacks = "summary" => Kind[c] # "vm" /\ Items[c][i].stats
          /\ Items[c][i].lacks = "details" => Kind[c] # "respool"

cacheVars == <<history, cache, walk, label, flushedAt, older, stamp>>
server    == <<session, view, lost>>
locals    == <<fate, held, item, pool, out>>
world     == <<alive, url, gaps, faults>>
vars      == <<cacheVars, server, locals, world, pc, client>>

inventory == history[Len(history)]

(* Between cache.Flush and the return of the deferred apiDisconnect.  *)
Active(u) == pc[u] \notin {"new", "done"}

The(u)    == Items[Of[u]][item[u]]
Read(u)   == client[Of[u]]
Go(u, at) == pc' = [pc EXCEPT ![u] = at]

Lacks(u, what) == gaps /\ The(u).lacks = what

(* A goroutine takes no step after the process has ended.  *)
At(u, at) == alive /\ pc[u] = at

-----------------------------------------------------------------------------
Init ==
    /\ Parents!Init
    /\ pc      = [u \in Update |-> "new"]
    /\ fate    = [u \in Update |-> "ok"]
    /\ client  = [c \in Collector |-> NoClient]
    /\ held    = [u \in Update |-> NoClient]
    /\ item    = [u \in Update |-> 1]
    /\ pool    = [u \in Update |-> NoRef]
    /\ out     = [u \in Update |-> <<>>]
    /\ session = [u \in Update |-> "none"]
    /\ view    = [u \in Update |-> NoClient]
    /\ lost    = [u \in Update |-> FALSE]
    /\ alive   = TRUE
    /\ url    \in {"good", "bad", "empty"}
    /\ gaps   \in BOOLEAN
    /\ faults \in Weather

(* A request under session s is answered only while that session is open,  *)
(* and may always fail while the weather is bad.                           *)
Answered(s) == session[s] = "open"
Refused(s)  == faults \/ session[s] # "open"

-----------------------------------------------------------------------------
(* Update is called, and flushes the cache of all collectors.  *)
Begin(u) ==
    /\ At(u, "new")
    /\ Serial => \A v \in Update : Of[v] = Of[u] => ~ Active(v)
    /\ Parents!Flush(u)
    /\ Go(u, "connect")
    /\ UNCHANGED <<server, locals, world, client>>

(* apiConnect returns before it touches the field: no deferred disconnect. *)
BadURL(u) ==
    /\ At(u, "connect") /\ url = "bad"
    /\ fate' = [fate EXCEPT ![u] = "failed"]
    /\ Go(u, "done")
    /\ UNCHANGED <<cacheVars, server, held, item, pool, out, world, client>>

(* ParseURL("") is nil without an error, and u.User = ... goes through it  *)
(* before anything is deferred: the process ends.                          *)
NilURL(u) ==
    /\ At(u, "connect") /\ url = "empty"
    /\ alive' = FALSE
    /\ UNCHANGED <<cacheVars, server, locals, pc, client, url, gaps, faults>>

(* govmomi.NewClient: the login succeeds.  *)
Login(u) ==
    /\ At(u, "connect") /\ url = "good"
    /\ session' = [session EXCEPT ![u] = "open"]
    /\ held'    = [held EXCEPT ![u] = u]
    /\ Go(u, "assign")
    /\ UNCHANGED <<cacheVars, view, lost, fate, item, pool, out, world, client>>

(* It fails, and returns a nil client; vCenter may have opened a session   *)
(* all the same, of which only the reply was lost.                         *)
LoginFail(u) ==
    /\ At(u, "connect") /\ url = "good" /\ faults
    /\ \/ UNCHANGED <<session, lost>>
       \/ /\ session' = [session EXCEPT ![u] = "open"]
          /\ lost'    = [lost EXCEPT ![u] = TRUE]
    /\ held' = [held EXCEPT ![u] = NoClient]
    /\ Go(u, "assign")
    /\ UNCHANGED <<cacheVars, view, fate, item, pool, out, world, client>>

(* Mutant: the error of NewClient is not returned.  *)
AssignIgnoresError(u) ==
    /\ At(u, "assign")
    /\ client' = [client EXCEPT ![Of[u]] = held[u]]
    /\ Go(u, "manager")
    /\ UNCHANGED <<cacheVars, server, locals, world>>

(* Mutant: a client left from an earlier Update is kept.  *)
AssignKeepsOld(u) ==
    /\ At(u, "assign")
    /\ client' = [client EXCEPT ![Of[u]] = IF @ = NoClient THEN held[u] ELSE @]
    /\ Go(u, IF held[u] # NoClient THEN "manager" ELSE "done")
    /\ fate' = [fate EXCEPT ![u] = IF held[u] # NoClient THEN @ ELSE "failed"]
    /\ UNCHANGED <<cacheVars, server, held, item, pool, out, world>>

(* c.client, err = ...: the field is overwritten, with nil after an error. *)
Assign(u) ==
    /\ At(u, "assign")
    /\ client' = [client EXCEPT ![Of[u]] = held[u]]
    /\ \/ held[u] # NoClient /\ Go(u, "manager") /\ UNCHANGED fate
       \/ /\ held[u] = NoClient
          /\ fate' = [fate EXCEPT ![u] = "failed"]
          /\ Go(u, "done")
    /\ UNCHANGED <<cacheVars, server, held, item, pool, out, world>>

-----------------------------------------------------------------------------
(***************************************************************************)
(* Every use of c.client below evaluates the field anew.  Through a nil    *)
(* pointer it panics; the deferred apiDisconnect still runs.               *)
(***************************************************************************)
ReadNil(u) ==
    /\ \E at \in {"manager", "root", "pool", "parents", "host"} : At(u, at)
    /\ pc[u] = "parents" => ~ Lacks(u, "summary")
    /\ Read(u) = NoClient
    /\ fate' = [fate EXCEPT ![u] = "panic"]
    /\ Go(u, "logout")
    /\ UNCHANGED <<cacheVars, server, held, item, pool, out, world, client>>

Use(u, at, next) ==
    /\ At(u, at)
    /\ Read(u) # NoClient
    /\ held' = [held EXCEPT ![u] = Read(u)]
    /\ Go(u, next)
    /\ UNCHANGED <<cacheVars, server, fate, item, pool, out, world, client>>

(* view.NewManager(c.client.Client): the view's requests use this client.  *)
Manager(u) == Use(u, "manager", "root")

(* c.client.ServiceContent.RootFolder, the same folder in every session.  *)
Root(u) ==
    /\ At(u, "root")
    /\ Read(u) # NoClient
    /\ Go(u, "view")
    /\ UNCHANGED <<cacheVars, server, locals, world, client>>

Fail(u) == fate' = [fate EXCEPT ![u] = "failed"]

(* Mutant: an error of apiRetrieve returns before the disconnect is deferred.  *)
CreateViewNoDefer(u) ==
    /\ At(u, "view")
    /\ \/ /\ Answered(held[u])
          /\ view' = [view EXCEPT ![u] = held[u]]
          /\ Go(u, "retrieve")
          /\ UNCHANGED fate
       \/ Refused(held[u]) /\ Fail(u) /\ Go(u, "done") /\ UNCHANGED view
    /\ UNCHANGED <<cacheVars, session, lost, held, item, pool, out, world, client>>

(* CreateContainerView; a view belongs to the session that created it.  *)
CreateView(u) ==
    /\ At(u, "view")
    /\ \/ /\ Answered(held[u])
          /\ view' = [view EXCEPT ![u] = held[u]]
          /\ Go(u, "retrieve")
          /\ UNCHANGED <<lost, fate>>
       \/ /\ Refused(held[u])
          /\ \/ UNCHANGED <<view, lost>>
             \/ /\ faults /\ Answered(held[u])
                /\ view' = [view EXCEPT ![u] = held[u]]
                /\ lost' = [lost EXCEPT ![u] = TRUE]
          /\ Fail(u)
          /\ Go(u, "logout")
    /\ UNCHANGED <<cacheVars, session, held, item, pool, out, world, client>>

(* v.Retrieve; either way the deferred destroyView comes next.  *)
RetrieveItems(u) ==
    /\ At(u, "retrieve")
    /\ \/ Answered(held[u]) /\ UNCHANGED fate
       \/ Refused(held[u]) /\ Fail(u)
    /\ Go(u, "destroy")
    /\ UNCHANGED <<cacheVars, server, held, item, pool, out, world, client>>

(* Update skips no items but resource pools whose summary has no quick     *)
(* stats.                                                                  *)
Reported(c, i) == Kind[c] # "respool" \/ Items[c][i].stats

(* Mutant: the loop ends at the first item it should skip.  *)
FromBreaks(c, i) ==
    {j \in i .. Len(Items[c]) : \A k \in i .. j : Reported(c, k)}

From(c, i) ==
    {j \in i .. Len(Items[c]) : Reported(c, j)}

NextItem(u, i) ==
    LET todo == From(Of[u], i)
    IN  \/ /\ todo = {}
           /\ Go(u, "logout")
           /\ UNCHANGED item
        \/ \E j \in todo :
           /\ \A k \in todo : j <= k
           /\ item' = [item EXCEPT ![u] = j]
           /\ Go(u, IF Kind[Of[u]] = "vm" THEN "pool" ELSE "parents")

(* Mutant: destroyView through c.client instead of the view's own client.  *)
DestroyByField(u) ==
    /\ At(u, "destroy")
    /\ view' = [view EXCEPT ![u] = IF @ = Read(u) THEN NoClient ELSE @]
    /\ \/ fate[u] = "failed" /\ Go(u, "logout") /\ UNCHANGED item
       \/ fate[u] = "ok" /\ NextItem(u, 1)
    /\ UNCHANGED <<cacheVars, session, lost, fate, held, pool, out, world, client>>

(* destroyView, through the view's own client; its error is only logged.   *)
(* Then apiRetrieve returns: an error ends Update, else the loop starts.   *)
DestroyView(u) ==
    /\ At(u, "destroy")
    /\ \/ Answered(held[u]) /\ view' = [view EXCEPT ![u] = NoClient] /\ UNCHANGED lost
       \/ /\ Refused(held[u])
          /\ lost' = [lost EXCEPT ![u] = @ \/ faults]
          /\ UNCHANGED view
    /\ \/ fate[u] = "failed" /\ Go(u, "logout") /\ UNCHANGED item
       \/ fate[u] = "ok" /\ NextItem(u, 1)
    /\ UNCHANGED <<cacheVars, session, fate, held, pool, out, world, client>>

-----------------------------------------------------------------------------
(* getVMPool(.., c.client.Client, item): nil if the VM names no pool.  *)
Pool(u) == Use(u, "pool", "poolrpc")

(* Mutant: the pool variable is not reset for a VM without a pool.  *)
PoolKept(u) ==
    /\ At(u, "poolrpc")
    /\ \/ /\ The(u).pool # NoRef /\ Answered(held[u])
          /\ pool' = [pool EXCEPT ![u] = The(u).pool]
       \/ (The(u).pool = NoRef \/ Refused(held[u])) /\ UNCHANGED pool
    /\ Go(u, "parents")
    /\ UNCHANGED <<cacheVars, server, fate, held, item, out, world, client>>

(* Its one request: nil again, not an error, when that fails.  *)
PoolAnswer(u) ==
    /\ At(u, "poolrpc")
    /\ \/ /\ The(u).pool # NoRef /\ Answered(held[u])
          /\ pool' = [pool EXCEPT ![u] = The(u).pool]
       \/ /\ The(u).pool = NoRef \/ Refused(held[u])
          /\ pool' = [pool EXCEPT ![u] = NoRef]
    /\ Go(u, "parents")
    /\ UNCHANGED <<cacheVars, server, fate, held, item, out, world, client>>

(* getParents(.., c.client.Client, me).  *)
LookupParents(u) == ~ Lacks(u, "summary") /\ Use(u, "parents", "lookup")

(* The body of the loop goes through a nil of the item: the summary before *)
(* getParents, the details when the labels and samples are made.  Update   *)
(* panics, and the deferred apiDisconnect runs first.  Samples of the item *)
(* sent by then are left out: the process ends before anyone reads them.   *)
OddItem(u) ==
    /\ \/ At(u, "parents") /\ Lacks(u, "summary")
       \/ \E at \in {"labels", "hostrpc"} : At(u, at) /\ Lacks(u, "details")
    /\ fate' = [fate EXCEPT ![u] = "odd"]
    /\ Go(u, "logout")
    /\ UNCHANGED <<cacheVars, server, held, item, pool, out, world, client>>

(* Mutant: the pool is read and then not used.  *)
MeParentOfItem(u) == The(u).parent

(* me is the pool if the VM has one, else the item itself.  *)
MeParent(u) == IF pool[u] # NoRef THEN inventory[pool[u]].parent ELSE The(u).parent

(* Mutant: the pool's reference where its name belongs.  *)
EmitReference(u, parents, host) ==
    out' = [out EXCEPT ![u] = Append(@,
              [item |-> item[u], parents |-> parents, pool |-> pool[u], host |-> host])]

(* The samples of an item share these labels; the host is "NONE" for other *)
(* kinds, which have no such label.                                        *)
Emit(u, parents, host) ==
    out' = [out EXCEPT ![u] = Append(@,
              [item    |-> item[u],
               parents |-> parents,
               pool    |-> IF pool[u] = NoRef THEN "NONE" ELSE inventory[pool[u]].name,
               host    |-> host])]

(* getParents has returned label'[u]: a VM's host is next, or the labels.  *)
Returned(u) == Go(u, IF Kind[Of[u]] = "vm" THEN "host" ELSE "labels")

Lookup(u) ==
    /\ At(u, "lookup")
    /\ \/ MeParent(u) = NoRef /\ Parents!LookupRoot(u) /\ Returned(u)
       \/ MeParent(u) # NoRef /\ Parents!LookupHit(u, MeParent(u)) /\ Returned(u)
       \/ MeParent(u) # NoRef /\ Parents!LookupMiss(u, MeParent(u)) /\ Go(u, "walk")
    /\ UNCHANGED <<server, locals, world, client>>

(* Mutant: a refused request is asked again.  *)
WalkRetries(u) ==
    /\ At(u, "walk")
    /\ \/ Answered(held[u]) /\ Parents!Retrieve(u) /\ UNCHANGED pc
       \/ Parents!Add(u) /\ Returned(u)
    /\ UNCHANGED <<server, locals, world, client>>

(* Mutant: a refused request is cached like an answer.  *)
WalkCachesError(u) ==
    /\ At(u, "walk")
    /\ \/ Answered(held[u]) /\ Parents!Retrieve(u) /\ UNCHANGED pc
       \/ Refused(held[u]) /\ Parents!RetrieveFailCached(u) /\ UNCHANGED pc
       \/ Parents!Add(u) /\ Returned(u)
    /\ UNCHANGED <<server, locals, world, client>>

(* The walk, on the client getParents was given.  *)
Walk(u) ==
    /\ At(u, "walk")
    /\ \/ Answered(held[u]) /\ Parents!Retrieve(u) /\ UNCHANGED pc
       \/ Refused(held[u]) /\ Parents!RetrieveFail(u) /\ Returned(u)
       \/ Parents!Add(u) /\ Returned(u)
    /\ UNCHANGED <<server, locals, world, client>>

(* The rest of the body for an item that is no VM.  *)
Labels(u) ==
    /\ At(u, "labels") /\ ~ Lacks(u, "details")
    /\ Emit(u, label[u], "NONE")
    /\ NextItem(u, item[u] + 1)
    /\ UNCHANGED <<cacheVars, server, fate, held, pool, world, client>>

(* getVMHostSystem(.., c.client.Client, item).  *)
Host(u) == Use(u, "host", "hostrpc")

(* Its one request, and the rest of the body for a VM.  *)
HostAnswer(u) ==
    /\ At(u, "hostrpc") /\ ~ Lacks(u, "details")
    /\ \/ /\ The(u).host # NoRef /\ Answered(held[u])
          /\ Emit(u, label[u], inventory[The(u).host].name)
       \/ /\ The(u).host = NoRef \/ Refused(held[u])
          /\ Emit(u, label[u], "NONE")
    /\ NextItem(u, item[u] + 1)
    /\ UNCHANGED <<cacheVars, server, fate, held, pool, world, client>>

-----------------------------------------------------------------------------
(* The deferred apiDisconnect reads the field once more.  Nil panics (a    *)
(* second time, perhaps), and no recover stands between it and the end of  *)
(* the process.                                                            *)
LogoutNil(u) ==
    /\ At(u, "logout")
    /\ Read(u) = NoClient
    /\ alive' = FALSE
    /\ UNCHANGED <<cacheVars, server, locals, pc, client, url, gaps, faults>>

Logout(u) == Use(u, "logout", "logoutrpc")

(* With its session go the views vCenter kept for it.  *)
Close(s) ==
    /\ session' = [session EXCEPT ![s] = "closed"]
    /\ view'    = [v \in Update |-> IF view[v] = s THEN NoClient ELSE view[v]]

(* Mutant: the field is cleared after the logout.  *)
LogoutClears(u) ==
    /\ At(u, "logoutrpc")
    /\ \/ Answered(held[u]) /\ Close(held[u]) /\ UNCHANGED lost
       \/ /\ Refused(held[u])
          /\ lost' = [lost EXCEPT ![held[u]] = @ \/ faults]
          /\ UNCHANGED <<session, view>>
    /\ Go(u, "done")
    /\ client' = [client EXCEPT ![Of[u]] = NoClient]
    /\ alive' = (fate[u] \notin {"panic", "odd"})
    /\ UNCHANGED <<cacheVars, locals, url, gaps, faults>>

(* The logout request; an error is only logged.  A panic then goes on.  *)
LogoutAnswer(u) ==
    /\ At(u, "logoutrpc")
    /\ \/ Answered(held[u]) /\ Close(held[u]) /\ UNCHANGED lost
       \/ /\ Refused(held[u])
          /\ lost' = [lost EXCEPT ![held[u]] = @ \/ faults]
          /\ UNCHANGED <<session, view>>
    /\ Go(u, "done")
    /\ alive' = (fate[u] \notin {"panic", "odd"})
    /\ UNCHANGED <<cacheVars, locals, client, url, gaps, faults>>

-----------------------------------------------------------------------------
Step(u) ==
    \/ BadURL(u) \/ NilURL(u) \/ Login(u) \/ LoginFail(u) \/ Assign(u)
    \/ ReadNil(u) \/ Manager(u) \/ Root(u)
    \/ CreateView(u) \/ RetrieveItems(u) \/ DestroyView(u)
    \/ Pool(u) \/ PoolAnswer(u) \/ LookupParents(u) \/ Lookup(u) \/ Walk(u)
    \/ Labels(u) \/ Host(u) \/ HostAnswer(u) \/ OddItem(u)
    \/ LogoutNil(u) \/ Logout(u) \/ LogoutAnswer(u)

(* All calls have returned, or the process is gone.  *)
Stopped ==
    /\ ~ alive \/ \A u \in Update : pc[u] = "done"
    /\ UNCHANGED vars

Next ==
    \/ \E u \in Update : Begin(u) \/ Step(u)
    \/ Stopped

Spec == Init /\ [][Next]_vars

(* Goroutines that can run do, and vCenter answers or fails each request.  *)
FairSpec == Spec /\ \A u \in Update : WF_vars(Step(u))

-----------------------------------------------------------------------------
Client == Update \cup {NoClient}

Sample == [item : Nat, parents : Parents!Parents \cup {Parents!ErrorParents},
           pool : Name \cup {"NONE"}, host : Name \cup {"NONE"}]

TypeOK ==
    /\ Parents!TypeOK
    /\ pc \in [Update -> {"new", "connect", "assign", "manager", "root", "view",
                         "retrieve", "destroy", "pool", "poolrpc", "parents",
                         "lookup", "walk", "labels", "host", "hostrpc",
                         "logout", "logoutrpc", "done"}]
    /\ fate \in [Update -> {"ok", "failed", "panic", "odd"}]
    /\ client \in [Collector -> Client]
    /\ held \in [Update -> Client]
    /\ item \in [Update -> Nat]
    /\ pool \in [Update -> Mor \cup {NoRef}]
    /\ out \in [Update -> Seq(Sample)]
    /\ session \in [Update -> {"none", "open", "closed"}]
    /\ view \in [Update -> Client]
    /\ lost \in [Update -> BOOLEAN]
    /\ url \in {"good", "bad", "empty"}
    /\ alive \in BOOLEAN /\ gaps \in BOOLEAN /\ faults \in BOOLEAN

(* apiConnect has stored a client and apiDisconnect has not returned.  *)
Connected(u) == Active(u) /\ pc[u] \notin {"connect", "assign"}

(* One Update alone, with all its requests answered, ends the process when *)
(* there is no URL or an item lacks what the loop goes through.            *)
DataPanic == url = "empty" \/ \E u \in Update : pc[u] = "done" /\ fate[u] = "odd"

(***************************************************************************)
(* When the process ends, it does so for want of data, and not because an  *)
(* Update went through a nil client.  This is what prometheus.Collector    *)
(* asks of Collect ("may be called concurrently", vendor/github.com/       *)
(* prometheus/client_golang/prometheus/collector.go:58).                   *)
(***************************************************************************)
NilClientUnused == ~ alive => DataPanic

(***************************************************************************)
(* From apiConnect to apiDisconnect an Update works under its own login:   *)
(* the field it keeps reading still holds its own client, and nobody has   *)
(* logged that client's session out.                                       *)
(***************************************************************************)
OwnSession ==
    \A u \in Update : Connected(u) =>
        client[Of[u]] = u /\ held[u] = u /\ session[u] = "open"

(***************************************************************************)
(* A session outlives the Update that logged in only when a reply about it *)
(* was lost: every path through Update, errors included, logs it out.      *)
(***************************************************************************)
SessionsClosed ==
    \A u \in Update : pc[u] = "done" /\ session[u] = "open" => lost[u]

(***************************************************************************)
(* Nor does a container view: destroyView runs on every path that created  *)
(* one and uses the client the view was created with, so that it finds the *)
(* view even when another Update has replaced or closed c.client.          *)
(***************************************************************************)
ViewsDestroyed ==
    \A u \in Update : pc[u] = "done" /\ view[u] # NoClient => lost[u]

(***************************************************************************)
(* Overlapping Updates of one object bring the process down together only  *)
(* if some request of theirs failed: apiConnect stores nil only then.  All *)
(* other panics are those of an Update alone.                              *)
(***************************************************************************)
CrashNeedsFault == ~ alive => faults \/ DataPanic

(***************************************************************************)
(* Updates that do not overlap keep the promise of UpdateSession.          *)
(***************************************************************************)
phase == [u \in Update |-> IF pc[u] \in {"new", "done"} THEN pc[u] ELSE "active"]

Sessions == INSTANCE UpdateSession WITH phase <- phase, session <- session, lost <- lost

SessionSpec == Sessions!Spec

(***************************************************************************)
(* Updates of all kinds, however they overlap and whatever is refused, use *)
(* the cache in the steps of ParentsCache and no others: what is shown of  *)
(* those holds while the rest of Update goes on around them.               *)
(***************************************************************************)
CacheSpec == Parents!Spec

(* What getParents should return for an entity whose Parent is ref.  *)
ParentsOf(ref) ==
    IF ref = NoRef THEN Parents!NoParents ELSE Parents!TrueParents(inventory, ref)

NameOf(ref) == IF ref = NoRef THEN "NONE" ELSE inventory[ref].name

(* The sample an item gives when every request about it is answered.  *)
Exact(c, i) ==
    LET it == Items[c][i]
        vm == Kind[c] = "vm"
        up == IF vm /\ it.pool # NoRef THEN inventory[it.pool].parent ELSE it.parent
    IN  [item    |-> i,
         parents |-> ParentsOf(up),
         pool    |-> IF vm THEN NameOf(it.pool) ELSE "NONE",
         host    |-> IF vm THEN NameOf(it.host) ELSE "NONE"]

(***************************************************************************)
(* Whatever is refused or fails on the way, a sample never carries another *)
(* item's labels: each label is the reference one or the documented stand- *)
(* in, and a VM whose pool could not be read is placed by its own folder.  *)
(***************************************************************************)
TrueOrDegraded ==
    \A u \in Update : \A k \in 1 .. Len(out[u]) :
        LET sample == out[u][k]
            it     == Items[Of[u]][sample.item]
            exact  == Exact(Of[u], sample.item)
        IN  /\ sample.pool \in {exact.pool, "NONE"}
            /\ sample.host \in {exact.host, "NONE"}
            /\ sample.parents \in
                  {Parents!ErrorParents,
                   IF sample.pool = exact.pool THEN exact.parents
                                               ELSE ParentsOf(it.parent)}

(***************************************************************************)
(* An Update that returns no error has sent every item of its view that it *)
(* does not skip, once and in order, whatever other Updates did meanwhile. *)
(***************************************************************************)
AllItems ==
    \A u \in Update : pc[u] = "done" /\ fate[u] = "ok" =>
        /\ {out[u][k].item : k \in 1 .. Len(out[u])}
               = {i \in 1 .. Len(Items[Of[u]]) : Reported(Of[u], i)}
        /\ \A j, k \in 1 .. Len(out[u]) : j < k => out[u][j].item < out[u][k].item

(***************************************************************************)
(* An Update that the exporter reports as succeeded (collector_success 1,  *)
(* "Whether a collector succeeded.", collector/collector.go:41) in an      *)
(* environment that fails no request has exact labels on all its samples.  *)
(***************************************************************************)
SuccessIsExact ==
    \A u \in Update : ~ faults /\ pc[u] = "done" /\ fate[u] = "ok" =>
        \A k \in 1 .. Len(out[u]) : out[u][k] = Exact(Of[u], out[u][k].item)

(***************************************************************************)
(* Every Update returns, after errors, refusals and panics too, unless the *)
(* process is gone: Collect's wg.Wait ends.                                *)
(***************************************************************************)
UpdateEnds == \A u \in Update : Active(u) ~> pc[u] = "done" \/ ~ alive
=============================================================================

---------------------------- MODULE ParentsCache ----------------------------
(***************************************************************************)
(* The package-level cache of collector/vc_common.go and getParents, the   *)
(* walk from a managed object to its datacenter that fills it.             *)
(*                                                                         *)
(* Every Update of every collector flushes the one cache before it starts  *)
(* (vc_*.go, first statement of each Update) and then looks its items'     *)
(* parents up in it.  Get, Add and Flush each hold the mutex, so each is   *)
(* one step; the requests to vCenter in between are not covered by it, so  *)
(* the flushes and the fills of concurrent Updates interleave freely with  *)
(* a walk.  vCenter's inventory changes under the walk.                    *)
(*                                                                         *)
(* flushedAt, older and stamp are history variables: no action reads them  *)
(* to decide what to do.                                                   *)
(***************************************************************************)
EXTENDS Naturals, Sequences, FiniteSets

CONSTANTS
    Update,       \* the Update calls that share the cache (one goroutine each)
    Mor,          \* managed object references that can be somebody's ancestor
    Key,          \* those that are the me.Parent of some item looked up
    Type,         \* Type[m]: the .Type field of reference m
    Name,         \* entity names
    Under,        \* Under[m]: the references vCenter lets m be placed under
    Inventory0,   \* the inventory when the exporter starts
    NoRef,        \* the nil *ManagedObjectReference
    MaxVersion    \* bound: how many inventories vCenter goes through

ASSUME RefAssumption     == NoRef \notin Mor
ASSUME KeyAssumption     == Key \subseteq Mor
ASSUME NameAssumption    == "NONE" \notin Name /\ "ERROR" \notin Name
ASSUME VersionAssumption == MaxVersion \in Nat \ {0}

Entity == [name : Name, parent : Mor \cup {NoRef}]

(***************************************************************************)
(* The inventory as vCenter keeps it: whatever m is moved under, following *)
(* parents from any entity ends.                                           *)
(***************************************************************************)
Up(inv, m) ==
    LET up[n \in Nat] ==
            IF n = 0 THEN m
            ELSE IF up[n - 1] = NoRef THEN NoRef ELSE inv[up[n - 1]].parent
    IN  up

Acyclic(inv) == \A m \in Mor : Up(inv, m)[Cardinality(Mor)] = NoRef

ASSUME InventoryAssumption ==
    /\ IsFiniteSet(Mor)
    /\ Inventory0 \in [Mor -> Entity]
    /\ Acyclic(Inventory0)

VARIABLES
    history,      \* the inventories vCenter went through; the last is current
    cache,        \* ParentsCache.cache, a partial function from Mor to Parents
    walk,         \* walk[u]: the locals of u's call of getParents
    label,        \* label[u]: what u's last call of getParents returned
    flushedAt,    \* history: version at u's last Flush, 0 before the first
    older,        \* history: start versions of the walks u's Flush overtook
    stamp         \* history: start version of the walk that filled an entry

ghosts     == <<flushedAt, older, stamp>>
cacheVars  == <<history, cache, walk, label, flushedAt, older, stamp>>

(* Parents: the three labels; "NONE" for an ancestor the walk did not meet. *)
Parents == [dc      : Name \cup {"NONE"},
            cluster : Name \cup {"NONE"},
            spod    : Name \cup {"NONE"}]

NoParents    == [dc |-> "NONE",  cluster |-> "NONE",  spod |-> "NONE"]
ErrorParents == [dc |-> "ERROR", cluster |-> "ERROR", spod |-> "ERROR"]

version   == Len(history)
inventory == history[version]

Walking(u) == walk[u].at # "idle"

Empty == [m \in {} |-> NoParents]

-----------------------------------------------------------------------------
(* What one entity of the chain adds to the labels collected so far.  *)
Note(m, name, res) ==
    [res EXCEPT !.spod    = IF Type[m] = "StoragePod"             THEN name ELSE @,
                !.cluster = IF Type[m] = "ClusterComputeResource" THEN name ELSE @,
                !.dc      = IF Type[m] = "Datacenter"             THEN name ELSE @]

(* The chain ends at a datacenter or at an entity without a parent.  *)
Last(m, entity) == Type[m] = "Datacenter" \/ entity.parent = NoRef

Idle == [at |-> "idle", key |-> NoRef, cur |-> NoRef, res |-> NoParents, start |-> 0]

-----------------------------------------------------------------------------
Init ==
    /\ history   = <<Inventory0>>
    /\ cache     = Empty
    /\ walk      = [u \in Update |-> Idle]
    /\ label     = [u \in Update |-> NoParents]
    /\ flushedAt = [u \in Update |-> 0]
    /\ older     = [u \in Update |-> {}]
    /\ stamp     = [m \in Key |-> 0]

(* Mutant: an Update that does not flush.  *)
NoFlush(u) ==
    /\ ~ Walking(u)
    /\ flushedAt' = [flushedAt EXCEPT ![u] = version]
    /\ UNCHANGED <<history, cache, walk, label, older, stamp>>

(* cache.Flush(), the first statement of every Update: a new, empty map.  *)
Flush(u) ==
    /\ ~ Walking(u)
    /\ cache'     = Empty
    /\ flushedAt' = [flushedAt EXCEPT ![u] = version]
    /\ older'     = [older EXCEPT ![u] =
                        {walk[v].start : v \in {w \in Update : Walking(w)}}]
    /\ label'     = [label EXCEPT ![u] = NoParents]
    /\ stamp'     = [m \in Key |-> 0]
    /\ UNCHANGED <<history, walk>>

(* getParents(me) when me.Parent is nil.  *)
LookupRoot(u) ==
    /\ ~ Walking(u)
    /\ label' = [label EXCEPT ![u] = NoParents]
    /\ UNCHANGED <<history, cache, walk, ghosts>>

(* getParents(me) when cache.Get finds me.Parent = m.  *)
LookupHit(u, m) ==
    /\ ~ Walking(u)
    /\ m \in DOMAIN cache
    /\ label' = [label EXCEPT ![u] = cache[m]]
    /\ UNCHANGED <<history, cache, walk, ghosts>>

(* Mutant: the result variable outlives the call.  *)
LookupKeepsRes(u, m) ==
    /\ ~ Walking(u)
    /\ m \notin DOMAIN cache
    /\ walk' = [walk EXCEPT ![u] =
                    [at |-> "rpc", key |-> m, cur |-> m, start |-> version,
                     res |-> IF label[u] \in Parents THEN label[u] ELSE NoParents]]
    /\ UNCHANGED <<history, cache, label, ghosts>>

(* getParents(me) when it does not: the walk starts at me.Parent = m.  *)
LookupMiss(u, m) ==
    /\ ~ Walking(u)
    /\ m \notin DOMAIN cache
    /\ walk' = [walk EXCEPT ![u] = [at |-> "rpc", key |-> m, cur |-> m,
                                    res |-> NoParents, start |-> version]]
    /\ label' = [label EXCEPT ![u] = NoParents]
    /\ UNCHANGED <<history, cache, ghosts>>

(***************************************************************************)
(* One iteration of the loop: RetrieveOne answers with the entity as it is *)
(* now, its name goes to the label its type selects, and the walk goes on  *)
(* to its parent unless the chain ends here.                               *)
(***************************************************************************)
Retrieve(u) ==
    /\ walk[u].at = "rpc"
    /\ LET m      == walk[u].cur
           entity == inventory[m]
       IN  walk' = [walk EXCEPT ![u] =
                      [at    |-> IF Last(m, entity) THEN "add" ELSE "rpc",
                       key   |-> @.key,
                       cur   |-> IF Last(m, entity) THEN m ELSE entity.parent,
                       res   |-> Note(m, entity.name, @.res),
                       start |-> @.start]]
    /\ UNCHANGED <<history, cache, label, ghosts>>

(* Mutant: a failed request leaves the loop and is cached like an answer.  *)
RetrieveFailCached(u) ==
    /\ walk[u].at = "rpc"
    /\ walk' = [walk EXCEPT ![u].at = "add", ![u].res = ErrorParents]
    /\ UNCHANGED <<history, cache, label, ghosts>>

(* Mutant: after a failed request the walk is tried again from its start.  *)
RetrieveFailRestarts(u) ==
    /\ walk[u].at = "rpc"
    /\ walk' = [walk EXCEPT ![u].cur = walk[u].key, ![u].res = NoParents]
    /\ UNCHANGED <<history, cache, label, ghosts>>

(* RetrieveOne fails: three "ERROR" labels, and the cache is left alone.  *)
RetrieveFail(u) ==
    /\ walk[u].at = "rpc"
    /\ label' = [label EXCEPT ![u] = ErrorParents]
    /\ walk'  = [walk EXCEPT ![u] = Idle]
    /\ UNCHANGED <<history, cache, ghosts>>

(* cache.Add(me.Parent, res) and return, whoever flushed in the meantime.  *)
Add(u) ==
    /\ walk[u].at = "add"
    /\ cache' = [m \in DOMAIN cache \cup {walk[u].key} |->
                    IF m = walk[u].key THEN walk[u].res ELSE cache[m]]
    /\ stamp' = [stamp EXCEPT ![walk[u].key] = walk[u].start]
    /\ label' = [label EXCEPT ![u] = walk[u].res]
    /\ walk'  = [walk EXCEPT ![u] = Idle]
    /\ UNCHANGED <<history, flushedAt, older>>

(* vCenter renames m or moves it under another entity.  *)
Change(m, entity) ==
    /\ version < MaxVersion
    /\ entity.parent \in Under[m]
    /\ LET changed == [inventory EXCEPT ![m] = entity]
       IN  /\ Acyclic(changed)
           /\ history' = Append(history, changed)
    /\ UNCHANGED <<cache, walk, label, ghosts>>

Lookup(u) == LookupRoot(u) \/ \E m \in Key : LookupHit(u, m) \/ LookupMiss(u, m)

Step(u) == Retrieve(u) \/ RetrieveFail(u) \/ Add(u)

Next ==
    \/ \E u \in Update : Flush(u) \/ Lookup(u) \/ Step(u)
    \/ \E m \in Mor, entity \in Entity : Change(m, entity)

Spec == Init /\ [][Next]_cacheVars

(***************************************************************************)
(* Fairness: the goroutine scheduler runs every goroutine that can run,    *)
(* and vCenter answers or fails every request (the code sets no timeout    *)
(* of its own, see the README).                                            *)
(***************************************************************************)
FairSpec == Spec /\ \A u \in Update : WF_cacheVars(Step(u))

-----------------------------------------------------------------------------
TypeOK ==
    /\ history \in Seq([Mor -> Entity]) /\ Len(history) >= 1
    /\ DOMAIN cache \subseteq Key
    /\ \A m \in DOMAIN cache : cache[m] \in Parents
    /\ walk \in [Update -> [at : {"idle", "rpc", "add"}, key : Key \cup {NoRef},
                            cur : Mor \cup {NoRef}, res : Parents, start : Nat]]
    /\ \A u \in Update : Walking(u) => walk[u].key \in Key /\ walk[u].cur \in Mor
    /\ label \in [Update -> Parents \cup {ErrorParents}]
    /\ flushedAt \in [Update -> Nat]
    /\ older \in [Update -> SUBSET Nat]
    /\ stamp \in [Key -> Nat]

(***************************************************************************)
(* Every answer an Update can still get from the cache comes from a walk   *)
(* that began after that Update flushed it, or from one that its Flush     *)
(* overtook: the cache.Flush() at the top of each Update keeps everything  *)
(* else out, although every other Update flushes and fills the same map.   *)
(***************************************************************************)
BoundedStaleness ==
    \A u \in Update : \A m \in DOMAIN cache :
        stamp[m] >= flushedAt[u] \/ stamp[m] \in older[u]

(***************************************************************************)
(* A label is never made up: each name in a cached entry was the name of   *)
(* an entity of that kind in some inventory no older than the walk that    *)
(* stored it.  In particular the "ERROR" of a failed request, which        *)
(* getParents returns without Add, is never served to a later lookup.      *)
(***************************************************************************)
WasNameOf(name, type, since) ==
    \/ name = "NONE"
    \/ \E n \in since .. version, m \in Mor :
            Type[m] = type /\ history[n][m].name = name

LabelsWereTrue ==
    \A m \in DOMAIN cache :
        /\ WasNameOf(cache[m].dc,      "Datacenter",             stamp[m])
        /\ WasNameOf(cache[m].cluster, "ClusterComputeResource", stamp[m])
        /\ WasNameOf(cache[m].spod,    "StoragePod",             stamp[m])

(***************************************************************************)
(* The reference definition of an entity's labels, on one inventory: the   *)
(* chain from m up to the first datacenter, or to the root; the label of a *)
(* type is the name of the last entity of that type on the chain.          *)
(***************************************************************************)
Chain(inv, m) ==
    LET up == Up(inv, m)
    IN  {n \in 0 .. Cardinality(Mor) :
            /\ up[n] # NoRef
            /\ \A k \in 0 .. n - 1 : Type[up[k]] # "Datacenter"}

LabelAmong(inv, m, type, steps) ==
    LET up == Up(inv, m)
        at == {n \in steps : Type[up[n]] = type}
    IN  IF at = {} THEN "NONE"
        ELSE inv[up[CHOOSE n \in at : \A k \in at : k <= n]].name

ParentsAmong(inv, m, steps) ==
    [dc      |-> LabelAmong(inv, m, "Datacenter", steps),
     cluster |-> LabelAmong(inv, m, "ClusterComputeResource", steps),
     spod    |-> LabelAmong(inv, m, "StoragePod", steps)]

TrueParents(inv, m) == ParentsAmong(inv, m, Chain(inv, m))

(***************************************************************************)
(* As long as the inventory has not changed since the walk that stored an  *)
(* entry began, the entry is exactly what the reference definition gives,  *)
(* whatever flushes, fills and failures went on around that walk.          *)
(***************************************************************************)
CacheAccurate ==
    \A m \in DOMAIN cache :
        stamp[m] = version => cache[m] = TrueParents(inventory, m)

(***************************************************************************)
(* Nothing an Update does loses another Update's lookup: every call of     *)
(* getParents that started a walk returns, although folders may be moved   *)
(* under each other while it climbs and the loop has no bound of its own.  *)
(***************************************************************************)
WalkReturns == \A u \in Update : Walking(u) ~> ~ Walking(u)
=============================================================================

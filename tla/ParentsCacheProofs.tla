------------------------- MODULE ParentsCacheProofs -------------------------
(***************************************************************************)
(* Proofs about ParentsCache, for any number of Updates, any inventory and *)
(* any sequence of changes to it.                                          *)
(***************************************************************************)
EXTENDS ParentsCache, FiniteSetTheorems, WellFoundedInduction, TLAPS

USE DEF Parents, NoParents, ErrorParents, Entity, version, inventory, Idle, Empty, ghosts

(* A walk began in an inventory vCenter went through, and what it has      *)
(* collected so far was true in one no older than that.                    *)
WalkWasTrue ==
    \A u \in Update : Walking(u) =>
        /\ walk[u].start \in 1 .. version
        /\ WasNameOf(walk[u].res.dc,      "Datacenter",             walk[u].start)
        /\ WasNameOf(walk[u].res.cluster, "ClusterComputeResource", walk[u].start)
        /\ WasNameOf(walk[u].res.spod,    "StoragePod",             walk[u].start)

StampOK == \A m \in DOMAIN cache : stamp[m] \in 1 .. version

TrueInv == TypeOK /\ WalkWasTrue /\ StampOK /\ LabelsWereTrue

(* The same bound as BoundedStaleness, for what walks are about to Add.    *)
WalkStaleness ==
    \A u, v \in Update : Walking(v) =>
        walk[v].start >= flushedAt[u] \/ walk[v].start \in older[u]

StaleInv ==
    /\ TypeOK
    /\ \A u \in Update : flushedAt[u] <= version
    /\ WalkStaleness
    /\ BoundedStaleness

-----------------------------------------------------------------------------
(* What one entity adds to labels that are Parents are Parents again.      *)
LEMMA NoteType ==
    ASSUME NEW m, NEW name \in Name, NEW res \in Parents
    PROVE  Note(m, name, res) \in Parents
BY DEF Note

(* The types every variable keeps, whatever interleaving of flushes,       *)
(* lookups, walks and inventory changes the goroutines and vCenter choose. *)
LEMMA TypeInit == Init => TypeOK
BY InventoryAssumption DEF Init, TypeOK, Walking

LEMMA TypeStep == TypeOK /\ [Next]_cacheVars => TypeOK'
<1> SUFFICES ASSUME TypeOK, [Next]_cacheVars PROVE TypeOK'
    OBVIOUS
<1>1. ASSUME NEW u \in Update, Flush(u) PROVE TypeOK'
    BY <1>1 DEF Flush, TypeOK, Walking
<1>2. ASSUME NEW u \in Update, LookupRoot(u) PROVE TypeOK'
    BY <1>2 DEF LookupRoot, TypeOK, Walking
<1>3. ASSUME NEW u \in Update, NEW m \in Key, LookupHit(u, m) PROVE TypeOK'
    BY <1>3 DEF LookupHit, TypeOK, Walking
<1>4. ASSUME NEW u \in Update, NEW m \in Key, LookupMiss(u, m) PROVE TypeOK'
    BY <1>4, KeyAssumption DEF LookupMiss, TypeOK, Walking
<1>5. ASSUME NEW u \in Update, Retrieve(u) PROVE TypeOK'
  <2> DEFINE m      == walk[u].cur
             entity == history[Len(history)][m]
  <2>1. m \in Mor /\ entity \in Entity /\ walk[u].res \in Parents
    BY <1>5 DEF Retrieve, TypeOK, Walking
  <2>2. Note(m, entity.name, walk[u].res) \in Parents
    BY <2>1, NoteType
  <2>3. ~ Last(m, entity) => entity.parent \in Mor
    BY <2>1 DEF Last
  <2> DEFINE W == [at : {"idle", "rpc", "add"}, key : Key \cup {NoRef},
                   cur : Mor \cup {NoRef}, res : Parents, start : Nat]
             w == [at    |-> IF Last(m, entity) THEN "add" ELSE "rpc",
                   key   |-> walk[u].key,
                   cur   |-> IF Last(m, entity) THEN m ELSE entity.parent,
                   res   |-> Note(m, entity.name, walk[u].res),
                   start |-> walk[u].start]
  <2>4. walk' \in [Update -> W]
    <3>1. walk' = [walk EXCEPT ![u] = w]
      BY <1>5 DEF Retrieve
    <3>2. walk[u] \in W /\ walk \in [Update -> W]
      BY DEF TypeOK
    <3>3. w \in W
      BY <3>2, <2>1, <2>2, <2>3
    <3> QED
      BY <3>1, <3>2, <3>3
  <2>5. \A v \in Update : Walking(v)' => walk'[v].key \in Key /\ walk'[v].cur \in Mor
    BY <1>5, <2>1, <2>2, <2>3 DEF Retrieve, TypeOK, Walking
  <2> QED
    BY <1>5, <2>4, <2>5 DEF Retrieve, TypeOK
<1>6. ASSUME NEW u \in Update, RetrieveFail(u) PROVE TypeOK'
    BY <1>6 DEF RetrieveFail, TypeOK, Walking
<1>7. ASSUME NEW u \in Update, Add(u) PROVE TypeOK'
    BY <1>7 DEF Add, TypeOK, Walking
<1>8. ASSUME NEW m \in Mor, NEW entity \in Entity, Change(m, entity) PROVE TypeOK'
    BY <1>8 DEF Change, TypeOK, Walking
<1>9. CASE UNCHANGED cacheVars
    BY <1>9 DEF cacheVars, TypeOK, Walking
<1> QED
    BY <1>1, <1>2, <1>3, <1>4, <1>5, <1>6, <1>7, <1>8, <1>9 DEF Next, Lookup, Step

(* The cache, the walks and the labels keep their types, whoever flushes   *)
(* and fills, and however the inventory changes.                           *)
THEOREM TypeCorrect == Spec => []TypeOK
<1> QED
  BY TypeInit, TypeStep, PTL DEF Spec

-----------------------------------------------------------------------------
(* Init establishes the staleness bound: the cache is empty, nobody walks. *)
LEMMA StaleInit == Init => StaleInv
BY TypeInit DEF Init, StaleInv, WalkStaleness, BoundedStaleness, Walking

(* Every step keeps it.  A Flush empties the cache and takes every walk in *)
(* flight into older; a walk that begins later begins at the version of    *)
(* the last Flush or after it; an Add passes its walk's start on.          *)
LEMMA StaleStep == StaleInv /\ [Next]_cacheVars => StaleInv'
<1> SUFFICES ASSUME StaleInv, [Next]_cacheVars PROVE StaleInv'
    OBVIOUS
<1> USE DEF StaleInv, WalkStaleness, BoundedStaleness, Walking
<1>0. TypeOK /\ TypeOK'
    BY TypeStep
<1>1. ASSUME NEW u \in Update, Flush(u) PROVE StaleInv'
  <2>1. flushedAt \in [Update -> Nat] /\ older \in [Update -> SUBSET Nat]
    BY <1>0 DEF TypeOK
  <2>2. version' = version /\ walk' = walk /\ version \in Nat
    BY <1>0, <1>1 DEF Flush, TypeOK
  <2>3. \A v \in Update : flushedAt'[v] <= version'
    BY <1>1, <2>1, <2>2 DEF Flush
  <2>4. WalkStaleness'
    BY <1>1, <2>1, <2>2 DEF Flush
  <2>5. BoundedStaleness'
    BY <1>1 DEF Flush
  <2> QED
    BY <1>0, <2>3, <2>4, <2>5
<1>2. ASSUME NEW u \in Update, LookupRoot(u) PROVE StaleInv'
    BY <1>0, <1>2 DEF LookupRoot
<1>3. ASSUME NEW u \in Update, NEW m \in Key, LookupHit(u, m) PROVE StaleInv'
    BY <1>0, <1>3 DEF LookupHit
<1>4. ASSUME NEW u \in Update, NEW m \in Key, LookupMiss(u, m) PROVE StaleInv'
  <2>1. walk \in [Update -> [at : {"idle", "rpc", "add"}, key : Key \cup {NoRef},
                            cur : Mor \cup {NoRef}, res : Parents, start : Nat]]
    BY <1>0 DEF TypeOK
  <2>2. walk'[u].start = version
    BY <1>4, <2>1 DEF LookupMiss
  <2>3. \A v \in Update : v # u => walk'[v] = walk[v]
    BY <1>4, <2>1 DEF LookupMiss
  <2>4. UNCHANGED <<history, cache, flushedAt, older, stamp>>
    BY <1>4 DEF LookupMiss
  <2>5. WalkStaleness'
    BY <2>2, <2>3, <2>4
  <2> QED
    BY <1>0, <2>4, <2>5
<1>5. ASSUME NEW u \in Update, Retrieve(u) PROVE StaleInv'
  <2>1. \A v \in Update : walk'[v].start = walk[v].start /\ (Walking(v)' => Walking(v))
    BY <1>0, <1>5 DEF Retrieve, TypeOK
  <2>2. UNCHANGED <<history, cache, flushedAt, older, stamp>>
    BY <1>5 DEF Retrieve
  <2> QED
    BY <1>0, <2>1, <2>2
<1>6. ASSUME NEW u \in Update, RetrieveFail(u) PROVE StaleInv'
  <2>1. \A v \in Update : Walking(v)' => v # u /\ walk'[v] = walk[v]
    BY <1>0, <1>6 DEF RetrieveFail, TypeOK
  <2>2. UNCHANGED <<history, cache, flushedAt, older, stamp>>
    BY <1>6 DEF RetrieveFail
  <2> QED
    BY <1>0, <2>1, <2>2
<1>7. ASSUME NEW u \in Update, Add(u) PROVE StaleInv'
  <2>1. \A v \in Update : Walking(v)' => v # u /\ walk'[v] = walk[v]
    BY <1>0, <1>7 DEF Add, TypeOK
  <2>2. UNCHANGED <<history, flushedAt, older>>
    BY <1>7 DEF Add
  <2>3. Walking(u) /\ walk[u].key \in Key
    BY <1>0, <1>7 DEF Add, TypeOK
  <2>4. stamp' = [stamp EXCEPT ![walk[u].key] = walk[u].start] /\ stamp \in [Key -> Nat]
    BY <1>0, <1>7 DEF Add, TypeOK
  <2>5. DOMAIN cache' = DOMAIN cache \cup {walk[u].key} /\ DOMAIN cache \subseteq Key
    BY <1>0, <1>7 DEF Add, TypeOK
  <2>6. BoundedStaleness'
    BY <2>2, <2>3, <2>4, <2>5
  <2>7. WalkStaleness'
    BY <2>1, <2>2
  <2> QED
    BY <1>0, <2>2, <2>6, <2>7
<1>8. ASSUME NEW m \in Mor, NEW entity \in Entity, Change(m, entity) PROVE StaleInv'
  <2>1. version' >= version
    BY <1>0, <1>8 DEF Change, TypeOK
  <2>2. UNCHANGED <<cache, walk, flushedAt, older, stamp>>
    BY <1>8 DEF Change
  <2>3. version \in Nat /\ version' \in Nat /\ flushedAt \in [Update -> Nat]
    BY <1>0 DEF TypeOK
  <2> QED
    BY <1>0, <2>1, <2>2, <2>3
<1>9. CASE UNCHANGED cacheVars
    BY <1>0, <1>9 DEF cacheVars
<1> QED
    BY <1>1, <1>2, <1>3, <1>4, <1>5, <1>6, <1>7, <1>8, <1>9 DEF Next, Lookup, Step

(* Whatever an Update is answered from the cache was collected by a walk   *)
(* that began after the Update's own Flush or that the Flush overtook.     *)
THEOREM StalenessBounded == Spec => []BoundedStaleness
<1>1. StaleInv => BoundedStaleness
    BY DEF StaleInv
<1> QED
    BY StaleInit, StaleStep, <1>1, PTL DEF Spec

-----------------------------------------------------------------------------
(* A name that was true stays one that was true: inventories are only      *)
(* ever appended to the history.                                           *)
LEMMA WasNameKept ==
    ASSUME TypeOK, TypeOK', NEW name, NEW type, NEW since \in Nat, since >= 1,
           version <= version', \A n \in 1 .. version : history'[n] = history[n],
           WasNameOf(name, type, since)
    PROVE  WasNameOf(name, type, since)'
<1>1. CASE name = "NONE"
    BY <1>1 DEF WasNameOf
<1>2. CASE name # "NONE"
  <2>1. PICK n \in since .. version, m \in Mor :
            Type[m] = type /\ history[n][m].name = name
    BY <1>2 DEF WasNameOf
  <2>2. version \in Nat /\ version' \in Nat
    BY DEF TypeOK
  <2>3. n \in 1 .. version /\ n \in since .. version'
    BY <2>2
  <2>4. history'[n] = history[n]
    BY <2>3
  <2> QED
    BY <2>1, <2>3, <2>4 DEF WasNameOf
<1> QED
    BY <1>1, <1>2

(* What RetrieveOne answers is in the current inventory, so noting it      *)
(* keeps the labels of a walk true.                                        *)
LEMMA NoteWasTrue ==
    ASSUME NEW m \in Mor, NEW res \in Parents, NEW since \in 1 .. version, TypeOK,
           WasNameOf(res.dc,      "Datacenter",             since),
           WasNameOf(res.cluster, "ClusterComputeResource", since),
           WasNameOf(res.spod,    "StoragePod",             since)
    PROVE  LET noted == Note(m, inventory[m].name, res)
           IN  /\ WasNameOf(noted.dc,      "Datacenter",             since)
               /\ WasNameOf(noted.cluster, "ClusterComputeResource", since)
               /\ WasNameOf(noted.spod,    "StoragePod",             since)
<1>1. version \in since .. version
    BY DEF TypeOK
<1>2. WasNameOf(inventory[m].name, Type[m], since)
    BY <1>1 DEF WasNameOf
<1>3. Note(m, inventory[m].name, res).dc
        = IF Type[m] = "Datacenter" THEN inventory[m].name ELSE res.dc
    BY DEF Note
<1>4. Note(m, inventory[m].name, res).cluster
        = IF Type[m] = "ClusterComputeResource" THEN inventory[m].name ELSE res.cluster
    BY DEF Note
<1>5. Note(m, inventory[m].name, res).spod
        = IF Type[m] = "StoragePod" THEN inventory[m].name ELSE res.spod
    BY DEF Note
<1> QED
    BY <1>2, <1>3, <1>4, <1>5

LEMMA TrueInit == Init => TrueInv
BY TypeInit DEF Init, TrueInv, WalkWasTrue, StampOK, LabelsWereTrue, Walking

(* Steps that leave the inventories alone and neither fill the cache nor   *)
(* advance a walk.                                                         *)
LEMMA TrueQuiet ==
    ASSUME TrueInv, TypeOK', UNCHANGED history,
           \A m \in DOMAIN cache' :
                m \in DOMAIN cache /\ cache'[m] = cache[m] /\ stamp'[m] = stamp[m],
           \A u \in Update : Walking(u)' =>
                \/ Walking(u) /\ walk'[u] = walk[u]
                \/ walk'[u].start = version /\ walk'[u].res = NoParents
    PROVE  TrueInv'
<1> USE DEF TrueInv
<1>1. \A name, type, since : WasNameOf(name, type, since)' <=> WasNameOf(name, type, since)
    BY DEF WasNameOf
<1>2. version \in Nat /\ version >= 1 /\ version' = version
    BY DEF TypeOK
<1>3. WalkWasTrue'
  <2> SUFFICES ASSUME NEW u \in Update, Walking(u)'
               PROVE  /\ walk'[u].start \in 1 .. version
                      /\ WasNameOf(walk'[u].res.dc, "Datacenter", walk'[u].start)
                      /\ WasNameOf(walk'[u].res.cluster, "ClusterComputeResource",
                                   walk'[u].start)
                      /\ WasNameOf(walk'[u].res.spod, "StoragePod", walk'[u].start)
    BY <1>1, <1>2 DEF WalkWasTrue
  <2>1. CASE Walking(u) /\ walk'[u] = walk[u]
    BY <2>1 DEF WalkWasTrue
  <2>2. CASE walk'[u].start = version /\ walk'[u].res = NoParents
    BY <2>2, <1>2 DEF WasNameOf
  <2> QED
    BY <2>1, <2>2
<1>4. StampOK'
    BY <1>2 DEF StampOK
<1>5. LabelsWereTrue'
    BY <1>1 DEF LabelsWereTrue
<1> QED
    BY <1>3, <1>4, <1>5

LEMMA TrueStep == TrueInv /\ [Next]_cacheVars => TrueInv'
<1> SUFFICES ASSUME TrueInv, [Next]_cacheVars PROVE TrueInv'
    OBVIOUS
<1>0. TypeOK /\ TypeOK'
    BY TypeStep DEF TrueInv
<1>a. walk \in [Update -> [at : {"idle", "rpc", "add"}, key : Key \cup {NoRef},
                          cur : Mor \cup {NoRef}, res : Parents, start : Nat]]
    BY <1>0 DEF TypeOK
<1>b. version \in Nat /\ version >= 1
    BY <1>0 DEF TypeOK
<1>1. ASSUME NEW u \in Update, Flush(u) PROVE TrueInv'
    BY <1>0, <1>1, TrueQuiet DEF Flush, Walking
<1>2. ASSUME NEW u \in Update, LookupRoot(u) PROVE TrueInv'
    BY <1>0, <1>2, TrueQuiet DEF LookupRoot, Walking
<1>3. ASSUME NEW u \in Update, NEW m \in Key, LookupHit(u, m) PROVE TrueInv'
    BY <1>0, <1>3, TrueQuiet DEF LookupHit, Walking
<1>4. ASSUME NEW u \in Update, NEW m \in Key, LookupMiss(u, m) PROVE TrueInv'
  <2>1. \A v \in Update : Walking(v)' =>
            \/ Walking(v) /\ walk'[v] = walk[v]
            \/ walk'[v].start = version /\ walk'[v].res = NoParents
    BY <1>4, <1>a DEF LookupMiss, Walking
  <2> QED
    BY <1>0, <1>4, <2>1, TrueQuiet DEF LookupMiss
<1>5. ASSUME NEW u \in Update, Retrieve(u) PROVE TrueInv'
  <2> DEFINE m == walk[u].cur
  <2>1. m \in Mor /\ walk[u].res \in Parents /\ Walking(u)
    BY <1>5, <1>0, <1>a DEF Retrieve, TypeOK, Walking
  <2>2. /\ walk'[u].res = Note(m, inventory[m].name, walk[u].res)
        /\ walk'[u].start = walk[u].start
        /\ \A v \in Update : v # u => walk'[v] = walk[v]
    BY <1>5, <1>a DEF Retrieve
  <2>3. UNCHANGED <<history, cache, stamp>>
    BY <1>5 DEF Retrieve
  <2>4. \A name, type, since :
            WasNameOf(name, type, since)' <=> WasNameOf(name, type, since)
    BY <2>3 DEF WasNameOf
  <2>5. /\ walk[u].start \in 1 .. version
        /\ WasNameOf(walk[u].res.dc,      "Datacenter",             walk[u].start)
        /\ WasNameOf(walk[u].res.cluster, "ClusterComputeResource", walk[u].start)
        /\ WasNameOf(walk[u].res.spod,    "StoragePod",             walk[u].start)
    BY <2>1 DEF TrueInv, WalkWasTrue
  <2>6. /\ WasNameOf(walk'[u].res.dc,      "Datacenter",             walk[u].start)
        /\ WasNameOf(walk'[u].res.cluster, "ClusterComputeResource", walk[u].start)
        /\ WasNameOf(walk'[u].res.spod,    "StoragePod",             walk[u].start)
    BY <2>1, <2>2, <2>5, <1>0, NoteWasTrue
  <2>7. WalkWasTrue'
    BY <2>2, <2>3, <2>4, <2>5, <2>6 DEF TrueInv, WalkWasTrue, Walking
  <2>8. StampOK' /\ LabelsWereTrue'
    BY <2>3, <2>4 DEF TrueInv, StampOK, LabelsWereTrue
  <2> QED
    BY <1>0, <2>7, <2>8 DEF TrueInv
<1>6. ASSUME NEW u \in Update, RetrieveFail(u) PROVE TrueInv'
  <2>1. \A v \in Update : Walking(v)' => Walking(v) /\ walk'[v] = walk[v]
    BY <1>6, <1>a DEF RetrieveFail, Walking
  <2> QED
    BY <1>0, <1>6, <2>1, TrueQuiet DEF RetrieveFail
<1>7. ASSUME NEW u \in Update, Add(u) PROVE TrueInv'
  <2>1. \A v \in Update : Walking(v)' => Walking(v) /\ walk'[v] = walk[v]
    BY <1>7, <1>a DEF Add, Walking
  <2>2. UNCHANGED history
    BY <1>7 DEF Add
  <2>3. \A name, type, since :
            WasNameOf(name, type, since)' <=> WasNameOf(name, type, since)
    BY <2>2 DEF WasNameOf
  <2>4. /\ walk[u].start \in 1 .. version
        /\ WasNameOf(walk[u].res.dc,      "Datacenter",             walk[u].start)
        /\ WasNameOf(walk[u].res.cluster, "ClusterComputeResource", walk[u].start)
        /\ WasNameOf(walk[u].res.spod,    "StoragePod",             walk[u].start)
    BY <1>7 DEF Add, TrueInv, WalkWasTrue, Walking
  <2>5. walk[u].key \in Key /\ stamp \in [Key -> Nat] /\ DOMAIN cache \subseteq Key
    BY <1>7, <1>0 DEF Add, TypeOK, Walking
  <2>6. /\ DOMAIN cache' = DOMAIN cache \cup {walk[u].key}
        /\ cache'[walk[u].key] = walk[u].res
        /\ stamp'[walk[u].key] = walk[u].start
        /\ \A m \in DOMAIN cache' : m # walk[u].key =>
                m \in DOMAIN cache /\ cache'[m] = cache[m] /\ stamp'[m] = stamp[m]
    BY <1>7, <2>5 DEF Add
  <2>7. WalkWasTrue'
    BY <2>1, <2>2, <2>3 DEF TrueInv, WalkWasTrue
  <2>8. StampOK'
    BY <2>2, <2>4, <2>6 DEF TrueInv, StampOK
  <2>9. LabelsWereTrue'
    BY <2>3, <2>4, <2>6 DEF TrueInv, LabelsWereTrue
  <2> QED
    BY <1>0, <2>7, <2>8, <2>9 DEF TrueInv
<1>8. ASSUME NEW m \in Mor, NEW entity \in Entity, Change(m, entity) PROVE TrueInv'
  <2>1. /\ version <= version'
        /\ \A n \in 1 .. version : history'[n] = history[n]
    BY <1>0, <1>b, <1>8 DEF Change, TypeOK
  <2>2. UNCHANGED <<cache, walk, stamp>>
    BY <1>8 DEF Change
  <2>3. \A name, type : \A since \in Nat :
            since >= 1 /\ WasNameOf(name, type, since) => WasNameOf(name, type, since)'
    BY <1>0, <2>1, WasNameKept
  <2>4. version' \in Nat
    BY <1>0 DEF TypeOK
  <2>5. WalkWasTrue'
    <3> SUFFICES ASSUME NEW u \in Update, Walking(u)
                 PROVE  /\ walk[u].start \in 1 .. version'
                        /\ WasNameOf(walk[u].res.dc, "Datacenter", walk[u].start)'
                        /\ WasNameOf(walk[u].res.cluster, "ClusterComputeResource",
                                     walk[u].start)'
                        /\ WasNameOf(walk[u].res.spod, "StoragePod", walk[u].start)'
      BY <2>2 DEF WalkWasTrue, Walking
    <3>1. /\ walk[u].start \in 1 .. version
          /\ WasNameOf(walk[u].res.dc,      "Datacenter",             walk[u].start)
          /\ WasNameOf(walk[u].res.cluster, "ClusterComputeResource", walk[u].start)
          /\ WasNameOf(walk[u].res.spod,    "StoragePod",             walk[u].start)
      BY DEF TrueInv, WalkWasTrue
    <3>2. walk[u].start \in Nat /\ walk[u].start >= 1 /\ walk[u].start \in 1 .. version'
      BY <3>1, <1>b, <2>1, <2>4
    <3>3. walk'[u] = walk[u]
      BY <2>2
    <3> QED
      BY <2>3, <3>1, <3>2, <3>3
  <2>6. StampOK'
    BY <1>b, <2>1, <2>2, <2>4 DEF TrueInv, StampOK
  <2>7. LabelsWereTrue'
    <3> SUFFICES ASSUME NEW k \in DOMAIN cache
                 PROVE  /\ WasNameOf(cache[k].dc, "Datacenter", stamp[k])'
                        /\ WasNameOf(cache[k].cluster, "ClusterComputeResource", stamp[k])'
                        /\ WasNameOf(cache[k].spod, "StoragePod", stamp[k])'
      BY <2>2 DEF LabelsWereTrue
    <3>1. /\ WasNameOf(cache[k].dc,      "Datacenter",             stamp[k])
          /\ WasNameOf(cache[k].cluster, "ClusterComputeResource", stamp[k])
          /\ WasNameOf(cache[k].spod,    "StoragePod",             stamp[k])
      BY DEF TrueInv, LabelsWereTrue
    <3>2. stamp[k] \in Nat /\ stamp[k] >= 1
      BY <1>b DEF TrueInv, StampOK
    <3>3. cache'[k] = cache[k] /\ stamp'[k] = stamp[k]
      BY <2>2
    <3> QED
      BY <2>3, <3>1, <3>2, <3>3
  <2> QED
    BY <1>0, <2>5, <2>6, <2>7 DEF TrueInv
<1>9. CASE UNCHANGED cacheVars
    BY <1>0, <1>9, TrueQuiet DEF cacheVars, Walking
<1> QED
    BY <1>1, <1>2, <1>3, <1>4, <1>5, <1>6, <1>7, <1>8, <1>9 DEF Next, Lookup, Step

(* No cached label was made up: each was a name vCenter had since the walk *)
(* that stored it began, and a failed request never leaves one behind.     *)
THEOREM LabelsTrue == Spec => []LabelsWereTrue
<1>1. TrueInv => LabelsWereTrue
    BY DEF TrueInv
<1> QED
    BY TrueInit, TrueStep, <1>1, PTL DEF Spec

-----------------------------------------------------------------------------
(***************************************************************************)
(* Induction on the naturals with the hypothesis as a set, which a leaf    *)
(* can instantiate, and the iterates of a function that it gives: they     *)
(* justify the recursive function in Up.                                   *)
(***************************************************************************)

(* Some relation that contains < is well founded on the naturals.  *)
LEMMA LessIsWellFounded ==
    \E R : IsWellFoundedOn(R, Nat) /\ \A a, b \in Nat : a < b => <<a, b>> \in R
<1>1. IsWellFoundedOn(OpToRel(<, Nat), Nat)
  BY NatLessThanWellFounded
<1>2. \A a, b \in Nat : a < b => <<a, b>> \in OpToRel(<, Nat)
  BY DEF OpToRel
<1> QED
  BY <1>1, <1>2

(* A set of naturals has a least element.  *)
LEMMA LeastNat ==
    ASSUME NEW T, T \subseteq Nat, T # {}
    PROVE  \E x \in T : \A y \in T : x <= y
<1>1. PICK R : IsWellFoundedOn(R, Nat) /\ \A a, b \in Nat : a < b => <<a, b>> \in R
  BY LessIsWellFounded
<1>a. IsWellFoundedOn(R, Nat)
  BY <1>1
<1>2. \E x \in T : \A y \in T : ~ (<<y, x>> \in R)
  BY <1>a, WFMin, Zenon
<1>3. PICK x \in T : \A y \in T : ~ (<<y, x>> \in R)
  BY <1>2
<1>4. ASSUME NEW y \in T PROVE x <= y
  <2>1. x \in Nat /\ y \in Nat
    OBVIOUS
  <2>2. ~ (y < x)
    BY <1>1, <1>3, <2>1
  <2> QED
    BY <2>1, <2>2
<1> QED
  BY <1>4

(* A set that holds 0 and successors holds every natural.  *)
LEMMA NatSetInduction ==
    ASSUME NEW S, 0 \in S, \A n \in Nat : n \in S => n + 1 \in S
    PROVE  Nat \subseteq S
<1> SUFFICES ASSUME Nat \ S # {} PROVE FALSE
  OBVIOUS
<1>1. PICK x \in Nat \ S : \A y \in Nat \ S : x <= y
  BY LeastNat
<1>2. x - 1 \in Nat /\ x - 1 \in S
  BY <1>1
<1> QED
  BY <1>1, <1>2

(* g[n] is f applied n times to x.  *)
Iterates(g, S, f, x) ==
    /\ g \in [Nat -> S]
    /\ g[0] = x
    /\ \A n \in Nat : g[n + 1] = f[g[n]]

(* Every function on a set has its iterates: there is a run of each length, *)
(* and a longer run goes through a shorter one.                             *)
LEMMA IteratesExist ==
    ASSUME NEW S, NEW f, NEW x, f \in [S -> S], x \in S
    PROVE  \E g : Iterates(g, S, f, x)
<1> DEFINE Runs(n) == {h \in [0 .. n -> S] :
                          h[0] = x /\ \A k \in 0 .. n - 1 : h[k + 1] = f[h[k]]}
           Done == {n \in Nat : Runs(n) # {}}
<1>1. Nat \subseteq Done
  <2>1. 0 \in Done
    <3> DEFINE h == [k \in 0 .. 0 |-> x]
    <3>1. h \in Runs(0)
      OBVIOUS
    <3> QED
      BY <3>1
  <2>2. ASSUME NEW n \in Nat, n \in Done PROVE n + 1 \in Done
    <3>1. PICK h \in Runs(n) : TRUE
      BY <2>2
    <3> DEFINE hh == [k \in 0 .. n + 1 |-> IF k = n + 1 THEN f[h[n]] ELSE h[k]]
    <3>2. h \in [0 .. n -> S] /\ h[0] = x /\ \A k \in 0 .. n - 1 : h[k + 1] = f[h[k]]
      BY <3>1
    <3>3. \A k \in 0 .. n + 1 : k = n + 1 \/ k \in 0 .. n
      OBVIOUS
    <3>4. hh \in [0 .. n + 1 -> S]
      BY <3>2, <3>3
    <3>5. hh[0] = x
      BY <3>2
    <3>6. ASSUME NEW k \in 0 .. (n + 1) - 1 PROVE hh[k + 1] = f[hh[k]]
      <4>1. CASE k = n
        BY <4>1, <3>2
      <4>2. CASE k # n
        <5>1. k \in 0 .. n - 1 /\ k \in 0 .. n + 1 /\ k + 1 \in 0 .. n + 1
          BY <4>2
        <5>2. hh[k + 1] = h[k + 1] /\ hh[k] = h[k]
          BY <5>1
        <5> QED
          BY <5>1, <5>2, <3>2
      <4> QED
        BY <4>1, <4>2
    <3>7. hh \in Runs(n + 1)
      BY <3>4, <3>5, <3>6
    <3>8. Runs(n + 1) # {} /\ n + 1 \in Nat
      <4> HIDE DEF Runs, hh
      <4> QED
        BY <3>7
    <3> QED
      BY <3>8
  <2> HIDE DEF Done
  <2> QED
    BY <2>1, <2>2, NatSetInduction
<1> DEFINE run == [n \in Nat |-> CHOOSE h \in Runs(n) : TRUE]
           g   == [n \in Nat |-> run[n][n]]
<1>2. ASSUME NEW n \in Nat
      PROVE  /\ run[n] \in [0 .. n -> S] /\ run[n][0] = x
             /\ \A k \in 0 .. n - 1 : run[n][k + 1] = f[run[n][k]]
  <2>1. Runs(n) # {}
    BY <1>1
  <2>2. run[n] \in Runs(n)
    BY <2>1
  <2> QED
    BY <2>2
<1> HIDE DEF run
<1>3. ASSUME NEW n \in Nat PROVE run[n + 1][n] = run[n][n]
  <2> DEFINE Same == {k \in Nat : k <= n => run[n + 1][k] = run[n][k]}
  <2>1. 0 \in Same
    BY <1>2
  <2>2. ASSUME NEW k \in Nat, k \in Same PROVE k + 1 \in Same
    <3>1. CASE k + 1 <= n
      <4>1. k \in 0 .. n - 1 /\ k \in 0 .. (n + 1) - 1 /\ n + 1 \in Nat
        BY <3>1
      <4>2. run[n][k + 1] = f[run[n][k]] /\ run[n + 1][k + 1] = f[run[n + 1][k]]
        BY <4>1, <1>2
      <4>3. run[n + 1][k] = run[n][k]
        BY <2>2, <3>1
      <4> QED
        BY <4>2, <4>3
    <3> QED
      BY <3>1
  <2>3. Nat \subseteq Same
    <3> HIDE DEF Same
    <3> QED
      BY <2>1, <2>2, NatSetInduction
  <2> QED
    BY <2>3
<1>4. g \in [Nat -> S] /\ g[0] = x
  BY <1>2
<1>5. ASSUME NEW n \in Nat PROVE g[n + 1] = f[g[n]]
  <2>1. run[n + 1][n + 1] = f[run[n + 1][n]]
    BY <1>2
  <2> QED
    BY <2>1, <1>3
<1> QED
  <2> HIDE DEF g
  <2> QED
    BY <1>4, <1>5 DEF Iterates

(* Up is what its recursive definition says: it starts at m and goes from  *)
(* each entity to its parent.                                              *)
LEMMA UpSteps ==
    ASSUME NEW inv \in [Mor -> Entity], NEW m \in Mor
    PROVE  /\ Up(inv, m) \in [Nat -> Mor \cup {NoRef}]
           /\ Up(inv, m)[0] = m
           /\ \A n \in Nat : Up(inv, m)[n + 1] =
                IF Up(inv, m)[n] = NoRef THEN NoRef ELSE inv[Up(inv, m)[n]].parent
<1> DEFINE R    == Mor \cup {NoRef}
           next == [r \in R |-> IF r = NoRef THEN NoRef ELSE inv[r].parent]
           Is(up) == up = [n \in Nat |->
                IF n = 0 THEN m
                ELSE IF up[n - 1] = NoRef THEN NoRef ELSE inv[up[n - 1]].parent]
<1>1. next \in [R -> R] /\ m \in R
  BY DEF Entity
<1>b. \E g : Iterates(g, R, next, m)
  <2> HIDE DEF next, R
  <2> QED
    BY <1>1, IteratesExist
<1>a. \A r \in R : next[r] = IF r = NoRef THEN NoRef ELSE inv[r].parent
  OBVIOUS
<1> HIDE DEF next
<1>2. PICK g \in [Nat -> R] : g[0] = m /\ \A n \in Nat : g[n + 1] = next[g[n]]
  BY <1>b DEF Iterates
<1>3. Is(g)
  <2>1. ASSUME NEW n \in Nat, n # 0
        PROVE  g[n] = IF g[n - 1] = NoRef THEN NoRef ELSE inv[g[n - 1]].parent
    <3>1. n - 1 \in Nat /\ (n - 1) + 1 = n
      BY <2>1
    <3>2. g[n] = next[g[n - 1]] /\ g[n - 1] \in R
      BY <1>2, <3>1
    <3> QED
      BY <3>2, <1>a
  <2> QED
    BY <1>2, <2>1
<1>4. Up(inv, m) = CHOOSE up : Is(up)
  BY DEF Up
<1>5. Is(Up(inv, m))
  BY <1>3, <1>4
<1>6. \A n \in Nat : Up(inv, m)[n + 1] =
                IF Up(inv, m)[n] = NoRef THEN NoRef ELSE inv[Up(inv, m)[n]].parent
  BY <1>5
<1>7. Up(inv, m)[0] = m
  BY <1>5
<1>8. Up(inv, m) \in [Nat -> R]
  <2> DEFINE In == {n \in Nat : Up(inv, m)[n] \in R}
  <2>1. 0 \in In
    BY <1>1, <1>7
  <2>2. ASSUME NEW n \in Nat, n \in In PROVE n + 1 \in In
    BY <2>2, <1>6 DEF Entity
  <2>3. Nat \subseteq In
    <3> HIDE DEF In
    <3> QED
      BY <2>1, <2>2, NatSetInduction
  <2>4. \A n \in Nat : Up(inv, m)[n] \in R
    BY <2>3
  <2> QED
    BY <2>4, <1>5
<1> QED
  BY <1>6, <1>7, <1>8

-----------------------------------------------------------------------------
(***************************************************************************)
(* The chain of parents above one entity, on one inventory: what the       *)
(* reference definition reads of it, step by step.                         *)
(***************************************************************************)

(* Once the root is passed, nothing follows.  *)
LEMMA UpEnds ==
    ASSUME NEW inv \in [Mor -> Entity], NEW m \in Mor,
           NEW a \in Nat, NEW b \in Nat, a <= b, Up(inv, m)[a] = NoRef
    PROVE  Up(inv, m)[b] = NoRef
<1> DEFINE up    == Up(inv, m)
           Ended == {n \in Nat : n >= a => up[n] = NoRef}
<1>1. \A n \in Nat : up[n + 1] = IF up[n] = NoRef THEN NoRef ELSE inv[up[n]].parent
  BY UpSteps
<1> HIDE DEF up
<1>2. up[a] = NoRef
  BY DEF up
<1>3. 0 \in Ended
  BY <1>2
<1>4. ASSUME NEW n \in Nat, n \in Ended PROVE n + 1 \in Ended
  <2>1. CASE n >= a
    BY <2>1, <1>1, <1>4
  <2>2. CASE ~ (n >= a)
    BY <2>2, <1>2
  <2> QED
    BY <2>1, <2>2
<1>5. Nat \subseteq Ended
  <2> HIDE DEF Ended
  <2> QED
    BY <1>3, <1>4, NatSetInduction
<1> QED
  BY <1>5 DEF up

(* One more entity of the chain: it gives the label of its type.  *)
LEMMA LabelAmongNext ==
    ASSUME NEW inv, NEW m, NEW type, NEW n \in Nat
    PROVE  LabelAmong(inv, m, type, 0 .. n) =
              IF Type[Up(inv, m)[n]] = type THEN inv[Up(inv, m)[n]].name
              ELSE LabelAmong(inv, m, type, 0 .. n - 1)
<1> DEFINE up == Up(inv, m)
           at(steps) == {k \in steps : Type[up[k]] = type}
<1> HIDE DEF up
<1>1. CASE Type[up[n]] = type
  <2>1. n \in at(0 .. n) /\ \A k \in at(0 .. n) : k <= n
    BY <1>1
  <2>2. (CHOOSE k \in at(0 .. n) : \A j \in at(0 .. n) : j <= k) = n
    <3> DEFINE top == CHOOSE k \in at(0 .. n) : \A j \in at(0 .. n) : j <= k
    <3>1. top \in at(0 .. n) /\ \A j \in at(0 .. n) : j <= top
      BY <2>1
    <3>2. top \in Nat /\ top <= n /\ n <= top
      BY <3>1, <2>1
    <3> QED
      BY <3>2
  <2> QED
    BY <1>1, <2>1, <2>2 DEF LabelAmong, up
<1>2. CASE Type[up[n]] # type
  <2>1. at(0 .. n) = at(0 .. n - 1)
    <3>1. \A k \in 0 .. n : k = n \/ k \in 0 .. n - 1
      OBVIOUS
    <3> QED
      BY <1>2, <3>1
  <2>2. \A steps : LabelAmong(inv, m, type, steps) =
            IF at(steps) = {} THEN "NONE"
            ELSE inv[up[CHOOSE k \in at(steps) : \A j \in at(steps) : j <= k]].name
    BY DEF LabelAmong, up
  <2>3. LabelAmong(inv, m, type, 0 .. n) = LabelAmong(inv, m, type, 0 .. n - 1)
    <3> HIDE DEF at
    <3> QED
      BY <2>1, <2>2
  <2> QED
    BY <1>2, <2>3 DEF up
<1> QED
  BY <1>1, <1>2 DEF up

(* Note sets the one field its type selects.  *)
LEMMA NoteRecord ==
    ASSUME NEW m, NEW name, NEW dc, NEW cluster, NEW spod
    PROVE  Note(m, name, [dc |-> dc, cluster |-> cluster, spod |-> spod]) =
              [dc      |-> IF Type[m] = "Datacenter" THEN name ELSE dc,
               cluster |-> IF Type[m] = "ClusterComputeResource" THEN name ELSE cluster,
               spod    |-> IF Type[m] = "StoragePod" THEN name ELSE spod]
<1> DEFINE res == [dc |-> dc, cluster |-> cluster, spod |-> spod]
           s   == IF Type[m] = "StoragePod" THEN name ELSE spod
           c   == IF Type[m] = "ClusterComputeResource" THEN name ELSE cluster
           d   == IF Type[m] = "Datacenter" THEN name ELSE dc
<1>1. Note(m, name, res) = [res EXCEPT !.spod = s, !.cluster = c, !.dc = d]
  BY DEF Note
<1> HIDE DEF s, c, d
<1>2. [res EXCEPT !.spod = s, !.cluster = c, !.dc = d] = [dc |-> d, cluster |-> c, spod |-> s]
  <2> DEFINE r1 == [dc |-> dc, cluster |-> cluster, spod |-> s]
             r2 == [dc |-> dc, cluster |-> c, spod |-> s]
  <2>1. [res EXCEPT !.spod = s] = r1
    OBVIOUS
  <2>2. [r1 EXCEPT !.cluster = c] = r2
    OBVIOUS
  <2>3. [r2 EXCEPT !.dc = d] = [dc |-> d, cluster |-> c, spod |-> s]
    OBVIOUS
  <2> HIDE DEF res, r1, r2
  <2> QED
    BY <2>1, <2>2, <2>3, Zenon
<1> QED
  BY <1>1, <1>2 DEF s, c, d

(* What Retrieve notes of it makes the collected labels those of the chain *)
(* up to it.                                                               *)
LEMMA NoteNext ==
    ASSUME NEW inv, NEW m, NEW n \in Nat
    PROVE  Note(Up(inv, m)[n], inv[Up(inv, m)[n]].name, ParentsAmong(inv, m, 0 .. n - 1))
              = ParentsAmong(inv, m, 0 .. n)
<1> DEFINE r     == Up(inv, m)[n]
           before == ParentsAmong(inv, m, 0 .. n - 1)
<1>1. Note(r, inv[r].name, before) =
         [dc      |-> IF Type[r] = "Datacenter" THEN inv[r].name ELSE before.dc,
          cluster |-> IF Type[r] = "ClusterComputeResource" THEN inv[r].name
                                                            ELSE before.cluster,
          spod    |-> IF Type[r] = "StoragePod" THEN inv[r].name ELSE before.spod]
  BY NoteRecord DEF ParentsAmong
<1>2. \A type : LabelAmong(inv, m, type, 0 .. n) =
         IF Type[r] = type THEN inv[r].name ELSE LabelAmong(inv, m, type, 0 .. n - 1)
  BY LabelAmongNext
<1> QED
  BY <1>1, <1>2 DEF ParentsAmong

(* Nothing is collected before the first request.  *)
LEMMA NoneAmong ==
    ASSUME NEW inv, NEW m
    PROVE  ParentsAmong(inv, m, 0 .. 0 - 1) = NoParents
<1>1. 0 .. 0 - 1 = {}
  OBVIOUS
<1> QED
  BY <1>1 DEF ParentsAmong, LabelAmong

(* A climb that met no datacenter and no root before step n, and ends      *)
(* there, has climbed the chain of the reference definition.               *)
LEMMA ChainClimbed ==
    ASSUME NEW inv \in [Mor -> Entity], Acyclic(inv), NEW m \in Mor, NEW n \in Nat,
           \A k \in 0 .. n : Up(inv, m)[k] # NoRef,
           \A k \in 0 .. n - 1 : Type[Up(inv, m)[k]] # "Datacenter",
           Last(Up(inv, m)[n], inv[Up(inv, m)[n]])
    PROVE  Chain(inv, m) = 0 .. n
<1> DEFINE up   == Up(inv, m)
           size == Cardinality(Mor)
<1>1. size \in Nat
  BY InventoryAssumption, FS_CardinalityType
<1>2. up[size] = NoRef
  BY DEF Acyclic
<1>3. up[n + 1] = IF up[n] = NoRef THEN NoRef ELSE inv[up[n]].parent
  BY UpSteps
<1>4. \A a, b \in Nat : a <= b /\ up[a] = NoRef => up[b] = NoRef
  BY UpEnds
<1>5. Chain(inv, m) = {k \in 0 .. size : /\ up[k] # NoRef
                                         /\ \A j \in 0 .. k - 1 : Type[up[j]] # "Datacenter"}
  BY DEF Chain
<1>6. /\ \A k \in 0 .. n : up[k] # NoRef
      /\ \A k \in 0 .. n - 1 : Type[up[k]] # "Datacenter"
      /\ Type[up[n]] = "Datacenter" \/ inv[up[n]].parent = NoRef
  BY DEF Last
<1> HIDE DEF up, size
<1>7. n <= size
  BY <1>1, <1>2, <1>4, <1>6
<1>8. ASSUME NEW k \in 0 .. n PROVE k \in Chain(inv, m)
  <2>1. k \in 0 .. size /\ up[k] # NoRef
    BY <1>1, <1>6, <1>7
  <2>2. \A j \in 0 .. k - 1 : Type[up[j]] # "Datacenter"
    BY <1>6
  <2> QED
    BY <1>5, <2>1, <2>2
<1>9. ASSUME NEW k \in Chain(inv, m) PROVE k \in 0 .. n
  <2>1. k \in Nat /\ up[k] # NoRef /\ \A j \in 0 .. k - 1 : Type[up[j]] # "Datacenter"
    BY <1>1, <1>5
  <2>2. SUFFICES ASSUME k > n PROVE FALSE
    BY <2>1
  <2>3. n \in 0 .. k - 1 /\ n + 1 \in Nat /\ n + 1 <= k
    BY <2>1, <2>2
  <2>4. inv[up[n]].parent = NoRef
    BY <1>6, <2>1, <2>3
  <2>5. up[n + 1] = NoRef
    BY <1>3, <2>4
  <2> QED
    BY <1>4, <2>1, <2>3, <2>5
<1> QED
  BY <1>8, <1>9

-----------------------------------------------------------------------------
(***************************************************************************)
(* A walk that began in the current inventory has climbed the chain of its *)
(* key so far, and collected the labels of what it has read.               *)
(***************************************************************************)
Climbed(w, n) ==
    LET up == Up(inventory, w.key)
    IN  /\ w.cur = up[n]
        /\ \A k \in 0 .. n : up[k] # NoRef
        /\ \A k \in 0 .. n - 1 : Type[up[k]] # "Datacenter"
        /\ w.at = "rpc" => w.res = ParentsAmong(inventory, w.key, 0 .. n - 1)
        /\ w.at = "add" => /\ w.res = ParentsAmong(inventory, w.key, 0 .. n)
                           /\ Last(up[n], inventory[up[n]])

AccurateWalk ==
    \A u \in Update : Walking(u) /\ walk[u].start = version =>
        \E n \in Nat : Climbed(walk[u], n)

AccurateInv == TrueInv /\ Acyclic(inventory) /\ AccurateWalk /\ CacheAccurate

LEMMA AccurateInit == Init => AccurateInv
<1> SUFFICES ASSUME Init PROVE AccurateInv
  OBVIOUS
<1>1. TrueInv
  BY TrueInit
<1>2. inventory = Inventory0
  BY DEF Init
<1>3. Acyclic(inventory)
  BY <1>2, InventoryAssumption
<1>4. AccurateWalk
  BY DEF Init, AccurateWalk, Walking
<1>5. CacheAccurate
  BY DEF Init, CacheAccurate
<1> QED
  BY <1>1, <1>3, <1>4, <1>5 DEF AccurateInv

(* Steps that leave the inventories alone, fill nothing and advance no     *)
(* walk.                                                                   *)
LEMMA AccurateQuiet ==
    ASSUME AccurateInv, TrueInv', UNCHANGED history,
           \A m \in DOMAIN cache' :
                m \in DOMAIN cache /\ cache'[m] = cache[m] /\ stamp'[m] = stamp[m],
           \A u \in Update : Walking(u)' => Walking(u) /\ walk'[u] = walk[u]
    PROVE  AccurateInv'
<1>1. Acyclic(inventory)'
  BY DEF AccurateInv
<1>2. AccurateWalk'
  BY DEF AccurateInv, AccurateWalk, Climbed
<1>3. CacheAccurate'
  BY DEF AccurateInv, CacheAccurate
<1> QED
  BY <1>1, <1>2, <1>3 DEF AccurateInv

LEMMA AccurateStep == AccurateInv /\ [Next]_cacheVars => AccurateInv'
<1> SUFFICES ASSUME AccurateInv, [Next]_cacheVars PROVE AccurateInv'
  OBVIOUS
<1>0. TrueInv /\ TrueInv'
  BY TrueStep DEF AccurateInv
<1>t. TypeOK /\ TypeOK'
  BY <1>0 DEF TrueInv
<1>a. walk \in [Update -> [at : {"idle", "rpc", "add"}, key : Key \cup {NoRef},
                          cur : Mor \cup {NoRef}, res : Parents, start : Nat]]
  BY <1>t DEF TypeOK
<1>b. inventory \in [Mor -> Entity] /\ version \in Nat
  BY <1>t DEF TypeOK
<1>1. ASSUME NEW u \in Update, Flush(u) PROVE AccurateInv'
  BY <1>0, <1>1, AccurateQuiet DEF Flush, Walking
<1>2. ASSUME NEW u \in Update, LookupRoot(u) PROVE AccurateInv'
  BY <1>0, <1>2, AccurateQuiet DEF LookupRoot, Walking
<1>3. ASSUME NEW u \in Update, NEW m \in Key, LookupHit(u, m) PROVE AccurateInv'
  BY <1>0, <1>3, AccurateQuiet DEF LookupHit, Walking
<1>4. ASSUME NEW u \in Update, NEW m \in Key, LookupMiss(u, m) PROVE AccurateInv'
  <2>1. UNCHANGED <<history, cache, stamp>>
    BY <1>4 DEF LookupMiss
  <2>2. /\ walk'[u] = [at |-> "rpc", key |-> m, cur |-> m, res |-> NoParents,
                       start |-> version]
        /\ \A v \in Update : v # u => walk'[v] = walk[v]
    BY <1>4, <1>a DEF LookupMiss
  <2>3. m \in Mor /\ m # NoRef
    BY KeyAssumption, RefAssumption
  <2>4. Climbed(walk[u], 0)'
    <3>1. Up(inventory, m)[0] = m
      BY <1>b, <2>3, UpSteps
    <3>2. ParentsAmong(inventory, m, 0 .. 0 - 1) = NoParents
      BY NoneAmong
    <3> QED
      BY <2>1, <2>2, <2>3, <3>1, <3>2 DEF Climbed
  <2>5. AccurateWalk'
    <3> SUFFICES ASSUME NEW v \in Update, (Walking(v) /\ walk[v].start = version)'
                 PROVE  \E n \in Nat : Climbed(walk[v], n)'
      BY DEF AccurateWalk
    <3>1. CASE v = u
      BY <3>1, <2>4
    <3>2. CASE v # u
      <4>1. PICK n \in Nat : Climbed(walk[v], n)
        BY <3>2, <2>1, <2>2 DEF AccurateInv, AccurateWalk, Walking
      <4> QED
        BY <4>1, <3>2, <2>1, <2>2 DEF Climbed
    <3> QED
      BY <3>1, <3>2
  <2>6. CacheAccurate' /\ Acyclic(inventory)'
    BY <2>1 DEF AccurateInv, CacheAccurate
  <2> QED
    BY <1>0, <2>5, <2>6 DEF AccurateInv
<1>5. ASSUME NEW u \in Update, Retrieve(u) PROVE AccurateInv'
  <2> DEFINE m      == walk[u].cur
             entity == inventory[m]
  <2>1. UNCHANGED <<history, cache, stamp>>
    BY <1>5 DEF Retrieve
  <2>2. /\ walk'[u] = [at    |-> IF Last(m, entity) THEN "add" ELSE "rpc",
                       key   |-> walk[u].key,
                       cur   |-> IF Last(m, entity) THEN m ELSE entity.parent,
                       res   |-> Note(m, entity.name, walk[u].res),
                       start |-> walk[u].start]
        /\ \A v \in Update : v # u => walk'[v] = walk[v]
    BY <1>5, <1>a DEF Retrieve
  <2>3. walk[u].at = "rpc" /\ Walking(u) /\ walk[u].key \in Mor
    BY <1>5, <1>t, KeyAssumption DEF Retrieve, Walking, TypeOK
  <2>4. ASSUME walk[u].start = version
        PROVE  \E n \in Nat : Climbed(walk[u], n)'
    <3> DEFINE up == Up(inventory, walk[u].key)
    <3>1. PICK n \in Nat : Climbed(walk[u], n)
      BY <2>3, <2>4 DEF AccurateInv, AccurateWalk
    <3>2. /\ m = up[n]
          /\ \A k \in 0 .. n : up[k] # NoRef
          /\ \A k \in 0 .. n - 1 : Type[up[k]] # "Datacenter"
          /\ walk[u].res = ParentsAmong(inventory, walk[u].key, 0 .. n - 1)
      BY <3>1, <2>3 DEF Climbed
    <3>3. Note(m, entity.name, walk[u].res)
            = ParentsAmong(inventory, walk[u].key, 0 .. n)
      BY <3>2, NoteNext
    <3>4. up[n + 1] = IF up[n] = NoRef THEN NoRef ELSE inventory[up[n]].parent
      BY <1>b, <2>3, UpSteps
    <3>5. CASE Last(m, entity)
      <4>1. /\ walk'[u].at = "add" /\ walk'[u].key = walk[u].key /\ walk'[u].cur = m
            /\ walk'[u].res = Note(m, entity.name, walk[u].res)
        BY <2>2, <3>5
      <4>2. Climbed(walk[u], n)'
        BY <4>1, <3>2, <3>3, <3>5, <2>1 DEF Climbed
      <4> QED
        BY <4>2
    <3>6. CASE ~ Last(m, entity)
      <4>1. /\ walk'[u].at = "rpc" /\ walk'[u].key = walk[u].key
            /\ walk'[u].cur = entity.parent
            /\ walk'[u].res = Note(m, entity.name, walk[u].res)
        BY <2>2, <3>6
      <4>2. Type[up[n]] # "Datacenter" /\ up[n + 1] = entity.parent /\ up[n + 1] # NoRef
        BY <3>2, <3>4, <3>6 DEF Last
      <4>3. \A k \in 0 .. n + 1 : k \in 0 .. n \/ k = n + 1
        OBVIOUS
      <4>4. \A k \in 0 .. (n + 1) - 1 : k \in 0 .. n - 1 \/ k = n
        OBVIOUS
      <4>5. (n + 1) - 1 = n /\ n + 1 \in Nat
        OBVIOUS
      <4>6. Climbed(walk[u], n + 1)'
        <5> HIDE DEF m, entity
        <5>1. \A k \in 0 .. n + 1 : up[k] # NoRef
          BY <3>2, <4>2, <4>3
        <5>2. \A k \in 0 .. (n + 1) - 1 : Type[up[k]] # "Datacenter"
          BY <3>2, <4>2, <4>4
        <5>3. walk'[u].res = ParentsAmong(inventory, walk[u].key, 0 .. (n + 1) - 1)
          BY <3>3, <4>1, <4>5
        <5> QED
          BY <4>1, <4>2, <5>1, <5>2, <5>3, <2>1 DEF Climbed
      <4> QED
        BY <4>5, <4>6
    <3> QED
      BY <3>5, <3>6
  <2>5. AccurateWalk'
    <3> SUFFICES ASSUME NEW v \in Update, (Walking(v) /\ walk[v].start = version)'
                 PROVE  \E n \in Nat : Climbed(walk[v], n)'
      BY DEF AccurateWalk
    <3>1. CASE v = u
      BY <3>1, <2>1, <2>2, <2>4
    <3>2. CASE v # u
      <4>1. PICK n \in Nat : Climbed(walk[v], n)
        BY <3>2, <2>1, <2>2 DEF AccurateInv, AccurateWalk, Walking
      <4> QED
        BY <4>1, <3>2, <2>1, <2>2 DEF Climbed
    <3> QED
      BY <3>1, <3>2
  <2>6. CacheAccurate' /\ Acyclic(inventory)'
    BY <2>1 DEF AccurateInv, CacheAccurate
  <2> QED
    BY <1>0, <2>5, <2>6 DEF AccurateInv
<1>6. ASSUME NEW u \in Update, RetrieveFail(u) PROVE AccurateInv'
  <2>1. \A v \in Update : Walking(v)' => Walking(v) /\ walk'[v] = walk[v]
    BY <1>6, <1>a DEF RetrieveFail, Walking
  <2> QED
    BY <1>0, <1>6, <2>1, AccurateQuiet DEF RetrieveFail
<1>7. ASSUME NEW u \in Update, Add(u) PROVE AccurateInv'
  <2> DEFINE key == walk[u].key
  <2>1. UNCHANGED history /\ walk[u].at = "add" /\ Walking(u) /\ key \in Key
    BY <1>7, <1>t DEF Add, TypeOK, Walking
  <2>2. \A v \in Update : Walking(v)' => Walking(v) /\ walk'[v] = walk[v]
    BY <1>7, <1>a DEF Add, Walking
  <2>3. /\ cache'[key] = walk[u].res /\ stamp'[key] = walk[u].start
        /\ \A m \in DOMAIN cache' : m # key =>
              m \in DOMAIN cache /\ cache'[m] = cache[m] /\ stamp'[m] = stamp[m]
    BY <1>7, <1>t, <2>1 DEF Add, TypeOK
  <2>4. ASSUME walk[u].start = version
        PROVE  walk[u].res = TrueParents(inventory, key)
    <3> DEFINE up == Up(inventory, key)
    <3>1. PICK n \in Nat : Climbed(walk[u], n)
      BY <2>1, <2>4 DEF AccurateInv, AccurateWalk
    <3>2. /\ \A k \in 0 .. n : up[k] # NoRef
          /\ \A k \in 0 .. n - 1 : Type[up[k]] # "Datacenter"
          /\ walk[u].res = ParentsAmong(inventory, key, 0 .. n)
          /\ Last(up[n], inventory[up[n]])
      BY <3>1, <2>1 DEF Climbed
    <3>3. Acyclic(inventory) /\ key \in Mor
      BY <2>1, KeyAssumption DEF AccurateInv
    <3>4. Chain(inventory, key) = 0 .. n
      <4> HIDE DEF key
      <4> QED
        BY <1>b, <3>2, <3>3, ChainClimbed
    <3> QED
      BY <3>2, <3>4 DEF TrueParents
  <2>5. AccurateWalk'
    BY <2>1, <2>2 DEF AccurateInv, AccurateWalk, Climbed
  <2>6. CacheAccurate'
    BY <2>1, <2>3, <2>4 DEF AccurateInv, CacheAccurate
  <2>7. Acyclic(inventory)'
    BY <2>1 DEF AccurateInv
  <2> QED
    BY <1>0, <2>5, <2>6, <2>7 DEF AccurateInv
<1>8. ASSUME NEW m \in Mor, NEW entity \in Entity, Change(m, entity) PROVE AccurateInv'
  <2>1. UNCHANGED <<cache, walk, stamp>> /\ version' = version + 1
    BY <1>8, <1>t DEF Change, TypeOK
  <2>2. Acyclic(inventory)'
    BY <1>8, <1>t DEF Change, TypeOK
  <2>3. AccurateWalk'
    <3>1. \A u \in Update : Walking(u) => walk[u].start # version'
      BY <1>0, <1>b, <2>1 DEF TrueInv, WalkWasTrue
    <3> QED
      BY <2>1, <3>1 DEF AccurateWalk, Walking
  <2>4. CacheAccurate'
    <3>1. \A k \in DOMAIN cache : stamp[k] # version'
      BY <1>0, <1>b, <2>1 DEF TrueInv, StampOK
    <3> QED
      BY <2>1, <3>1 DEF CacheAccurate
  <2> QED
    BY <1>0, <2>2, <2>3, <2>4 DEF AccurateInv
<1>9. CASE UNCHANGED cacheVars
  BY <1>0, <1>9, AccurateQuiet DEF cacheVars, Walking
<1> QED
  BY <1>1, <1>2, <1>3, <1>4, <1>5, <1>6, <1>7, <1>8, <1>9 DEF Next, Lookup, Step

(* An entry stored since the inventory last changed is exactly what the    *)
(* reference definition gives, whatever other Updates flush, fill and fail *)
(* beside the walk, for any number of them and any inventory.              *)
THEOREM EntriesAccurate == Spec => []CacheAccurate
<1>1. AccurateInv => CacheAccurate
  BY DEF AccurateInv
<1> QED
  BY AccurateInit, AccurateStep, <1>1, PTL DEF Spec
=============================================================================

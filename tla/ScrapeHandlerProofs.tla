------------------------ MODULE ScrapeHandlerProofs -------------------------
(***************************************************************************)
(* Proofs about ScrapeHandler for any finite number of requests and        *)
(* collectors, any limit and any channel capacity: the order of sends and  *)
(* close, the tokens of the semaphore, what an answer contains, and that   *)
(* every step is one of ScrapeService or a stutter.                        *)
(***************************************************************************)
EXTENDS ScrapeHandler, FiniteSetTheorems, TLAPS

USE DEF collecting, gathered

TaskState == {"off", "update", "duration", "success", "return", "done"}

(* The types the invariants below need.  *)
Shape ==
    /\ phase \in [Request -> {"idle", "admit", "gather", "answered"}]
    /\ filters \in [Request -> SUBSET Filter]
    /\ version \in [Request -> {"todo", "done"}]
    /\ main \in [Request -> {"todo", "waiting", "done"}]
    /\ wg \in [Request -> Nat]
    /\ task \in [Request -> [Collector -> TaskState]]
    /\ closed \in [Request -> BOOLEAN]

(* The goroutines of r's Collect that have not called wg.Done.  *)
Live(r) == {c \in Collector : task[r][c] \notin {"off", "done"}}

(* Collect waits for as many goroutines as are live, and neither it nor    *)
(* Gather goes past them.                                                  *)
WaitInv ==
    \A r \in Request :
        /\ phase[r] \in {"admit", "gather"} => filters[r] \subseteq Enabled
        /\ phase[r] # "gather" => Live(r) = {}
        /\ phase[r] \in {"idle", "admit"} => main[r] = "todo"
        /\ main[r] = "todo" => Live(r) = {}
        /\ main[r] = "waiting" => wg[r] = Cardinality(Live(r))
        /\ main[r] = "done" => Live(r) = {}
        /\ closed[r] => main[r] = "done" /\ version[r] = "done"

-----------------------------------------------------------------------------
LEMMA LiveFinite ==
    ASSUME NEW r \in Request
    PROVE  IsFiniteSet(Live(r)) /\ Cardinality(Live(r)) \in Nat
<1>1. Live(r) \subseteq Collector
    BY DEF Live
<1> QED
    BY <1>1, HandlerAssumption, FS_Subset, FS_CardinalityType

LEMMA ShapeInit == Init => Shape
BY DEF Init, Shape, Off, TaskState

(* The collectors of a MainCollector are registered ones.  *)
LEMMA WantedType ==
    ASSUME NEW f \in SUBSET Enabled
    PROVE  Wanted(f) \subseteq Collector /\ IsFiniteSet(Wanted(f))
           /\ Cardinality(Wanted(f)) \in Nat
<1>1. Wanted(f) \subseteq Collector
    BY HandlerAssumption DEF Wanted
<1> QED
    BY <1>1, HandlerAssumption, FS_Subset, FS_CardinalityType

(* A goroutine that calls Done leaves one fewer.  *)
LEMMA LiveDone ==
    ASSUME NEW r \in Request, NEW c \in Live(r), Cardinality(Live(r)) = wg[r]
    PROVE  wg[r] \in Nat /\ wg[r] >= 1 /\ Cardinality(Live(r) \ {c}) = wg[r] - 1
<1>1. IsFiniteSet(Live(r)) /\ Cardinality(Live(r)) \in Nat
    BY LiveFinite
<1>2. Cardinality(Live(r) \ {c}) = Cardinality(Live(r)) - 1
    BY <1>1, FS_RemoveElement
<1>3. Cardinality(Live(r)) # 0
    BY <1>1, FS_EmptySet
<1> QED
    BY <1>1, <1>2, <1>3

WaitingInv == Shape /\ WaitInv

LEMMA WaitInit == Init => WaitingInv
BY ShapeInit DEF Init, WaitingInv, WaitInv, Live, Off

(***************************************************************************)
(* A step of r's that leaves its goroutines live as they were.             *)
(***************************************************************************)
LEMMA WaitQuiet ==
    ASSUME WaitingInv, NEW r \in Request, Shape',
           UNCHANGED <<wg, main>>,
           \A s \in Request : Live(s)' = Live(s),
           \A s \in Request \ {r} :
               /\ phase'[s] = phase[s] /\ filters'[s] = filters[s]
               /\ version'[s] = version[s] /\ closed'[s] = closed[s],
           phase'[r] \in {"admit", "gather"} => filters'[r] \subseteq Enabled,
           phase'[r] # "gather" => Live(r) = {},
           phase'[r] \in {"idle", "admit"} => main[r] = "todo",
           closed'[r] => main[r] = "done" /\ version'[r] = "done"
    PROVE  WaitingInv'
<1> SUFFICES WaitInv'
    BY DEF WaitingInv
<1> SUFFICES ASSUME NEW s \in Request
             PROVE  /\ phase'[s] \in {"admit", "gather"} => filters'[s] \subseteq Enabled
                    /\ phase'[s] # "gather" => Live(s) = {}
                    /\ phase'[s] \in {"idle", "admit"} => main[s] = "todo"
                    /\ main[s] = "todo" => Live(s) = {}
                    /\ main[s] = "waiting" => wg[s] = Cardinality(Live(s))
                    /\ main[s] = "done" => Live(s) = {}
                    /\ closed'[s] => main[s] = "done" /\ version'[s] = "done"
    BY DEF WaitInv
<1>1. CASE s = r
    BY <1>1 DEF WaitingInv, WaitInv
<1>2. CASE s # r
    BY <1>2 DEF WaitingInv, WaitInv
<1> QED
    BY <1>1, <1>2

LEMMA WaitStep == WaitingInv /\ [Next]_vars => WaitingInv'
<1> SUFFICES ASSUME WaitingInv, [Next]_vars PROVE WaitingInv'
    OBVIOUS
<1>0. Shape
    BY DEF WaitingInv
<1>1. ASSUME NEW r \in Request, ServeUnfiltered(r) PROVE WaitingInv'
  <2>1. Shape' /\ \A s \in Request : Live(s)' = Live(s)
    BY <1>0, <1>1 DEF ServeUnfiltered, Shape, Live
  <2> QED
    BY <1>0, <1>1, <2>1, WaitQuiet DEF ServeUnfiltered, Shape, WaitingInv, WaitInv
<1>2. ASSUME NEW r \in Request, NEW f \in SUBSET Filter, ServeFiltered(r, f)
      PROVE  WaitingInv'
  <2>1. Shape' /\ \A s \in Request : Live(s)' = Live(s)
    BY <1>0, <1>2 DEF ServeFiltered, Shape, Live
  <2> QED
    BY <1>0, <1>2, <2>1, WaitQuiet DEF ServeFiltered, Shape, WaitingInv, WaitInv
<1>3. ASSUME NEW r \in Request, NEW f \in SUBSET Filter, ServeBadFilter(r, f)
      PROVE  WaitingInv'
  <2>1. Shape' /\ \A s \in Request : Live(s)' = Live(s)
    BY <1>0, <1>3 DEF ServeBadFilter, Shape, Live
  <2> QED
    BY <1>0, <1>3, <2>1, WaitQuiet DEF ServeBadFilter, Shape, WaitingInv, WaitInv
<1>4. ASSUME NEW r \in Request, Admit(r) PROVE WaitingInv'
  <2>1. Shape' /\ \A s \in Request : Live(s)' = Live(s)
    BY <1>0, <1>4 DEF Admit, Shape, Live
  <2> QED
    BY <1>0, <1>4, <2>1, WaitQuiet DEF Admit, Shape, WaitingInv, WaitInv
<1>5. ASSUME NEW r \in Request, Reject(r) PROVE WaitingInv'
  <2>1. Shape' /\ \A s \in Request : Live(s)' = Live(s)
    BY <1>0, <1>5 DEF Reject, Shape, Live
  <2> QED
    BY <1>0, <1>5, <2>1, WaitQuiet DEF Reject, Shape, WaitingInv, WaitInv
<1>6. ASSUME NEW r \in Request, CollectVersion(r) PROVE WaitingInv'
  <2>1. Shape' /\ \A s \in Request : Live(s)' = Live(s)
    BY <1>0, <1>6 DEF CollectVersion, Shape, Live
  <2> QED
    BY <1>0, <1>6, <2>1, WaitQuiet DEF CollectVersion, Shape, WaitingInv, WaitInv
<1>7. ASSUME NEW r \in Request, Collect(r) PROVE WaitingInv'
  <2> DEFINE wanted == Wanted(filters[r])
  <2>1. filters[r] \in SUBSET Enabled
    BY <1>7 DEF Collect, WaitingInv, WaitInv
  <2>2. wanted \subseteq Collector /\ Cardinality(wanted) \in Nat
    BY <2>1, WantedType
  <2>3. /\ wg' = [wg EXCEPT ![r] = Cardinality(wanted)]
        /\ main' = [main EXCEPT ![r] = "waiting"]
        /\ task' = [task EXCEPT ![r] =
                       [c \in Collector |-> IF c \in wanted THEN "update" ELSE "off"]]
        /\ main[r] = "todo" /\ phase[r] = "gather"
        /\ UNCHANGED <<phase, filters, inFlight, version, closed>>
    BY <1>7 DEF Collect
  <2>4. Shape'
    BY <1>0, <2>2, <2>3 DEF Shape, TaskState
  <2>5. Live(r)' = wanted
    BY <1>0, <2>2, <2>3 DEF Live, Shape
  <2>6. \A s \in Request \ {r} : Live(s)' = Live(s)
    BY <1>0, <2>3 DEF Live, Shape
  <2>7. wg'[r] = Cardinality(Live(r)') /\ main'[r] = "waiting" /\ ~ closed[r]
    BY <1>0, <2>3, <2>5 DEF Shape, WaitingInv, WaitInv
  <2>8. \A s \in Request \ {r} : wg'[s] = wg[s] /\ main'[s] = main[s]
    BY <1>0, <2>3 DEF Shape
  <2>9. WaitInv'
    BY <2>3, <2>6, <2>7, <2>8 DEF WaitingInv, WaitInv
  <2> QED
    BY <2>4, <2>9 DEF WaitingInv
<1>8. ASSUME NEW r \in Request, CollectReturns(r) PROVE WaitingInv'
  <2>1. Shape' /\ \A s \in Request : Live(s)' = Live(s)
    BY <1>0, <1>8 DEF CollectReturns, Shape, Live
  <2>2. Live(r) = {}
    <3>1. Cardinality(Live(r)) = 0
      BY <1>8 DEF CollectReturns, WaitingInv, WaitInv
    <3> QED
      BY <3>1, LiveFinite, FS_EmptySet
  <2>3. main'[r] = "done" /\ phase[r] \notin {"idle", "admit"} /\ ~ closed[r]
        /\ \A s \in Request \ {r} : main'[s] = main[s]
    BY <1>0, <1>8 DEF CollectReturns, Shape, WaitingInv, WaitInv
  <2>4. UNCHANGED <<phase, filters, version, closed, wg>>
    BY <1>8 DEF CollectReturns
  <2>5. WaitInv'
    BY <2>1, <2>2, <2>3, <2>4 DEF WaitingInv, WaitInv
  <2> QED
    BY <2>1, <2>5 DEF WaitingInv
<1>9. ASSUME NEW r \in Request, CloseChannel(r) PROVE WaitingInv'
  <2>1. Shape' /\ \A s \in Request : Live(s)' = Live(s)
    BY <1>0, <1>9 DEF CloseChannel, Shape, Live
  <2> QED
    BY <1>0, <1>9, <2>1, WaitQuiet DEF CloseChannel, Shape, WaitingInv, WaitInv
<1>10. ASSUME NEW r \in Request, Receive(r) PROVE WaitingInv'
  <2>1. Shape' /\ \A s \in Request : Live(s)' = Live(s)
    BY <1>0, <1>10 DEF Receive, Shape, Live
  <2> QED
    BY <1>0, <1>10, <2>1, WaitQuiet DEF Receive, Shape, WaitingInv, WaitInv
<1>11. ASSUME NEW r \in Request, Answer(r) PROVE WaitingInv'
  <2>1. Shape' /\ \A s \in Request : Live(s)' = Live(s)
    BY <1>0, <1>11 DEF Answer, Shape, Live
  <2> QED
    BY <1>0, <1>11, <2>1, WaitQuiet DEF Answer, Shape, WaitingInv, WaitInv
<1>12. ASSUME NEW r \in Request, AskAgain(r) PROVE WaitingInv'
  <2>1. Shape'
    BY <1>0, <1>12 DEF AskAgain, Shape, Off, TaskState
  <2>2. Live(r)' = {}
    BY <1>0, <1>12 DEF AskAgain, Shape, Live, Off
  <2>3. \A s \in Request \ {r} : Live(s)' = Live(s)
    BY <1>0, <1>12 DEF AskAgain, Shape, Live
  <2>4. /\ phase'[r] = "idle" /\ main'[r] = "todo" /\ ~ closed'[r]
        /\ \A s \in Request \ {r} :
              /\ phase'[s] = phase[s] /\ filters'[s] = filters[s] /\ main'[s] = main[s]
              /\ wg'[s] = wg[s] /\ version'[s] = version[s] /\ closed'[s] = closed[s]
    BY <1>0, <1>12 DEF AskAgain, Shape
  <2>5. WaitInv'
    BY <2>2, <2>3, <2>4 DEF WaitingInv, WaitInv
  <2> QED
    BY <2>1, <2>5 DEF WaitingInv
<1>13. ASSUME NEW r \in Request, NEW c \in Collector, NEW id \in Sample,
              UpdateSends(r, c, id)
       PROVE  WaitingInv'
  <2>1. Shape' /\ \A s \in Request : Live(s)' = Live(s)
    BY <1>0, <1>13 DEF UpdateSends, Shape, Live
  <2> QED
    BY <1>0, <1>13, <2>1, WaitQuiet DEF UpdateSends, Shape, WaitingInv, WaitInv
<1>14. ASSUME NEW r \in Request, NEW c \in Collector, NEW ok \in BOOLEAN,
              UpdateReturns(r, c, ok)
       PROVE  WaitingInv'
  <2>1. Shape'
    BY <1>0, <1>14 DEF UpdateReturns, Goes, Shape, TaskState
  <2>2. \A s \in Request : Live(s)' = Live(s)
    BY <1>0, <1>14 DEF UpdateReturns, Goes, Shape, Live
  <2> QED
    BY <1>0, <1>14, <2>1, <2>2, WaitQuiet DEF UpdateReturns, Shape, WaitingInv, WaitInv
<1>15. ASSUME NEW r \in Request, NEW c \in Collector, SendDuration(r, c)
       PROVE  WaitingInv'
  <2>1. Shape'
    BY <1>0, <1>15 DEF SendDuration, Goes, Shape, TaskState
  <2>2. \A s \in Request : Live(s)' = Live(s)
    BY <1>0, <1>15 DEF SendDuration, Goes, Shape, Live
  <2> QED
    BY <1>0, <1>15, <2>1, <2>2, WaitQuiet DEF SendDuration, Shape, WaitingInv, WaitInv
<1>16. ASSUME NEW r \in Request, NEW c \in Collector, SendSuccess(r, c)
       PROVE  WaitingInv'
  <2>1. Shape'
    BY <1>0, <1>16 DEF SendSuccess, Goes, Shape, TaskState
  <2>2. \A s \in Request : Live(s)' = Live(s)
    BY <1>0, <1>16 DEF SendSuccess, Goes, Shape, Live
  <2> QED
    BY <1>0, <1>16, <2>1, <2>2, WaitQuiet DEF SendSuccess, Shape, WaitingInv, WaitInv
<1>17. ASSUME NEW r \in Request, NEW c \in Collector, Done(r, c)
       PROVE  WaitingInv'
  <2>1. /\ wg' = [wg EXCEPT ![r] = @ - 1]
        /\ task' = [task EXCEPT ![r][c] = "done"]
        /\ c \in Live(r)
        /\ UNCHANGED <<phase, filters, inFlight, version, main, closed>>
    BY <1>17 DEF Done, Goes, Live
  <2>2. main[r] = "waiting"
    BY <1>0, <2>1 DEF Shape, WaitingInv, WaitInv
  <2>3. phase[r] = "gather"
    BY <1>0, <2>1 DEF Shape, WaitingInv, WaitInv
  <2>4. wg[r] = Cardinality(Live(r))
    BY <2>2 DEF WaitingInv, WaitInv
  <2>5. wg[r] >= 1 /\ Cardinality(Live(r) \ {c}) = wg[r] - 1
    BY <2>1, <2>4, LiveDone
  <2>6. Live(r)' = Live(r) \ {c}
    BY <1>0, <2>1 DEF Shape, Live
  <2>7. \A s \in Request \ {r} : Live(s)' = Live(s) /\ wg'[s] = wg[s]
    BY <1>0, <2>1 DEF Shape, Live
  <2>8. wg'[r] = wg[r] - 1 /\ wg[r] - 1 \in Nat
    BY <1>0, <2>1, <2>5 DEF Shape
  <2>9. Shape'
    BY <1>0, <2>1, <2>8 DEF Shape, TaskState
  <2>10. wg'[r] = Cardinality(Live(r)')
    BY <2>5, <2>6, <2>8
  <2>11. WaitInv'
    BY <2>1, <2>2, <2>3, <2>7, <2>10 DEF WaitingInv, WaitInv
  <2> QED
    BY <2>9, <2>11 DEF WaitingInv
<1>18. ASSUME UNCHANGED vars PROVE WaitingInv'
  <2>1. UNCHANGED <<phase, filters, version, main, wg, task, closed>>
    BY <1>18 DEF vars
  <2>2. Shape' /\ \A s \in Request : Live(s)' = Live(s)
    BY <1>0, <2>1 DEF Shape, Live
  <2>3. WaitInv'
    BY <2>1, <2>2 DEF WaitingInv, WaitInv
  <2> QED
    BY <2>2, <2>3 DEF WaitingInv
<1> QED
  BY <1>1, <1>2, <1>3, <1>4, <1>5, <1>6, <1>7, <1>8, <1>9, <1>10, <1>11, <1>12,
     <1>13, <1>14, <1>15, <1>16, <1>17, <1>18
  DEF Next, Ask, Serve, Execute

(***************************************************************************)
(* A closed channel has no sender left, for any number of collectors and   *)
(* any order in which they finish (collector.go:138, registry Gather).     *)
(***************************************************************************)
THEOREM NothingSentOnClosed == Spec => []NoSendOnClosed
<1>1. WaitingInv => NoSendOnClosed
  BY DEF WaitingInv, WaitInv, NoSendOnClosed, Live
<1> QED
  BY <1>1, WaitInit, WaitStep, PTL DEF Spec

-----------------------------------------------------------------------------
(* Which requests are where, and the tokens they hold.  *)
SlotInv ==
    /\ phase \in [Request -> {"idle", "admit", "gather", "answered"}]
    /\ filters \in [Request -> SUBSET Filter]
    /\ TokensExact

LEMMA GatheringFinite == IsFiniteSet(Gathering) /\ Cardinality(Gathering) \in Nat
<1>1. Gathering \subseteq Request
  BY DEF Gathering
<1> QED
  BY <1>1, HandlerAssumption, FS_Subset, FS_CardinalityType

LEMMA SlotInit == Init => SlotInv
<1> SUFFICES ASSUME Init PROVE SlotInv
  OBVIOUS
<1>1. Gathering = {}
  BY DEF Init, Gathering
<1> QED
  BY <1>1, FS_EmptySet, HandlerAssumption DEF Init, SlotInv, TokensExact

(* A step that takes and returns no token, of a request without one.  *)
LEMMA SlotQuiet ==
    ASSUME SlotInv, UNCHANGED inFlight, Gathering' = Gathering,
           phase' \in [Request -> {"idle", "admit", "gather", "answered"}],
           filters' \in [Request -> SUBSET Filter]
    PROVE  SlotInv'
BY DEF SlotInv, TokensExact

LEMMA SlotStep == SlotInv /\ [Next]_vars => SlotInv'
<1> SUFFICES ASSUME SlotInv, [Next]_vars PROVE SlotInv'
  OBVIOUS
<1> USE DEF SlotInv
<1>1. ASSUME NEW r \in Request, Ask(r) PROVE SlotInv'
  <2>1. Gathering' = Gathering
    BY <1>1 DEF Ask, ServeUnfiltered, ServeFiltered, ServeBadFilter, Gathering, Unfiltered
  <2> QED
    BY <1>1, <2>1, SlotQuiet DEF Ask, ServeUnfiltered, ServeFiltered, ServeBadFilter
<1>2. ASSUME NEW r \in Request, Reject(r) PROVE SlotInv'
  <2>1. Gathering' = Gathering
    BY <1>2 DEF Reject, Gathering, Unfiltered
  <2> QED
    BY <1>2, <2>1, SlotQuiet DEF Reject
<1>3. ASSUME NEW r \in Request, AskAgain(r) PROVE SlotInv'
  <2>1. Gathering' = Gathering
    BY <1>3 DEF AskAgain, Gathering, Unfiltered
  <2> QED
    BY <1>3, <2>1, SlotQuiet DEF AskAgain
<1>4. ASSUME NEW r \in Request, Admit(r) PROVE SlotInv'
  <2>1. CASE Unfiltered(r)
    <3>1. Gathering' = Gathering \cup {r} /\ r \notin Gathering
      BY <1>4, <2>1 DEF Admit, Gathering, Unfiltered
    <3>2. Cardinality(Gathering') = Cardinality(Gathering) + 1
      BY <3>1, GatheringFinite, FS_AddElement
    <3>3. inFlight' = inFlight + 1 /\ ~ Full
      BY <1>4, <2>1 DEF Admit
    <3>4. TokensExact'
      BY <3>2, <3>3, GatheringFinite, HandlerAssumption DEF TokensExact, Full
    <3> QED
      BY <1>4, <3>4 DEF Admit
  <2>2. CASE ~ Unfiltered(r)
    <3>1. Gathering' = Gathering
      BY <1>4, <2>2 DEF Admit, Gathering, Unfiltered
    <3> QED
      BY <1>4, <2>2, <3>1, SlotQuiet DEF Admit
  <2> QED
    BY <2>1, <2>2
<1>5. ASSUME NEW r \in Request, Answer(r) PROVE SlotInv'
  <2>1. CASE Unfiltered(r)
    <3>1. Gathering' = Gathering \ {r} /\ r \in Gathering
      BY <1>5, <2>1 DEF Answer, Gathering, Unfiltered
    <3>2. Cardinality(Gathering') = Cardinality(Gathering) - 1
      BY <3>1, GatheringFinite, FS_RemoveElement
    <3>3. inFlight' = inFlight - 1
      BY <1>5, <2>1 DEF Answer
    <3>4. TokensExact'
      BY <3>2, <3>3, GatheringFinite, HandlerAssumption DEF TokensExact
    <3> QED
      BY <1>5, <3>4 DEF Answer
  <2>2. CASE ~ Unfiltered(r)
    <3>1. Gathering' = Gathering
      BY <1>5, <2>2 DEF Answer, Gathering, Unfiltered
    <3> QED
      BY <1>5, <2>2, <3>1, SlotQuiet DEF Answer
  <2> QED
    BY <2>1, <2>2
<1>6. ASSUME UNCHANGED <<phase, filters, inFlight>> PROVE SlotInv'
  BY <1>6, SlotQuiet DEF Gathering, Unfiltered
<1>7. ASSUME NEW r \in Request,
             CollectVersion(r) \/ Collect(r) \/ CollectReturns(r)
             \/ CloseChannel(r) \/ Receive(r)
      PROVE  UNCHANGED <<phase, filters, inFlight>>
  BY <1>7 DEF CollectVersion, Collect, CollectReturns, CloseChannel, Receive
<1>8. ASSUME NEW r \in Request, NEW c \in Collector, Execute(r, c)
      PROVE  UNCHANGED <<phase, filters, inFlight>>
  BY <1>8 DEF Execute, UpdateSends, UpdateReturns, SendDuration, SendSuccess, Done
<1> QED
  BY <1>1, <1>2, <1>3, <1>4, <1>5, <1>6, <1>7, <1>8 DEF Next, Serve, vars

(***************************************************************************)
(* Whatever mixture of filtered, unfiltered, refused and wrong requests    *)
(* comes, tokens are neither lost nor doubled, and the unfiltered handler  *)
(* gathers for at most MaxRequests requests (promhttp HandlerFor).         *)
(***************************************************************************)
THEOREM TokensNeverLost == Spec => []TokensExact
<1>1. SlotInv => TokensExact
  BY DEF SlotInv
<1> QED
  BY <1>1, SlotInit, SlotStep, PTL DEF Spec

(***************************************************************************)
(* With --web.max-requests=1 no two Updates of one collector object        *)
(* overlap, as the theorems about VcCollector suppose with Serial: the two *)
(* requests would both hold the one token.                                 *)
(***************************************************************************)
THEOREM OneMakesSerial == Spec => []SerialWhenOne
<1>1. WaitingInv /\ SlotInv => SerialWhenOne
  <2> SUFFICES ASSUME WaitingInv, SlotInv, MaxRequests = 1,
                      NEW r \in Request, NEW s \in Request, NEW c \in Collector,
                      Uses(r, c), Uses(s, c)
               PROVE  r = s
    BY DEF SerialWhenOne
  <2>1. r \in Gathering /\ s \in Gathering
    BY DEF WaitingInv, WaitInv, Live, Uses, Gathering
  <2>2. Cardinality(Gathering) <= 1
    BY DEF SlotInv, TokensExact
  <2>3. \A t \in Gathering : Gathering \ {t} = {}
    <3> SUFFICES ASSUME NEW t \in Gathering PROVE Gathering \ {t} = {}
      OBVIOUS
    <3>1. Cardinality(Gathering \ {t}) = Cardinality(Gathering) - 1
          /\ IsFiniteSet(Gathering \ {t})
      BY GatheringFinite, FS_RemoveElement
    <3>2. Cardinality(Gathering \ {t}) \in Nat
      BY <3>1, FS_CardinalityType
    <3>3. Cardinality(Gathering \ {t}) = 0
      BY <2>2, <3>1, <3>2, GatheringFinite
    <3> QED
      BY <3>1, <3>3, FS_EmptySet
  <2> QED
    BY <2>1, <2>3
<1> QED
  BY <1>1, WaitInit, WaitStep, SlotInit, SlotStep, PTL DEF Spec
-----------------------------------------------------------------------------
(* Every variable keeps its type: a Done never takes the WaitGroup below   *)
(* zero, and a token goes back only if it was taken.                       *)
TypedInv == TypeOK /\ WaitingInv /\ SlotInv

LEMMA TypedInit == Init => TypedInv
<1>1. Init => TypeOK
  BY HandlerAssumption DEF Init, TypeOK, Off
<1> QED
  BY <1>1, WaitInit, SlotInit DEF TypedInv

LEMMA TypedStep == TypedInv /\ [Next]_vars => TypedInv'
<1> SUFFICES ASSUME TypedInv, [Next]_vars PROVE TypeOK'
  BY WaitStep, SlotStep DEF TypedInv
<1>0. TypeOK /\ Shape' /\ inFlight' \in Nat
  <2>1. WaitingInv' /\ SlotInv'
    BY WaitStep, SlotStep DEF TypedInv
  <2>2. Cardinality(Gathering)' \in Nat
    <3>1. Gathering' \subseteq Request
      BY DEF Gathering
    <3> QED
      BY <3>1, HandlerAssumption, FS_Subset, FS_CardinalityType
  <2> QED
    BY <2>1, <2>2 DEF WaitingInv, SlotInv, TokensExact, TypedInv
<1> SUFFICES /\ good' \in [Request -> [Collector -> BOOLEAN]]
             /\ sent' \in [Request -> [Collector -> Seq(Sample)]]
             /\ channel' \in [Request -> Seq(Metric)]
             /\ body' \in [Request -> SUBSET Metric]
             /\ errs' \in [Request -> BOOLEAN]
             /\ code' \in [Request -> {0, 200, 400, 500, 503}]
  BY <1>0 DEF Shape, TypeOK, TaskState
<1> USE <1>0 DEF TypeOK
<1>1. ASSUME NEW r \in Request, NEW m \in Metric, Send(r, m)
      PROVE  channel' \in [Request -> Seq(Metric)]
  BY <1>1 DEF Send
<1>2. ASSUME NEW r \in Request, Ask(r) \/ Admit(r) \/ Reject(r) \/ Answer(r)
      PROVE  UNCHANGED <<good, sent, channel, body, errs>>
             /\ code' \in [Request -> {0, 200, 400, 500, 503}]
  BY <1>2 DEF Ask, ServeUnfiltered, ServeFiltered, ServeBadFilter, Admit, Reject, Answer
<1>3. ASSUME NEW r \in Request, CollectVersion(r)
      PROVE  UNCHANGED <<good, sent, gathered>> /\ channel' \in [Request -> Seq(Metric)]
  <2>1. [kind |-> "version"] \in Metric
    BY DEF Metric
  <2> QED
    BY <1>1, <1>3, <2>1 DEF CollectVersion
<1>4. ASSUME NEW r \in Request, Collect(r) \/ CollectReturns(r) \/ CloseChannel(r)
      PROVE  UNCHANGED <<good, sent, channel, gathered>>
  BY <1>4 DEF Collect, CollectReturns, CloseChannel
<1>5. ASSUME NEW r \in Request, Receive(r)
      PROVE  /\ UNCHANGED <<good, sent, code>>
             /\ channel' \in [Request -> Seq(Metric)]
             /\ body' \in [Request -> SUBSET Metric]
             /\ errs' \in [Request -> BOOLEAN]
  <2>1. channel[r] \in Seq(Metric) /\ channel[r] # <<>>
    BY <1>5 DEF Receive
  <2>2. Head(channel[r]) \in Metric /\ Tail(channel[r]) \in Seq(Metric)
    BY <2>1
  <2>3. channel' = [channel EXCEPT ![r] = Tail(@)] /\ UNCHANGED <<good, sent, code>>
    BY <1>5 DEF Receive
  <2>4. channel' \in [Request -> Seq(Metric)]
    BY <2>2, <2>3
  <2>5. CASE body' = [body EXCEPT ![r] = @ \cup {Head(channel[r])}] /\ UNCHANGED errs
    BY <2>2, <2>3, <2>4, <2>5
  <2>6. CASE errs' = [errs EXCEPT ![r] = TRUE] /\ UNCHANGED body
    BY <2>3, <2>4, <2>6
  <2> QED
    BY <1>5, <2>5, <2>6 DEF Receive
<1>6. ASSUME NEW r \in Request, AskAgain(r)
      PROVE  /\ good' \in [Request -> [Collector -> BOOLEAN]]
             /\ sent' \in [Request -> [Collector -> Seq(Sample)]]
             /\ channel' \in [Request -> Seq(Metric)]
             /\ body' \in [Request -> SUBSET Metric]
             /\ errs' \in [Request -> BOOLEAN]
             /\ code' \in [Request -> {0, 200, 400, 500, 503}]
  BY <1>6 DEF AskAgain
<1>7. ASSUME NEW r \in Request, NEW c \in Collector, NEW id \in Sample,
             UpdateSends(r, c, id)
      PROVE  /\ UNCHANGED <<good, gathered>>
             /\ sent' \in [Request -> [Collector -> Seq(Sample)]]
             /\ channel' \in [Request -> Seq(Metric)]
  <2>1. [kind |-> "sample", collector |-> c, id |-> id] \in Metric
    BY DEF Metric
  <2>2. Append(sent[r][c], id) \in Seq(Sample)
    OBVIOUS
  <2> QED
    BY <1>1, <1>7, <2>1, <2>2 DEF UpdateSends
<1>8. ASSUME NEW r \in Request, NEW c \in Collector, NEW ok \in BOOLEAN,
             UpdateReturns(r, c, ok)
      PROVE  /\ UNCHANGED <<sent, channel, gathered>>
             /\ good' \in [Request -> [Collector -> BOOLEAN]]
  BY <1>8 DEF UpdateReturns
<1>9. ASSUME NEW r \in Request, NEW c \in Collector,
             SendDuration(r, c) \/ SendSuccess(r, c) \/ Done(r, c)
      PROVE  UNCHANGED <<good, sent, gathered>> /\ channel' \in [Request -> Seq(Metric)]
  <2>1. /\ [kind |-> "duration", collector |-> c] \in Metric
        /\ [kind |-> "success", collector |-> c,
            value |-> IF good[r][c] THEN 1 ELSE 0] \in Metric
    BY DEF Metric
  <2> QED
    BY <1>1, <1>9, <2>1 DEF SendDuration, SendSuccess, Done
<1>10. CASE UNCHANGED vars
  BY <1>10 DEF vars
<1>11. CASE Next
  <2> PICK r \in Request :
        Ask(r) \/ Serve(r) \/ AskAgain(r) \/ \E c \in Collector : Execute(r, c)
    BY <1>11 DEF Next
  <2>1. CASE Ask(r) \/ Admit(r) \/ Reject(r) \/ Answer(r)
    BY <1>2, <2>1
  <2>2. CASE CollectVersion(r)
    BY <1>3, <2>2
  <2>3. CASE Collect(r) \/ CollectReturns(r) \/ CloseChannel(r)
    BY <1>4, <2>3
  <2>4. CASE Receive(r)
    BY <1>5, <2>4
  <2>5. CASE AskAgain(r)
    BY <1>6, <2>5
  <2>6. ASSUME NEW c \in Collector, Execute(r, c)
        PROVE  /\ good' \in [Request -> [Collector -> BOOLEAN]]
               /\ sent' \in [Request -> [Collector -> Seq(Sample)]]
               /\ channel' \in [Request -> Seq(Metric)]
               /\ body' \in [Request -> SUBSET Metric]
               /\ errs' \in [Request -> BOOLEAN]
               /\ code' \in [Request -> {0, 200, 400, 500, 503}]
    <3>1. CASE \E id \in Sample : UpdateSends(r, c, id)
      BY <1>7, <3>1
    <3>2. CASE \E ok \in BOOLEAN : UpdateReturns(r, c, ok)
      BY <1>8, <3>2
    <3>3. CASE SendDuration(r, c) \/ SendSuccess(r, c) \/ Done(r, c)
      BY <1>9, <3>3
    <3> QED
      BY <2>6, <3>1, <3>2, <3>3 DEF Execute
  <2>7. CASE Serve(r)
    BY <2>1, <2>2, <2>3, <2>4, <2>7 DEF Serve
  <2> QED
    BY <2>1, <2>5, <2>6, <2>7
<1> QED
  BY <1>10, <1>11

(***************************************************************************)
(* The types of the handler's state (govc_exporter.go, collector.go): the  *)
(* counters are natural numbers although they are counted down.            *)
(***************************************************************************)
THEOREM HandlerTypeOK == Spec => []TypeOK
<1>1. TypedInv => TypeOK
  BY DEF TypedInv
<1> QED
  BY <1>1, TypedInit, TypedStep, PTL DEF Spec
-----------------------------------------------------------------------------
(* Sequences as Gather and Update use them: s has an element twice, or one *)
(* of b.                                                                   *)
Repeats(b, s) ==
    \E k \in 1 .. Len(s) : s[k] \in b \/ \E j \in 1 .. k - 1 : s[j] = s[k]

LEMMA IdsAppend ==
    ASSUME NEW S, NEW s \in Seq(S), NEW m \in S, NEW b
    PROVE  /\ Ids(Append(s, m)) = Ids(s) \cup {m}
           /\ Repeats(b, Append(s, m)) <=> Repeats(b, s) \/ m \in b \cup Ids(s)
<1> DEFINE t == Append(s, m)
<1>1. /\ Len(s) \in Nat /\ Len(t) = Len(s) + 1 /\ t[Len(s) + 1] = m
      /\ \A k \in 1 .. Len(s) : t[k] = s[k]
  OBVIOUS
<1> HIDE DEF t
<1>2. Ids(t) = Ids(s) \cup {m}
  BY <1>1 DEF Ids
<1>3. Repeats(b, t) => Repeats(b, s) \/ m \in b \cup Ids(s)
  BY <1>1 DEF Ids, Repeats
<1>4. ASSUME Repeats(b, s) \/ m \in b \cup Ids(s) PROVE Repeats(b, t)
  <2>1. CASE Repeats(b, s)
    BY <1>1, <2>1 DEF Repeats
  <2>2. CASE m \in b
    BY <1>1, <2>2 DEF Repeats
  <2>3. CASE m \in Ids(s)
    BY <1>1, <2>3 DEF Repeats, Ids
  <2> QED
    BY <1>4, <2>1, <2>2, <2>3
<1> QED
  BY <1>2, <1>3, <1>4 DEF t

LEMMA IdsTail ==
    ASSUME NEW S, NEW s \in Seq(S), s # <<>>, NEW b
    PROVE  /\ Ids(s) = {Head(s)} \cup Ids(Tail(s))
           /\ Head(s) \notin b =>
                (Repeats(b, s) <=> Repeats(b \cup {Head(s)}, Tail(s)))
           /\ Head(s) \in b => Repeats(b, s)
<1> DEFINE m == Head(s)
           t == Tail(s)
<1>1. /\ Len(s) \in Nat \ {0} /\ Len(t) \in Nat /\ Len(s) = Len(t) + 1 /\ s[1] = m
      /\ \A k \in 1 .. Len(t) : t[k] = s[k + 1]
  OBVIOUS
<1> HIDE DEF m, t
<1>2. \A k \in 2 .. Len(s) : k - 1 \in 1 .. Len(t) /\ s[k] = t[k - 1]
  BY <1>1
<1>3. Ids(s) = {m} \cup Ids(t)
  <2>1. ASSUME NEW x \in Ids(s) PROVE x \in {m} \cup Ids(t)
    BY <1>1, <1>2, <2>1 DEF Ids
  <2>2. \A k \in 1 .. Len(t) : k + 1 \in 1 .. Len(s)
    BY <1>1
  <2>3. Ids(t) \subseteq Ids(s) /\ m \in Ids(s)
    BY <1>1, <2>2 DEF Ids
  <2> QED
    BY <2>1, <2>3
<1>4. m \in b => Repeats(b, s)
  BY <1>1 DEF Repeats
<1>5. ASSUME m \notin b, Repeats(b, s) PROVE Repeats(b \cup {m}, t)
  <2> PICK k \in 1 .. Len(s) : s[k] \in b \/ \E j \in 1 .. k - 1 : s[j] = s[k]
    BY <1>5 DEF Repeats
  <2>1. k \in 2 .. Len(s)
    BY <1>1, <1>5
  <2>2. k - 1 \in 1 .. Len(t) /\ s[k] = t[k - 1]
    BY <1>2, <2>1
  <2>3. ASSUME NEW j \in 1 .. k - 1, s[j] = s[k], j # 1
        PROVE  \E i \in 1 .. k - 1 - 1 : t[i] = t[k - 1]
    <3>1. j \in 2 .. Len(s) /\ j - 1 \in 1 .. k - 1 - 1
      BY <1>1, <2>3
    <3> QED
      BY <1>2, <2>2, <2>3, <3>1
  <2> QED
    BY <1>1, <2>2, <2>3 DEF Repeats
<1>6. ASSUME Repeats(b \cup {m}, t) PROVE Repeats(b, s)
  <2> PICK k \in 1 .. Len(t) : t[k] \in b \cup {m} \/ \E j \in 1 .. k - 1 : t[j] = t[k]
    BY <1>6 DEF Repeats
  <2>1. k + 1 \in 1 .. Len(s) /\ s[k + 1] = t[k] /\ 1 \in 1 .. (k + 1) - 1
    BY <1>1
  <2>2. ASSUME NEW j \in 1 .. k - 1, t[j] = t[k]
        PROVE  \E i \in 1 .. (k + 1) - 1 : s[i] = s[k + 1]
    <3>1. j \in 1 .. Len(t) /\ j + 1 \in 1 .. (k + 1) - 1
      BY <1>1, <2>2
    <3> QED
      BY <1>1, <2>1, <2>2, <3>1
  <2> QED
    BY <1>1, <2>1, <2>2 DEF Repeats
<1> QED
  BY <1>3, <1>4, <1>5, <1>6 DEF m, t

(* Fewer elements than places: some element is there twice.  *)
LEMMA FewerIds ==
    ASSUME NEW S, NEW s \in Seq(S)
    PROVE  Cardinality(Ids(s)) < Len(s) <=> Repeats({}, s)
<1> DEFINE places == 1 .. Len(s)
           f == [k \in places |-> s[k]]
<1>1. Len(s) \in Nat /\ IsFiniteSet(places) /\ Cardinality(places) = Len(s)
  <2>1. Len(s) \in Nat
    OBVIOUS
  <2>2. Cardinality(places) = IF 1 > Len(s) THEN 0 ELSE Len(s) - 1 + 1
    BY <2>1, FS_Interval
  <2> QED
    BY <2>1, <2>2, FS_Interval
<1>2. f \in Surjection(places, Ids(s))
  BY DEF Surjection, Ids
<1>3. /\ IsFiniteSet(Ids(s)) /\ Cardinality(Ids(s)) <= Len(s)
      /\ Cardinality(Ids(s)) = Len(s) <=> f \in Injection(places, Ids(s))
  BY <1>1, <1>2, FS_Surjection
<1>4. f \in [places -> Ids(s)]
  BY DEF Ids
<1>5. f \in Injection(places, Ids(s)) <=> ~ Repeats({}, s)
  <2>1. f \in Injection(places, Ids(s)) <=> \A i, j \in places : s[i] = s[j] => i = j
    <3>1. \A i \in places : f[i] = s[i]
      OBVIOUS
    <3> HIDE DEF f
    <3> QED
      BY <1>4, <3>1 DEF Injection, IsInjective
  <2>2. Repeats({}, s) => \E i, j \in places : s[i] = s[j] /\ i # j
    BY <1>1 DEF Repeats
  <2>3. ASSUME NEW i \in places, NEW j \in places, s[i] = s[j], i # j
        PROVE  Repeats({}, s)
    <3>1. CASE i < j
      BY <1>1, <2>3, <3>1 DEF Repeats
    <3>2. CASE j < i
      BY <1>1, <2>3, <3>2 DEF Repeats
    <3> QED
      BY <1>1, <2>3, <3>1, <3>2
  <2> QED
    BY <2>1, <2>2, <2>3
<1>6. Cardinality(Ids(s)) \in Nat
  BY <1>3, FS_CardinalityType
<1> QED
  BY <1>1, <1>3, <1>5, <1>6
-----------------------------------------------------------------------------
(* The metrics sent for r so far: those accepted and those in the channel. *)
Posted(r) == body[r] \cup Ids(channel[r])

(* Those that its workers and goroutines have sent: the version once v is  *)
(* "done", the others by where each goroutine is, how its Update ended and *)
(* what that sent.                                                         *)
DueOf(v, where, ok, samples) ==
    {[kind |-> "version"] : z \in {z \in {v} : z = "done"}}
    \cup {[kind |-> "duration", collector |-> c] :
            c \in {d \in Collector : where[d] \in {"success", "return", "done"}}}
    \cup {[kind |-> "success", collector |-> c, value |-> IF ok[c] THEN 1 ELSE 0] :
            c \in {d \in Collector : where[d] \in {"return", "done"}}}
    \cup UNION {{[kind |-> "sample", collector |-> c, id |-> id] :
            id \in Ids(samples[c])} : c \in Collector}

Due(r) == DueOf(version[r], task[r], good[r], sent[r])

Resent(r) == \E c \in Collector : Repeats({}, sent[r][c])

(***************************************************************************)
(* Nothing is lost or made up on the way through the channel, and Gather   *)
(* has refused a metric, or will refuse one that is still in the channel,  *)
(* just if an Update sent one twice.                                       *)
(***************************************************************************)
Accounted(r) ==
    /\ Posted(r) = Due(r)
    /\ (errs[r] \/ Repeats(body[r], channel[r])) <=> Resent(r)
    /\ \A c \in Collector : task[r][c] = "off" => sent[r][c] = <<>>

(* How far the request, its Collect and its goroutines are.  *)
Placed(r) ==
    /\ main[r] = "todo" => \A c \in Collector : task[r][c] = "off"
    /\ main[r] # "todo" =>
          /\ filters[r] \subseteq Enabled
          /\ \A c \in Collector : task[r][c] = "off" <=> c \notin Wanted(filters[r])
    /\ phase[r] \in {"idle", "admit"} => version[r] = "todo" /\ ~ closed[r]
    /\ phase[r] # "gather" => channel[r] = <<>>
    /\ phase[r] # "answered" => code[r] = 0
    /\ phase[r] = "answered" =>
          \/ code[r] = 200 /\ closed[r]
          \/ code[r] \in {400, 503} /\ main[r] = "todo" /\ version[r] = "todo"

AnswerInv == \A r \in Request : Accounted(r) /\ Placed(r)

LEMMA DueMember ==
    ASSUME NEW v, NEW where, NEW ok, NEW samples, NEW x
    PROVE  x \in DueOf(v, where, ok, samples) <=>
              \/ v = "done" /\ x = [kind |-> "version"]
              \/ \E c \in Collector :
                    \/ /\ where[c] \in {"success", "return", "done"}
                       /\ x = [kind |-> "duration", collector |-> c]
                    \/ /\ where[c] \in {"return", "done"}
                       /\ x = [kind |-> "success", collector |-> c,
                               value |-> IF ok[c] THEN 1 ELSE 0]
                    \/ \E id \in Ids(samples[c]) :
                          x = [kind |-> "sample", collector |-> c, id |-> id]
BY DEF DueOf

(* A goroutine that goes on between two sends.  *)
LEMMA DueSame ==
    ASSUME NEW v, NEW where, NEW to, NEW ok, NEW now, NEW samples,
           \A c \in Collector :
              /\ to[c] \in {"success", "return", "done"}
                    <=> where[c] \in {"success", "return", "done"}
              /\ to[c] \in {"return", "done"} <=> where[c] \in {"return", "done"}
              /\ where[c] \in {"return", "done"} => now[c] = ok[c]
    PROVE  DueOf(v, to, now, samples) = DueOf(v, where, ok, samples)
<1> SUFFICES ASSUME NEW x
             PROVE  x \in DueOf(v, to, now, samples) <=> x \in DueOf(v, where, ok, samples)
  OBVIOUS
<1> QED
  BY DueMember

(* A step that is not r's.  *)
Kept(r) ==
    /\ phase'[r] = phase[r] /\ filters'[r] = filters[r] /\ version'[r] = version[r]
    /\ main'[r] = main[r] /\ task'[r] = task[r] /\ good'[r] = good[r]
    /\ sent'[r] = sent[r] /\ channel'[r] = channel[r] /\ closed'[r] = closed[r]
    /\ body'[r] = body[r] /\ errs'[r] = errs[r] /\ code'[r] = code[r]

LEMMA KeptAccounted ==
    ASSUME NEW r \in Request, Kept(r), Accounted(r), Placed(r)
    PROVE  Accounted(r)' /\ Placed(r)'
<1>1. Posted(r)' = Posted(r) /\ Due(r)' = Due(r) /\ Resent(r)' = Resent(r)
  BY DEF Kept, Posted, Due, Resent
<1>2. Repeats(body[r], channel[r])' = Repeats(body[r], channel[r])
  BY DEF Kept
<1> QED
  BY <1>1, <1>2 DEF Kept, Accounted, Placed

LEMMA OthersKept ==
    ASSUME TypeOK, NEW r \in Request,
           Ask(r) \/ Serve(r) \/ AskAgain(r) \/ \E c \in Collector : Execute(r, c)
    PROVE  \A s \in Request \ {r} : Kept(s)
<1> TAKE s \in Request \ {r}
<1> USE DEF TypeOK, Kept
<1>1. CASE Ask(r)
  BY <1>1 DEF Ask, ServeUnfiltered, ServeFiltered, ServeBadFilter
<1>2. CASE Admit(r) \/ Reject(r)
  BY <1>2 DEF Admit, Reject
<1>3. CASE CollectVersion(r) \/ Collect(r) \/ CollectReturns(r) \/ CloseChannel(r)
  BY <1>3 DEF CollectVersion, Send, Collect, CollectReturns, CloseChannel
<1>4. CASE Receive(r)
  BY <1>4 DEF Receive
<1>5. CASE Answer(r)
  BY <1>5 DEF Answer
<1>6. CASE AskAgain(r)
  BY <1>6 DEF AskAgain
<1>7. ASSUME NEW c \in Collector, Execute(r, c) PROVE Kept(s)
  <2>1. CASE \E id \in Sample : UpdateSends(r, c, id)
    BY <2>1 DEF UpdateSends, Send
  <2>2. CASE \E ok \in BOOLEAN : UpdateReturns(r, c, ok)
    BY <2>2 DEF UpdateReturns, Goes
  <2>3. CASE SendDuration(r, c) \/ SendSuccess(r, c)
    BY <2>3 DEF SendDuration, SendSuccess, Send, Goes
  <2>4. CASE Done(r, c)
    BY <2>4 DEF Done, Goes
  <2> QED
    BY <1>7, <2>1, <2>2, <2>3, <2>4 DEF Execute
<1> QED
  BY <1>1, <1>2, <1>3, <1>4, <1>5, <1>6, <1>7 DEF Serve

(* What a sender of r's adds.  *)
LEMMA SendPosted ==
    ASSUME TypeOK, NEW r \in Request, NEW m \in Metric, Send(r, m), UNCHANGED body
    PROVE  /\ Posted(r)' = Posted(r) \cup {m}
           /\ Repeats(body[r], channel[r])' <=>
                 Repeats(body[r], channel[r]) \/ m \in Posted(r)
<1>1. channel[r] \in Seq(Metric) /\ channel'[r] = Append(channel[r], m)
  BY DEF TypeOK, Send
<1> QED
  BY <1>1, IdsAppend DEF Posted

(* Sent metrics that Gather takes for the same are the same.  *)
LEMMA SameInDue ==
    ASSUME NEW r \in Request, NEW m \in Due(r), NEW n \in Due(r)
    PROVE  Same(m, n) <=> m = n
<1> USE DEF Same
<1>0. m \in DueOf(version[r], task[r], good[r], sent[r])
      /\ n \in DueOf(version[r], task[r], good[r], sent[r])
  BY DEF Due
<1>1. CASE m.kind = "version"
  BY <1>0, <1>1, DueMember
<1>2. CASE m.kind = "duration"
  BY <1>0, <1>2, DueMember
<1>3. CASE m.kind = "success"
  BY <1>0, <1>3, DueMember
<1>4. CASE m.kind = "sample"
  BY <1>0, <1>4, DueMember
<1> QED
  BY <1>0, <1>1, <1>2, <1>3, <1>4, DueMember

LEMMA EmptyChannel ==
    ASSUME NEW r \in Request, channel[r] = <<>>
    PROVE  Posted(r) = body[r] /\ ~ Repeats(body[r], channel[r])
BY DEF Posted, Ids, Repeats

(* A step of r's that sends and receives nothing.  *)
LEMMA QuietAccounted ==
    ASSUME NEW r \in Request, Accounted(r),
           version'[r] = version[r], task'[r] = task[r], good'[r] = good[r],
           sent'[r] = sent[r], channel'[r] = channel[r],
           body'[r] = body[r], errs'[r] = errs[r]
    PROVE  Accounted(r)'
<1>1. Posted(r)' = Posted(r) /\ Due(r)' = Due(r) /\ Resent(r)' = Resent(r)
  BY DEF Posted, Due, Resent
<1> QED
  BY <1>1 DEF Accounted

LEMMA AnswerInit == Init => AnswerInv
<1> SUFFICES ASSUME Init, NEW r \in Request PROVE Accounted(r) /\ Placed(r)
  BY DEF AnswerInv
<1>1. Posted(r) = {} /\ ~ Repeats(body[r], channel[r])
  BY EmptyChannel DEF Init
<1>2. Due(r) = {} /\ ~ Resent(r)
  BY DEF Init, Off, Due, DueOf, Resent, Repeats, Ids
<1> QED
  BY <1>1, <1>2 DEF Init, Off, Accounted, Placed

LEMMA AskAnswer ==
    ASSUME TypedInv, AnswerInv, NEW r \in Request, Ask(r) \/ Admit(r) \/ Reject(r)
    PROVE  Accounted(r)' /\ Placed(r)'
<1> USE DEF TypedInv, TypeOK
<1>0. /\ Accounted(r) /\ Placed(r)
      /\ phase[r] \in {"idle", "admit"} /\ main[r] = "todo"
  BY DEF AnswerInv, WaitingInv, WaitInv, Ask, ServeUnfiltered, ServeFiltered,
         ServeBadFilter, Admit, Reject
<1>1. /\ UNCHANGED <<collecting, body, errs>>
      /\ \/ phase'[r] \in {"admit", "gather"} /\ code'[r] = code[r]
         \/ phase'[r] = "answered" /\ code'[r] \in {400, 503}
  BY DEF Ask, ServeUnfiltered, ServeFiltered, ServeBadFilter, Admit, Reject
<1>2. Accounted(r)'
  BY <1>0, <1>1, QuietAccounted
<1>3. Placed(r)'
  BY <1>0, <1>1 DEF Placed
<1> QED
  BY <1>2, <1>3

(* A step of r's that sends m.  *)
LEMMA SendAccounted ==
    ASSUME TypeOK, NEW r \in Request, NEW m \in Metric, Send(r, m),
           UNCHANGED <<body, errs>>, Accounted(r),
           Due(r)' = Due(r) \cup {m},
           Resent(r)' <=> Resent(r) \/ m \in Due(r),
           \A c \in Collector : task'[r][c] = "off" => sent'[r][c] = <<>>
    PROVE  Accounted(r)'
<1>1. /\ Posted(r)' = Posted(r) \cup {m}
      /\ Repeats(body[r], channel[r])' <=>
            Repeats(body[r], channel[r]) \/ m \in Posted(r)
  BY SendPosted
<1> QED
  BY <1>1 DEF Accounted

LEMMA VersionAnswer ==
    ASSUME TypedInv, AnswerInv, NEW r \in Request, CollectVersion(r)
    PROVE  Accounted(r)' /\ Placed(r)'
<1> DEFINE m == [kind |-> "version"]
<1>0. Accounted(r) /\ Placed(r) /\ m \in Metric /\ TypeOK
  BY DEF AnswerInv, Metric, TypedInv
<1>1. /\ version[r] = "todo" /\ version'[r] = "done" /\ phase[r] = "gather"
      /\ UNCHANGED <<phase, filters, main, task, good, sent, closed, gathered>>
      /\ Send(r, m)
  BY <1>0 DEF CollectVersion, TypeOK
<1>2. \A x : x \in Due(r)' <=> x \in Due(r) \/ x = m
  BY <1>1, DueMember DEF Due
<1>3. m \notin Due(r)
  BY <1>1, DueMember DEF Due
<1>4. Resent(r)' = Resent(r)
  BY <1>1 DEF Resent
<1>5. \A c \in Collector : task'[r][c] = "off" => sent'[r][c] = <<>>
  BY <1>0, <1>1 DEF Accounted
<1>6. Due(r)' = Due(r) \cup {m}
  BY <1>2
<1>7. Accounted(r)'
  BY <1>0, <1>1, <1>3, <1>4, <1>5, <1>6, SendAccounted
<1> QED
  BY <1>0, <1>1, <1>7 DEF Placed

LEMMA CollectAnswer ==
    ASSUME TypedInv, AnswerInv, NEW r \in Request,
           Collect(r) \/ CollectReturns(r) \/ CloseChannel(r)
    PROVE  Accounted(r)' /\ Placed(r)'
<1>0. Accounted(r) /\ Placed(r) /\ TypeOK
  BY DEF AnswerInv, TypedInv
<1> USE <1>0 DEF TypeOK
<1>1. CASE Collect(r)
  <2>1. /\ main[r] = "todo" /\ main'[r] = "waiting" /\ phase[r] = "gather"
        /\ \A c \in Collector :
              /\ task[r][c] = "off"
              /\ task'[r][c] = IF c \in Wanted(filters[r]) THEN "update" ELSE "off"
        /\ UNCHANGED <<phase, filters, version, good, sent, channel, closed, gathered>>
    BY <1>1 DEF Collect, Placed
  <2> DEFINE to == task'[r]
  <2>2. \A c \in Collector : task[r][c] = "off" /\ to[c] \in {"off", "update"}
    BY <2>1
  <2>3. Due(r)' = DueOf(version[r], to, good[r], sent[r])
    BY <2>1 DEF Due
  <2> HIDE DEF to
  <2>4. Due(r)' = Due(r)
    <3>1. DueOf(version[r], to, good[r], sent[r])
             = DueOf(version[r], task[r], good[r], sent[r])
      <4> DEFINE from == task[r]
                 ok == good[r]
      <4>1. \A c \in Collector :
               /\ to[c] \in {"success", "return", "done"}
                     <=> from[c] \in {"success", "return", "done"}
               /\ to[c] \in {"return", "done"} <=> from[c] \in {"return", "done"}
               /\ from[c] \in {"return", "done"} => ok[c] = ok[c]
        BY <2>2
      <4> HIDE DEF from, ok
      <4>2. DueOf(version[r], to, ok, sent[r]) = DueOf(version[r], from, ok, sent[r])
        BY <4>1, DueSame
      <4> QED
        BY <4>2 DEF from, ok
    <3> QED
      BY <2>3, <3>1 DEF Due
  <2>5. Posted(r)' = Posted(r) /\ Resent(r)' = Resent(r)
    BY <2>1 DEF Posted, Resent
  <2>6. filters[r] \subseteq Enabled
    BY <2>1 DEF TypedInv, WaitingInv, WaitInv
  <2> QED
    BY <2>1, <2>4, <2>5, <2>6 DEF Accounted, Placed
<1>2. CASE CollectReturns(r)
  BY <1>2, QuietAccounted DEF CollectReturns, Placed
<1>3. CASE CloseChannel(r)
  <2>1. version[r] = "done" /\ main[r] = "done"
    BY <1>3 DEF CloseChannel
  <2> QED
    BY <1>3, <2>1, QuietAccounted DEF CloseChannel, Placed
<1> QED
  BY <1>1, <1>2, <1>3

LEMMA ReceiveAnswer ==
    ASSUME TypedInv, AnswerInv, NEW r \in Request, Receive(r)
    PROVE  Accounted(r)' /\ Placed(r)'
<1> DEFINE m == Head(channel[r])
<1>0. Accounted(r) /\ Placed(r) /\ TypeOK
  BY DEF AnswerInv, TypedInv
<1>1. /\ channel[r] \in Seq(Metric) /\ channel[r] # <<>>
      /\ channel'[r] = Tail(channel[r])
      /\ UNCHANGED <<phase, filters, version, main, task, good, sent, closed, code>>
  BY <1>0 DEF Receive, TypeOK
<1>2. /\ Ids(channel[r]) = {m} \cup Ids(Tail(channel[r]))
      /\ m \notin body[r] =>
            (Repeats(body[r], channel[r]) <=> Repeats(body[r] \cup {m}, Tail(channel[r])))
      /\ m \in body[r] => Repeats(body[r], channel[r])
  <2> DEFINE b == body[r]
             s == channel[r]
  <2>1. s \in Seq(Metric) /\ s # <<>>
    BY <1>1
  <2> HIDE DEF b, s
  <2>2. /\ Ids(s) = {Head(s)} \cup Ids(Tail(s))
        /\ Head(s) \notin b =>
              (Repeats(b, s) <=> Repeats(b \cup {Head(s)}, Tail(s)))
        /\ Head(s) \in b => Repeats(b, s)
    BY <2>1, IdsTail
  <2> QED
    BY <2>2 DEF b, s
<1> HIDE DEF m
<1>3. \A n \in body[r] : Same(m, n) <=> m = n
  <2>1. m \in Due(r) /\ body[r] \subseteq Due(r)
    BY <1>0, <1>2 DEF Accounted, Posted
  <2> QED
    BY <2>1, SameInDue
<1>4. \/ m \notin body[r] /\ body'[r] = body[r] \cup {m} /\ errs'[r] = errs[r]
      \/ m \in body[r] /\ body'[r] = body[r] /\ errs'[r] = TRUE
  BY <1>0, <1>3 DEF Receive, TypeOK, m
<1>5. Due(r)' = Due(r) /\ Resent(r)' = Resent(r)
  BY <1>1 DEF Due, Resent
<1>6. Posted(r)' = Posted(r)
  BY <1>1, <1>2, <1>4 DEF Posted
<1>7. (errs[r] \/ Repeats(body[r], channel[r]))' <=> Resent(r)
  BY <1>0, <1>1, <1>2, <1>4 DEF Accounted
<1>8. Accounted(r)'
  BY <1>0, <1>1, <1>5, <1>6, <1>7 DEF Accounted
<1>9. Placed(r)'
  BY <1>0, <1>1 DEF Placed
<1> QED
  BY <1>8, <1>9

(* There is something to answer: the build information at least.  *)
LEMMA AnsweredBody ==
    ASSUME TypedInv, AnswerInv, NEW r \in Request, closed[r], channel[r] = <<>>
    PROVE  body[r] # {} /\ version[r] = "done"
<1>1. version[r] = "done"
  BY DEF TypedInv, WaitingInv, WaitInv
<1>2. body[r] = Due(r)
  BY EmptyChannel DEF AnswerInv, Accounted
<1>3. [kind |-> "version"] \in Due(r)
  BY <1>1, DueMember DEF Due
<1> QED
  BY <1>1, <1>2, <1>3

LEMMA AnswerAnswer ==
    ASSUME TypedInv, AnswerInv, NEW r \in Request, Answer(r) \/ AskAgain(r)
    PROVE  Accounted(r)' /\ Placed(r)'
<1>0. Accounted(r) /\ Placed(r) /\ TypeOK
  BY DEF AnswerInv, TypedInv
<1>1. CASE Answer(r)
  <2>1. closed[r] /\ channel[r] = <<>> /\ phase'[r] = "answered"
        /\ UNCHANGED <<filters, collecting, body, errs>>
    BY <1>0, <1>1 DEF Answer, TypeOK
  <2>2. body[r] # {}
    BY <2>1, AnsweredBody
  <2>3. code'[r] = 200
    BY <1>0, <1>1, <2>2 DEF Answer, TypeOK
  <2>4. Placed(r)'
    BY <1>0, <2>1, <2>3 DEF Placed
  <2>5. Accounted(r)'
    BY <1>0, <2>1, QuietAccounted
  <2> QED
    BY <2>4, <2>5
<1>2. CASE AskAgain(r)
  <2>1. /\ phase'[r] = "idle" /\ version'[r] = "todo" /\ main'[r] = "todo"
        /\ task'[r] = Off /\ sent'[r] = [c \in Collector |-> <<>>]
        /\ channel'[r] = <<>> /\ body'[r] = {} /\ errs'[r] = FALSE
        /\ code'[r] = 0 /\ closed'[r] = FALSE
    BY <1>0, <1>2 DEF AskAgain, TypeOK
  <2>2. Posted(r)' = {} /\ ~ Repeats(body[r], channel[r])'
    BY <2>1 DEF Posted, Ids, Repeats
  <2>3. Due(r)' = {} /\ ~ Resent(r)'
    BY <2>1 DEF Off, Due, DueOf, Resent, Repeats, Ids
  <2> QED
    BY <2>1, <2>2, <2>3 DEF Off, Accounted, Placed
<1> QED
  BY <1>1, <1>2

LEMMA ExecutePlaced ==
    ASSUME TypedInv, AnswerInv, NEW r \in Request, NEW c \in Collector, Execute(r, c)
    PROVE  Placed(r)' /\ task[r][c] # "off"
<1>0. Placed(r) /\ TypeOK
  BY DEF AnswerInv, TypedInv
<1>1. c \in Live(r) /\ task[r][c] # "off"
  BY DEF Execute, UpdateSends, UpdateReturns, SendDuration, SendSuccess, Done, Live
<1>2. phase[r] = "gather" /\ main[r] # "todo"
  BY <1>1 DEF TypedInv, WaitingInv, WaitInv
<1>3. /\ UNCHANGED <<phase, filters, version, main, closed, gathered>>
      /\ task' = task \/ \E to \in {"duration", "success", "return", "done"} : Goes(r, c, to)
  BY DEF Execute, UpdateSends, UpdateReturns, SendDuration, SendSuccess, Done
<1>4. \A d \in Collector : task'[r][d] = "off" <=> task[r][d] = "off"
  BY <1>0, <1>1, <1>3 DEF Goes, TypeOK
<1> QED
  BY <1>0, <1>1, <1>2, <1>3, <1>4 DEF Placed

LEMMA ExecuteAnswer ==
    ASSUME TypedInv, AnswerInv, NEW r \in Request, NEW c \in Collector, Execute(r, c)
    PROVE  Accounted(r)'
<1>0. Accounted(r) /\ Placed(r) /\ TypeOK /\ task[r][c] # "off"
  BY ExecutePlaced DEF AnswerInv, TypedInv
<1>1. ASSUME NEW id \in Sample, UpdateSends(r, c, id) PROVE Accounted(r)'
  <2> DEFINE m == [kind |-> "sample", collector |-> c, id |-> id]
  <2>1. m \in Metric
    BY DEF Metric
  <2>2. /\ Send(r, m) /\ sent'[r][c] = Append(sent[r][c], id)
        /\ sent[r][c] \in Seq(Sample)
        /\ \A d \in Collector \ {c} : sent'[r][d] = sent[r][d]
        /\ UNCHANGED <<version, task, good, gathered>>
    BY <1>0, <1>1 DEF UpdateSends, TypeOK
  <2>3. /\ Ids(sent'[r][c]) = Ids(sent[r][c]) \cup {id}
        /\ Repeats({}, sent'[r][c]) <=> Repeats({}, sent[r][c]) \/ id \in Ids(sent[r][c])
    BY <2>2, IdsAppend
  <2>4. \A x : x \in Due(r)' <=> x \in Due(r) \/ x = m
    <3>1. \A d \in Collector : Ids(sent'[r][d]) =
             IF d = c THEN Ids(sent[r][c]) \cup {id} ELSE Ids(sent[r][d])
      BY <2>2, <2>3
    <3> QED
      BY <2>2, <3>1, DueMember DEF Due
  <2>5. m \in Due(r) <=> id \in Ids(sent[r][c])
    <3>1. m \in Due(r) => id \in Ids(sent[r][c])
      BY DueMember DEF Due
    <3>2. id \in Ids(sent[r][c]) => m \in Due(r)
      BY DueMember DEF Due
    <3> QED
      BY <3>1, <3>2
  <2>6. Resent(r)' <=> Resent(r) \/ m \in Due(r)
    BY <2>2, <2>3, <2>5 DEF Resent
  <2>7. \A d \in Collector : task'[r][d] = "off" => sent'[r][d] = <<>>
    BY <1>0, <2>2 DEF Accounted
  <2>8. Due(r)' = Due(r) \cup {m}
    BY <2>4
  <2> HIDE DEF m
  <2> QED
    BY <1>0, <2>1, <2>2, <2>6, <2>7, <2>8, SendAccounted
<1>2. ASSUME NEW to \in {"duration", "done"}, Goes(r, c, to),
             task[r][c] = IF to = "duration" THEN "update" ELSE "return",
             \A d \in Collector \ {c} : good'[r][d] = good[r][d],
             to = "done" => good' = good,
             UNCHANGED <<version, sent, channel, gathered>>
      PROVE  Accounted(r)'
  <2>1. /\ \A d \in Collector \ {c} : task'[r][d] = task[r][d]
        /\ task'[r][c] = to
    BY <1>0, <1>2 DEF Goes, TypeOK
  <2>2. Due(r)' = Due(r)
    BY <1>2, <2>1, DueSame DEF Due
  <2>3. Posted(r)' = Posted(r) /\ Resent(r)' = Resent(r)
    BY <1>2 DEF Posted, Resent
  <2> QED
    BY <1>0, <1>2, <2>1, <2>2, <2>3 DEF Accounted
<1>3. ASSUME NEW ok \in BOOLEAN, UpdateReturns(r, c, ok) PROVE Accounted(r)'
  BY <1>0, <1>2, <1>3 DEF UpdateReturns, TypeOK
<1>4. CASE Done(r, c)
  BY <1>0, <1>2, <1>4 DEF Done
<1>5. ASSUME NEW m \in Metric, Send(r, m), m \notin Due(r),
             \A x : x \in Due(r)' <=> x \in Due(r) \/ x = m,
             NEW to \in {"success", "return"}, Goes(r, c, to),
             UNCHANGED <<version, good, sent, gathered>>
      PROVE  Accounted(r)'
  <2>1. Due(r)' = Due(r) \cup {m}
    BY <1>5
  <2>2. Resent(r)' = Resent(r)
    BY <1>5 DEF Resent
  <2>3. \A d \in Collector : task'[r][d] = "off" => sent'[r][d] = <<>>
    BY <1>0, <1>5 DEF Accounted, Goes, TypeOK
  <2> QED
    BY <1>0, <1>5, <2>1, <2>2, <2>3, SendAccounted
<1>6. CASE SendDuration(r, c)
  <2> DEFINE m == [kind |-> "duration", collector |-> c]
  <2>1. m \in Metric
    BY DEF Metric
  <2>2. /\ Send(r, m) /\ task[r][c] = "duration" /\ task'[r][c] = "success"
        /\ \A d \in Collector \ {c} : task'[r][d] = task[r][d]
        /\ UNCHANGED <<version, good, sent, gathered>> /\ Goes(r, c, "success")
    BY <1>0, <1>6 DEF SendDuration, Goes, TypeOK
  <2>3. \A x : x \in Due(r)' <=> x \in Due(r) \/ x = m
    BY <2>2, DueMember DEF Due
  <2>4. m \notin Due(r)
    BY <2>2, DueMember DEF Due
  <2> QED
    BY <1>5, <2>1, <2>2, <2>3, <2>4
<1>7. CASE SendSuccess(r, c)
  <2> DEFINE m == [kind |-> "success", collector |-> c,
                   value |-> IF good[r][c] THEN 1 ELSE 0]
  <2>1. m \in Metric
    BY DEF Metric
  <2>2. /\ Send(r, m) /\ task[r][c] = "success" /\ task'[r][c] = "return"
        /\ \A d \in Collector \ {c} : task'[r][d] = task[r][d]
        /\ UNCHANGED <<version, good, sent, gathered>> /\ Goes(r, c, "return")
    BY <1>0, <1>7 DEF SendSuccess, Goes, TypeOK
  <2>3. \A x : x \in Due(r)' <=> x \in Due(r) \/ x = m
    BY <2>2, DueMember DEF Due
  <2>4. m \notin Due(r)
    BY <2>2, DueMember DEF Due
  <2> QED
    BY <1>5, <2>1, <2>2, <2>3, <2>4
<1> QED
  BY <1>1, <1>3, <1>4, <1>6, <1>7 DEF Execute

LEMMA AnswerStep == TypedInv /\ AnswerInv /\ [Next]_vars => AnswerInv'
<1> SUFFICES ASSUME TypedInv, AnswerInv, [Next]_vars, NEW s \in Request
             PROVE  Accounted(s)' /\ Placed(s)'
  BY DEF AnswerInv
<1>1. CASE UNCHANGED vars
  BY <1>1, KeptAccounted DEF vars, Kept, AnswerInv
<1>2. CASE Next
  <2> PICK r \in Request :
        Ask(r) \/ Serve(r) \/ AskAgain(r) \/ \E c \in Collector : Execute(r, c)
    BY <1>2 DEF Next
  <2>1. CASE s # r
    BY <2>1, OthersKept, KeptAccounted DEF AnswerInv, TypedInv
  <2>2. CASE s = r
    BY <2>2, AskAnswer, VersionAnswer, CollectAnswer, ReceiveAnswer, AnswerAnswer,
       ExecuteAnswer, ExecutePlaced DEF Serve
  <2> QED
    BY <2>1, <2>2
<1> QED
  BY <1>1, <1>2

(* What Gather has accepted when the channel is closed and drained.  *)
LEMMA DrainedComplete ==
    ASSUME TypedInv, AnswerInv, NEW r \in Request, closed[r], channel[r] = <<>>
    PROVE  /\ body[r] = Expected(r)
           /\ errs[r] <=> \E c \in Collector :
                 Cardinality(Ids(sent[r][c])) < Len(sent[r][c])
           /\ Wanted(filters[r]) \subseteq Collector
<1>0. Accounted(r) /\ Placed(r)
  BY DEF AnswerInv
<1>2. Live(r) = {} /\ main[r] = "done" /\ version[r] = "done"
  BY DEF TypedInv, WaitingInv, WaitInv
<1>3. body[r] = DueOf(version[r], task[r], good[r], sent[r])
  BY <1>0, EmptyChannel DEF Accounted, Due
<1>4. \A c \in Collector :
         /\ task[r][c] = IF c \in Wanted(filters[r]) THEN "done" ELSE "off"
         /\ c \notin Wanted(filters[r]) => sent[r][c] = <<>>
  BY <1>0, <1>2 DEF Placed, Accounted, Live
<1>5. Wanted(filters[r]) \subseteq Collector
  BY <1>0, <1>2, WantedType DEF Placed
<1>6. body[r] = Expected(r)
  <2>1. \A c \in Collector : c \notin Wanted(filters[r]) => Ids(sent[r][c]) = {}
    BY <1>4 DEF Ids
  <2>2. ASSUME NEW x PROVE x \in DueOf(version[r], task[r], good[r], sent[r]) <=> x \in Expected(r)
    <3>1. x \in Expected(r) <=>
             \/ x = [kind |-> "version"]
             \/ \E c \in Wanted(filters[r]) :
                   \/ x = [kind |-> "duration", collector |-> c]
                   \/ x = [kind |-> "success", collector |-> c,
                           value |-> IF good[r][c] THEN 1 ELSE 0]
                   \/ \E id \in Ids(sent[r][c]) :
                         x = [kind |-> "sample", collector |-> c, id |-> id]
      BY DEF Expected
    <3> QED
      BY <1>2, <1>4, <1>5, <2>1, <3>1, DueMember
  <2> QED
    BY <1>3, <2>2
<1>7. errs[r] <=> Resent(r)
  BY <1>0, EmptyChannel DEF Accounted
<1>8. \A c \in Collector : Cardinality(Ids(sent[r][c])) < Len(sent[r][c])
                             <=> Repeats({}, sent[r][c])
  BY FewerIds DEF TypedInv, TypeOK
<1> QED
  BY <1>5, <1>6, <1>7, <1>8 DEF Resent

(***************************************************************************)
(* An answer holds the build information and for each collector asked for  *)
(* exactly its duration, its success and what its Update sent, for any     *)
(* number of collectors and metrics, any capacity of the channel and any   *)
(* order in which goroutines send and Gather receives (collector.go:120,   *)
(* promhttp HandlerFor).                                                   *)
(***************************************************************************)
THEOREM AnswersComplete == Spec => []CompleteAnswer
<1>1. TypedInv /\ AnswerInv => CompleteAnswer
  <2> SUFFICES ASSUME TypedInv, AnswerInv, NEW r \in Request, code[r] = 200
               PROVE  closed[r] /\ channel[r] = <<>>
    BY DrainedComplete DEF CompleteAnswer
  <2>1. Placed(r)
    BY DEF AnswerInv
  <2> QED
    BY <2>1 DEF Placed
<1> QED
  BY <1>1, TypedInit, TypedStep, AnswerInit, AnswerStep, PTL DEF Spec

(***************************************************************************)
(* However often metrics are repeated, Gather has accepted something, so   *)
(* the answer is 200 (promhttp.ContinueOnError, govc_exporter.go:107).     *)
(***************************************************************************)
THEOREM NeverServerError == Spec => []NoServerError
<1>1. TypedInv /\ AnswerInv => NoServerError
  <2> SUFFICES ASSUME AnswerInv, NEW r \in Request PROVE code[r] # 500
    BY DEF NoServerError
  <2>1. Placed(r)
    BY DEF AnswerInv
  <2> QED
    BY <2>1 DEF Placed
<1> QED
  BY <1>1, TypedInit, TypedStep, AnswerInit, AnswerStep, PTL DEF Spec

-----------------------------------------------------------------------------
(* The success values an answer reports.  *)
Values(r) == {[collector |-> m.collector, value |-> m.value] :
                 m \in {n \in body[r] : n.kind = "success"}}

(* How asked and answer change when r steps.  *)
LEMMA MappedStep ==
    ASSUME TypedInv, NEW r \in Request, \A s \in Request \ {r} : Kept(s)
    PROVE  /\ asked'[r] = (IF phase'[r] = "idle" THEN Nothing ELSE filters'[r])
           /\ answer'[r] = (IF phase'[r] # "answered" THEN Nothing
                            ELSE [code |-> code'[r], report |-> Values(r)'])
           /\ asked' = [asked EXCEPT ![r] = asked'[r]]
           /\ answer' = [answer EXCEPT ![r] = answer'[r]]
<1>1. \A s \in Request \ {r} : asked'[s] = asked[s] /\ answer'[s] = answer[s]
  BY DEF Kept, asked, answer
<1>2. /\ asked'[r] = (IF phase'[r] = "idle" THEN Nothing ELSE filters'[r])
      /\ answer'[r] = (IF phase'[r] # "answered" THEN Nothing
                       ELSE [code |-> code'[r], report |-> Values(r)'])
  BY DEF asked, answer, Values
<1>3. DOMAIN asked = Request /\ DOMAIN asked' = Request
      /\ asked = [s \in Request |-> asked[s]] /\ asked' = [s \in Request |-> asked'[s]]
  BY DEF asked
<1>4. DOMAIN answer = Request /\ DOMAIN answer' = Request
      /\ answer = [s \in Request |-> answer[s]] /\ answer' = [s \in Request |-> answer'[s]]
  BY DEF answer
<1> QED
  BY <1>1, <1>2, <1>3, <1>4

(* Before Gather starts nothing is accepted.  *)
LEMMA FreshBody ==
    ASSUME TypedInv, AnswerInv, NEW r \in Request, phase[r] \in {"idle", "admit"}
    PROVE  body[r] = {}
<1>1. Accounted(r) /\ Placed(r) /\ main[r] = "todo"
  BY DEF AnswerInv, TypedInv, WaitingInv, WaitInv
<1>2. version[r] = "todo" /\ \A c \in Collector : task[r][c] = "off" /\ Ids(sent[r][c]) = {}
  BY <1>1 DEF Placed, Accounted, Ids
<1>3. Due(r) = {}
  BY <1>2 DEF Due, DueOf
<1> QED
  BY <1>1, <1>3 DEF Accounted, Posted

(* Those the token count stands for are pending requests of the service.  *)
LEMMA GatheringPending ==
    ASSUME TypedInv, NEW r \in Request, phase[r] = "admit"
    PROVE  inFlight <= Cardinality(Service!Others(r)) /\ Cardinality(Service!Others(r)) \in Nat
<1>1. Gathering \subseteq Service!Others(r)
  BY NothingAssumption DEF Gathering, Unfiltered, Service!Others, Service!Pending, asked, answer
<1>2. IsFiniteSet(Service!Others(r))
  BY HandlerAssumption, FS_Subset DEF Service!Others
<1> QED
  BY <1>1, <1>2, FS_Subset, FS_CardinalityType DEF TypedInv, SlotInv, TokensExact

LEMMA ServiceInit == Init => Service!Init
<1> SUFFICES ASSUME Init PROVE Service!Init
  OBVIOUS
<1>1. \A r \in Request : phase[r] = "idle"
  BY DEF Init
<1> QED
  BY <1>1 DEF Service!Init, asked, answer

LEMMA ServiceStep == TypedInv /\ AnswerInv /\ [Next]_vars => [Service!Next]_(Service!vars)
<1> SUFFICES ASSUME TypedInv, AnswerInv, [Next]_vars
             PROVE  Service!Next \/ (asked' = asked /\ answer' = answer)
  BY DEF Service!vars
<1>1. CASE UNCHANGED vars
  BY <1>1 DEF vars, asked, answer
<1>2. CASE Next
  <2> PICK r \in Request :
        Ask(r) \/ Serve(r) \/ AskAgain(r) \/ \E c \in Collector : Execute(r, c)
    BY <1>2 DEF Next
  <2>0. /\ asked'[r] = (IF phase'[r] = "idle" THEN Nothing ELSE filters'[r])
        /\ answer'[r] = (IF phase'[r] # "answered" THEN Nothing
                         ELSE [code |-> code'[r], report |-> Values(r)'])
        /\ asked' = [asked EXCEPT ![r] = asked'[r]]
        /\ answer' = [answer EXCEPT ![r] = answer'[r]]
        /\ asked[r] = (IF phase[r] = "idle" THEN Nothing ELSE filters[r])
        /\ answer[r] = (IF phase[r] # "answered" THEN Nothing
                        ELSE [code |-> code[r], report |-> Values(r)])
        /\ TypeOK
        /\ filters[r] # Nothing
        /\ DOMAIN asked = Request /\ DOMAIN answer = Request
        /\ asked = [s \in Request |-> asked[s]] /\ answer = [s \in Request |-> answer[s]]
    <3>1. TypeOK
      BY DEF TypedInv
    <3>2. filters[r] # Nothing
      BY <3>1, NothingAssumption DEF TypeOK
    <3>3. \A s \in Request \ {r} : Kept(s)
      BY <3>1, OthersKept
    <3> QED
      BY <3>1, <3>2, <3>3, MappedStep DEF asked, answer, Values
  <2>1. CASE ServeUnfiltered(r)
    <3>1. phase[r] = "idle" /\ phase'[r] = "admit" /\ filters'[r] = {}
      BY <2>0, <2>1 DEF ServeUnfiltered, TypeOK
    <3>2. asked[r] = Nothing /\ asked'[r] = {} /\ answer'[r] = answer[r]
      BY <2>0, <3>1
    <3>3. Service!Ask(r, {})
      BY <2>0, <3>2 DEF Service!Ask
    <3> QED
      BY <3>3 DEF Service!Next
  <2>2. ASSUME NEW f \in SUBSET Filter, ServeFiltered(r, f) PROVE Service!Next
    <3>1. phase[r] = "idle" /\ phase'[r] = "admit" /\ filters'[r] = f /\ f \subseteq Enabled
      BY <2>0, <2>2 DEF ServeFiltered, TypeOK
    <3>2. asked[r] = Nothing /\ asked'[r] = f /\ answer'[r] = answer[r]
      BY <2>0, <3>1
    <3>3. Service!Ask(r, f)
      BY <2>0, <3>1, <3>2 DEF Service!Ask
    <3> QED
      BY <3>3 DEF Service!Next
  <2>3. ASSUME NEW f \in SUBSET Filter, ServeBadFilter(r, f) PROVE Service!Next
    <3>1. /\ phase[r] = "idle" /\ phase'[r] = "answered" /\ filters'[r] = f
          /\ ~ f \subseteq Enabled /\ code'[r] = 400 /\ body' = body
      BY <2>0, <2>3 DEF ServeBadFilter, TypeOK
    <3>2. Values(r)' = {}
      BY <3>1, FreshBody DEF Values
    <3>3. asked[r] = Nothing /\ asked'[r] = f /\ answer'[r] = [code |-> 400, report |-> {}]
      BY <2>0, <3>1, <3>2
    <3>4. Service!AskWrong(r, f)
      BY <2>0, <3>1, <3>3 DEF Service!AskWrong
    <3> QED
      BY <3>4 DEF Service!Next
  <2>4. CASE Admit(r)
    <3>1. phase[r] = "admit" /\ phase'[r] = "gather" /\ filters' = filters
      BY <2>0, <2>4 DEF Admit, TypeOK
    <3> QED
      BY <2>0, <3>1
  <2>5. CASE Reject(r)
    <3>1. /\ phase[r] = "admit" /\ phase'[r] = "answered" /\ filters' = filters
          /\ filters[r] = {} /\ code'[r] = 503 /\ body' = body
          /\ MaxRequests > 0 /\ inFlight >= MaxRequests
      BY <2>0, <2>5 DEF Reject, TypeOK, Unfiltered, Full
    <3>2. Values(r)' = {}
      BY <3>1, FreshBody DEF Values
    <3>3. /\ asked[r] = {} /\ answer[r] = Nothing /\ asked'[r] = asked[r]
          /\ answer'[r] = [code |-> 503, report |-> {}]
      BY <2>0, <3>1, <3>2
    <3>4. Cardinality(Service!Others(r)) >= MaxRequests
      BY <2>0, <3>1, GatheringPending, HandlerAssumption DEF TypeOK
    <3>5. asked' = asked
      BY <2>0, <3>3
    <3>6. answer' = [answer EXCEPT ![r] = [code |-> 503, report |-> {}]]
      BY <2>0, <3>3
    <3>7. Service!Pending(r)
      BY <2>0, <3>1, <3>3 DEF Service!Pending
    <3>8. Service!Busy(r)
      BY <3>1, <3>3, <3>4, <3>5, <3>6, <3>7
      DEF Service!Busy, Cardinality, Service!Cardinality
    <3> QED
      BY <3>8 DEF Service!Next
  <2>6. CASE Answer(r)
    <3>1. /\ phase[r] = "gather" /\ phase'[r] = "answered" /\ closed[r] /\ channel[r] = <<>>
          /\ UNCHANGED <<filters, collecting, body, errs>>
      BY <2>0, <2>6 DEF Answer, TypeOK
    <3>2. code'[r] = 200
      BY <2>0, <2>6, <3>1, AnsweredBody DEF Answer, TypeOK
    <3> DEFINE wanted == Wanted(filters[r])
               value == [c \in wanted |-> IF good[r][c] THEN 1 ELSE 0]
    <3>3. Values(r)' = {[collector |-> c, value |-> value[c]] : c \in wanted}
      <4>1. body'[r] = Expected(r)
        BY <3>1, DrainedComplete
      <4>2. {m \in Expected(r) : m.kind = "success"} =
               {[kind |-> "success", collector |-> c, value |-> value[c]] : c \in wanted}
        BY DEF Expected
      <4>3. Values(r)' = {[collector |-> m.collector, value |-> m.value] :
               m \in {[kind |-> "success", collector |-> c, value |-> value[c]] : c \in wanted}}
        BY <4>1, <4>2 DEF Values
      <4> HIDE DEF wanted, value
      <4> QED
        <5> DEFINE success(c) == [kind |-> "success", collector |-> c, value |-> value[c]]
                   entry(m) == [collector |-> m.collector, value |-> m.value]
        <5>1. \A c : entry(success(c)) = [collector |-> c, value |-> value[c]]
          OBVIOUS
        <5>2. Values(r)' = {entry(m) : m \in {success(c) : c \in wanted}}
          BY <4>3
        <5> HIDE DEF success, entry
        <5>3. Values(r)' = {entry(success(c)) : c \in wanted}
          BY <5>2
        <5> QED
          BY <5>1, <5>3
    <3>4. value \in [wanted -> {0, 1}]
      OBVIOUS
    <3>5. Values(r)' \in Service!Reports(wanted)
      BY <3>3, <3>4 DEF Service!Reports
    <3>6. /\ asked[r] = filters[r] /\ answer[r] = Nothing /\ asked'[r] = asked[r]
          /\ answer'[r] = [code |-> 200, report |-> Values(r)']
      BY <2>0, <3>1, <3>2
    <3>7. wanted = IF asked[r] = {} THEN Enabled ELSE asked[r]
      BY <3>6 DEF Wanted
    <3>8. Service!Report(r)
      BY <2>0, <3>5, <3>6, <3>7 DEF Service!Report, Service!Pending
    <3> QED
      BY <3>8 DEF Service!Next
  <2>7. CASE AskAgain(r)
    <3>1. phase[r] = "answered" /\ phase'[r] = "idle"
      BY <2>0, <2>7 DEF AskAgain, TypeOK
    <3>2. answer[r] # Nothing
      <4>1. Placed(r) /\ Accounted(r)
        BY DEF AnswerInv
      <4>2. code[r] \in {200, 400, 503}
        BY <3>1, <4>1 DEF Placed
      <4>3. Values(r) \in SUBSET [collector : Collector, value : {0, 1}]
        <5>1. \A m \in Metric : m.kind = "success" =>
                  m.collector \in Collector /\ m.value \in {0, 1}
          BY DEF Metric
        <5>2. body[r] \subseteq Metric
          BY <2>0 DEF TypeOK
        <5> QED
          BY <5>1, <5>2 DEF Values
      <4> QED
        BY <2>0, <3>1, <4>2, <4>3, NothingAssumption
    <3>3. asked'[r] = Nothing /\ answer'[r] = Nothing
      BY <2>0, <3>1
    <3>4. Service!Forget(r)
      BY <2>0, <3>2, <3>3 DEF Service!Forget
    <3> QED
      BY <3>4 DEF Service!Next
  <2>8. ASSUME UNCHANGED <<phase, filters, code>>, phase[r] = "gather"
        PROVE  asked' = asked /\ answer' = answer
    <3>1. asked'[r] = asked[r] /\ answer'[r] = answer[r]
      BY <2>0, <2>8
    <3> QED
      BY <2>0, <3>1
  <2>9. ASSUME UNCHANGED <<phase, filters, body, code>> PROVE asked' = asked /\ answer' = answer
    BY <2>9 DEF asked, answer
  <2>10. CASE Receive(r)
    <3>1. phase[r] = "gather"
      BY <2>10 DEF Receive, AnswerInv, Placed
    <3> QED
      BY <2>8, <2>10, <3>1 DEF Receive
  <2>11. CASE CollectVersion(r) \/ Collect(r) \/ CollectReturns(r) \/ CloseChannel(r)
    BY <2>9, <2>11 DEF CollectVersion, Collect, CollectReturns, CloseChannel
  <2>12. ASSUME NEW c \in Collector, Execute(r, c) PROVE asked' = asked /\ answer' = answer
    BY <2>9, <2>12 DEF Execute, UpdateSends, UpdateReturns, SendDuration, SendSuccess, Done
  <2> QED
    BY <2>1, <2>2, <2>3, <2>4, <2>5, <2>6, <2>7, <2>10, <2>11, <2>12 DEF Ask, Serve
<1> QED
  BY <1>1, <1>2

(***************************************************************************)
(* The handler keeps the promise of ScrapeService as far as safety goes:   *)
(* 400 just for a wrong filter, 503 just to an unfiltered request when     *)
(* MaxRequests others are being answered, else 200 with one success value  *)
(* for each collector asked for.  That every request is answered, the      *)
(* rest of ServiceSpec, is checked by TLC.                                 *)
(***************************************************************************)
THEOREM AnswersAsPromised == Spec => Service!Safety
<1>1. Spec => [](TypedInv /\ AnswerInv)
  BY TypedInit, TypedStep, AnswerInit, AnswerStep, PTL DEF Spec
<1> QED
  BY <1>1, ServiceInit, ServiceStep, PTL DEF Spec, Service!Safety
=============================================================================

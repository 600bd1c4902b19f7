--------------------------- MODULE ScrapeHandler ----------------------------
(***************************************************************************)
(* One GET of the metrics path, from handler.ServeHTTP (govc_exporter.go)  *)
(* to the answer: the choice of handler by the collect[] filters, the      *)
(* handler promhttp.HandlerFor returns with its in-flight semaphore, the   *)
(* registry's Gather with its metric channel, MainCollector.Collect        *)
(* (collector/collector.go) with a goroutine for each collector and a      *)
(* WaitGroup, and execute.                                                 *)
(*                                                                         *)
(* A Request is a connection that asks again and again.  An Update is seen *)
(* from outside: it sends some samples and returns, or fails before it     *)
(* sent any (VcCollector is the inside).  Many requests run at once; they  *)
(* share the unfiltered handler, its semaphore and its collector objects,  *)
(* while a filtered request brings a handler, a semaphore and objects of   *)
(* its own.                                                                *)
(***************************************************************************)
EXTENDS Naturals, Sequences, FiniteSets

CONSTANTS
    Request,      \* concurrent requests (server goroutines)
    Collector,    \* names in collectorState
    Enabled,      \* those whose flag is on when the server starts
    Filter,       \* what a collect[] parameter may say, unknown names too
    Sample,       \* identities (name and labels) of an Update's metrics
    MaxRequests,  \* --web.max-requests, 0 for no limit
    Capacity,     \* capMetricChan, the buffer of a Gather's channel
    MaxSamples,   \* bound: how many metrics one Update sends
    Nothing       \* for ServiceSpec: no request, or no answer to it yet

ASSUME HandlerAssumption ==
    /\ IsFiniteSet(Request) /\ IsFiniteSet(Collector)
    /\ Enabled \subseteq Collector
    /\ Collector \subseteq Filter
    /\ MaxRequests \in Nat
    /\ Capacity \in Nat \ {0}
    /\ MaxSamples \in Nat

ASSUME NothingAssumption ==
    /\ \A f \in SUBSET Filter : f # Nothing
    /\ \A status \in {200, 400, 503},
          values \in SUBSET [collector : Collector, value : {0, 1}] :
          [code |-> status, report |-> values] # Nothing

VARIABLES
    phase,        \* phase[r]: "idle", "admit", "gather" or "answered"
    filters,      \* filters[r]: the collect[] values of r's query, as a set
    inFlight,     \* tokens in the inFlightSem of the unfiltered handler
    version,      \* version[r]: the build-info collector, "todo" or "done"
    main,         \* main[r]: Collect, "todo", "waiting" (in wg.Wait) or "done"
    wg,           \* wg[r]: the counter of Collect's WaitGroup
    task,         \* task[r][c]: where execute of collector c is
    good,         \* good[r][c]: whether c's Update returned nil
    sent,         \* history: sent[r][c], the metrics c's Update sent for r
    channel,      \* channel[r]: the metric channel of r's Gather
    closed,       \* closed[r]: whether it is closed
    body,         \* body[r]: the metrics Gather has accepted
    errs,         \* errs[r]: whether Gather has refused one
    code          \* code[r]: the status of the answer, 0 before it

collecting == <<version, main, wg, task, good, sent, channel, closed>>
gathered   == <<body, errs, code>>
vars       == <<phase, filters, inFlight, collecting, gathered>>

Unfiltered(r) == filters[r] = {}

(* Mutant: no filter selects no collector.  *)
WantedNoDefault(f) == f

(* The Collectors map of the MainCollector that serves r.  *)
Wanted(f) == IF f = {} THEN Enabled ELSE f

(* The metrics: one from version.NewCollector, an Update's samples, and    *)
(* the two that execute adds.                                              *)
Metric == [kind : {"version"}] \cup
          [kind : {"sample"}, collector : Collector, id : Sample] \cup
          [kind : {"duration"}, collector : Collector] \cup
          [kind : {"success"}, collector : Collector, value : {0, 1}]

Off == [c \in Collector |-> "off"]

-----------------------------------------------------------------------------
Init ==
    /\ phase    = [r \in Request |-> "idle"]
    /\ filters  = [r \in Request |-> {}]
    /\ inFlight = 0
    /\ version  = [r \in Request |-> "todo"]
    /\ main     = [r \in Request |-> "todo"]
    /\ wg       = [r \in Request |-> 0]
    /\ task     = [r \in Request |-> Off]
    /\ good     = [r \in Request |-> [c \in Collector |-> FALSE]]
    /\ sent     = [r \in Request |-> [c \in Collector |-> <<>>]]
    /\ channel  = [r \in Request |-> <<>>]
    /\ closed   = [r \in Request |-> FALSE]
    /\ body     = [r \in Request |-> {}]
    /\ errs     = [r \in Request |-> FALSE]
    /\ code     = [r \in Request |-> 0]

-----------------------------------------------------------------------------
(* ServeHTTP without filters: the prepared handler.  *)
ServeUnfiltered(r) ==
    /\ phase[r] = "idle"
    /\ filters' = [filters EXCEPT ![r] = {}]
    /\ phase'   = [phase EXCEPT ![r] = "admit"]
    /\ UNCHANGED <<inFlight, collecting, gathered>>

(* With filters that all name enabled collectors, innerHandler makes a new *)
(* handler for this request: new collectors, registry and semaphore.       *)
ServeFiltered(r, f) ==
    /\ phase[r] = "idle"
    /\ f # {} /\ f \subseteq Enabled
    /\ filters' = [filters EXCEPT ![r] = f]
    /\ phase'   = [phase EXCEPT ![r] = "admit"]
    /\ UNCHANGED <<inFlight, collecting, gathered>>

(* With one that does not, NewMainCollector fails: 400.  *)
ServeBadFilter(r, f) ==
    /\ phase[r] = "idle"
    /\ ~ f \subseteq Enabled
    /\ filters' = [filters EXCEPT ![r] = f]
    /\ code'    = [code EXCEPT ![r] = 400]
    /\ phase'   = [phase EXCEPT ![r] = "answered"]
    /\ UNCHANGED <<inFlight, collecting, body, errs>>

(* Mutant: the limit is off by one.  *)
FullOffByOne == MaxRequests > 0 /\ inFlight > MaxRequests

(***************************************************************************)
(* The handler takes a token of its semaphore if there is one and it has   *)
(* one left.  A filtered request's semaphore is as new as its handler and  *)
(* has all of its tokens.                                                  *)
(***************************************************************************)
Full == MaxRequests > 0 /\ inFlight >= MaxRequests

Admit(r) ==
    /\ phase[r] = "admit"
    /\ Unfiltered(r) => ~ Full
    /\ inFlight' = IF Unfiltered(r) THEN inFlight + 1 ELSE inFlight
    /\ phase'    = [phase EXCEPT ![r] = "gather"]
    /\ UNCHANGED <<filters, collecting, gathered>>

(* Mutant: the token is taken before it turns out that there is none.  *)
RejectTakesToken(r) ==
    /\ phase[r] = "admit"
    /\ Unfiltered(r) /\ Full
    /\ code'     = [code EXCEPT ![r] = 503]
    /\ phase'    = [phase EXCEPT ![r] = "answered"]
    /\ inFlight' = inFlight + 1
    /\ UNCHANGED <<filters, collecting, body, errs>>

Reject(r) ==
    /\ phase[r] = "admit"
    /\ Unfiltered(r) /\ Full
    /\ code'  = [code EXCEPT ![r] = 503]
    /\ phase' = [phase EXCEPT ![r] = "answered"]
    /\ UNCHANGED <<filters, inFlight, collecting, body, errs>>

-----------------------------------------------------------------------------
(* ch <- m: a free place in the buffer, and a panic if ch is closed (see   *)
(* NoSendOnClosed).                                                        *)
Send(r, m) ==
    /\ Len(channel[r]) < Capacity
    /\ channel' = [channel EXCEPT ![r] = Append(@, m)]

(* A worker of Gather collects the build-info collector.  *)
CollectVersion(r) ==
    /\ phase[r] = "gather" /\ version[r] = "todo"
    /\ Send(r, [kind |-> "version"])
    /\ version' = [version EXCEPT ![r] = "done"]
    /\ UNCHANGED <<phase, filters, inFlight, main, wg, task, good, sent, closed, gathered>>

(* A worker calls Collect: wg.Add, then a goroutine for each collector.  *)
Collect(r) ==
    /\ phase[r] = "gather" /\ main[r] = "todo"
    /\ wg'   = [wg EXCEPT ![r] = Cardinality(Wanted(filters[r]))]
    /\ task' = [task EXCEPT ![r] =
                  [c \in Collector |->
                      IF c \in Wanted(filters[r]) THEN "update" ELSE "off"]]
    /\ main' = [main EXCEPT ![r] = "waiting"]
    /\ UNCHANGED <<phase, filters, inFlight, version, good, sent, channel, closed, gathered>>

Goes(r, c, to) == task' = [task EXCEPT ![r][c] = to]

(* c.Update(ch) sends a metric.  *)
UpdateSends(r, c, id) ==
    /\ task[r][c] = "update"
    /\ Len(sent[r][c]) < MaxSamples
    /\ Send(r, [kind |-> "sample", collector |-> c, id |-> id])
    /\ sent' = [sent EXCEPT ![r][c] = Append(@, id)]
    /\ UNCHANGED <<phase, filters, inFlight, version, main, wg, task, good, closed, gathered>>

(* It returns; every error it returns comes before its first metric.  *)
UpdateReturns(r, c, ok) ==
    /\ task[r][c] = "update"
    /\ ok \/ sent[r][c] = <<>>
    /\ good' = [good EXCEPT ![r][c] = ok]
    /\ Goes(r, c, "duration")
    /\ UNCHANGED <<phase, filters, inFlight, version, main, wg, sent, channel, closed, gathered>>

(* execute sends the duration, then the success.  *)
SendDuration(r, c) ==
    /\ task[r][c] = "duration"
    /\ Send(r, [kind |-> "duration", collector |-> c])
    /\ Goes(r, c, "success")
    /\ UNCHANGED <<phase, filters, inFlight, version, main, wg, good, sent, closed, gathered>>

SendSuccess(r, c) ==
    /\ task[r][c] = "success"
    /\ Send(r, [kind |-> "success", collector |-> c,
                value |-> IF good[r][c] THEN 1 ELSE 0])
    /\ Goes(r, c, "return")
    /\ UNCHANGED <<phase, filters, inFlight, version, main, wg, good, sent, closed, gathered>>

(* execute has returned: wg.Done.  *)
Done(r, c) ==
    /\ task[r][c] = "return"
    /\ wg' = [wg EXCEPT ![r] = @ - 1]
    /\ Goes(r, c, "done")
    /\ UNCHANGED <<phase, filters, inFlight, version, main, good, sent, channel, closed, gathered>>

(* Mutant: Collect does not wait for its goroutines.  *)
CollectReturnsAtOnce(r) ==
    /\ main[r] = "waiting"
    /\ main' = [main EXCEPT ![r] = "done"]
    /\ UNCHANGED <<phase, filters, inFlight, version, wg, task, good, sent, channel, closed, gathered>>

(* wg.Wait, and with it Collect, returns.  *)
CollectReturns(r) ==
    /\ main[r] = "waiting" /\ wg[r] = 0
    /\ main' = [main EXCEPT ![r] = "done"]
    /\ UNCHANGED <<phase, filters, inFlight, version, wg, task, good, sent, channel, closed, gathered>>

(* Gather closes the channel when both of the registry's collectors have   *)
(* returned.                                                               *)
CloseChannel(r) ==
    /\ version[r] = "done" /\ main[r] = "done" /\ ~ closed[r]
    /\ closed' = [closed EXCEPT ![r] = TRUE]
    /\ UNCHANGED <<phase, filters, inFlight, version, main, wg, task, good, sent, channel, gathered>>

-----------------------------------------------------------------------------
(* Metrics of one name with the same label values are the same metric.  *)
Same(m, n) ==
    /\ m.kind = n.kind
    /\ m.kind # "version" => m.collector = n.collector
    /\ m.kind = "sample" => m.id = n.id

(* Mutant: a metric seen before is dropped without an error.  *)
ReceiveSilently(r) ==
    /\ channel[r] # <<>>
    /\ body' = [body EXCEPT ![r] = @ \cup {Head(channel[r])}]
    /\ channel' = [channel EXCEPT ![r] = Tail(@)]
    /\ UNCHANGED <<phase, filters, inFlight, version, main, wg, task, good, sent, closed, errs, code>>

(* processMetric: a metric seen before is an error and is dropped.  *)
Receive(r) ==
    /\ channel[r] # <<>>
    /\ LET m == Head(channel[r])
       IN  \/ /\ \A n \in body[r] : ~ Same(m, n)
              /\ body' = [body EXCEPT ![r] = @ \cup {m}]
              /\ UNCHANGED errs
           \/ /\ \E n \in body[r] : Same(m, n)
              /\ errs' = [errs EXCEPT ![r] = TRUE]
              /\ UNCHANGED body
    /\ channel' = [channel EXCEPT ![r] = Tail(@)]
    /\ UNCHANGED <<phase, filters, inFlight, version, main, wg, task, good, sent, closed, code>>

(* Mutant: a closed channel is not drained.  *)
AnswerUndrained(r) ==
    /\ phase[r] = "gather" /\ closed[r]
    /\ code'     = [code EXCEPT ![r] = 200]
    /\ phase'    = [phase EXCEPT ![r] = "answered"]
    /\ inFlight' = IF Unfiltered(r) THEN inFlight - 1 ELSE inFlight
    /\ UNCHANGED <<filters, collecting, body, errs>>

(* Mutant: any error of Gather fails the scrape (HTTPErrorOnError).  *)
AnswerStrict(r) ==
    /\ phase[r] = "gather" /\ closed[r] /\ channel[r] = <<>>
    /\ code'     = [code EXCEPT ![r] = IF errs[r] THEN 500 ELSE 200]
    /\ phase'    = [phase EXCEPT ![r] = "answered"]
    /\ inFlight' = IF Unfiltered(r) THEN inFlight - 1 ELSE inFlight
    /\ UNCHANGED <<filters, collecting, body, errs>>

(* Mutant: a token is returned that only an unfiltered request took.  *)
AnswerReturnsToken(r) ==
    /\ phase[r] = "gather" /\ closed[r] /\ channel[r] = <<>>
    /\ code'     = [code EXCEPT ![r] = 200]
    /\ phase'    = [phase EXCEPT ![r] = "answered"]
    /\ inFlight' = inFlight - 1
    /\ UNCHANGED <<filters, collecting, body, errs>>

(* The channel is closed and empty: HandlerFor answers what was accepted,  *)
(* 500 only if that is nothing, and its token goes back.                   *)
Answer(r) ==
    /\ phase[r] = "gather" /\ closed[r] /\ channel[r] = <<>>
    /\ code'     = [code EXCEPT ![r] = IF errs[r] /\ body[r] = {} THEN 500 ELSE 200]
    /\ phase'    = [phase EXCEPT ![r] = "answered"]
    /\ inFlight' = IF Unfiltered(r) THEN inFlight - 1 ELSE inFlight
    /\ UNCHANGED <<filters, collecting, body, errs>>

(* The connection may ask again; the finished request's locals are gone.  *)
AskAgain(r) ==
    /\ phase[r] = "answered"
    /\ phase'   = [phase EXCEPT ![r] = "idle"]
    /\ filters' = [filters EXCEPT ![r] = {}]
    /\ version' = [version EXCEPT ![r] = "todo"]
    /\ main'    = [main EXCEPT ![r] = "todo"]
    /\ task'    = [task EXCEPT ![r] = Off]
    /\ good'    = [good EXCEPT ![r] = [c \in Collector |-> FALSE]]
    /\ sent'    = [sent EXCEPT ![r] = [c \in Collector |-> <<>>]]
    /\ closed'  = [closed EXCEPT ![r] = FALSE]
    /\ body'    = [body EXCEPT ![r] = {}]
    /\ errs'    = [errs EXCEPT ![r] = FALSE]
    /\ code'    = [code EXCEPT ![r] = 0]
    /\ wg'      = [wg EXCEPT ![r] = 0]
    /\ channel' = [channel EXCEPT ![r] = <<>>]
    /\ UNCHANGED inFlight

-----------------------------------------------------------------------------
Ask(r) ==
    \/ ServeUnfiltered(r)
    \/ \E f \in SUBSET Filter : ServeFiltered(r, f) \/ ServeBadFilter(r, f)

Execute(r, c) ==
    \/ \E id \in Sample : UpdateSends(r, c, id)
    \/ \E ok \in BOOLEAN : UpdateReturns(r, c, ok)
    \/ SendDuration(r, c) \/ SendSuccess(r, c) \/ Done(r, c)

Serve(r) ==
    \/ Admit(r) \/ Reject(r)
    \/ CollectVersion(r) \/ Collect(r) \/ CollectReturns(r) \/ CloseChannel(r)
    \/ Receive(r) \/ Answer(r)

Next ==
    \E r \in Request :
        Ask(r) \/ Serve(r) \/ AskAgain(r) \/ \E c \in Collector : Execute(r, c)

Spec == Init /\ [][Next]_vars

(* Goroutines that can run do.  UpdateReturns: every Update returns (see   *)
(* UpdateEnds of VcCollector); MaxSamples bounds how much it sends before. *)
FairSpec ==
    /\ Spec
    /\ \A r \in Request :
        /\ WF_vars(Admit(r) \/ Reject(r))
        /\ WF_vars(CollectVersion(r)) /\ WF_vars(Collect(r))
        /\ WF_vars(CollectReturns(r)) /\ WF_vars(CloseChannel(r))
        /\ WF_vars(Receive(r)) /\ WF_vars(Answer(r))
        /\ \A c \in Collector : WF_vars(Execute(r, c))

-----------------------------------------------------------------------------
TypeOK ==
    /\ phase \in [Request -> {"idle", "admit", "gather", "answered"}]
    /\ filters \in [Request -> SUBSET Filter]
    /\ inFlight \in Nat
    /\ version \in [Request -> {"todo", "done"}]
    /\ main \in [Request -> {"todo", "waiting", "done"}]
    /\ wg \in [Request -> Nat]
    /\ task \in [Request -> [Collector ->
            {"off", "update", "duration", "success", "return", "done"}]]
    /\ good \in [Request -> [Collector -> BOOLEAN]]
    /\ sent \in [Request -> [Collector -> Seq(Sample)]]
    /\ channel \in [Request -> Seq(Metric)]
    /\ closed \in [Request -> BOOLEAN]
    /\ body \in [Request -> SUBSET Metric]
    /\ errs \in [Request -> BOOLEAN]
    /\ code \in [Request -> {0, 200, 400, 500, 503}]

(***************************************************************************)
(* No goroutine is left that could send on a channel Gather has closed,    *)
(* which would panic: Collect does not return before the last execute has, *)
(* whatever order the collectors finish in.                                *)
(***************************************************************************)
NoSendOnClosed ==
    \A r \in Request : closed[r] =>
        version[r] = "done" /\ \A c \in Collector : task[r][c] \in {"off", "done"}

(***************************************************************************)
(* The semaphore of the unfiltered handler counts exactly the requests it  *)
(* is gathering for, so its tokens are neither lost nor doubled whatever   *)
(* mixture of answers is given, and it is never overdrawn.                 *)
(***************************************************************************)
Gathering == {r \in Request : phase[r] = "gather" /\ Unfiltered(r)}

TokensExact ==
    /\ inFlight = Cardinality(Gathering)
    /\ MaxRequests > 0 => inFlight <= MaxRequests

(***************************************************************************)
(* With --web.max-requests=1 the Updates of one collector object never     *)
(* overlap: only unfiltered requests share objects.  This is what Serial   *)
(* stands for in VcCollector.                                              *)
(***************************************************************************)
Uses(r, c) == Unfiltered(r) /\ task[r][c] \notin {"off", "done"}

SerialWhenOne ==
    MaxRequests = 1 =>
        \A r, s \in Request, c \in Collector : Uses(r, c) /\ Uses(s, c) => r = s

(***************************************************************************)
(* An answer is complete: it has the build info and, for each collector    *)
(* asked for and no other, one duration, its success, and every metric its *)
(* Update sent, once; Gather reports an error just if one was sent twice.  *)
(***************************************************************************)
Ids(s) == {s[k] : k \in 1 .. Len(s)}

Expected(r) ==
    LET wanted == Wanted(filters[r])
    IN  {[kind |-> "version"]}
        \cup {[kind |-> "duration", collector |-> c] : c \in wanted}
        \cup {[kind |-> "success", collector |-> c,
               value |-> IF good[r][c] THEN 1 ELSE 0] : c \in wanted}
        \cup UNION {{[kind |-> "sample", collector |-> c, id |-> id] :
                        id \in Ids(sent[r][c])} : c \in wanted}

CompleteAnswer ==
    \A r \in Request : code[r] = 200 =>
        /\ body[r] = Expected(r)
        /\ errs[r] <=> \E c \in Collector :
                          Cardinality(Ids(sent[r][c])) < Len(sent[r][c])

(***************************************************************************)
(* Duplicated metrics do not turn a scrape into an error: "want /metrics   *)
(* status code 200", TestHandlingOfDuplicatedMetrics, govc_exporter_test.  *)
(***************************************************************************)
NoServerError == \A r \in Request : code[r] # 500

(***************************************************************************)
(* "Maximum number of parallel scrape requests" (govc_exporter.go:155).    *)
(***************************************************************************)
ParallelScrapes ==
    MaxRequests > 0 =>
        Cardinality({r \in Request : phase[r] = "gather"}) <= MaxRequests

(***************************************************************************)
(* The handler implements ScrapeService, its promise to answer included.   *)
(***************************************************************************)
asked == [r \in Request |-> IF phase[r] = "idle" THEN Nothing ELSE filters[r]]

answer == [r \in Request |->
    IF phase[r] # "answered" THEN Nothing
    ELSE [code   |-> code[r],
          report |-> {[collector |-> m.collector, value |-> m.value] :
                        m \in {n \in body[r] : n.kind = "success"}}]]

Service == INSTANCE ScrapeService WITH asked <- asked, answer <- answer

ServiceSpec == Service!Spec
=============================================================================

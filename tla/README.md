# govc_exporter in TLA+

govc_exporter is a Prometheus exporter for a VMware vCenter: each GET of its
metrics path logs in to vCenter several times at once, once for each collector,
lists objects, looks their ancestors up and answers with the samples. These
modules model what is concurrent in it, what can fail, and what it makes of the
objects and of its own configuration.

## The system

| part | code | state it keeps | operations |
|---|---|---|---|
| scrape handler | `govc_exporter.go:36-137`, `promhttp.HandlerFor` | one unfiltered handler with a semaphore; a new handler for each filtered request | `ServeHTTP`, `innerHandler` |
| main collector | `collector/collector.go:76-170` | `Collectors`; for each scrape a WaitGroup and a metric channel | `NewMainCollector`, `Collect`, `execute` |
| vCenter collectors | `collector/vc_{esx,vm,spod,datastores,respool}.go`, `vcCollector` in `vc_common.go` | `client`, `ctx` of the collector object | `Update`, `apiConnect`, `apiRetrieve`, `destroyView`, `apiDisconnect` |
| parents cache | `collector/vc_common.go:41-119` | one map for the process, under a mutex | `Get`, `Add`, `Flush`, `getParents` |
| registration and flags | `collector/collector.go:53-102` | `collectorState`, `forcedCollectors`, `factories` | `registerCollector`, `DisableDefaultCollectors` |
| exporter metrics | `govc_exporter.go:43,56-61,126-134` | a registry shared by all handlers | `MustRegister`, `InstrumentMetricHandler` |
| labels and values of an item | the constructors and loop bodies of `collector/vc_*.go`, `vc_vm.go:239-406` foremost | slices of label names, kept by the descs; slices of label values | `New...Collector`, `GetIsecAnnotation`, `GetEthernetDevices`, `GetNetworks`, `GetDisks`, `mustNewConstMetric` |
| web configuration | `https/tls_config.go`, `https/users.go` | a file, and the certificate, key and CA it names, read again for each handshake and each request | `Listen`, `getTLSConfig`, `ConfigToTLSConfig`, `validateUsers`, `ServeHTTP` |

How they interact. A GET is a server goroutine. It goes through the handler's
semaphore into the registry's `Gather`, whose workers call `Collect`; `Collect`
starts a goroutine for each collector, which runs `execute`, which calls
`Update` and sends on Gather's channel. Every `Update` flushes the process-wide
cache, stores a new client in a field of the *collector object*, and reads that
field again each time it needs a client. Unfiltered scrapes share the collector
objects; scrapes with `collect[]` filters get objects, a registry and a
semaphore of their own. All of them share the cache. In front of all this stands
`https.Listen`: before a scrape begins, its connection's handshake has read the
configuration and the certificate, and its request the users. Before the server
starts, parsing the command line has decided which collectors exist and whether
their labels include the Intrinsec ones.

What is hard, and what correct means:

- *Overlapping scrapes* (up to 40 by default) run `Update` of one object at the
  same time, although nothing guards its `client`. Correct: an Update works
  under its own session and logs it out; none brings the process down.
- *Flush against walk*: the mutex covers single map operations; the requests of
  a walk, other Updates' flushes and changes of the inventory come in between.
  Correct: what a lookup returns is no older than the Update's own flush, was
  true once, and is exact if nothing moved.
- *Failures half way*: any request may fail, or only its reply be lost.
  Correct: views and sessions are closed on every path, an item never carries
  the labels of another, a failed lookup is not cached.
- *Ordering*: the channel of a scrape is closed when `Collect` returns. Correct:
  nobody is left who could send, and nothing sent before is missing.
- *Limits*: the semaphore's tokens. Correct: never lost, never overdrawn.
- *Termination*: every Update returns, every scrape is answered.
- *Shared arrays*: Go's `append` writes in place when there is room, and label
  slices that share an array are kept by descs and passed to metrics. Correct:
  what has been made keeps its reading, and names and values pair up.
- *Odd items*: vCenter leaves out parts of what it cannot reach. Correct: an
  item is reported completely, and of the loops nothing but such an item ends the
  process.
- *A file that is read many times*: Correct: each handshake and each request
  acts on a content the files had while it ran, and fails only with a cause.

The hazards in `PROJECT.json` place each of these at its line.

## Modules

| module | models | composed with |
|---|---|---|
| `ParentsCache` | the cache, `getParents`, vCenter's inventory | |
| `VcCollector` | one `Update` from flush to logout, the shared client, vCenter's sessions and views | instantiates `ParentsCache` on its own variables |
| `UpdateSession` | abstract: what an Update promises vCenter | implemented by `VcCollector` when `Serial` |
| `ScrapeHandler` | one GET: filters, semaphore, Gather, Collect, execute, the answer | |
| `ScrapeService` | abstract: what a client is promised | implemented by `ScrapeHandler` |
| `CollectorFlags` | the command line, the flags' actions, `DisableDefaultCollectors` | |
| `CollectorSamples` | the constructors' label names, one item's labels and metrics, Go's slices | |
| `Exporter` | from the command line to the samples of an item | extends `CollectorFlags` and `CollectorSamples` |
| `WebConfig` | `Listen`, handshakes and requests, the files they read | |
| `ParentsCacheProofs`, `VcCollectorProofs`, `ScrapeHandlerProofs`, `WebConfigProofs` | theorems | |
| `VcUpdateProofs` | theorems about Updates that overlap, and about what an Update reports | extends `VcCollectorProofs`, instantiates `ParentsCacheProofs` on the variables of `VcCollector` |
| `SliceProofs`, `ExporterProofs`, `ReportProofs` | lemmas about slices; theorems about `Exporter`; its theorems about labels and completeness | each extends the one before |
| `MCParentsCache`, `MCVcCollector`, `MCScrapeHandler`, `MCExporter`, `MCWebConfig` | instances for TLC | |

### ParentsCache

`cache` is the map; `walk[u]` the locals of a running `getParents` (`key` is
`*me.Parent`, `cur` and `res` are the code's); `label[u]` the last result.
`Flush`, `LookupRoot/Hit/Miss`, `Retrieve` (one iteration of the loop, one
request), `RetrieveFail` and `Add` follow the code statement by statement; each
holds the mutex or is one request, so each is one step. `history` is every
inventory vCenter went through; `Change` renames or moves an entity as long as
no cycle results (external). `flushedAt`, `older` and `stamp` are history
variables. An Update is reduced to "may flush, may look anything up", which
over-approximates the collectors' order, so what holds here holds for any
collector. A nameless or inaccessible ancestor is an entity like any other.

### VcCollector

`pc[u]` is the statement `u` is at. A client is named by the Update whose login
made it, so `client[c] = u` says whose client the object holds. Every use of
`c.client` in the source is one read (`Use`, `Root`) followed by the request on
the client read (`held`); the two are separate steps, as they are in Go.
`ReadNil` and `LogoutNil` are the dereferences of nil; the deferred
`apiDisconnect` runs after a panic, then the process ends (`alive`). The five
collectors are one module: `Kind` tells apart the VM collector (pool and host
requests, parents looked up from the pool) and the resource-pool collector
(items without quick stats are skipped) from the three plain ones.

Two things end the process although every request is answered. `--collector.vc.url`
may be given and empty; `soap.ParseURL` then returns neither a URL nor an error,
and `apiConnect` goes through the nil (`NilURL`; `url` says which URL is given).
And an item may lack what the loop goes through unchecked (`OddItem`): a pool's or
storage pod's summary, before `getParents`; a host's product or hardware, a VM's
guest or configuration, or the flat file behind its disk, when the labels and the
samples are made. `Items[c][i].lacks` says what an item may lack and `gaps`
whether it does, so that one instance has healthy and odd items. `Update` then
panics (`fate` is `"odd"`), its deferred `apiDisconnect` still logs out, and the
process ends (`alive`). `DataPanic` names these two ends; the properties about
panics set them apart from a nil client, which takes two Updates and a failed
request. Which part of which kind is dereferenced where, metric by metric, is in
`CollectorSamples`.

`lost[u]` records that a reply about `u`'s session or view was lost, the only excuse for
a leak. `c.ctx`, which is always `context.Background()`, is left out. `Weather`
says whether requests may fail by themselves; under a closed session they always
do.

`Serial` restricts `Begin` to Updates whose object is idle. The code does not
promise that in general: it is what `SerialWhenOne` of `ScrapeHandler` shows for
`--web.max-requests=1`, and what filtered requests have by construction. With
the default limit it holds as long as scrapes do not overlap, which one
Prometheus server with a sufficient timeout gives and two servers do not.

A pointer field is read and written as a whole word here. The Go memory model
calls the unguarded accesses a data race; on the platforms Go supports a racy
read of a pointer returns some value stored there, and a later read may return
an older one than an earlier read did only where the hardware reorders, which
the model leaves out.

### ScrapeHandler

It supposes a process that stays alive: how an Update can end it is in
`VcCollector`. A request is a connection that asks again and again. `phase`, `filters` and
`code` follow it through `ServeHTTP`; `inFlight` is the semaphore of the
unfiltered handler (a filtered one has a new semaphore, which never refuses);
`version`, `main` and `task` are Gather's worker on the build-info collector,
its worker in `Collect`, and the goroutines of `execute`; `channel`, `closed`,
`body` and `errs` are Gather's. The vendored `HandlerFor` and `Gather` are
modelled from their source. The exporter's own registry and the channel for
unchecked collectors, on which no collector here sends, are left out. `Same`
compares identities, as the registry's hashes do (collisions left out). An
Update sends at most `MaxSamples` metrics and returns, or fails before the
first: every `return err` of the five Updates precedes their first send.

### CollectorFlags, CollectorSamples, Exporter

`value` is what the flags' pointers point to, `collectorState` among them;
`forced` is `forcedCollectors`. kingpin sets the defaults of the flags that are
not given, then the values in order, refuses a repeated flag, then runs the
actions in order; `collectorFlagAction` is that of a collector's own flag. `On`
is what `NewMainCollector` finds enabled, `Enabled` of `ScrapeHandler`. The
Intrinsec flag is carried along because it decides the length of the label
slices. `Make` forgets the command line, which nothing reads again.

`CollectorSamples` follows one item through one collector. `mem` holds the
arrays allocated so far and a slice is an array with a length, so that an
append in place, as `AppendMem` models it, is seen by every slice of that array.
`names[d]` is the slice `NewDesc` was given, `labels` is `labelsValues`, `sent`
the metrics. A label value is named by the field it is copied from and, for a
device's, by the device; so a label that says something else is seen. Metrics in
a row that read the same part of the item and carry the same labels stand as one
(`VmScalars` and its likes). An item is the set of its optional parts, what its
annotation sets, and its devices. A resource pool's summary is an interface, on
which a method is called before the code looks for nil: a pool without one panics,
and only one whose summary has no quick stats is skipped. Only one item is followed, because each
iteration of the loops begins with a new literal and keeps nothing.

Integers have the widths the code gives them: sizes of VMs and hosts are `int32`
converted to `int64` before the product, those of resource pools are `int64`
from the start. `BytesExact` therefore asks for the product to fit for resource
pools only; beyond that (8 EiB) the code wraps, and so does the model.

### WebConfig

A reader is `main` in `Listen` or a connection in its handshake; each read of a
file is a step, because an editor may write between any two. `ReadConfig` is
`getTLSConfig` up to the missing-path checks, `ReadCert` and `ReadKey` are the
two reads of `LoadX509KeyPair`, made once by `ConfigToTLSConfig` and once more
by `GetCertificate`; `ReadCA` is the rest. `history` is every content the files
have had; `since` and `came` are history variables. An edit changes one file.
`Authenticate` is `ServeHTTP` of `userAuthRoundtrip`: one read of the file, and
the answer. A file caught half written is one that does not parse (`Torn`) or a
content that was on disk; a half that parses is a content of its own. `FreshJudgement`
therefore lets a request in without a password when the file was on disk without
users at that moment, a truncated one included: the code cannot tell it from a
file that asks for none. Nor does a property forbid that `Listen` validates the
users of one content and serves the TLS section of the next; the code does so
when the file is edited between its two reads. bcrypt is
equality of passwords, and a hash bcrypt does not know fits none. Handshakes
that present a client certificate, its verification, and resumed sessions are
`crypto/tls`'s and left out: a connection is `open` when the server has all it
needs for its part.

### Refinements

`VcCollector` instantiates `UpdateSession` as `Sessions` and `ScrapeHandler`
instantiates `ScrapeService` as `Service`, each `WITH` the mapping of every
variable; `SessionSpec` and `ServiceSpec` are the abstract specifications under
those mappings, checked by `vc_serial` and `scrape_live`. `VcCollector` also
implements `ParentsCache`, on variables of the same names: `CacheSpec`, checked
by `vc_overlap`. `SessionSpec` and `CacheSpec` are proved too, and of
`ServiceSpec` all but its liveness.

## Runs

| run | instance | checks | distinct states |
|---|---|---|---|
| `parents_cache` | 2 Updates; cluster, two folders, datastore cluster, datacenter; 2 keys, 2 names; one change | `TypeOK`, `BoundedStaleness`, `LabelsWereTrue`, `CacheAccurate` | 0.20 M |
| `parents_cache_live` | 1 Update, two changes | `WalkReturns` | 0.06 M |
| `vc_serial` | 2 Updates of the VM collector, 1 of the pool collector beside them, serial | `TypeOK`, `NilClientUnused`, `OwnSession`, `SessionsClosed`, `SuccessIsExact`, `AllItems`, `SessionSpec` | 1.1 M |
| `vc_overlap` | 2 overlapping Updates of the VM collector, 2 VMs | `CrashNeedsFault`, `ViewsDestroyed`, `TrueOrDegraded`, `CacheSpec` | 0.56 M |
| `vc_live` | 2 overlapping Updates | `UpdateEnds` | 0.18 M |
| `vc_crash` | as `vc_overlap`, requests may fail | `NilClientUnused` is violated | |
| `vc_degraded` | as `vc_overlap`, no request fails by itself | `SuccessIsExact` is violated | |
| `scrape` | 2 connections, 2 collectors on and 1 off, limit 1, channel of 1 | `TypeOK`, `NoSendOnClosed`, `TokensExact`, `SerialWhenOne`, `CompleteAnswer` | 1.6 M |
| `scrape_live` | 2 connections, 1 collector on and 1 off, up to 2 metrics of one identity | `CompleteAnswer`, `NoServerError`, `ServiceSpec` | 0.05 M |
| `scrape_parallel` | as `scrape` | `ParallelScrapes` is violated | |
| `exporter` | the five collectors, 36 whole VMs and 8 that lack parts, the other items with and without theirs; up to 3 arguments | `TypeOK`, `EnabledAsAsked`, `LabelsPaired`, `ReadsStay`, `BytesExact`, `ItemComplete`, `PanicNeedsOddItem` | 0.05 M |
| `web_config` | 1 connection that reconnects; 13 configurations, old and new certificate and key, a CA that may be missing; two edits | `TypeOK`, `NoFailureWithoutCause`, `FreshHandshake`, `FreshJudgement` | 2.5 M |

Bounds, and why they are enough. Two Updates give every interleaving of a pair
of flushes, walks, fills and client assignments; the invariants about the cache
relate one entry to one Update, those about the client one field to two Updates.
`MaxVersion` 2 lets the inventory change at any point of any walk; the liveness
run has 3, so that the two folders can swap places while the walk is between
them. The inventory has each label's type, a chain of four and a key whose chain
misses a label. `Capacity` 1 is the tightest channel: every send blocks on
Gather. A limit of 1 makes the refusal, the hand-over of the token and the
off-by-one reachable with two requests. `MaxSamples` 2 with one identity is the
smallest instance with a duplicate. Two VMs, one in a pool and on a host and one
in neither, are the smallest in which one item's labels could reach the next.
The first VM may lack its details and the second pool its summary, so that an
Update meets each at once, with another Update at any point of its own.
Three arguments are enough for the defaults' switch before, between and after two
collectors' flags, for a repeated flag and for the Intrinsec flag beside them; the
code registers every collector with `defaultEnabled`, so the instance does too.
The VMs have up to two cards, three networks of which the middle one has no
address, and two disks of which the second may not be flat: each loop is empty,
passes an empty element and repeats. Widths of 4 and 8 bits with a megabyte of 16
bytes keep the relations of 32, 64 and 2^20 bits, and put both ends of the range
and -1 among the inputs. Two edits allow a renewal, certificate and key one after
the other, during one handshake, with both its reads between them; connections
meet only in the files, so that one that reconnects stands for all.
Symmetry is over Updates of one object, connections, or collectors that are on,
which run the same code; it is not used in a run with a liveness property.

Deadlock is checked in every run. `Stopped` in `VcCollector` is the end: all
Updates have returned, or the process is gone; in `Exporter` that the command
line is refused, no collector is on or the item has been reported. `Exited` in
`WebConfig` is `main` after an error of `Listen`.

## Fairness

`FairSpec` gives weak fairness to each goroutine's steps: the Go scheduler runs
what can run. For a step that is a request it also says that vCenter answers or
fails it. The code sets no timeout (`context.Background()`, `vc_common.go:171`),
so this is a property of the network and of TCP keep-alives, not of the code; if
it fails a scrape hangs and keeps its token. `UpdateReturns` of `ScrapeHandler`
is fair because of `UpdateEnds`. Nothing is assumed of vCenter's administrators
except the bound `MaxVersion`: someone who moves folders for ever could keep a
walk climbing for ever. Requests are admitted under weak fairness, which
suffices because `Admit` or `Reject` is always enabled.

## What the runs found

1. `vc_crash`: a login that fails while another scrape is running ends the
   process (nil client dereferenced in a goroutine of `Collect`). `vc_overlap`
   shows that it takes a failed request (`CrashNeedsFault`): without one, overlap
   adds no way to end the process to those an Update has alone.
2. `vc_degraded`: with two overlapping scrapes and a healthy vCenter a collector
   may report `ERROR` or `NONE` labels for healthy items and success 1.
3. `scrape_parallel`: `--web.max-requests` does not limit filtered scrapes.

What overlap does *not* break is in `vc_overlap`: views are still destroyed,
because `destroyView` uses the client of the view and not the field; and labels
degrade to the stand-ins but never become those of another item.

## What is proved

The theorems hold for any number of Updates, requests, collectors and items, any
inventory, limit and capacity. They rest on the modules' named assumptions, which
TLC evaluates in every run: constants have their types; `Request`, `Collector` and
the set `Mor` of vCenter's entities are finite; the first inventory has no cycle
of parents (`InventoryAssumption`; `Change` keeps it so); `VcCollector` assumes
of its constants what `ParentsCache` does (`CacheAssumption`), and that an item's
pool has a parent the cache can hold as a key; `Nothing` is neither a set of filters
nor an answer (`NothingAssumption`).

- `ParentsCacheProofs`. `TypeCorrect` is inductive as it stands. For
  `StalenessBounded` the invariant also speaks of walks under way: a walk started
  no earlier than `u`'s flush, or `u`'s flush overtook it; only then is what `Add`
  stamps within the bound. For `LabelsTrue` the partial result of a walk is true
  since the walk's start, and `history` only grows. For `EntriesAccurate` the
  invariant says of a walk no change has overtaken that its result is what the
  reference definition gives for the part of the chain it has climbed
  (`AccurateWalk`, with `ParentsAmong` for the first so many ancestors): each
  `Retrieve` adds one ancestor, and when the walk is done it has climbed the
  whole chain (`Climbed`). That a chain of parents ends is proved from acyclicity
  by induction over the naturals.
- `VcCollectorProofs`, all under the hypothesis `Serial`. The invariant says that
  at most one Update of an object is active, and that from `Assign` to `Logout`
  field, `held` and session agree; a session of an Update that is not connected is
  closed, not yet opened, or lost. `SerialNilClientUnused`, `SerialOwnSession`
  and `SerialSessionsClosed` follow; `SerialImplements` shows each step to be a step
  of `UpdateSession` or a stutter.
- `VcUpdateProofs`, without `Serial` except for the last theorem named here.
  `NeverNil`: without faults no Update stores nil, and one that is past its login
  finds its object's field set, so that a panic is one of `DataPanic`; from it
  `CrashesNeedFaults`. `ViewHeld`: between
  creation and `destroyView` a view belongs to the session of the client in
  `held`, and any other view that exists is one whose reply was lost; from it
  `ViewsLeftNeedLoss`. `UpdateInv` carries the invariant of `EntriesAccurate`
  along, through `Proved`, an instance of `ParentsCacheProofs`, and says what an
  Update in its loop has in hand (`ItemAt`): an item it does not skip, that
  item's pool or none, a walk for that item's parent. From it `UpdateTypeOK`,
  `CacheAsSpecified` (each step of an Update is one of `ParentsCache` or leaves
  the cache alone) and `AnswerTrue`: `getParents` answers with the reference
  labels or, refused, with `ERROR`. On that rest `LabelsTrueOrDegraded`, whose
  invariant keeps the same of a VM's labels until its host is read, and, with
  `SentSoFar` (which items have been sent at each place), `ItemsAllSent`.
  `SerialSuccessIsExact` adds the invariant of `VcCollectorProofs`: the session
  stays open, so that without faults nothing is refused, the pool in hand is the
  item's and every answer the reference one. The hypothesis is needed:
  `vc_degraded` shows the opposite without it.
- `ScrapeHandlerProofs`. `WaitInv`: while `Collect` waits, its counter is the
  number of its live goroutines, and there is none otherwise. From it
  `NothingSentOnClosed`. `SlotInv`, the semaphore's count, is inductive on its
  own: `TokensNeverLost`. Together they give `OneMakesSerial`, which discharges
  `Serial` for a limit of one. `AnswerInv` accounts for every metric of a scrape:
  what each goroutine is due to have sent by its place is in the channel or in the
  body, nothing else is, and a metric is refused just if an Update sent one twice.
  `AnswersComplete` is that account when the channel is closed and empty. The body
  then holds at least the build information, which is all `NeverServerError` needs.
  `AnswersAsPromised` shows with the same invariant each step to be one of
  `ScrapeService` or a stutter.
- `ExporterProofs` and `ReportProofs`, for any collectors, items, number of
  devices and widths. `SliceProofs` has what append and copy do to the reading of
  a slice. Appends in place are harmless because of who owns the array: `Apart`
  in `SamplesInv` says that no desc and no metric has the array of `labelsValues`,
  an append in place writes only beyond the length of the slice it is given, and
  names are appended to fresh copies. `SlicesStay` follows, and on it rest `ReadInv`
  (what each desc and each metric reads, by the step that made it) and
  `LabelsArePaired`. `LoopInv` says which metrics have been sent when the loops
  stand at `k` and `j`: `ItemsComplete`. `ValueInv` ties each value to the item's
  size for `BytesAreExact`, `PlaceInv` the step to what has been dereferenced
  for `PanicsCaused`. `FlagsInv` speaks of the arguments passed so far: no flag is
  twice among them, each has its value, every other flag its default, and `forced`
  is the collectors whose actions have run; `FlagsAsAsked` holds for command lines of any length.
- `WebConfigProofs`. A reader's `tls`, `cert` and key were each on disk at some
  version between `since` and now, which an edit, growing `history` at its end,
  cannot undo: `HandshakesFresh`, `JudgementsFresh`. For `FailuresCaused` the
  invariant says that while nothing has been edited since a reader began, all it
  has read is from the content of that version and that content has passed the
  checks made so far.

Only model-checked: the liveness properties `WalkReturns`, `UpdateEnds` and, in
`ServiceSpec`, that every request is answered; the prover has no liveness under
fairness. The three properties that the code violates, of course, have no
theorem; `NilClientUnused` and `SuccessIsExact` have one under `Serial`.

Induction. The library's induction theorems take an operator as a parameter and
cannot be used here. Where an induction over the naturals is needed
`ParentsCacheProofs` has `NatSetInduction`, whose hypothesis is a set of naturals,
proved from the well-foundedness of `<`. With it `IteratesExist` shows that a
function can be iterated, and so that `Up`, the recursive function in `ParentsCache`
that follows parents, obeys its own recursion (`UpSteps`).

## Plan

Left to do: a composition of `ScrapeHandler` with `VcCollector`, in which `Serial`
is replaced by the semaphore. Until then the two meet in `OneMakesSerial`.

## Not modelled

- Logging, the landing page, the text format, gzip, and the vendored libraries
  beyond what is named above.
- The exporter's own metrics: `exporterMetricsRegistry` is filled once and handed
  to the client library, whose counters nothing here reads.
- Client certificates and resumed TLS sessions, which `crypto/tls` handles
  between the steps of a handshake modelled here.
- The conversion of values to `float64`, exact up to 2^53, and the values of the
  device metrics, which are copied. Metrics that read the same part are one.
- SOAP is a request that is answered, refused or lost.

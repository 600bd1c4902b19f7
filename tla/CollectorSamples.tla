-------------------------- MODULE CollectorSamples --------------------------
(***************************************************************************)
(* What the collectors make of one item: the constructors' label names     *)
(* (NewVirtualMachineCollector and its likes), the label values, their     *)
(* appends for annotations, network cards, addresses and disks, and the    *)
(* metrics sent (the bodies of the loops of Update, vc_vm.go foremost).    *)
(*                                                                         *)
(* Go's slices are modelled with the arrays behind them, because append    *)
(* writes into the array of the slice it is given when that has room.  A   *)
(* label value is the name of the field it comes from, with the indices of *)
(* the device for a device's own labels.                                   *)
(***************************************************************************)
EXTENDS Integers, Sequences

CONSTANTS
    Kinds,        \* of collectors: "vm", "esx", "ds", "spod", "respool"
    Items,        \* Items[kind]: the items vCenter may hold
    Mb,           \* int64(1024 * 1024)
    Half32,       \* 2^31: an int32 is in -Half32 .. Half32 - 1
    Half64        \* 2^63

Signed(half) == - half .. half - 1

Part == {"config", "guest", "summary.guest", "product", "hardware",
         "quickStats", "limit", "summary"}

(***************************************************************************)
(* An item: the optional parts it has, the fields its annotation sets, for *)
(* each network card whether it is connectable, for each guest network the *)
(* number of its addresses, for each disk whether its backing is flat, and *)
(* a number that stands for its statistics.                                *)
(***************************************************************************)
Item == [has : SUBSET Part, note : SUBSET {"crit", "responsable", "service"},
         cards : Seq(BOOLEAN), nets : Seq(Nat), disks : Seq(BOOLEAN), size : Signed(Half64)]

Nothing == [has |-> {}, note |-> {}, cards |-> <<>>, nets |-> <<>>, disks |-> <<>>, size |-> 0]

ASSUME SamplesAssumption ==
    /\ Kinds \subseteq {"vm", "esx", "ds", "spod", "respool"}
    /\ Items \in [Kinds -> SUBSET Item]
    /\ Half32 \in Nat \ {0} /\ Half64 \in Nat \ {0} /\ Mb \in Nat \ {0}
    /\ Half32 <= Half64 /\ Half32 * Mb <= Half64
    /\ \A kd \in Kinds \ {"respool"} : \A it \in Items[kd] : it.size \in Signed(Half32)

VARIABLES
    intrinsec,    \* *useIsecSpecifics
    mem,          \* the arrays allocated so far
    names,        \* names[d]: the label names desc d was made with, a slice
    kind,         \* the collector that runs, "none" before
    item,         \* the item its loop is at
    labels,       \* labelsValues, a slice
    sent,         \* the metrics sent for the item
    step,         \* where Update is
    k, j          \* the loops over devices, and over the addresses of one

sampleVars == <<intrinsec, mem, names, kind, item, labels, sent, step, k, j>>

-----------------------------------------------------------------------------
(* A label: a name, or the field a value comes from.  *)
Field(f) == [field |-> f, at |-> <<>>]

Fields(fs) == [i \in 1 .. Len(fs) |-> Field(fs[i])]

(* A slice: an array and how much of it.  Its capacity is the array's rest. *)
Whole(a, n) == [array |-> a, len |-> n]

View(m, s) == SubSeq(m[s.array], 1, s.len)

(* A new array with what xs holds, and cap places.  *)
Allocated(m, xs, cap) ==
    Append(m, [i \in 1 .. cap |-> IF i <= Len(xs) THEN xs[i] ELSE Field("zero")])

(* append(s, xs...): in place if there is room, else in an array of twice  *)
(* the size or what is needed.                                             *)
Fits(m, s, xs) == s.len + Len(xs) <= Len(m[s.array])

Grown(m, s, xs) ==
    LET need == s.len + Len(xs)
        twice == 2 * Len(m[s.array])
    IN  IF need > twice THEN need ELSE twice

AppendMem(m, s, xs) ==
    IF Fits(m, s, xs)
    THEN [m EXCEPT ![s.array] =
            [i \in 1 .. Len(@) |->
                IF i \in s.len + 1 .. s.len + Len(xs) THEN xs[i - s.len] ELSE @[i]]]
    ELSE Allocated(m, View(m, s) \o xs, Grown(m, s, xs))

AppendTo(m, s, xs) ==
    Whole(IF Fits(m, s, xs) THEN s.array ELSE Len(m) + 1, s.len + Len(xs))

-----------------------------------------------------------------------------
(* The label names of an item's plain metrics, one constructor each.  *)
VmNames ==
    <<"vc", "dc", "cluster", "esx", "pool", "name", "hostname", "guestfullname",
      "power_state", "overall_status", "tools_status", "tools_version">>

EsxNames == <<"vc", "dc", "cluster", "name", "version", "status">>

DatastoreNames == <<"vc", "dc", "name", "type", "cluster", "maintenance_mode">>

StoragePodNames == <<"vc", "dc", "name">>

ResourcePoolNames == <<"vc", "dc", "name">>

Names ==
    [vm |-> VmNames, esx |-> EsxNames, ds |-> DatastoreNames,
     spod |-> StoragePodNames, respool |-> ResourcePoolNames]

OwnNames ==
    [network  |-> <<"network", "mac", "ip">>,
     ethernet |-> <<"driver_model", "driver_mac", "driver_status">>,
     disk     |-> <<"vmdk">>]

(* The fields that each Update puts there.  *)
VmValues ==
    <<"vcURL", "dc", "cluster", "esxName", "poolName", "Name", "HostName",
      "GuestFullName", "PowerState", "OverallStatus", "ToolsStatus", "ToolsVersion">>

EsxValues == <<"vcURL", "dc", "cluster", "Name", "Version", "OverallStatus">>

DatastoreValues == <<"vcURL", "dc", "Name", "Type", "spod", "MaintenanceMode">>

StoragePodValues == <<"vcURL", "dc", "Name">>

ResourcePoolValues == <<"vcURL", "dc", "Name">>

Values ==
    [vm |-> VmValues, esx |-> EsxValues, ds |-> DatastoreValues,
     spod |-> StoragePodValues, respool |-> ResourcePoolValues]

(* GetIsecAnnotation: what the JSON does not set keeps its default.  *)
Annotation(it, f) == Field(IF f \in it.note THEN f ELSE "not defined")

Annotations(it) ==
    <<Annotation(it, "crit"), Annotation(it, "responsable"), Annotation(it, "service")>>

(* GetEthernetDevices, GetNetworks, GetDisks: one device's own labels.  *)
Of(f, n) == [field |-> f, at |-> n]

Ethernet(it, n) ==
    <<Of("typeName", <<n>>), Of("mac", <<n>>),
      IF it.cards[n] THEN Of("Status", <<n>>) ELSE Field("unknown")>>

Network(n, a) == <<Of("Network", <<n>>), Of("MacAddress", <<n>>), Of("IpAddress", <<n, a>>)>>

Disk(n) == <<Of("FileName", <<n>>)>>

-----------------------------------------------------------------------------
(* The metrics with an item's plain labels, in the order they are sent, by *)
(* where the values come from; of like ones in a row, one.                 *)
VmScalars == <<"config", "stats", "megabytes">>

EsxScalars == <<"stats", "hardware", "megabytes">>

ResourcePoolScalars == <<"stats", "megabytes", "limit">>

Scalars ==
    [vm |-> VmScalars, esx |-> EsxScalars, ds |-> <<"stats">>, spod |-> <<"stats">>,
     respool |-> ResourcePoolScalars]

Wrapped(n, half) == ((n + half) % (2 * half)) - half

(* Mutant: the product is taken before the conversion to int64.  *)
BytesNarrow(n) == Wrapped(n * Mb, Half32)

(* int64(n) * mb.  *)
Bytes(n) == Wrapped(n * Mb, Half64)

(* A pool without a limit has limit 0, an unlimited one -1.  *)
Value(scalar, it) ==
    CASE scalar = "megabytes" -> Bytes(it.size)
      [] scalar = "limit"     -> IF "limit" \in it.has THEN Bytes(it.size) ELSE 0
      [] OTHER                -> it.size

(* The parts that are dereferenced for the labels, and for a metric.  A    *)
(* pool's summary is an interface that a method is called on first of all. *)
ForLabels ==
    [vm |-> {"guest", "summary.guest"}, esx |-> {"product"},
     ds |-> {}, spod |-> {"summary"}, respool |-> {"summary"}]

(* Mutant: a pool's limit is dereferenced without a look.  *)
ForScalarUnchecked(scalar) == {scalar} \cap {"config", "hardware", "limit"}

(* A pool's limit, like a VM's snapshots, is looked at before.  *)
ForScalar(scalar) == {scalar} \cap {"config", "hardware"}

-----------------------------------------------------------------------------
SamplesInit ==
    /\ mem = <<>> /\ names = <<>> /\ sent = <<>>
    /\ kind = "none" /\ item = Nothing
    /\ labels = Whole(0, 0)
    /\ step = "new" /\ k = 1 /\ j = 1

(* The constructor: the names of the plain metrics, and for VMs the three  *)
(* copies with names appended.  NewDesc keeps the slice it is given.       *)
NewLabels(kd, it) ==
    /\ step = "new" /\ kind' = kd /\ item' = it
    /\ LET plain == <<Fields(Names[kd])>>
           s     == Whole(1, Len(Names[kd]))
           more  == Fields(<<"crit", "responsable", "service">>)
       IN  IF kd = "vm" /\ intrinsec
           THEN /\ mem'   = AppendMem(plain, s, more)
                /\ names' = [plain |-> AppendTo(plain, s, more)]
           ELSE /\ mem'   = plain
                /\ names' = [plain |-> s]
    /\ step' = IF kd = "vm" THEN "network" ELSE "labels"
    /\ UNCHANGED <<intrinsec, labels, sent, k, j>>

(* Mutant: names are appended to the one slice.  *)
CopyShared(m, s) == [mem |-> m, slice |-> s]

(* make and copy.  *)
Copy(m, s) == [mem |-> Allocated(m, View(m, s), s.len), slice |-> Whole(Len(m) + 1, s.len)]

After == [network |-> "ethernet", ethernet |-> "disk", disk |-> "labels"]

NewDeviceLabels ==
    /\ step \in DOMAIN After
    /\ LET copy == Copy(mem, names.plain)
           own  == Fields(OwnNames[step])
       IN  /\ mem'   = AppendMem(copy.mem, copy.slice, own)
           /\ names' = [d \in DOMAIN names \cup {step} |->
                           IF d = step THEN AppendTo(copy.mem, copy.slice, own)
                                       ELSE names[d]]
    /\ step' = After[step]
    /\ UNCHANGED <<intrinsec, kind, item, labels, sent, k, j>>

-----------------------------------------------------------------------------
(* A nil dereference, or a failed assertion in GetDisks.  *)
Panic ==
    /\ step' = "panic"
    /\ UNCHANGED <<intrinsec, mem, names, kind, item, labels, sent, k, j>>

(* A resource pool whose summary has no quick stats is passed over.  One   *)
(* without a summary is not: it panics before the code looks for nil.      *)
Skipped == kind = "respool" /\ "summary" \in item.has /\ "quickStats" \notin item.has

Skip ==
    /\ step = "labels" /\ Skipped
    /\ step' = "done"
    /\ UNCHANGED <<intrinsec, mem, names, kind, item, labels, sent, k, j>>

(* The parts read before, and the literal with the plain labels.  *)
PlainLabels ==
    /\ step = "labels" /\ ~ Skipped
    /\ \/ ~ ForLabels[kind] \subseteq item.has /\ Panic
       \/ /\ ForLabels[kind] \subseteq item.has
          /\ mem'    = Append(mem, Fields(Values[kind]))
          /\ labels' = Whole(Len(mem) + 1, Len(Values[kind]))
          /\ step'   = IF kind = "vm" /\ intrinsec THEN "annotate" ELSE "scalars"
          /\ UNCHANGED <<intrinsec, names, kind, item, sent, k, j>>

Annotate ==
    /\ step = "annotate"
    /\ \/ "config" \notin item.has /\ Panic
       \/ /\ "config" \in item.has
          /\ mem'    = AppendMem(mem, labels, Annotations(item))
          /\ labels' = AppendTo(mem, labels, Annotations(item))
          /\ step'   = "scalars"
          /\ UNCHANGED <<intrinsec, names, kind, item, sent, k, j>>

(* ch <- mustNewConstMetric: a metric keeps a copy of the values.  *)
Send(d, m, s, scalar, v) ==
    /\ mem'  = Copy(m, s).mem
    /\ sent' = Append(sent, [desc |-> d, labels |-> Copy(m, s).slice, at |-> <<k, j>>,
                             scalar |-> scalar, value |-> v])

(* The same with labels appended that only this metric has.  *)
SendWith(d, own, v) ==
    Send(d, AppendMem(mem, labels, own), AppendTo(mem, labels, own), "none", v)

Goes(to) == step' = to /\ k' = 1 /\ j' = 1

SendScalar ==
    /\ step = "scalars" /\ k <= Len(Scalars[kind])
    /\ LET scalar == Scalars[kind][k]
       IN  \/ ~ ForScalar(scalar) \subseteq item.has /\ Panic
          \/ /\ ForScalar(scalar) \subseteq item.has
             /\ Send("plain", mem, labels, scalar, Value(scalar, item))
             /\ k' = k + 1
             /\ UNCHANGED <<intrinsec, names, kind, item, labels, step, j>>

SendCard ==
    /\ step = "cards" /\ k <= Len(item.cards)
    /\ SendWith("ethernet", Ethernet(item, k), 0)
    /\ k' = k + 1
    /\ UNCHANGED <<intrinsec, names, kind, item, labels, step, j>>

SendAddress ==
    /\ step = "nets" /\ k <= Len(item.nets) /\ j <= item.nets[k]
    /\ SendWith("network", Network(k, j), 0)
    /\ j' = j + 1
    /\ UNCHANGED <<intrinsec, names, kind, item, labels, step, k>>

(* Mutant: a network without addresses ends the loop.  *)
NextNetworkBreaks ==
    /\ step = "nets" /\ k <= Len(item.nets) /\ j > item.nets[k]
    /\ k' = (IF item.nets[k] = 0 THEN Len(item.nets) ELSE k) + 1 /\ j' = 1
    /\ UNCHANGED <<intrinsec, mem, names, kind, item, labels, sent, step>>

NextNetwork ==
    /\ step = "nets" /\ k <= Len(item.nets) /\ j > item.nets[k]
    /\ k' = k + 1 /\ j' = 1
    /\ UNCHANGED <<intrinsec, mem, names, kind, item, labels, sent, step>>

SendDisk ==
    /\ step = "disks" /\ k <= Len(item.disks)
    /\ SendWith("disk", Disk(k), 0)
    /\ k' = k + 1
    /\ UNCHANGED <<intrinsec, names, kind, item, labels, step, j>>

(* A loop is over.  GetDisks asserts the backing of every disk before the  *)
(* first is sent.  A next item starts with a new literal.                  *)
NextLoop ==
    \/ /\ step = "scalars" /\ k > Len(Scalars[kind])
       /\ Goes(IF kind = "vm" THEN "cards" ELSE "done")
       /\ UNCHANGED <<intrinsec, mem, names, kind, item, labels, sent>>
    \/ /\ step = "cards" /\ k > Len(item.cards)
       /\ Goes("nets")
       /\ UNCHANGED <<intrinsec, mem, names, kind, item, labels, sent>>
    \/ /\ step = "nets" /\ k > Len(item.nets)
       /\ \/ FALSE \in {item.disks[n] : n \in 1 .. Len(item.disks)} /\ Panic
          \/ /\ \A n \in 1 .. Len(item.disks) : item.disks[n]
             /\ Goes("disks")
             /\ UNCHANGED <<intrinsec, mem, names, kind, item, labels, sent>>
    \/ /\ step = "disks" /\ k > Len(item.disks)
       /\ Goes("done")
       /\ UNCHANGED <<intrinsec, mem, names, kind, item, labels, sent>>

SamplesNext ==
    \/ NewDeviceLabels \/ Skip \/ PlainLabels \/ Annotate
    \/ SendScalar \/ SendCard \/ SendAddress \/ NextNetwork \/ SendDisk \/ NextLoop

-----------------------------------------------------------------------------
FieldName ==
    {"zero", "not defined", "unknown",
     "vc", "dc", "cluster", "esx", "pool", "name", "hostname", "guestfullname",
     "power_state", "overall_status", "tools_status", "tools_version", "version",
     "status", "type", "maintenance_mode", "crit", "responsable", "service", "network",
     "mac", "ip", "driver_model", "driver_mac", "driver_status", "vmdk",
     "vcURL", "esxName", "poolName", "spod", "Name", "HostName", "GuestFullName",
     "PowerState", "OverallStatus", "ToolsStatus", "ToolsVersion", "Version", "Type",
     "MaintenanceMode", "typeName", "Status", "Network", "MacAddress", "IpAddress",
     "FileName"}

Label == [field : FieldName, at : Seq(Nat)]

Slice == [array : Nat, len : Nat]

Desc == {"plain", "network", "ethernet", "disk"}

Metric == [desc : Desc, labels : Slice, at : Nat \X Nat,
           scalar : {"config", "hardware", "stats", "megabytes", "limit", "none"}, value : Int]

SamplesTypeOK ==
    /\ intrinsec \in BOOLEAN
    /\ mem \in Seq(Seq(Label))
    /\ DOMAIN names \subseteq Desc /\ \A d \in DOMAIN names : names[d] \in Slice
    /\ kind \in Kinds \cup {"none"} /\ item \in Item
    /\ labels \in Slice
    /\ sent \in Seq(Metric)
    /\ step \in {"new", "network", "ethernet", "disk", "labels", "annotate", "scalars",
                 "cards", "nets", "disks", "done", "panic"}
    /\ k \in Nat \ {0} /\ j \in Nat \ {0}

(***************************************************************************)
(* What a label is to say: the field named here, of the device the metric  *)
(* is about if it is a device's, or the stand-in for what is not known.    *)
(* The cluster of a datastore is its datastore cluster.                    *)
(***************************************************************************)
Meaning ==
    [vc |-> "vcURL", dc |-> "dc", cluster |-> "cluster", esx |-> "esxName",
     pool |-> "poolName", name |-> "Name", hostname |-> "HostName",
     guestfullname |-> "GuestFullName", power_state |-> "PowerState",
     overall_status |-> "OverallStatus", status |-> "OverallStatus",
     tools_status |-> "ToolsStatus", tools_version |-> "ToolsVersion",
     version |-> "Version", type |-> "Type", maintenance_mode |-> "MaintenanceMode",
     crit |-> "crit", responsable |-> "responsable", service |-> "service",
     network |-> "Network", mac |-> "MacAddress", ip |-> "IpAddress",
     driver_model |-> "typeName", driver_mac |-> "mac", driver_status |-> "Status",
     vmdk |-> "FileName"]

Says(label, at) ==
    CASE label = "cluster" /\ kind = "ds" -> Field("spod")
      [] label \in {"crit", "responsable", "service"} /\ label \notin item.note ->
            Field("not defined")
      [] label = "driver_status" ->
            IF item.cards[at[1]] THEN Of(Meaning[label], <<at[1]>>) ELSE Field("unknown")
      [] label = "ip" -> Of(Meaning[label], at)
      [] label \in {"network", "mac", "driver_model", "driver_mac", "vmdk"} ->
            Of(Meaning[label], <<at[1]>>)
      [] OTHER -> Field(Meaning[label])

(***************************************************************************)
(* Each metric sent has as many values as its desc has names (or           *)
(* MustNewConstMetric panics), and under each name what the name says of   *)
(* this item and this device, however often the shared array behind        *)
(* labelsValues has been written since, with and without Intrinsec labels. *)
(***************************************************************************)
LabelsPaired ==
    \A n \in 1 .. Len(sent) :
        LET under  == View(mem, names[sent[n].desc])
            values == View(mem, sent[n].labels)
        IN  /\ Len(values) = Len(under)
            /\ \A i \in 1 .. Len(under) : values[i] = Says(under[i].field, sent[n].at)

(***************************************************************************)
(* Whatever is appended to a slice that others share an array with, what   *)
(* has been made keeps its reading: the names of each desc (NewDesc keeps  *)
(* the slice), the values of each metric sent, and the labels of the item  *)
(* that its next metrics start with.                                       *)
(***************************************************************************)
Made ==
    {names[d] : d \in DOMAIN names} \cup {sent[n].labels : n \in 1 .. Len(sent)}
        \cup {labels}

ReadsStay ==
    [][\A s \in Made : s.array # 0 => View(mem', s) = View(mem, s)]_sampleVars

(***************************************************************************)
(* Memory in bytes is the number of megabytes times their size: always for *)
(* the fields of 32 bits (VMs, hosts), and for the 64 bits of a resource   *)
(* pool when the product has room; its unlimited limit, -1, then stays     *)
(* apart from every limit there can be.                                    *)
(***************************************************************************)
BytesExact ==
    kind # "respool" \/ item.size * Mb \in Signed(Half64) =>
        \A n \in 1 .. Len(sent) :
            /\ sent[n].scalar = "megabytes" => sent[n].value = item.size * Mb
            /\ sent[n].scalar = "limit" /\ "limit" \in item.has =>
                  (sent[n].value < 0 <=> item.size < 0)

(***************************************************************************)
(* An item is reported completely: every plain metric, one metric for each *)
(* network card, each address of each network and each disk, none twice;   *)
(* only a resource pool without quick stats is left out.                   *)
(***************************************************************************)
About(d) == {sent[n].at : n \in {i \in 1 .. Len(sent) : sent[i].desc = d}}

ItemComplete ==
    step = "done" =>
        IF Skipped THEN sent = <<>> ELSE
        /\ \A m, n \in 1 .. Len(sent) :
              sent[m].desc = sent[n].desc /\ sent[m].at = sent[n].at => m = n
        /\ About("plain") = (1 .. Len(Scalars[kind])) \X {1}
        /\ kind = "vm" =>
              /\ About("ethernet") = (1 .. Len(item.cards)) \X {1}
              /\ About("network") = UNION {{n} \X (1 .. item.nets[n]) : n \in 1 .. Len(item.nets)}
              /\ About("disk") = (1 .. Len(item.disks)) \X {1}

(***************************************************************************)
(* One item ends the process only if it lacks a part that vCenter leaves   *)
(* out of items it cannot reach, or has a disk on another kind of backing; *)
(* a healthy item never does, and without such a disk or a host's hardware *)
(* missing nothing has been sent of it before.                             *)
(***************************************************************************)
Healthy ==
    /\ kind = "vm" => {"config", "guest", "summary.guest"} \subseteq item.has
    /\ kind = "esx" => {"product", "hardware"} \subseteq item.has
    /\ kind \in {"spod", "respool"} => "summary" \in item.has
    /\ kind = "vm" => \A n \in 1 .. Len(item.disks) : item.disks[n]

PanicNeedsOddItem ==
    step = "panic" =>
        /\ ~ Healthy
        /\ sent # <<>> =>
              \/ kind = "esx" /\ "hardware" \notin item.has
              \/ kind = "vm" /\ \E n \in 1 .. Len(item.disks) : ~ item.disks[n]
=============================================================================

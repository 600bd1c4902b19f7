---------------------------- MODULE ReportProofs ----------------------------
(***************************************************************************)
(* Proofs about what is reported of an item: each metric has the values its *)
(* names ask for, and each device has its metrics.                         *)
(***************************************************************************)
EXTENDS ExporterProofs

-----------------------------------------------------------------------------
(***************************************************************************)
(* The names and the values of metrics, read through their slices.         *)
(***************************************************************************)
More == <<"crit", "responsable", "service">>

PlainNames ==
    IF kind = "vm" /\ intrinsec THEN Fields(Names[kind]) \o Fields(More)
                                ELSE Fields(Names[kind])

PlainValues ==
    IF kind = "vm" /\ intrinsec THEN Fields(Values[kind]) \o Annotations(item)
                                ELSE Fields(Values[kind])

OwnValues(d, at) ==
    CASE d = "network"  -> Network(at[1], at[2])
      [] d = "ethernet" -> Ethernet(item, at[1])
      [] d = "disk"     -> Disk(at[1])

NamesRead ==
    \A d \in DOMAIN names :
        \/ d = "plain" /\ View(mem, names[d]) = PlainNames
        \/ d \in DOMAIN After /\ View(mem, names[d]) = PlainNames \o Fields(OwnNames[d])

ValuesRead ==
    /\ step = "annotate" =>
          kind = "vm" /\ intrinsec /\ View(mem, labels) = Fields(Values[kind])
    /\ step \in Looping \ {"annotate"} => View(mem, labels) = PlainValues

SentRead ==
    \A n \in 1 .. Len(sent) :
        /\ sent[n].desc \in DOMAIN names
        /\ \/ sent[n].desc = "plain" /\ View(mem, sent[n].labels) = PlainValues
           \/ /\ sent[n].desc \in DOMAIN After
              /\ View(mem, sent[n].labels) =
                    PlainValues \o OwnValues(sent[n].desc, sent[n].at)

(* The descs made so far: a virtual machine has all four before its values *)
(* are put together.                                                       *)
DescsMade ==
    /\ step \in {"ethernet", "disk"} => "network" \in DOMAIN names
    /\ step = "disk" => "ethernet" \in DOMAIN names
    /\ step \notin {"new"} \cup Building /\ kind = "vm" => Desc \subseteq DOMAIN names

ReadInv ==
    /\ NamesRead /\ ValuesRead /\ SentRead /\ DescsMade
    /\ step # "new" => main = "running"

(* The reading of two sequences, names and values, label by label.  *)
Paired(fs, vs, at) ==
    Len(vs) = Len(fs) /\ \A i \in 1 .. Len(fs) : vs[i] = Says(fs[i].field, at)

LEMMA PairedConcat ==
    ASSUME NEW fs \in Seq(Label), NEW vs \in Seq(Label), NEW gs \in Seq(Label),
           NEW ws \in Seq(Label), NEW at, Paired(fs, vs, at), Paired(gs, ws, at)
    PROVE  Paired(fs \o gs, vs \o ws, at)
<1>1. /\ Len(vs) = Len(fs) /\ Len(ws) = Len(gs) /\ Len(fs) \in Nat /\ Len(gs) \in Nat
    BY DEF Paired
<1>2. Len(vs \o ws) = Len(fs \o gs) /\ Len(fs \o gs) = Len(fs) + Len(gs)
    BY <1>1
<1>3. ASSUME NEW i \in 1 .. Len(fs \o gs)
      PROVE  (vs \o ws)[i] = Says((fs \o gs)[i].field, at)
  <2>1. CASE i <= Len(fs)
    <3>1. i \in 1 .. Len(fs) /\ (vs \o ws)[i] = vs[i] /\ (fs \o gs)[i] = fs[i]
      BY <1>1, <1>2, <2>1
    <3> QED
      BY <3>1 DEF Paired
  <2>2. CASE i > Len(fs)
    <3>1. /\ i - Len(fs) \in 1 .. Len(gs)
          /\ (vs \o ws)[i] = ws[i - Len(fs)] /\ (fs \o gs)[i] = gs[i - Len(fs)]
      BY <1>1, <1>2, <2>2
    <3> QED
      BY <3>1 DEF Paired
  <2> QED
    BY <1>1, <1>2, <2>1, <2>2
<1> QED
    BY <1>2, <1>3 DEF Paired

(* What the plain labels are to say, one by one.  *)
LEMMA PlainSays ==
    ASSUME NEW at
    PROVE  /\ Says("vc", at) = Field("vcURL")
           /\ Says("dc", at) = Field("dc")
           /\ Says("esx", at) = Field("esxName")
           /\ Says("pool", at) = Field("poolName")
           /\ Says("name", at) = Field("Name")
           /\ Says("hostname", at) = Field("HostName")
           /\ Says("guestfullname", at) = Field("GuestFullName")
           /\ Says("power_state", at) = Field("PowerState")
           /\ Says("overall_status", at) = Field("OverallStatus")
           /\ Says("tools_status", at) = Field("ToolsStatus")
           /\ Says("tools_version", at) = Field("ToolsVersion")
           /\ Says("version", at) = Field("Version")
           /\ Says("status", at) = Field("OverallStatus")
           /\ Says("type", at) = Field("Type")
           /\ Says("maintenance_mode", at) = Field("MaintenanceMode")
           /\ kind = "ds" => Says("cluster", at) = Field("spod")
           /\ kind # "ds" => Says("cluster", at) = Field("cluster")
<1>1. Says("vc", at) = Field("vcURL")
    BY DEF Says, Meaning
<1>2. Says("dc", at) = Field("dc")
    BY DEF Says, Meaning
<1>3. Says("esx", at) = Field("esxName")
    BY DEF Says, Meaning
<1>4. Says("pool", at) = Field("poolName")
    BY DEF Says, Meaning
<1>5. Says("name", at) = Field("Name")
    BY DEF Says, Meaning
<1>6. Says("hostname", at) = Field("HostName")
    BY DEF Says, Meaning
<1>7. Says("guestfullname", at) = Field("GuestFullName")
    BY DEF Says, Meaning
<1>8. Says("power_state", at) = Field("PowerState")
    BY DEF Says, Meaning
<1>9. Says("overall_status", at) = Field("OverallStatus")
    BY DEF Says, Meaning
<1>10. Says("tools_status", at) = Field("ToolsStatus")
    BY DEF Says, Meaning
<1>11. Says("tools_version", at) = Field("ToolsVersion")
    BY DEF Says, Meaning
<1>12. Says("version", at) = Field("Version")
    BY DEF Says, Meaning
<1>13. Says("status", at) = Field("OverallStatus")
    BY DEF Says, Meaning
<1>14. Says("type", at) = Field("Type")
    BY DEF Says, Meaning
<1>15. Says("maintenance_mode", at) = Field("MaintenanceMode")
    BY DEF Says, Meaning
<1>16. kind = "ds" => Says("cluster", at) = Field("spod")
    BY DEF Says
<1>17. kind # "ds" => Says("cluster", at) = Field("cluster")
    BY DEF Says, Meaning
<1> QED
    BY <1>1, <1>2, <1>3, <1>4, <1>5, <1>6, <1>7, <1>8, <1>9, <1>10, <1>11, <1>12, <1>13, <1>14, <1>15, <1>16, <1>17

LEMMA FieldsPaired ==
    ASSUME NEW fs \in Seq(FieldName), NEW vs \in Seq(FieldName), Len(vs) = Len(fs), NEW at,
           \A i \in 1 .. Len(fs) : Field(vs[i]) = Says(fs[i], at)
    PROVE  Paired(Fields(fs), Fields(vs), at)
<1>1. Len(Fields(fs)) = Len(fs) /\ Len(Fields(vs)) = Len(vs) /\ Len(fs) \in Nat
    BY FieldsType
<1>2. \A i \in 1 .. Len(fs) : Fields(vs)[i] = Field(vs[i]) /\ Fields(fs)[i].field = fs[i]
    BY DEF Fields, Field
<1> QED
    BY <1>1, <1>2 DEF Paired

LEMMA PlainPaired ==
    ASSUME kind \in AllKinds, NEW at
    PROVE  Paired(Fields(Names[kind]), Fields(Values[kind]), at)
<1>1. Names[kind] \in Seq(FieldName) /\ Values[kind] \in Seq(FieldName)
    BY NamesType, ValuesType
<1>2. CASE kind = "vm"
  <2>1. Names[kind] = <<"vc", "dc", "cluster", "esx", "pool", "name", "hostname",
                        "guestfullname", "power_state", "overall_status",
                        "tools_status", "tools_version">>
    BY <1>2 DEF Names, VmNames
  <2>2. Values[kind] = <<"vcURL", "dc", "cluster", "esxName", "poolName", "Name",
                         "HostName", "GuestFullName", "PowerState", "OverallStatus",
                         "ToolsStatus", "ToolsVersion">>
    BY <1>2 DEF Values, VmValues
  <2>3. \A i \in 1 .. Len(Names[kind]) : Field(Values[kind][i]) = Says(Names[kind][i], at)
    BY <1>2, <2>1, <2>2, PlainSays
  <2>4. Len(Values[kind]) = Len(Names[kind])
    BY <2>1, <2>2
  <2> QED
    BY <1>1, <2>3, <2>4, FieldsPaired
<1>3. CASE kind = "esx"
  <2>1. Names[kind] = <<"vc", "dc", "cluster", "name", "version", "status">>
    BY <1>3 DEF Names, EsxNames
  <2>2. Values[kind] = <<"vcURL", "dc", "cluster", "Name", "Version", "OverallStatus">>
    BY <1>3 DEF Values, EsxValues
  <2>3. \A i \in 1 .. Len(Names[kind]) : Field(Values[kind][i]) = Says(Names[kind][i], at)
    BY <1>3, <2>1, <2>2, PlainSays
  <2>4. Len(Values[kind]) = Len(Names[kind])
    BY <2>1, <2>2
  <2> QED
    BY <1>1, <2>3, <2>4, FieldsPaired
<1>4. CASE kind = "ds"
  <2>1. Names[kind] = <<"vc", "dc", "name", "type", "cluster", "maintenance_mode">>
    BY <1>4 DEF Names, DatastoreNames
  <2>2. Values[kind] = <<"vcURL", "dc", "Name", "Type", "spod", "MaintenanceMode">>
    BY <1>4 DEF Values, DatastoreValues
  <2>3. \A i \in 1 .. Len(Names[kind]) : Field(Values[kind][i]) = Says(Names[kind][i], at)
    BY <1>4, <2>1, <2>2, PlainSays
  <2>4. Len(Values[kind]) = Len(Names[kind])
    BY <2>1, <2>2
  <2> QED
    BY <1>1, <2>3, <2>4, FieldsPaired
<1>5. CASE kind = "spod"
  <2>1. Names[kind] = <<"vc", "dc", "name">>
    BY <1>5 DEF Names, StoragePodNames
  <2>2. Values[kind] = <<"vcURL", "dc", "Name">>
    BY <1>5 DEF Values, StoragePodValues
  <2>3. \A i \in 1 .. Len(Names[kind]) : Field(Values[kind][i]) = Says(Names[kind][i], at)
    BY <1>5, <2>1, <2>2, PlainSays
  <2>4. Len(Values[kind]) = Len(Names[kind])
    BY <2>1, <2>2
  <2> QED
    BY <1>1, <2>3, <2>4, FieldsPaired
<1>6. CASE kind = "respool"
  <2>1. Names[kind] = <<"vc", "dc", "name">>
    BY <1>6 DEF Names, ResourcePoolNames
  <2>2. Values[kind] = <<"vcURL", "dc", "Name">>
    BY <1>6 DEF Values, ResourcePoolValues
  <2>3. \A i \in 1 .. Len(Names[kind]) : Field(Values[kind][i]) = Says(Names[kind][i], at)
    BY <1>6, <2>1, <2>2, PlainSays
  <2>4. Len(Values[kind]) = Len(Names[kind])
    BY <2>1, <2>2
  <2> QED
    BY <1>1, <2>3, <2>4, FieldsPaired
<1> QED
    BY <1>2, <1>3, <1>4, <1>5, <1>6 DEF AllKinds

LEMMA MorePaired ==
    ASSUME NEW at PROVE Paired(Fields(More), Annotations(item), at)
<1>1. \A f \in {"crit", "responsable", "service"} : Says(f, at) = Annotation(item, f)
  <2>1. /\ Meaning["crit"] = "crit" /\ Meaning["responsable"] = "responsable"
        /\ Meaning["service"] = "service"
    BY DEF Meaning
  <2> QED
    BY <2>1 DEF Says, Annotation
<1>2. /\ Len(Fields(More)) = 3 /\ Fields(More)[1].field = "crit"
      /\ Fields(More)[2].field = "responsable" /\ Fields(More)[3].field = "service"
    BY DEF Fields, More, Field
<1> QED
    BY <1>1, <1>2 DEF Paired, Annotations

LEMMA OwnPaired ==
    ASSUME NEW d \in DOMAIN After, NEW at \in Nat \X Nat
    PROVE  Paired(Fields(OwnNames[d]), OwnValues(d, at), at)
<1>1. at = <<at[1], at[2]>>
    OBVIOUS
<1>2. /\ Says("network", at) = Of("Network", <<at[1]>>)
      /\ Says("mac", at) = Of("MacAddress", <<at[1]>>)
      /\ Says("ip", at) = Of("IpAddress", <<at[1], at[2]>>)
    BY <1>1 DEF Says, Meaning
<1>3. /\ Says("driver_model", at) = Of("typeName", <<at[1]>>)
      /\ Says("driver_mac", at) = Of("mac", <<at[1]>>)
      /\ Says("driver_status", at) =
            IF item.cards[at[1]] THEN Of("Status", <<at[1]>>) ELSE Field("unknown")
      /\ Says("vmdk", at) = Of("FileName", <<at[1]>>)
  <2>1. Says("driver_model", at) = Of("typeName", <<at[1]>>)
    BY DEF Says, Meaning
  <2>2. Says("driver_mac", at) = Of("mac", <<at[1]>>)
    BY DEF Says, Meaning
  <2>5. Says("vmdk", at) = Of("FileName", <<at[1]>>)
    BY DEF Says, Meaning
  <2>3. CASE item.cards[at[1]]
    <3>1. Says("driver_status", at) = Of("Status", <<at[1]>>)
      BY <2>3 DEF Says, Meaning
    <3> QED
      BY <2>1, <2>2, <2>3, <3>1, <2>5
  <2>4. CASE ~ item.cards[at[1]]
    <3>1. Says("driver_status", at) = Field("unknown")
      BY <2>4 DEF Says, Meaning
    <3> QED
      BY <2>1, <2>2, <2>4, <3>1, <2>5
  <2> QED
    BY <2>3, <2>4
<1>4. d \in {"network", "ethernet", "disk"}
    BY DEF After
<1>5. CASE d = "network"
  <2>1. OwnNames[d] = <<"network", "mac", "ip">>
    BY <1>5 DEF OwnNames
  <2>2. OwnValues(d, at) = <<Of("Network", <<at[1]>>), Of("MacAddress", <<at[1]>>),
                             Of("IpAddress", <<at[1], at[2]>>)>>
    BY <1>5 DEF OwnValues, Network
  <2>3. /\ Len(Fields(OwnNames[d])) = 3 /\ Fields(OwnNames[d])[1].field = "network"
        /\ Fields(OwnNames[d])[2].field = "mac" /\ Fields(OwnNames[d])[3].field = "ip"
    BY <2>1 DEF Fields, Field
  <2> QED
    BY <1>2, <2>2, <2>3 DEF Paired
<1>6. CASE d = "ethernet"
  <2>1. OwnNames[d] = <<"driver_model", "driver_mac", "driver_status">>
    BY <1>6 DEF OwnNames
  <2>2. OwnValues(d, at) =
            <<Of("typeName", <<at[1]>>), Of("mac", <<at[1]>>),
              IF item.cards[at[1]] THEN Of("Status", <<at[1]>>) ELSE Field("unknown")>>
    BY <1>6 DEF OwnValues, Ethernet
  <2>3. /\ Len(Fields(OwnNames[d])) = 3 /\ Fields(OwnNames[d])[1].field = "driver_model"
        /\ Fields(OwnNames[d])[2].field = "driver_mac"
        /\ Fields(OwnNames[d])[3].field = "driver_status"
    BY <2>1 DEF Fields, Field
  <2> QED
    BY <1>3, <2>2, <2>3 DEF Paired
<1>7. CASE d = "disk"
  <2>1. OwnNames[d] = <<"vmdk">>
    BY <1>7 DEF OwnNames
  <2>2. OwnValues(d, at) = <<Of("FileName", <<at[1]>>)>>
    BY <1>7 DEF OwnValues, Disk
  <2>3. Len(Fields(OwnNames[d])) = 1 /\ Fields(OwnNames[d])[1].field = "vmdk"
    BY <2>1 DEF Fields, Field
  <2> QED
    BY <1>3, <2>2, <2>3 DEF Paired
<1> QED
    BY <1>4, <1>5, <1>6, <1>7

LEMMA ReadTypes ==
    ASSUME SamplesInv, step # "new"
    PROVE  /\ kind \in AllKinds
           /\ PlainNames \in Seq(Label) /\ PlainValues \in Seq(Label)
           /\ Fields(Names[kind]) \in Seq(Label) /\ Fields(Values[kind]) \in Seq(Label)
           /\ Fields(More) \in Seq(Label) /\ Annotations(item) \in Seq(Label)
           /\ \A d \in DOMAIN After : Fields(OwnNames[d]) \in Seq(Label)
           /\ \A d \in DOMAIN After, at \in Nat \X Nat : OwnValues(d, at) \in Seq(Label)
<1>1. kind \in AllKinds
    BY SamplesAssumption DEF SamplesInv, AllKinds
<1>2. Fields(Names[kind]) \in Seq(Label) /\ Fields(Values[kind]) \in Seq(Label)
    BY <1>1, NamesType, ValuesType, FieldsType
<1>3. Fields(More) \in Seq(Label)
    BY MoreType, FieldsType DEF More
<1>4. item \in Item /\ Annotations(item) \in Seq(Label)
    BY SampleTypes, OwnType
<1>5. \A d \in DOMAIN After : Fields(OwnNames[d]) \in Seq(Label)
    BY OwnNamesType, FieldsType
<1>6. ASSUME NEW d \in DOMAIN After, NEW at \in Nat \X Nat
      PROVE  OwnValues(d, at) \in Seq(Label)
  <2>1. at[1] \in Nat /\ at[2] \in Nat /\ d \in {"network", "ethernet", "disk"}
    BY DEF After
  <2>2. /\ Network(at[1], at[2]) \in Seq(Label) /\ Disk(at[1]) \in Seq(Label)
        /\ Ethernet(item, at[1]) \in Seq(Label)
    BY <1>4, <2>1, OwnType
  <2> QED
    BY <2>1, <2>2 DEF OwnValues
<1>7. PlainNames \in Seq(Label) /\ PlainValues \in Seq(Label)
    BY <1>2, <1>3, <1>4 DEF PlainNames, PlainValues
<1> QED
    BY <1>1, <1>2, <1>3, <1>4, <1>5, <1>6, <1>7

(***************************************************************************)
(* What the slices read is what the names say.                             *)
(***************************************************************************)
LEMMA ReadPaired == SamplesInv /\ ReadInv => LabelsPaired
<1> SUFFICES ASSUME SamplesInv, ReadInv, NEW n \in 1 .. Len(sent)
             PROVE  Paired(View(mem, names[sent[n].desc]), View(mem, sent[n].labels),
                           sent[n].at)
    BY DEF LabelsPaired, Paired
<1> DEFINE at == sent[n].at
           d  == sent[n].desc
<1>1. step # "new"
  <2>1. sent # <<>>
    OBVIOUS
  <2> QED
    BY <2>1 DEF SamplesInv
<1>2. at \in Nat \X Nat
    BY SampleTypes DEF Metric
<1>3. Paired(PlainNames, PlainValues, at)
  <2>1. Paired(Fields(Names[kind]), Fields(Values[kind]), at)
    BY <1>1, ReadTypes, PlainPaired
  <2>2. Paired(Fields(More), Annotations(item), at)
    BY MorePaired
  <2>3. Paired(Fields(Names[kind]) \o Fields(More), Fields(Values[kind]) \o Annotations(item), at)
    BY <1>1, <2>1, <2>2, ReadTypes, PairedConcat
  <2> QED
    BY <2>1, <2>3 DEF PlainNames, PlainValues
<1>4. d \in DOMAIN names
    BY DEF ReadInv, SentRead
<1>5. CASE d = "plain"
  <2>1. View(mem, sent[n].labels) = PlainValues
    BY <1>5 DEF ReadInv, SentRead, After
  <2>2. View(mem, names[d]) = PlainNames
    BY <1>4, <1>5 DEF ReadInv, NamesRead, After
  <2> QED
    BY <1>3, <2>1, <2>2
<1>6. CASE d # "plain"
  <2>1. d \in DOMAIN After /\ View(mem, sent[n].labels) = PlainValues \o OwnValues(d, at)
    BY <1>6 DEF ReadInv, SentRead
  <2>2. View(mem, names[d]) = PlainNames \o Fields(OwnNames[d])
    BY <1>4, <1>6 DEF ReadInv, NamesRead
  <2>3. Paired(Fields(OwnNames[d]), OwnValues(d, at), at)
    BY <1>2, <2>1, OwnPaired
  <2>4. Paired(PlainNames \o Fields(OwnNames[d]), PlainValues \o OwnValues(d, at), at)
    BY <1>1, <1>2, <1>3, <2>1, <2>3, ReadTypes, PairedConcat
  <2> QED
    BY <2>1, <2>2, <2>4
<1> QED
    BY <1>5, <1>6

-----------------------------------------------------------------------------
(* What was read goes on being read, as SamplesStep says.  *)
LEMMA ReadsKept ==
    ASSUME SamplesInv, Stay
    PROVE  /\ \A d \in DOMAIN names : View(mem', names[d]) = View(mem, names[d])
           /\ \A n \in 1 .. Len(sent) : View(mem', sent[n].labels) = View(mem, sent[n].labels)
           /\ step \in Looping => View(mem', labels) = View(mem, labels)
<1>1. ASSUME NEW s \in Made, s.array # 0 PROVE View(mem', s) = View(mem, s)
    BY <1>1 DEF Stay
<1>2. \A d \in DOMAIN names : names[d] \in Made /\ names[d].array # 0
    BY DEF SamplesInv, Apart, Valid, Made
<1>3. \A n \in 1 .. Len(sent) : sent[n].labels \in Made /\ sent[n].labels.array # 0
    BY DEF SamplesInv, Apart, Valid, Made
<1>4. labels \in Made /\ (step \in Looping => labels.array # 0)
    BY DEF SamplesInv, Made
<1> QED
    BY <1>1, <1>2, <1>3, <1>4

(* A step that makes no slice keeps what is read.  *)
LEMMA NothingMade ==
    ASSUME SamplesInv, ReadInv, Stay, step # "new", step' # "new", main' = main,
           kind' = kind, item' = item, intrinsec' = intrinsec,
           names' = names, labels' = labels, sent' = sent,
           step' \in Building => step = step',
           step \in Building => step' = step,
           step' \in Looping => step \in Looping /\ (step = "annotate" <=> step' = "annotate")
    PROVE  ReadInv'
<1>1. PlainNames' = PlainNames /\ PlainValues' = PlainValues
    BY DEF PlainNames, PlainValues
<1>2. NamesRead'
    BY <1>1, ReadsKept DEF ReadInv, NamesRead
<1>3. \A d, at : OwnValues(d, at)' = OwnValues(d, at)
    BY DEF OwnValues
<1>4. SentRead'
    BY <1>1, <1>3, ReadsKept DEF ReadInv, SentRead, OwnValues
<1>5. ValuesRead'
    BY <1>1, ReadsKept DEF ReadInv, ValuesRead, Looping
<1>6. DescsMade'
    BY DEF ReadInv, DescsMade, Building
<1> QED
    BY <1>2, <1>4, <1>5, <1>6 DEF ReadInv

LEMMA MakeReads ==
    ASSUME SamplesInv, NEW kd \in Kinds, NEW it \in Items[kd], Make(kd, it) PROVE ReadInv'
<1> DEFINE plain == <<Fields(Names[kd])>>
           s     == Whole(1, Len(Names[kd]))
           more  == Fields(More)
<1>1. /\ step = "new" /\ kind' = kd /\ item' = it
      /\ step' = IF kd = "vm" THEN "network" ELSE "labels"
      /\ main' = "running" /\ UNCHANGED <<intrinsec, labels, sent>>
      /\ IF kd = "vm" /\ intrinsec
         THEN /\ mem' = AppendMem(plain, s, more)
              /\ names' = [plain |-> AppendTo(plain, s, more)]
         ELSE mem' = plain /\ names' = [plain |-> s]
    BY DEF Make, NewLabels, More
<1>2. kd \in AllKinds /\ sent = <<>>
    BY <1>1, SamplesAssumption DEF AllKinds, SamplesInv
<1>3. /\ Fields(Names[kd]) \in Seq(Label) /\ more \in Seq(Label)
      /\ Len(Fields(Names[kd])) = Len(Names[kd]) /\ Len(Names[kd]) \in Nat
  <2>1. More \in Seq(FieldName)
    BY MoreType DEF More
  <2> QED
    BY <1>2, <2>1, NamesType, FieldsType
<1>4. plain \in Memory /\ s \in Slice /\ Valid(plain, s) /\ s.array = 1
      /\ s.len = Len(Fields(Names[kd])) /\ plain[1] = Fields(Names[kd])
    BY <1>3 DEF Memory, Whole, Slice, Valid
<1> HIDE DEF plain, s, more
<1>5. View(plain, s) = Fields(Names[kd])
    BY <1>3, <1>4, ViewIs
<1>6. View(AppendMem(plain, s, more), AppendTo(plain, s, more)) = Fields(Names[kd]) \o more
    BY <1>3, <1>4, <1>5, AppendReads
<1>7. DOMAIN names' = {"plain"} /\ View(mem', names'["plain"]) = PlainNames'
  <2>1. CASE kd = "vm" /\ intrinsec
    BY <1>1, <1>6, <2>1 DEF PlainNames, more
  <2>2. CASE ~ (kd = "vm" /\ intrinsec)
    BY <1>1, <1>5, <2>2 DEF PlainNames
  <2> QED
    BY <2>1, <2>2
<1>8. NamesRead'
    BY <1>7 DEF NamesRead
<1>9. SentRead'
  <2>1. Len(sent') = 0
    BY <1>1, <1>2
  <2> QED
    BY <2>1 DEF SentRead
<1>a. ValuesRead' /\ DescsMade'
    BY <1>1 DEF ValuesRead, DescsMade, Looping, Building
<1> QED
    BY <1>1, <1>8, <1>9, <1>a DEF ReadInv

LEMMA DeviceNamesRead ==
    ASSUME SamplesInv, ReadInv, PlaceInv, Stay, NewDeviceLabels, main' = main PROVE ReadInv'
<1> DEFINE copy == Copy(mem, names.plain)
           own  == Fields(OwnNames[step])
           t    == AppendTo(copy.mem, copy.slice, own)
<1>1. /\ step \in DOMAIN After /\ mem' = AppendMem(copy.mem, copy.slice, own)
      /\ names' = [d \in DOMAIN names \cup {step} |-> IF d = step THEN t ELSE names[d]]
      /\ step' = After[step]
      /\ UNCHANGED <<intrinsec, kind, item, labels, sent, k, j>>
    BY DEF NewDeviceLabels
<1>2. step \in Building /\ step' = After[step] /\ step # "plain" /\ step # "new"
    BY <1>1 DEF After, Building
<1>3. "plain" \in DOMAIN names /\ Valid(mem, names.plain) /\ mem \in Memory
    BY <1>2, SampleTypes DEF SamplesInv, Apart
<1>4. View(mem, names.plain) = PlainNames
    BY <1>3 DEF ReadInv, NamesRead, After
<1>5. /\ copy.mem \in Memory /\ Valid(copy.mem, copy.slice)
      /\ View(copy.mem, copy.slice) = PlainNames
    BY <1>3, <1>4, CopyIs
<1>6. own \in Seq(Label)
    BY <1>1, <1>2, ReadTypes
<1> HIDE DEF copy, own
<1>7. View(mem', t) = PlainNames \o own
    BY <1>1, <1>5, <1>6, AppendReads
<1> HIDE DEF t
<1>8. PlainNames' = PlainNames
    BY <1>1 DEF PlainNames
<1>9. /\ DOMAIN names' = DOMAIN names \cup {step} /\ names'[step] = t
      /\ \A d \in DOMAIN names \ {step} : names'[d] = names[d]
    BY <1>1
<1>a. NamesRead'
  <2>1. ASSUME NEW d \in DOMAIN names \ {step}
        PROVE  View(mem', names'[d]) = View(mem, names[d])
    BY <1>9, <2>1, ReadsKept
  <2>2. View(mem', names'[step]) = PlainNames \o Fields(OwnNames[step])
    BY <1>7, <1>9 DEF own
  <2> QED
    BY <1>1, <1>8, <1>9, <2>1, <2>2 DEF ReadInv, NamesRead
<1>b. SentRead' /\ ValuesRead'
  <2>1. sent' = <<>> /\ Len(sent') = 0
    BY <1>1, <1>2 DEF PlaceInv
  <2>2. step' \notin Looping
    BY <1>2 DEF Building, After, Looping
  <2> QED
    BY <2>1, <2>2 DEF SentRead, ValuesRead, Looping
<1>c. DescsMade'
  <2>1. CASE step = "network"
    BY <1>2, <1>9, <2>1 DEF DescsMade, After, Building
  <2>2. CASE step = "ethernet"
    BY <1>2, <1>9, <2>2 DEF ReadInv, DescsMade, After, Building
  <2>3. CASE step = "disk"
    BY <1>2, <1>3, <1>9, <2>3 DEF ReadInv, DescsMade, After, Building, Desc
  <2> QED
    BY <1>2, <2>1, <2>2, <2>3 DEF Building
<1> QED
    BY <1>2, <1>a, <1>b, <1>c DEF ReadInv

LEMMA PlainRead ==
    ASSUME SamplesInv, ReadInv, Stay, PlainLabels \/ Annotate, ~ Panic, main' = main
    PROVE  ReadInv'
<1>0. /\ step \in {"labels", "annotate"} /\ step # "new"
      /\ step' \in {"annotate", "scalars"}
      /\ UNCHANGED <<intrinsec, names, kind, item, sent>>
    BY DEF PlainLabels, Annotate
<1>1. PlainNames' = PlainNames /\ PlainValues' = PlainValues
    BY <1>0 DEF PlainNames, PlainValues
<1>2. NamesRead'
    BY <1>0, <1>1, ReadsKept DEF ReadInv, NamesRead
<1>3. SentRead'
    BY <1>0, <1>1, ReadsKept DEF ReadInv, SentRead, OwnValues
<1>4. DescsMade'
    BY <1>0 DEF ReadInv, DescsMade, Building
<1>5. ValuesRead'
  <2>1. CASE PlainLabels
    <3> DEFINE xs == Fields(Values[kind])
    <3>1. /\ mem' = Append(mem, xs) /\ labels' = Whole(Len(mem) + 1, Len(Values[kind]))
          /\ step' = IF kind = "vm" /\ intrinsec THEN "annotate" ELSE "scalars"
      BY <2>1 DEF PlainLabels
    <3>2. xs \in Seq(Label) /\ Len(xs) = Len(Values[kind]) /\ mem \in Memory
      BY <1>0, ReadTypes, ValuesType, FieldsType, SampleTypes
    <3> HIDE DEF xs
    <3>3. View(mem', labels') = xs
      BY <3>1, <3>2, LiteralIs
    <3> QED
      BY <1>0, <3>1, <3>3 DEF ValuesRead, PlainValues, xs
  <2>2. CASE Annotate
    <3> DEFINE xs == Annotations(item)
    <3>1. /\ step = "annotate" /\ mem' = AppendMem(mem, labels, xs)
          /\ labels' = AppendTo(mem, labels, xs) /\ step' = "scalars"
      BY <2>2 DEF Annotate
    <3>2. xs \in Seq(Label) /\ mem \in Memory /\ Valid(mem, labels)
      BY <1>0, <3>1, ReadTypes, SampleTypes DEF SamplesInv, Apart, Looping
    <3> HIDE DEF xs
    <3>3. View(mem', labels') = View(mem, labels) \o xs
      BY <3>1, <3>2, AppendReads
    <3>4. kind = "vm" /\ intrinsec /\ View(mem, labels) = Fields(Values[kind])
      BY <3>1 DEF ReadInv, ValuesRead
    <3> QED
      BY <1>0, <3>1, <3>3, <3>4 DEF ValuesRead, PlainValues, xs
  <2> QED
    BY <2>1, <2>2
<1> QED
    BY <1>0, <1>2, <1>3, <1>4, <1>5 DEF ReadInv

(* A metric reads what was put together for it.  *)
LEMMA OneRead ==
    ASSUME SamplesInv, ReadInv, Stay, step \in Looping \ {"annotate"}, step' = step,
           main' = main, UNCHANGED <<intrinsec, names, kind, item, labels>>,
           NEW d \in DOMAIN names, NEW m1 \in Memory, NEW s1, Valid(m1, s1),
           NEW scalar, NEW v, Send(d, m1, s1, scalar, v),
           \/ d = "plain" /\ View(m1, s1) = PlainValues
           \/ d \in DOMAIN After /\ View(m1, s1) = PlainValues \o OwnValues(d, <<k, j>>)
    PROVE  ReadInv'
<1>0. step # "new"
    BY DEF Looping
<1>1. PlainNames' = PlainNames /\ PlainValues' = PlainValues
    BY DEF PlainNames, PlainValues
<1>2. NamesRead'
    BY <1>1, ReadsKept DEF ReadInv, NamesRead
<1>3. ValuesRead'
    BY <1>1, ReadsKept DEF ReadInv, ValuesRead, Looping
<1>4. DescsMade'
    BY DEF ReadInv, DescsMade
<1>5. /\ mem' = Copy(m1, s1).mem
      /\ View(Copy(m1, s1).mem, Copy(m1, s1).slice) = View(m1, s1)
    BY CopyIs DEF Send
<1>6. /\ \A n \in 1 .. Len(sent) : sent'[n] = sent[n]
      /\ sent'[Len(sent) + 1].desc = d /\ sent'[Len(sent) + 1].at = <<k, j>>
      /\ sent'[Len(sent) + 1].labels = Copy(m1, s1).slice
      /\ \A n \in 1 .. Len(sent') : n \in 1 .. Len(sent) \/ n = Len(sent) + 1
    BY SentOne
<1>7. SentRead'
  <2>1. ASSUME NEW n \in 1 .. Len(sent)
        PROVE  /\ sent'[n].desc \in DOMAIN names
               /\ \/ sent'[n].desc = "plain" /\ View(mem', sent'[n].labels) = PlainValues
                  \/ /\ sent'[n].desc \in DOMAIN After
                     /\ View(mem', sent'[n].labels) =
                           PlainValues \o OwnValues(sent'[n].desc, sent'[n].at)
    BY <1>6, <2>1, ReadsKept DEF ReadInv, SentRead
  <2>2. View(mem', sent'[Len(sent) + 1].labels) = View(m1, s1)
    BY <1>5, <1>6
  <2> QED
    BY <1>1, <1>6, <2>1, <2>2 DEF SentRead, OwnValues
<1> QED
    BY <1>0, <1>2, <1>3, <1>4, <1>7 DEF ReadInv

LEMMA ScalarRead ==
    ASSUME SamplesInv, ReadInv, Stay, SendScalar, ~ Panic, main' = main PROVE ReadInv'
<1>1. /\ step = "scalars" /\ UNCHANGED <<intrinsec, names, kind, item, labels, step>>
      /\ Send("plain", mem, labels, Scalars[kind][k], Value(Scalars[kind][k], item))
    BY DEF SendScalar
<1>2. /\ step \in Looping \ {"annotate"} /\ "plain" \in DOMAIN names
      /\ mem \in Memory /\ Valid(mem, labels) /\ View(mem, labels) = PlainValues
    BY <1>1, SampleTypes DEF Looping, SamplesInv, Apart, ReadInv, ValuesRead
<1> QED
    BY <1>1, <1>2, OneRead

LEMMA DeviceRead ==
    ASSUME SamplesInv, ReadInv, PlaceInv, Stay, SendCard \/ SendAddress \/ SendDisk, main' = main
    PROVE  ReadInv'
<1>1. /\ step \in {"cards", "nets", "disks"} /\ step' = step
      /\ UNCHANGED <<intrinsec, names, kind, item, labels>>
    BY DEF SendCard, SendAddress, SendDisk
<1>2. kind = "vm" /\ Desc \subseteq DOMAIN names
    BY <1>1 DEF PlaceInv, ReadInv, DescsMade, Building
<1>3. /\ step \in Looping \ {"annotate"} /\ mem \in Memory /\ Valid(mem, labels)
      /\ View(mem, labels) = PlainValues
    BY <1>1, SampleTypes DEF Looping, SamplesInv, Apart, ReadInv, ValuesRead
<1>4. PICK d \in DOMAIN After : SendWith(d, OwnValues(d, <<k, j>>), 0)
  <2>1. <<k, j>>[1] = k /\ <<k, j>>[2] = j
    OBVIOUS
  <2> QED
    BY <2>1 DEF SendCard, SendAddress, SendDisk, OwnValues, After
<1> DEFINE own == OwnValues(d, <<k, j>>)
<1>5. own \in Seq(Label) /\ d \in DOMAIN names
  <2>1. <<k, j>> \in Nat \X Nat /\ step # "new"
    BY <1>1, SampleTypes
  <2> QED
    BY <1>2, <2>1, ReadTypes DEF After, Desc
<1>6. Send(d, AppendMem(mem, labels, own), AppendTo(mem, labels, own), "none", 0)
    BY <1>4 DEF SendWith
<1>7. /\ AppendMem(mem, labels, own) \in Memory
      /\ Valid(AppendMem(mem, labels, own), AppendTo(mem, labels, own))
      /\ View(AppendMem(mem, labels, own), AppendTo(mem, labels, own)) = PlainValues \o own
    BY <1>3, <1>5, AppendReads
<1> QED
    BY <1>1, <1>3, <1>5, <1>6, <1>7, OneRead

LEMMA PanicDescs ==
    ASSUME SamplesNext, Panic, DescsMade PROVE DescsMade'
<1>1. step \in {"labels", "annotate", "scalars", "nets"} /\ step' = "panic"
      /\ kind' = kind /\ names' = names
  <2>1. (PlainLabels \/ Annotate \/ SendScalar \/ NextLoop) /\ Panic
    BY PanicsAt DEF Panic
  <2> QED
    BY <2>1 DEF PlainLabels, Annotate, SendScalar, NextLoop, Goes, Panic
<1> QED
    BY <1>1 DEF DescsMade, Building

LEMMA ReadStep == SamplesInv /\ PlaceInv /\ FlagsInv' /\ ReadInv /\ [Next]_vars => ReadInv'
<1> SUFFICES ASSUME SamplesInv, PlaceInv, FlagsInv', ReadInv, [Next]_vars PROVE ReadInv'
    OBVIOUS
<1>1. CASE Parse
  <2>1. step = "new" /\ step' = "new" /\ UNCHANGED <<names, sent>>
    BY <1>1 DEF Parse, FlagsNext, SetDefaults, SetValue, Repeated, ValuesSet, RunAction,
                Parsed, ReadInv
  <2>2. DOMAIN names' = {} /\ Len(sent') = 0
    BY <2>1 DEF SamplesInv
  <2> QED
    BY <2>1, <2>2 DEF ReadInv, NamesRead, SentRead, ValuesRead, DescsMade, Looping, Building
<1>2. ASSUME NEW kd \in Kinds, NEW it \in Items[kd], Make(kd, it) PROVE ReadInv'
    BY <1>2, MakeReads
<1>3. CASE Run
  <2>1. SamplesNext /\ main' = main
    BY <1>3 DEF Run, flagVars
  <2>2. /\ kind' = kind /\ item' = item /\ intrinsec' = intrinsec
        /\ step # "new" /\ step' # "new"
    BY <2>1, SameItem
  <2>3. Stay
    BY <2>1, NewDeviceLabelsKeeps, PlainLabelsKeeps, AnnotateKeeps, SendScalarKeeps,
       DevicesKeep, LoopsKeep DEF SamplesNext
  <2>4. CASE Panic
    <3>1. step' = "panic" /\ names' = names /\ labels' = labels /\ sent' = sent
          /\ mem' = mem
      BY <2>4 DEF Panic
    <3>2. PlainNames' = PlainNames /\ PlainValues' = PlainValues
      BY <2>2 DEF PlainNames, PlainValues
    <3>3. NamesRead' /\ SentRead' /\ ValuesRead'
      BY <2>2, <3>1, <3>2 DEF ReadInv, NamesRead, SentRead, ValuesRead, OwnValues, Looping
    <3>4. DescsMade'
      BY <2>1, <2>2, <2>4, <3>1, PanicDescs DEF ReadInv
    <3> QED
      BY <2>1, <2>2, <3>3, <3>4 DEF ReadInv
  <2>5. CASE NewDeviceLabels
    BY <2>1, <2>3, <2>5, DeviceNamesRead
  <2>6. CASE (PlainLabels \/ Annotate) /\ ~ Panic
    BY <2>1, <2>3, <2>6, PlainRead
  <2>7. CASE SendScalar /\ ~ Panic
    BY <2>1, <2>3, <2>7, ScalarRead
  <2>8. CASE SendCard \/ SendAddress \/ SendDisk
    BY <2>1, <2>3, <2>8, DeviceRead
  <2>9. CASE (Skip \/ NextNetwork \/ NextLoop) /\ ~ Panic
    <3>1. /\ names' = names /\ labels' = labels /\ sent' = sent
          /\ step \notin Building /\ step' \notin Building /\ step # "annotate"
          /\ step' \in Looping => step \in Looping /\ step' # "annotate"
      BY <2>9 DEF Skip, NextNetwork, NextLoop, Goes, Building, Looping
    <3> QED
      BY <2>1, <2>2, <2>3, <3>1, NothingMade
  <2> QED
    BY <2>1, <2>4, <2>5, <2>6, <2>7, <2>8, <2>9 DEF SamplesNext
<1>4. CASE UNCHANGED vars
    BY <1>4 DEF vars, flagVars, sampleVars, ReadInv, NamesRead, ValuesRead, SentRead,
                DescsMade, PlainNames, PlainValues, OwnValues
<1> QED
    BY <1>1, <1>2, <1>3, <1>4 DEF Next, Stopped

(***************************************************************************)
(* Under each label name of each metric is the value the name is about,    *)
(* for any item, with and without Intrinsec labels.                        *)
(***************************************************************************)
THEOREM LabelsArePaired == Spec => []LabelsPaired
<1>1. Init => PlaceInv /\ ReadInv
  <2> SUFFICES ASSUME Init PROVE PlaceInv /\ ReadInv
      OBVIOUS
  <2>1. step = "new" /\ DOMAIN names = {} /\ sent = <<>> /\ Len(sent) = 0 /\ k = 1
    BY DEF Init, SamplesInit
  <2> QED
    BY <2>1 DEF PlaceInv, ReadInv, NamesRead, ValuesRead, SentRead, DescsMade, Looping, Building
<1> QED
    BY <1>1, ReadPaired, ReadStep, PlaceStep, FlagsInvInit, FlagsStep, SamplesInvInit,
       SamplesStep, PTL DEF Spec

-----------------------------------------------------------------------------
(***************************************************************************)
(* What has been sent, by the loop that runs and how far it is.            *)
(***************************************************************************)
Firsts(n) == (1 .. n) \X {1}

NetsOf(nets, n) == UNION {{i} \X (1 .. nets[i]) : i \in 1 .. n}

Once ==
    \A m, n \in 1 .. Len(sent) :
        sent[m].desc = sent[n].desc /\ sent[m].at = sent[n].at => m = n

AllPlain == About("plain") = Firsts(Len(Scalars[kind]))

AllCards == About("ethernet") = Firsts(Len(item.cards))

AllNets == About("network") = NetsOf(item.nets, Len(item.nets))

LoopInv ==
    /\ Once
    /\ step \in {"new", "labels", "annotate"} \cup Building => j = 1
    /\ step \in Looping => ~ Skipped
    /\ step = "scalars" =>
          /\ k <= Len(Scalars[kind]) + 1 /\ j = 1 /\ About("plain") = Firsts(k - 1)
          /\ About("ethernet") = {} /\ About("network") = {} /\ About("disk") = {}
    /\ step = "cards" =>
          /\ k <= Len(item.cards) + 1 /\ j = 1 /\ AllPlain
          /\ About("ethernet") = Firsts(k - 1)
          /\ About("network") = {} /\ About("disk") = {}
    /\ step = "nets" =>
          /\ k <= Len(item.nets) + 1 /\ AllPlain /\ AllCards
          /\ k <= Len(item.nets) => j <= item.nets[k] + 1
          /\ k > Len(item.nets) => j = 1
          /\ About("network") = NetsOf(item.nets, k - 1) \cup {k} \X (1 .. j - 1)
          /\ About("disk") = {}
    /\ step = "disks" =>
          /\ k <= Len(item.disks) + 1 /\ j = 1 /\ AllPlain /\ AllCards /\ AllNets
          /\ About("disk") = Firsts(k - 1)
    /\ ItemComplete

LEMMA FirstsNext == \A n \in Nat : Firsts(n + 1) = Firsts(n) \cup {<<n + 1, 1>>}
BY DEF Firsts

LEMMA NetsNext ==
    ASSUME NEW n \in Nat, NEW nets
    PROVE  NetsOf(nets, n + 1) = NetsOf(nets, n) \cup {n + 1} \X (1 .. nets[n + 1])
<1>1. 1 .. n + 1 = 1 .. n \cup {n + 1}
    OBVIOUS
<1> QED
    BY <1>1 DEF NetsOf

LEMMA NothingAbout == ASSUME sent = <<>> PROVE \A d : About(d) = {}
BY DEF About

(* What a metric adds.  *)
LEMMA AboutGrows ==
    ASSUME NEW d, NEW at, Len(sent) \in Nat, Len(sent') = Len(sent) + 1,
           \A n \in 1 .. Len(sent) : sent'[n] = sent[n],
           sent'[Len(sent) + 1].desc = d, sent'[Len(sent) + 1].at = at
    PROVE  /\ About(d)' = About(d) \cup {at}
           /\ \A e : e # d => About(e)' = About(e)
           /\ Once /\ at \notin About(d) => Once'
<1>1. 1 .. Len(sent') = 1 .. Len(sent) \cup {Len(sent) + 1}
    OBVIOUS
<1>2. About(d)' = About(d) \cup {at}
    BY <1>1 DEF About
<1>3. ASSUME NEW e, e # d PROVE About(e)' = About(e)
    BY <1>1, <1>3 DEF About
<1>4. ASSUME Once, at \notin About(d), NEW m \in 1 .. Len(sent'), NEW n \in 1 .. Len(sent'),
             sent'[m].desc = sent'[n].desc, sent'[m].at = sent'[n].at
      PROVE  m = n
  <2>1. \A i \in 1 .. Len(sent) : ~ (sent[i].desc = d /\ sent[i].at = at)
    BY <1>4 DEF About
  <2> QED
    BY <1>1, <1>4, <2>1 DEF Once
<1>5. Once /\ at \notin About(d) => Once'
    BY <1>4 DEF Once
<1> QED
    BY <1>2, <1>3, <1>5

LEMMA LoopTypes ==
    ASSUME SamplesInv
    PROVE  /\ Len(item.cards) \in Nat /\ Len(item.nets) \in Nat /\ Len(item.disks) \in Nat
           /\ \A n \in 1 .. Len(item.nets) : item.nets[n] \in Nat
           /\ k \in Nat \ {0} /\ j \in Nat \ {0} /\ Len(sent) \in Nat
           /\ step # "new" => kind \in AllKinds /\ Len(Scalars[kind]) \in Nat
<1>1. item.cards \in Seq(BOOLEAN) /\ item.nets \in Seq(Nat) /\ item.disks \in Seq(BOOLEAN)
    BY SampleTypes DEF Item
<1>2. step # "new" => kind \in AllKinds /\ Len(Scalars[kind]) \in Nat
  <2>1. step # "new" => kind \in AllKinds
    BY SamplesAssumption DEF SamplesInv, AllKinds
  <2>2. kind \in AllKinds => Len(Scalars[kind]) \in Nat
    BY ScalarsType
  <2> QED
    BY <2>1, <2>2
<1> QED
    BY <1>1, <1>2, SampleTypes

(* Update is not in a loop: nothing to count.  *)
LEMMA NotLooping ==
    ASSUME Once', step' \notin Looping \cup {"done"},
           step' \in {"new", "labels", "annotate"} \cup Building => j' = 1
    PROVE  LoopInv'
BY DEF LoopInv, Looping, ItemComplete

LEMMA LoopsBegin ==
    ASSUME SamplesInv, PlaceInv, LoopInv, PlainLabels \/ Annotate, ~ Panic
    PROVE  LoopInv'
<1>1. /\ step \in {"labels", "annotate"} /\ step' \in {"annotate", "scalars"}
      /\ sent' = sent /\ kind' = kind /\ item' = item /\ k' = k /\ j' = j
    BY DEF PlainLabels, Annotate
<1>2. sent' = <<>> /\ k' = 1 /\ j' = 1 /\ Len(sent') = 0
    BY <1>1 DEF PlaceInv, LoopInv
<1>3. Once' /\ About("plain")' = {} /\ About("ethernet")' = {} /\ About("network")' = {}
      /\ About("disk")' = {}
    BY <1>2 DEF Once, About
<1>4. ~ Skipped'
    BY <1>1 DEF PlainLabels, Annotate, LoopInv, Looping, Skipped
<1>5. Firsts(k' - 1) = {} /\ k' <= Len(Scalars[kind]) + 1
    BY <1>1, <1>2, LoopTypes DEF Firsts
<1> QED
    BY <1>1, <1>2, <1>3, <1>4, <1>5 DEF LoopInv, Looping, ItemComplete

LEMMA ScalarCounts ==
    ASSUME SamplesInv, LoopInv, SendScalar, ~ Panic PROVE LoopInv'
<1>1. /\ step = "scalars" /\ step' = step /\ k <= Len(Scalars[kind])
      /\ kind' = kind /\ item' = item /\ k' = k + 1 /\ j' = j
    BY DEF SendScalar
<1>2. /\ j = 1 /\ About("plain") = Firsts(k - 1) /\ About("ethernet") = {}
      /\ About("network") = {} /\ About("disk") = {} /\ Once /\ ~ Skipped
    BY <1>1 DEF LoopInv, Looping
<1>3. /\ About("plain")' = About("plain") \cup {<<k, j>>}
      /\ \A e : e # "plain" => About(e)' = About(e)
      /\ <<k, j>> \notin About("plain") => Once'
  <2>1. /\ Len(sent') = Len(sent) + 1 /\ \A n \in 1 .. Len(sent) : sent'[n] = sent[n]
        /\ sent'[Len(sent) + 1].desc = "plain" /\ sent'[Len(sent) + 1].at = <<k, j>>
    BY <1>1, SentIs DEF SendCard, SendAddress, SendDisk
  <2> QED
    BY <1>2, <2>1, LoopTypes, AboutGrows
<1>4. <<k, j>> \notin About("plain")
    BY <1>2, LoopTypes DEF Firsts
<1>5. About("plain")' = Firsts(k' - 1)
  <2>1. k - 1 \in Nat /\ (k - 1) + 1 = k /\ k' - 1 = k
    BY <1>1, LoopTypes
  <2> QED
    BY <1>2, <1>3, <2>1, FirstsNext
<1>6. k' <= Len(Scalars[kind]) + 1 /\ ~ Skipped'
    BY <1>1, <1>2, LoopTypes DEF Skipped
<1> QED
    BY <1>1, <1>2, <1>3, <1>4, <1>5, <1>6 DEF LoopInv, Looping, ItemComplete

LEMMA CardCounts ==
    ASSUME SamplesInv, LoopInv, SendCard PROVE LoopInv'
<1>1. /\ step = "cards" /\ step' = step /\ k <= Len(item.cards)
      /\ kind' = kind /\ item' = item /\ k' = k + 1 /\ j' = j
    BY DEF SendCard
<1>2. /\ j = 1 /\ AllPlain /\ About("ethernet") = Firsts(k - 1)
      /\ About("network") = {} /\ About("disk") = {} /\ Once /\ ~ Skipped
    BY <1>1 DEF LoopInv, Looping
<1>3. /\ About("ethernet")' = About("ethernet") \cup {<<k, j>>}
      /\ \A e : e # "ethernet" => About(e)' = About(e)
      /\ <<k, j>> \notin About("ethernet") => Once'
  <2>1. /\ Len(sent') = Len(sent) + 1 /\ \A n \in 1 .. Len(sent) : sent'[n] = sent[n]
        /\ sent'[Len(sent) + 1].desc = "ethernet" /\ sent'[Len(sent) + 1].at = <<k, j>>
    BY <1>1, SentIs DEF SendScalar, SendAddress, SendDisk, Panic
  <2> QED
    BY <1>2, <2>1, LoopTypes, AboutGrows
<1>4. <<k, j>> \notin About("ethernet")
    BY <1>2, LoopTypes DEF Firsts
<1>5. About("ethernet")' = Firsts(k' - 1)
  <2>1. k - 1 \in Nat /\ (k - 1) + 1 = k /\ k' - 1 = k
    BY <1>1, LoopTypes
  <2> QED
    BY <1>2, <1>3, <2>1, FirstsNext
<1>6. k' <= Len(item.cards) + 1 /\ ~ Skipped' /\ AllPlain'
    BY <1>1, <1>2, <1>3, LoopTypes DEF Skipped, AllPlain
<1> QED
    BY <1>1, <1>2, <1>3, <1>4, <1>5, <1>6 DEF LoopInv, Looping, ItemComplete

LEMMA DiskCounts ==
    ASSUME SamplesInv, LoopInv, SendDisk PROVE LoopInv'
<1>1. /\ step = "disks" /\ step' = step /\ k <= Len(item.disks)
      /\ kind' = kind /\ item' = item /\ k' = k + 1 /\ j' = j
    BY DEF SendDisk
<1>2. /\ j = 1 /\ AllPlain /\ AllCards /\ AllNets /\ About("disk") = Firsts(k - 1)
      /\ Once /\ ~ Skipped
    BY <1>1 DEF LoopInv, Looping
<1>3. /\ About("disk")' = About("disk") \cup {<<k, j>>}
      /\ \A e : e # "disk" => About(e)' = About(e)
      /\ <<k, j>> \notin About("disk") => Once'
  <2>1. /\ Len(sent') = Len(sent) + 1 /\ \A n \in 1 .. Len(sent) : sent'[n] = sent[n]
        /\ sent'[Len(sent) + 1].desc = "disk" /\ sent'[Len(sent) + 1].at = <<k, j>>
    BY <1>1, SentIs DEF SendScalar, SendAddress, SendCard, Panic
  <2> QED
    BY <1>2, <2>1, LoopTypes, AboutGrows
<1>4. <<k, j>> \notin About("disk")
    BY <1>2, LoopTypes DEF Firsts
<1>5. About("disk")' = Firsts(k' - 1)
  <2>1. k - 1 \in Nat /\ (k - 1) + 1 = k /\ k' - 1 = k
    BY <1>1, LoopTypes
  <2> QED
    BY <1>2, <1>3, <2>1, FirstsNext
<1>6. /\ k' <= Len(item.disks) + 1 /\ ~ Skipped'
      /\ AllPlain' /\ AllCards' /\ AllNets'
  <2>1. k' <= Len(item.disks) + 1 /\ ~ Skipped'
    BY <1>1, <1>2, LoopTypes DEF Skipped
  <2>2. AllPlain' /\ AllCards' /\ AllNets'
    BY <1>1, <1>2, <1>3 DEF AllPlain, AllCards, AllNets
  <2> QED
    BY <2>1, <2>2
<1> QED
    BY <1>1, <1>2, <1>3, <1>4, <1>5, <1>6 DEF LoopInv, Looping, ItemComplete

LEMMA AddressCounts ==
    ASSUME SamplesInv, LoopInv, SendAddress PROVE LoopInv'
<1>1. /\ step = "nets" /\ step' = step /\ k <= Len(item.nets) /\ j <= item.nets[k]
      /\ kind' = kind /\ item' = item /\ k' = k /\ j' = j + 1
    BY DEF SendAddress
<1>2. /\ AllPlain /\ AllCards /\ About("network") = NetsOf(item.nets, k - 1) \cup {k} \X (1 .. j - 1)
      /\ About("disk") = {} /\ Once /\ ~ Skipped
    BY <1>1 DEF LoopInv, Looping
<1>3. /\ About("network")' = About("network") \cup {<<k, j>>}
      /\ \A e : e # "network" => About(e)' = About(e)
      /\ <<k, j>> \notin About("network") => Once'
  <2>1. /\ Len(sent') = Len(sent) + 1 /\ \A n \in 1 .. Len(sent) : sent'[n] = sent[n]
        /\ sent'[Len(sent) + 1].desc = "network" /\ sent'[Len(sent) + 1].at = <<k, j>>
    BY <1>1, SentIs DEF SendScalar, SendDisk, SendCard, Panic
  <2> QED
    BY <1>2, <2>1, LoopTypes, AboutGrows
<1>4. <<k, j>> \notin About("network")
  <2>1. <<k, j>> \notin NetsOf(item.nets, k - 1)
    BY LoopTypes DEF NetsOf
  <2>2. <<k, j>> \notin {k} \X (1 .. j - 1)
    BY LoopTypes
  <2> QED
    BY <1>2, <2>1, <2>2
<1>5. About("network")' = NetsOf(item'.nets, k' - 1) \cup {k'} \X (1 .. j' - 1)
  <2>1. {k} \X (1 .. j - 1) \cup {<<k, j>>} = {k} \X (1 .. j)
    BY LoopTypes
  <2>2. j' - 1 = j /\ NetsOf(item'.nets, k' - 1) = NetsOf(item.nets, k - 1)
    BY <1>1, LoopTypes
  <2> QED
    BY <1>1, <1>2, <1>3, <2>1, <2>2
<1>6. /\ k' <= Len(item.nets) + 1 /\ j' <= item.nets[k] + 1 /\ ~ Skipped'
      /\ AllPlain' /\ AllCards'
    BY <1>1, <1>2, <1>3, LoopTypes DEF Skipped, AllPlain, AllCards
<1>7. ~ k' > Len(item.nets)
    BY <1>1, LoopTypes
<1>8. About("disk")' = {} /\ Once'
    BY <1>2, <1>3, <1>4
<1>9. /\ k' <= Len(item'.nets) + 1
      /\ k' <= Len(item'.nets) => j' <= item'.nets[k'] + 1
      /\ k' > Len(item'.nets) => j' = 1
    BY <1>1, <1>6, <1>7
<1> QED
    BY <1>1, <1>5, <1>6, <1>8, <1>9 DEF LoopInv, Looping, ItemComplete, Building

LEMMA NextNetworkCounts ==
    ASSUME SamplesInv, LoopInv, NextNetwork PROVE LoopInv'
<1>1. /\ step = "nets" /\ step' = step /\ k <= Len(item.nets) /\ j > item.nets[k]
      /\ kind' = kind /\ item' = item /\ sent' = sent /\ k' = k + 1 /\ j' = 1
    BY DEF NextNetwork
<1>2. /\ AllPlain /\ AllCards /\ About("network") = NetsOf(item.nets, k - 1) \cup {k} \X (1 .. j - 1)
      /\ About("disk") = {} /\ Once /\ ~ Skipped /\ j <= item.nets[k] + 1
    BY <1>1 DEF LoopInv, Looping
<1>3. k \in 1 .. Len(item.nets) /\ item.nets[k] \in Nat /\ j - 1 = item.nets[k]
    BY <1>1, <1>2, LoopTypes
<1>4. k - 1 \in Nat /\ (k - 1) + 1 = k /\ k' - 1 = k /\ {k + 1} \X (1 .. 0) = {}
    BY <1>1, LoopTypes
<1>5. About("network") = NetsOf(item.nets, k)
  <2>1. NetsOf(item.nets, (k - 1) + 1) =
            NetsOf(item.nets, k - 1) \cup {(k - 1) + 1} \X (1 .. item.nets[(k - 1) + 1])
    BY <1>4, NetsNext
  <2>2. NetsOf(item.nets, k) = NetsOf(item.nets, k - 1) \cup {k} \X (1 .. item.nets[k])
    BY <1>4, <2>1
  <2> QED
    BY <1>2, <1>3, <2>2
<1>6. About("network")' = NetsOf(item'.nets, k' - 1) \cup {k'} \X (1 .. j' - 1)
  <2>1. About("network")' = About("network") /\ NetsOf(item'.nets, k' - 1) = NetsOf(item.nets, k)
    BY <1>1, <1>4 DEF About
  <2>2. {k'} \X (1 .. j' - 1) = {}
    BY <1>1
  <2> QED
    BY <1>5, <2>1, <2>2
<1>7. AllPlain' /\ AllCards' /\ About("disk")' = {} /\ Once' /\ ~ Skipped'
  <2>1. \A d : About(d)' = About(d)
    BY <1>1 DEF About
  <2>2. AllPlain' /\ AllCards' /\ About("disk")' = {}
    BY <1>1, <1>2, <2>1 DEF AllPlain, AllCards
  <2>3. Once' /\ ~ Skipped'
    BY <1>1, <1>2 DEF Once, Skipped
  <2> QED
    BY <2>2, <2>3
<1>8. /\ k' <= Len(item.nets) + 1
      /\ k' <= Len(item.nets) => j' <= item.nets[k'] + 1
    BY <1>1, <1>3, LoopTypes
<1> QED
    BY <1>1, <1>6, <1>7, <1>8 DEF LoopInv, Looping, ItemComplete

LEMMA NextLoopCounts ==
    ASSUME SamplesInv, PlaceInv, LoopInv, NextLoop, ~ Panic PROVE LoopInv'
<1>1. kind' = kind /\ item' = item /\ sent' = sent /\ k' = 1 /\ j' = 1
    BY DEF NextLoop, Goes
<1>2. /\ \A d : About(d)' = About(d)
      /\ Once' = Once /\ Skipped' = Skipped
      /\ AllPlain' = AllPlain /\ AllCards' = AllCards /\ AllNets' = AllNets
    BY <1>1 DEF About, Once, Skipped, AllPlain, AllCards, AllNets, NetsOf
<1>3. Firsts(0) = {} /\ NetsOf(item.nets, 0) = {} /\ {1} \X (1 .. 0) = {}
    BY DEF Firsts, NetsOf
<1>4. CASE step = "scalars"
  <2>1. k > Len(Scalars[kind]) /\ step' = IF kind = "vm" THEN "cards" ELSE "done"
    BY <1>4 DEF NextLoop, Goes
  <2>2. k - 1 = Len(Scalars[kind]) /\ ~ Skipped /\ Once
    BY <1>4, <2>1, LoopTypes DEF LoopInv, Looping
  <2>3. AllPlain /\ About("ethernet") = {} /\ About("network") = {} /\ About("disk") = {}
    BY <1>4, <2>2 DEF LoopInv, AllPlain
  <2>4. 1 <= Len(item.cards) + 1
    BY LoopTypes
  <2> QED
    BY <1>1, <1>2, <1>3, <2>1, <2>2, <2>3, <2>4
    DEF LoopInv, Looping, ItemComplete, Once, AllPlain, Firsts, Building
<1>5. CASE step = "cards"
  <2>1. k > Len(item.cards) /\ step' = "nets"
    BY <1>5 DEF NextLoop, Goes
  <2>2. k - 1 = Len(item.cards) /\ ~ Skipped /\ Once /\ AllPlain
    BY <1>5, <2>1, LoopTypes DEF LoopInv, Looping
  <2>3. AllCards /\ About("network") = {} /\ About("disk") = {}
    BY <1>5, <2>2 DEF LoopInv, AllCards
  <2>4. 1 <= Len(item.nets) + 1 /\ (1 <= Len(item.nets) => 1 <= item.nets[1] + 1)
    BY LoopTypes
  <2>5. About("network")' = NetsOf(item'.nets, k' - 1) \cup {k'} \X (1 .. j' - 1)
    BY <1>1, <1>2, <2>3 DEF NetsOf
  <2> QED
    BY <1>1, <1>2, <2>1, <2>2, <2>3, <2>4, <2>5 DEF LoopInv, Looping, ItemComplete, Building
<1>6. CASE step = "nets"
  <2>1. k > Len(item.nets) /\ step' = "disks"
    BY <1>6 DEF NextLoop, Goes
  <2>2. /\ k - 1 = Len(item.nets) /\ j = 1 /\ ~ Skipped /\ Once /\ AllPlain /\ AllCards
        /\ About("disk") = {}
    BY <1>6, <2>1, LoopTypes DEF LoopInv, Looping
  <2>3. AllNets
    <3>1. About("network") = NetsOf(item.nets, k - 1) \cup {k} \X (1 .. j - 1)
      BY <1>6 DEF LoopInv
    <3>2. {k} \X (1 .. j - 1) = {}
      BY <2>2
    <3> QED
      BY <2>2, <3>1, <3>2 DEF AllNets
  <2>4. 1 <= Len(item.disks) + 1
    BY LoopTypes
  <2> QED
    <3>1. About("disk")' = Firsts(k' - 1)
      <4>1. k' - 1 = 0 /\ About("disk")' = {}
        BY <1>1, <1>2, <2>2
      <4> QED
        BY <1>3, <4>1
    <3>2. k' <= Len(item'.disks) + 1
      BY <1>1, <2>4
    <3> QED
      BY <1>1, <1>2, <2>1, <2>2, <2>3, <3>1, <3>2 DEF LoopInv, Looping, ItemComplete, Building
<1>7. CASE step = "disks"
  <2>1. k > Len(item.disks) /\ step' = "done"
    BY <1>7 DEF NextLoop, Goes
  <2>2. /\ k - 1 = Len(item.disks) /\ ~ Skipped /\ Once /\ AllPlain /\ AllCards /\ AllNets
    BY <1>7, <2>1, LoopTypes DEF LoopInv, Looping
  <2>3. About("disk") = Firsts(Len(item.disks))
    BY <1>7, <2>2 DEF LoopInv
  <2>4. ItemComplete'
    BY <1>1, <1>2, <2>1, <2>2, <2>3
    DEF ItemComplete, Once, AllPlain, AllCards, AllNets, Firsts, NetsOf
  <2> QED
    BY <1>1, <1>2, <2>1, <2>2, <2>4 DEF LoopInv, Looping, Building
<1> QED
    BY <1>4, <1>5, <1>6, <1>7 DEF NextLoop

LEMMA LoopStep == SamplesInv /\ PlaceInv /\ LoopInv /\ [Next]_vars => LoopInv'
<1> SUFFICES ASSUME SamplesInv, PlaceInv, LoopInv, [Next]_vars PROVE LoopInv'
    OBVIOUS
<1>1. CASE UNCHANGED <<kind, item, sent, step, k, j>>
  <2>1. /\ kind' = kind /\ item' = item /\ sent' = sent /\ step' = step
        /\ k' = k /\ j' = j
    BY <1>1
  <2>2. /\ \A d : About(d)' = About(d)
        /\ Once' = Once /\ Skipped' = Skipped
    BY <2>1 DEF About, Once, Skipped
  <2>3. AllPlain' = AllPlain /\ AllCards' = AllCards /\ AllNets' = AllNets
    BY <2>1, <2>2 DEF AllPlain, AllCards, AllNets
  <2>4. ItemComplete'
    BY <2>1, <2>2 DEF LoopInv, ItemComplete, About
  <2> QED
    BY <2>1, <2>2, <2>3, <2>4 DEF LoopInv
<1>2. ASSUME NEW kd \in Kinds, NEW it \in Items[kd], Make(kd, it) PROVE LoopInv'
  <2>1. step = "new" /\ step' \in {"network", "labels"} /\ sent' = sent /\ j' = j
    BY <1>2 DEF Make, NewLabels
  <2>2. Once' /\ j' = 1
    BY <2>1 DEF LoopInv, Once
  <2> QED
    BY <2>1, <2>2, NotLooping DEF Looping
<1>3. CASE Run
  <2>1. SamplesNext
    BY <1>3 DEF Run
  <2>2. CASE Panic
    <3>1. step' = "panic" /\ sent' = sent
      BY <2>2 DEF Panic
    <3>2. Once'
      BY <3>1 DEF LoopInv, Once
    <3> QED
      BY <3>1, <3>2, NotLooping DEF Looping, Building
  <2>3. CASE NewDeviceLabels
    <3>1. step \in Building /\ step' \in Building \cup {"labels"} /\ sent' = sent /\ j' = j
      BY <2>3 DEF NewDeviceLabels, After, Building
    <3>2. Once' /\ j' = 1
      BY <3>1 DEF LoopInv, Once
    <3> QED
      BY <3>1, <3>2, NotLooping DEF Looping, Building
  <2>4. CASE Skip
    <3>1. /\ step = "labels" /\ step' = "done" /\ Skipped /\ sent' = sent
          /\ kind' = kind /\ item' = item
      BY <2>4 DEF Skip
    <3>2. Skipped' /\ sent' = <<>> /\ Once'
      BY <3>1 DEF PlaceInv, Skipped, LoopInv, Once
    <3> QED
      BY <3>1, <3>2 DEF LoopInv, ItemComplete, Looping, Building
  <2> QED
    BY <2>1, <2>2, <2>3, <2>4, LoopsBegin, ScalarCounts, CardCounts, AddressCounts,
       NextNetworkCounts, DiskCounts, NextLoopCounts DEF SamplesNext
<1> QED
    BY <1>1, <1>2, <1>3 DEF Next, Parse, Stopped, vars, sampleVars

(***************************************************************************)
(* Every device, every address and every plain metric is reported, once,   *)
(* for any item.                                                           *)
(***************************************************************************)
THEOREM ItemsComplete == Spec => []ItemComplete
<1>1. Init => PlaceInv /\ LoopInv
    BY DEF Init, SamplesInit, PlaceInv, LoopInv, Once, ItemComplete, Looping, Building
<1>2. LoopInv => ItemComplete
    BY DEF LoopInv
<1> QED
    BY <1>1, <1>2, LoopStep, PlaceStep, FlagsInvInit, FlagsStep, SamplesInvInit, SamplesStep,
       PTL DEF Spec
=============================================================================

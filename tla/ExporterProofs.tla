--------------------------- MODULE ExporterProofs ---------------------------
(***************************************************************************)
(* Proofs about Exporter for any collectors, command lines, items and      *)
(* widths of numbers: its flags, its slices, its values and its panics.    *)
(***************************************************************************)
EXTENDS Exporter, SliceProofs

(***************************************************************************)
(* The command line: no argument that has been set repeats another, a flag *)
(* that has been set is as its argument says, one that is not given is at  *)
(* its default, and the collectors whose actions have run are forced.      *)
(***************************************************************************)
Settled(n) == \A m \in 1 .. n : value[args[m].flag] = args[m].value

Distinct(n) == \A l, m \in 1 .. n : args[l].flag = args[m].flag => l = m

Defaults == \A f \in Flag \ Given : value[f] <=> f \in ByDefault

ForcedUpTo(n) ==
    /\ \A c \in forced : \E m \in 1 .. n : args[m].flag = c
    /\ \A m \in 1 .. n : args[m].flag \in Collector => args[m].flag \in forced

FlagsInv ==
    /\ FlagsTypeOK
    /\ main = "defaults" => next = 1 /\ forced = {}
    /\ main = "values" =>
          /\ next \in 1 .. Len(args) + 1 /\ forced = {}
          /\ Settled(next - 1) /\ Distinct(next - 1) /\ Defaults
    /\ main = "actions" =>
          /\ next \in 1 .. Len(args) + 1
          /\ Settled(Len(args)) /\ Distinct(Len(args)) /\ Defaults
          /\ ForcedUpTo(next - 1)
    /\ EnabledAsAsked

-----------------------------------------------------------------------------
LEMMA ArgType ==
    ASSUME FlagsTypeOK
    PROVE  /\ Len(args) \in Nat /\ next \in Nat /\ args \in Seq(Arg)
           /\ \A n \in 1 .. Len(args) : /\ args[n].flag \in Flag /\ args[n].value \in BOOLEAN
                                        /\ args[n] = [flag |-> args[n].flag, value |-> args[n].value]
<1>1. args \in Seq(Arg) /\ next \in Nat
    BY DEF FlagsTypeOK
<1>2. ASSUME NEW n \in 1 .. Len(args)
      PROVE  /\ args[n].flag \in Flag /\ args[n].value \in BOOLEAN
             /\ args[n] = [flag |-> args[n].flag, value |-> args[n].value]
  <2>1. args[n] \in Arg
    BY <1>1, <1>2
  <2> QED
    BY <2>1 DEF Arg
<1> QED
    BY <1>1, <1>2

LEMMA FlagsInvInit == Init => FlagsInv
<1> SUFFICES ASSUME Init PROVE FlagsInv
    OBVIOUS
<1>1. args \in Seq(Arg)
  <2>1. PICK n \in 0 .. MaxArgs : args \in [1 .. n -> Arg]
    BY DEF Init, FlagsInit
  <2> QED
    BY <2>1, FlagsAssumption
<1>2. FlagsTypeOK
    BY <1>1 DEF Init, FlagsInit, FlagsTypeOK
<1> QED
    BY <1>2 DEF Init, FlagsInit, FlagsInv, EnabledAsAsked

(* A flag is as it was asked, once all the values are set.  *)
LEMMA AskedValue ==
    ASSUME FlagsTypeOK, Settled(Len(args)), Distinct(Len(args)), Defaults, NEW f \in Flag
    PROVE  value[f] <=> IF f \in Given THEN Asked(f, TRUE) ELSE f \in ByDefault
<1>1. CASE f \notin Given
    BY <1>1 DEF Defaults
<1>2. ASSUME f \in Given PROVE value[f] <=> Asked(f, TRUE)
  <2>1. PICK n \in 1 .. Len(args) : args[n].flag = f
    BY <1>2 DEF Given
  <2>2. value[f] = args[n].value
    BY <2>1 DEF Settled
  <2>3. ASSUME args[n].value = TRUE PROVE Asked(f, TRUE)
    BY <2>1, <2>3, ArgType DEF Asked
  <2>4. ASSUME Asked(f, TRUE) PROVE args[n].value = TRUE
    <3>1. PICK m \in 1 .. Len(args) : args[m] = [flag |-> f, value |-> TRUE]
      BY <2>4 DEF Asked
    <3>2. args[m].flag = f /\ args[m].value = TRUE
      BY <3>1
    <3>3. m = n
      BY <2>1, <3>2 DEF Distinct
    <3> QED
      BY <3>2, <3>3
  <2>5. args[n].value \in BOOLEAN
    BY ArgType
  <2> QED
    BY <2>2, <2>3, <2>4, <2>5
<1> QED
    BY <1>1, <1>2

(* Whatever the order of the arguments, the server starts with what they   *)
(* ask for.                                                                *)
LEMMA ParsedAsAsked ==
    ASSUME FlagsInv, Parsed PROVE EnabledAsAsked'
<1>1. /\ FlagsTypeOK /\ Settled(Len(args)) /\ Distinct(Len(args)) /\ Defaults
      /\ next = Len(args) + 1 /\ ForcedUpTo(Len(args))
    BY ArgType DEF FlagsInv, Parsed
<1> DEFINE off == "collector.disable-defaults"
<1>2. off \in Flag /\ off \notin ByDefault /\ Collector \subseteq Flag
    BY FlagsAssumption DEF Flag, Switch
<1>3. value[off] <=> Asked(off, TRUE)
  <2>1. Asked(off, TRUE) => off \in Given
    BY DEF Asked, Given
  <2> QED
    BY <1>1, <1>2, <2>1, AskedValue
<1>4. \A c \in Collector : c \in forced <=> c \in Given
    BY <1>1 DEF ForcedUpTo, Given
<1>5. ASSUME NEW c \in Collector
      PROVE  value'[c] <=> IF c \in Given THEN Asked(c, TRUE)
                           ELSE c \in ByDefault /\ ~ Asked(off, TRUE)
  <2>1. value[c] <=> IF c \in Given THEN Asked(c, TRUE) ELSE c \in ByDefault
    BY <1>1, <1>2, AskedValue
  <2>2. CASE value[off]
    <3>1. value'[c] <=> c \in Given /\ value[c]
      BY <1>2, <1>4, <2>2 DEF Parsed, Disabled
    <3> QED
      BY <1>3, <2>1, <2>2, <3>1
  <2>3. CASE ~ value[off]
    BY <1>3, <2>1, <2>3 DEF Parsed
  <2> QED
    BY <2>2, <2>3
<1>6. UNCHANGED args
    BY DEF Parsed
<1> QED
    BY <1>5, <1>6 DEF EnabledAsAsked, On, Given, Asked

LEMMA FlagsStep == FlagsInv /\ [Next]_vars => FlagsInv'
<1> SUFFICES ASSUME FlagsInv, [Next]_vars PROVE FlagsInv'
    OBVIOUS
<1>0. FlagsTypeOK /\ Len(args) \in Nat /\ next \in Nat
    BY ArgType DEF FlagsInv
<1>1. CASE SetDefaults
  <2>1. value' \in [Flag -> BOOLEAN] /\ \A f \in Flag : value'[f] <=> f \in ByDefault /\ f \notin Given
    BY <1>1 DEF SetDefaults
  <2>2. FlagsTypeOK'
    BY <1>0, <1>1, <2>1 DEF SetDefaults, FlagsTypeOK
  <2>3. Defaults'
    BY <1>1, <2>1 DEF SetDefaults, Defaults, Given
  <2>4. next' = 1 /\ forced' = {} /\ main' = "values" /\ UNCHANGED args
    BY <1>1 DEF SetDefaults, FlagsInv
  <2> QED
    BY <1>0, <2>2, <2>3, <2>4 DEF FlagsInv, Settled, Distinct, EnabledAsAsked
<1>2. CASE SetValue
  <2>1. /\ next \in 1 .. Len(args) /\ forced = {} /\ main' = "values" /\ main = "values"
        /\ Settled(next - 1) /\ Distinct(next - 1) /\ Defaults
        /\ next' = next + 1 /\ UNCHANGED <<args, forced>>
    BY <1>0, <1>2 DEF SetValue, FlagsInv
  <2>2. args[next].flag \in Flag /\ args[next].value \in BOOLEAN /\ args[next].flag \in Given
    BY <1>0, <2>1, ArgType DEF Given
  <2>3. value' = [value EXCEPT ![args[next].flag] = args[next].value]
        /\ value \in [Flag -> BOOLEAN]
    BY <1>0, <1>2 DEF SetValue, FlagsTypeOK
  <2>4. value' \in [Flag -> BOOLEAN] /\ value'[args[next].flag] = args[next].value
        /\ \A f \in Flag \ {args[next].flag} : value'[f] = value[f]
    BY <2>2, <2>3
  <2>5. FlagsTypeOK'
    BY <1>0, <2>1, <2>4 DEF FlagsTypeOK
  <2>6. Defaults'
    BY <2>1, <2>2, <2>4 DEF Defaults, Given
  <2>7. \A m \in 1 .. next - 1 : args[m].flag # args[next].flag /\ args[m].flag \in Flag
    <3>1. \A m \in 1 .. next - 1 : m \in 1 .. Len(args)
      BY <1>0, <2>1
    <3> QED
      BY <1>0, <1>2, <3>1, ArgType DEF SetValue
  <2>a. next' - 1 = next
    BY <1>0, <2>1
  <2>8. Settled(next - 1)'
    <3>1. ASSUME NEW m \in 1 .. next PROVE value'[args[m].flag] = args[m].value
      BY <1>0, <2>1, <2>4, <2>7, <3>1 DEF Settled
    <3> QED
      BY <2>1, <2>a, <3>1 DEF Settled
  <2>9. Distinct(next - 1)'
    <3>1. ASSUME NEW l \in 1 .. next, NEW m \in 1 .. next, args[l].flag = args[m].flag
          PROVE  l = m
      BY <1>0, <2>1, <2>7, <3>1 DEF Distinct
    <3> QED
      BY <2>1, <2>a, <3>1 DEF Distinct
  <2> QED
    BY <1>0, <2>1, <2>5, <2>6, <2>8, <2>9 DEF FlagsInv, Settled, Distinct, EnabledAsAsked
<1>3. CASE Repeated
  <2>1. FlagsTypeOK'
    BY <1>0, <1>3 DEF Repeated, FlagsTypeOK
  <2> QED
    BY <1>3, <2>1 DEF Repeated, FlagsInv, EnabledAsAsked
<1>4. CASE ValuesSet
  <2>1. /\ next = Len(args) + 1 /\ forced = {} /\ Defaults
        /\ Settled(next - 1) /\ Distinct(next - 1)
        /\ next' = 1 /\ main' = "actions" /\ UNCHANGED <<args, value, forced>>
    BY <1>0, <1>4 DEF ValuesSet, FlagsInv
  <2>2. FlagsTypeOK'
    BY <1>0, <2>1 DEF FlagsTypeOK
  <2>3. next - 1 = Len(args) /\ next' \in 1 .. Len(args) + 1
    BY <1>0, <2>1
  <2>4. Settled(Len(args))' /\ Distinct(Len(args))' /\ Defaults' /\ ForcedUpTo(next - 1)'
    BY <2>1, <2>3 DEF Settled, Distinct, Defaults, Given, ForcedUpTo
  <2> QED
    BY <2>1, <2>2, <2>3, <2>4 DEF FlagsInv, EnabledAsAsked
<1>5. CASE RunAction
  <2>1. /\ next \in 1 .. Len(args) /\ Settled(Len(args)) /\ Distinct(Len(args)) /\ Defaults
        /\ ForcedUpTo(next - 1) /\ main = "actions"
        /\ next' = next + 1 /\ UNCHANGED <<args, main, value>>
    BY <1>0, <1>5 DEF RunAction, FlagsInv
  <2>2. forced' = IF args[next].flag \in Collector THEN forced \cup {args[next].flag} ELSE forced
    BY <1>5 DEF RunAction, Forces
  <2>3. FlagsTypeOK'
    BY <1>0, <2>1, <2>2 DEF FlagsTypeOK
  <2>4. \A m \in 1 .. next : m \in 1 .. next - 1 \/ m = next
    BY <1>0
  <2>5. \A m \in 1 .. next - 1 : m \in 1 .. next
    BY <1>0
  <2>6. next \in 1 .. next /\ next' - 1 = next /\ next' \in 1 .. Len(args) + 1
    BY <1>0, <2>1
  <2>7. ForcedUpTo(next - 1)'
    BY <2>1, <2>2, <2>4, <2>5, <2>6 DEF ForcedUpTo
  <2>8. Settled(Len(args))' /\ Distinct(Len(args))' /\ Defaults'
    BY <2>1 DEF Settled, Distinct, Defaults, Given
  <2> QED
    BY <2>1, <2>3, <2>6, <2>7, <2>8 DEF FlagsInv, EnabledAsAsked
<1>6. CASE Parsed
  <2>1. Disabled \in [Flag -> BOOLEAN]
    BY <1>0 DEF Disabled, FlagsTypeOK
  <2>2. FlagsTypeOK'
    BY <1>0, <1>6, <2>1 DEF Parsed, FlagsTypeOK
  <2> QED
    BY <1>6, <2>2, ParsedAsAsked DEF Parsed, FlagsInv
<1>7. ASSUME NEW kd \in Kinds, NEW it \in Items[kd], Make(kd, it) PROVE FlagsInv'
  <2>1. FlagsTypeOK'
    BY <1>0, <1>7 DEF Make, FlagsTypeOK
  <2> QED
    BY <1>7, <2>1 DEF Make, FlagsInv, EnabledAsAsked
<1>8. CASE UNCHANGED flagVars
    BY <1>8 DEF flagVars, FlagsInv, FlagsTypeOK, EnabledAsAsked, Settled, Distinct, Defaults,
                ForcedUpTo, Given, Asked, On
<1> QED
    BY <1>1, <1>2, <1>3, <1>4, <1>5, <1>6, <1>7, <1>8
    DEF Next, Parse, FlagsNext, Run, Stopped, vars

(***************************************************************************)
(* --collector.disable-defaults spares the collectors named on the command *)
(* line and no other, for any collectors, arguments and order of them.     *)
(***************************************************************************)
THEOREM FlagsAsAsked == Spec => []EnabledAsAsked
<1>1. FlagsInv => EnabledAsAsked
    BY DEF FlagsInv
<1> QED
    BY <1>1, FlagsInvInit, FlagsStep, PTL DEF Spec

-----------------------------------------------------------------------------
(***************************************************************************)
(* Every slice made is of an array there is, and labelsValues has an array *)
(* that no desc and no metric sent reads.                                  *)
(***************************************************************************)
Building == {"network", "ethernet", "disk"}

Looping == {"annotate", "scalars", "cards", "nets", "disks"}

Apart ==
    /\ \A d \in DOMAIN names : Valid(mem, names[d]) /\ names[d].array # labels.array
    /\ \A n \in 1 .. Len(sent) :
          Valid(mem, sent[n].labels) /\ sent[n].labels.array # labels.array
    /\ labels.array # 0 => Valid(mem, labels)

SamplesInv ==
    /\ SamplesTypeOK
    /\ Apart
    /\ step = "new" => DOMAIN names = {} /\ sent = <<>> /\ labels.array = 0
    /\ step # "new" => kind \in Kinds /\ "plain" \in DOMAIN names
    /\ step \in Looping => labels.array # 0

Stay == \A s \in Made : s.array # 0 => View(mem', s) = View(mem, s)

LEMMA SampleTypes ==
    ASSUME SamplesInv
    PROVE  /\ mem \in Memory /\ Len(mem) \in Nat /\ labels \in Slice /\ item \in Item
           /\ sent \in Seq(Metric) /\ Len(sent) \in Nat /\ k \in Nat \ {0} /\ j \in Nat \ {0}
           /\ \A d \in DOMAIN names : names[d] \in Slice
           /\ \A n \in 1 .. Len(sent) : sent[n] \in Metric /\ sent[n].labels \in Slice
           /\ DOMAIN names \subseteq Desc
           /\ kind \in Kinds \cup {"none"} /\ intrinsec \in BOOLEAN
<1>1. /\ mem \in Memory /\ labels \in Slice /\ item \in Item /\ sent \in Seq(Metric)
      /\ k \in Nat \ {0} /\ j \in Nat \ {0} /\ DOMAIN names \subseteq Desc
      /\ kind \in Kinds \cup {"none"} /\ intrinsec \in BOOLEAN
      /\ \A d \in DOMAIN names : names[d] \in Slice
    BY DEF SamplesInv, SamplesTypeOK, Memory
<1>2. \A n \in 1 .. Len(sent) : sent[n] \in Metric
    BY <1>1
<1>3. \A x \in Metric : x.labels \in Slice
    BY DEF Metric
<1> QED
    BY <1>1, <1>2, <1>3, LenType

(* What a step keeps when it only writes past the end of labelsValues.  *)
LEMMA KeptBy ==
    ASSUME SamplesInv, NEW m2, Keeps(mem, m2, labels)
    PROVE  /\ \A d \in DOMAIN names : Valid(m2, names[d])
           /\ \A n \in 1 .. Len(sent) : Valid(m2, sent[n].labels)
           /\ labels.array # 0 => Valid(m2, labels)
           /\ \A s \in Made : s.array # 0 => View(m2, s) = View(mem, s)
<1>1. ASSUME NEW d \in DOMAIN names
      PROVE  Valid(m2, names[d]) /\ View(m2, names[d]) = View(mem, names[d])
    BY <1>1, SampleTypes DEF SamplesInv, Apart, Keeps
<1>2. ASSUME NEW n \in 1 .. Len(sent)
      PROVE  /\ Valid(m2, sent[n].labels)
             /\ View(m2, sent[n].labels) = View(mem, sent[n].labels)
    BY <1>2, SampleTypes DEF SamplesInv, Apart, Keeps
<1>3. ASSUME labels.array # 0
      PROVE  Valid(m2, labels) /\ View(m2, labels) = View(mem, labels)
  <2>1. labels \in Slice /\ Valid(mem, labels) /\ labels.len <= labels.len
    BY <1>3, SampleTypes DEF SamplesInv, Apart, Slice
  <2> QED
    BY <2>1 DEF Keeps
<1> QED
    BY <1>1, <1>2, <1>3 DEF Made

LEMMA KeepsAll ==
    ASSUME NEW m, NEW m2 \in Memory, Len(m) <= Len(m2), NEW s,
           \A t \in Slice : Valid(m, t) => Valid(m2, t) /\ View(m2, t) = View(m, t)
    PROVE  Keeps(m, m2, s)
BY DEF Keeps

(* A copy made after a step keeps what the step kept.  *)
LEMMA KeepsCopy ==
    ASSUME NEW m \in Memory, NEW m1, NEW s, Keeps(m, m1, s), NEW s1, Valid(m1, s1)
    PROVE  Keeps(m, Copy(m1, s1).mem, s)
<1>1. m1 \in Memory /\ Len(m) <= Len(m1) /\ Len(m) \in Nat /\ Len(m1) \in Nat
    BY LenType DEF Keeps
<1>2. /\ Copy(m1, s1).mem \in Memory /\ Len(Copy(m1, s1).mem) = Len(m1) + 1
      /\ \A t \in Slice : Valid(m1, t) =>
            Valid(Copy(m1, s1).mem, t) /\ View(Copy(m1, s1).mem, t) = View(m1, t)
    BY <1>1, CopyIs
<1>3. Len(m) <= Len(Copy(m1, s1).mem)
    BY <1>1, <1>2
<1> QED
    BY <1>2, <1>3 DEF Keeps

LEMMA ScalarsType ==
    ASSUME NEW kd \in AllKinds
    PROVE  Scalars[kd] \in Seq({"config", "hardware", "stats", "megabytes", "limit", "none"})
<1>1. CASE kd = "vm"
  <2>1. Scalars[kd] = <<"config", "stats", "megabytes">>
    BY <1>1 DEF Scalars, VmScalars
  <2> QED
    BY <2>1
<1>2. CASE kd = "esx"
  <2>1. Scalars[kd] = <<"stats", "hardware", "megabytes">>
    BY <1>2 DEF Scalars, EsxScalars
  <2> QED
    BY <2>1
<1>3. CASE kd \in {"ds", "spod"}
  <2>1. Scalars[kd] = <<"stats">>
    BY <1>3 DEF Scalars
  <2> QED
    BY <2>1
<1>4. CASE kd = "respool"
  <2>1. Scalars[kd] = <<"stats", "megabytes", "limit">>
    BY <1>4 DEF Scalars, ResourcePoolScalars
  <2> QED
    BY <2>1
<1> QED
    BY <1>1, <1>2, <1>3, <1>4 DEF AllKinds

LEMMA ValueType ==
    ASSUME NEW it \in Item, NEW scalar PROVE Value(scalar, it) \in Int
<1>1. it.size \in Int /\ Half64 \in Nat \ {0} /\ Mb \in Nat \ {0}
    BY SamplesAssumption DEF Item, Signed
<1> DEFINE n == it.size * Mb
<1>2. n \in Int
    BY <1>1
<1> HIDE DEF n
<1>3. (n + Half64) % (2 * Half64) \in Int
    BY <1>1, <1>2
<1>4. Bytes(it.size) \in Int
    BY <1>1, <1>3 DEF Bytes, Wrapped, n
<1>5. Value(scalar, it) \in {Bytes(it.size), 0, it.size}
    BY DEF Value
<1> QED
    BY <1>1, <1>4, <1>5

-----------------------------------------------------------------------------
LEMMA SamplesInvInit == Init => SamplesInv
<1> SUFFICES ASSUME Init PROVE SamplesInv
    OBVIOUS
<1>1. /\ mem = <<>> /\ names = <<>> /\ sent = <<>> /\ kind = "none" /\ item = Nothing
      /\ labels = Whole(0, 0) /\ step = "new" /\ k = 1 /\ j = 1 /\ intrinsec = FALSE
    BY DEF Init, SamplesInit
<1>2. Nothing \in Item
  <2>1. 0 \in Signed(Half64)
    BY SamplesAssumption DEF Signed
  <2> QED
    BY <2>1 DEF Nothing, Item
<1>3. DOMAIN names = {} /\ Len(sent) = 0
    BY <1>1
<1>4. labels \in Slice /\ labels.array = 0
    BY <1>1 DEF Whole, Slice
<1>5. SamplesTypeOK
  <2>1. mem \in Seq(Seq(Label)) /\ sent \in Seq(Metric)
    BY <1>1
  <2>2. k \in Nat \ {0} /\ j \in Nat \ {0} /\ item \in Item
    BY <1>1, <1>2
  <2>3. intrinsec \in BOOLEAN /\ kind \in Kinds \cup {"none"}
    BY <1>1
  <2> QED
    BY <1>1, <1>3, <1>4, <2>1, <2>2, <2>3 DEF SamplesTypeOK
<1>6. Apart
    BY <1>3, <1>4 DEF Apart
<1> QED
    BY <1>1, <1>3, <1>4, <1>5, <1>6 DEF SamplesInv, Looping

LEMMA MakeKeeps ==
    ASSUME SamplesInv, NEW kd \in Kinds, NEW it \in Items[kd], NewLabels(kd, it)
    PROVE  SamplesInv' /\ Stay
<1> DEFINE plain == <<Fields(Names[kd])>>
           s     == Whole(1, Len(Names[kd]))
           more  == Fields(<<"crit", "responsable", "service">>)
<1>1. /\ step = "new" /\ kind' = kd /\ item' = it /\ step' \in {"network", "labels"}
      /\ UNCHANGED <<intrinsec, labels, sent, k, j>>
      /\ \/ mem' = plain /\ names' = [plain |-> s]
         \/ mem' = AppendMem(plain, s, more) /\ names' = [plain |-> AppendTo(plain, s, more)]
    BY DEF NewLabels
<1>2. kd \in AllKinds /\ it \in Item
    BY SamplesAssumption DEF AllKinds
<1>3. /\ Fields(Names[kd]) \in Seq(Label)
      /\ Len(Fields(Names[kd])) = Len(Names[kd]) /\ Len(Names[kd]) \in Nat
    BY <1>2, NamesType, FieldsType
<1>4. more \in Seq(Label)
    BY MoreType, FieldsType
<1>5. plain \in Memory /\ s \in Slice /\ Valid(plain, s) /\ s.array = 1
    BY <1>3 DEF Memory, Whole, Slice, Valid
<1>6. /\ AppendMem(plain, s, more) \in Memory
      /\ Valid(AppendMem(plain, s, more), AppendTo(plain, s, more))
    BY <1>4, <1>5, AppendReads
<1> HIDE DEF plain, s, more
<1>7. PICK t : names' = [plain |-> t] /\ mem' \in Memory /\ Valid(mem', t)
    BY <1>1, <1>5, <1>6
<1>8. t \in Slice /\ t.array # 0
    BY <1>7 DEF Valid
<1>9. DOMAIN names' = {"plain"} /\ names'["plain"] = t
    BY <1>7
<1>a. DOMAIN names = {} /\ sent = <<>> /\ labels.array = 0
    BY <1>1 DEF SamplesInv
<1>b. Stay
    BY <1>a DEF Stay, Made
<1>c. SamplesTypeOK'
    BY <1>1, <1>2, <1>7, <1>8, <1>9, SampleTypes DEF SamplesTypeOK, Memory, Desc
<1>d. Apart'
    BY <1>1, <1>7, <1>8, <1>9, <1>a DEF Apart
<1> QED
    BY <1>1, <1>9, <1>b, <1>c, <1>d DEF SamplesInv, Looping

LEMMA NewDeviceLabelsKeeps ==
    ASSUME SamplesInv, NewDeviceLabels PROVE SamplesInv' /\ Stay
<1> DEFINE copy == Copy(mem, names.plain)
           own  == Fields(OwnNames[step])
           m2   == AppendMem(copy.mem, copy.slice, own)
           t    == AppendTo(copy.mem, copy.slice, own)
<1>1. /\ step \in DOMAIN After /\ mem' = m2
      /\ names' = [d \in DOMAIN names \cup {step} |-> IF d = step THEN t ELSE names[d]]
      /\ step' = After[step]
      /\ UNCHANGED <<intrinsec, kind, item, labels, sent, k, j>>
    BY DEF NewDeviceLabels
<1>2. step \in Building /\ step' \in {"ethernet", "disk", "labels"} /\ step \in Desc
    BY <1>1 DEF After, Building, Desc
<1>3. names.plain \in Slice /\ Valid(mem, names.plain) /\ mem \in Memory
      /\ Len(mem) \in Nat
    BY <1>2, SampleTypes DEF SamplesInv, Apart, Building
<1>4. /\ copy.mem \in Memory /\ Len(copy.mem) = Len(mem) + 1
      /\ copy.slice \in Slice /\ copy.slice.array = Len(mem) + 1
      /\ Valid(copy.mem, copy.slice)
      /\ \A r \in Slice : Valid(mem, r) =>
            Valid(copy.mem, r) /\ View(copy.mem, r) = View(mem, r)
    BY <1>3, CopyIs
<1>5. own \in Seq(Label)
    BY <1>1, OwnNamesType, FieldsType
<1> HIDE DEF copy, own
<1>6. /\ Keeps(copy.mem, m2, copy.slice) /\ t \in Slice /\ Valid(m2, t)
      /\ t.array \in {Len(mem) + 1, Len(mem) + 2}
    BY <1>3, <1>4, <1>5, AppendIs
<1> HIDE DEF m2, t
<1>7. Keeps(mem, m2, labels)
  <2>1. m2 \in Memory /\ Len(mem) <= Len(m2)
    BY <1>3, <1>4, <1>6, LenType DEF Keeps
  <2>2. ASSUME NEW r \in Slice, Valid(mem, r)
        PROVE  Valid(m2, r) /\ View(m2, r) = View(mem, r)
    <3>1. r.array \in 1 .. Len(mem)
      BY <2>2 DEF Valid
    <3>2. r.array # copy.slice.array
      BY <1>3, <1>4, <3>1
    <3> QED
      BY <1>4, <1>6, <2>2, <3>2 DEF Keeps
  <2> QED
    BY <2>1, <2>2, KeepsAll
<1>8. /\ \A d \in DOMAIN names : Valid(m2, names[d])
      /\ \A n \in 1 .. Len(sent) : Valid(m2, sent[n].labels)
      /\ labels.array # 0 => Valid(m2, labels)
      /\ Stay
    BY <1>1, <1>7, KeptBy DEF Stay
<1>9. t.array # labels.array
  <2>1. labels.array = 0 \/ labels.array \in 1 .. Len(mem)
    BY DEF SamplesInv, Apart, Valid
  <2> QED
    BY <1>3, <1>6, <2>1
<1>a. /\ DOMAIN names' = DOMAIN names \cup {step}
      /\ \A d \in DOMAIN names' : names'[d] = t \/ (d \in DOMAIN names /\ names'[d] = names[d])
    BY <1>1
<1>b. SamplesTypeOK'
  <2>1. mem' \in Seq(Seq(Label))
    BY <1>1, <1>7 DEF Keeps, Memory
  <2>2. DOMAIN names' \subseteq Desc /\ \A d \in DOMAIN names' : names'[d] \in Slice
    BY <1>2, <1>6, <1>a, SampleTypes
  <2> QED
    BY <1>1, <1>2, <2>1, <2>2, SampleTypes DEF SamplesTypeOK
<1>c. Apart'
  <2>1. \A d \in DOMAIN names' : Valid(mem', names'[d]) /\ names'[d].array # labels.array
    BY <1>1, <1>6, <1>8, <1>9, <1>a DEF SamplesInv, Apart
  <2>2. \A n \in 1 .. Len(sent) :
           Valid(mem', sent[n].labels) /\ sent[n].labels.array # labels.array
    BY <1>1, <1>8 DEF SamplesInv, Apart
  <2> QED
    BY <1>1, <1>8, <2>1, <2>2 DEF Apart
<1>d. kind' \in Kinds /\ "plain" \in DOMAIN names'
    BY <1>1, <1>2, <1>a DEF SamplesInv, Building
<1> QED
    BY <1>2, <1>8, <1>b, <1>c, <1>d DEF SamplesInv, Looping

(* The steps that change neither memory nor slices.  *)
LEMMA OtherwiseKeeps ==
    ASSUME SamplesInv, intrinsec' = intrinsec, mem' = mem, names' = names, kind' = kind,
           item' = item, labels' = labels, sent' = sent,
           k' \in Nat \ {0}, j' \in Nat \ {0}, step # "new",
           step' \in {"cards", "nets", "disks", "done", "panic"},
           step' \in Looping => step \in Looping
    PROVE  SamplesInv' /\ Stay
<1>1. SamplesTypeOK'
    BY DEF SamplesInv, SamplesTypeOK
<1>2. Apart'
    BY DEF SamplesInv, Apart
<1>3. step' \in Looping => labels'.array # 0
    BY DEF SamplesInv
<1>4. Stay
    BY DEF Stay
<1> QED
    BY <1>1, <1>2, <1>3, <1>4 DEF SamplesInv

LEMMA PanicKeeps ==
    ASSUME SamplesInv, Panic, step # "new" PROVE SamplesInv' /\ Stay
<1>1. /\ step' = "panic" /\ UNCHANGED <<intrinsec, mem, names, kind, item, labels, sent>>
      /\ k' = k /\ j' = j
    BY DEF Panic
<1>2. k' \in Nat \ {0} /\ j' \in Nat \ {0}
    BY <1>1, SampleTypes
<1>3. step' \notin Looping
    BY <1>1 DEF Looping
<1> QED
    BY <1>1, <1>2, <1>3, OtherwiseKeeps

LEMMA PlainLabelsKeeps ==
    ASSUME SamplesInv, PlainLabels PROVE SamplesInv' /\ Stay
<1>1. CASE Panic
    BY <1>1, PanicKeeps DEF PlainLabels
<1>2. CASE ~ Panic
  <2> DEFINE xs == Fields(Values[kind])
  <2>1. /\ step = "labels" /\ mem' = Append(mem, xs)
        /\ labels' = Whole(Len(mem) + 1, Len(Values[kind]))
        /\ step' \in {"annotate", "scalars"}
        /\ UNCHANGED <<intrinsec, names, kind, item, sent, k, j>>
    BY <1>2 DEF PlainLabels
  <2>2. kind \in AllKinds
    BY <2>1, SamplesAssumption DEF SamplesInv, AllKinds
  <2>3. xs \in Seq(Label) /\ Len(xs) = Len(Values[kind])
    BY <2>2, ValuesType, FieldsType
  <2> HIDE DEF xs
  <2>4. /\ mem' \in Memory /\ Len(mem') = Len(mem) + 1
        /\ labels' \in Slice /\ Valid(mem', labels') /\ labels'.array = Len(mem) + 1
        /\ \A t \in Slice : Valid(mem, t) => Valid(mem', t) /\ View(mem', t) = View(mem, t)
    BY <2>1, <2>3, LiteralIs, SampleTypes DEF Whole
  <2>5. Keeps(mem, mem', labels)
    BY <2>4, KeepsAll, SampleTypes
  <2>6. /\ \A d \in DOMAIN names : Valid(mem', names[d])
        /\ \A n \in 1 .. Len(sent) : Valid(mem', sent[n].labels)
        /\ Stay
    BY <2>5, KeptBy DEF Stay
  <2>7. Apart'
    <3>1. \A d \in DOMAIN names : names[d].array \in 1 .. Len(mem)
      BY DEF SamplesInv, Apart, Valid
    <3>2. \A n \in 1 .. Len(sent) : sent[n].labels.array \in 1 .. Len(mem)
      BY DEF SamplesInv, Apart, Valid
    <3>3. labels'.array \notin 1 .. Len(mem)
      BY <2>4, SampleTypes
    <3> QED
      BY <2>1, <2>4, <2>6, <3>1, <3>2, <3>3 DEF Apart
  <2>8. SamplesTypeOK'
    BY <2>1, <2>4, SampleTypes DEF SamplesTypeOK, Memory
  <2>9. labels'.array # 0
    BY <2>4, SampleTypes
  <2> QED
    BY <2>1, <2>6, <2>7, <2>8, <2>9 DEF SamplesInv
<1> QED
    BY <1>1, <1>2

LEMMA AnnotateKeeps ==
    ASSUME SamplesInv, Annotate PROVE SamplesInv' /\ Stay
<1>1. CASE Panic
    BY <1>1, PanicKeeps DEF Annotate
<1>2. CASE ~ Panic
  <2> DEFINE xs == Annotations(item)
  <2>1. /\ step = "annotate" /\ mem' = AppendMem(mem, labels, xs)
        /\ labels' = AppendTo(mem, labels, xs) /\ step' = "scalars"
        /\ UNCHANGED <<intrinsec, names, kind, item, sent, k, j>>
    BY <1>2 DEF Annotate
  <2>2. xs \in Seq(Label)
    BY OwnType, SampleTypes
  <2>3. labels.array # 0 /\ Valid(mem, labels)
    BY <2>1 DEF SamplesInv, Apart, Looping
  <2> HIDE DEF xs
  <2>4. /\ Keeps(mem, mem', labels) /\ labels' \in Slice /\ Valid(mem', labels')
        /\ labels'.array \in {labels.array, Len(mem) + 1}
    BY <2>1, <2>2, <2>3, AppendIs, SampleTypes
  <2>5. /\ \A d \in DOMAIN names : Valid(mem', names[d])
        /\ \A n \in 1 .. Len(sent) : Valid(mem', sent[n].labels)
        /\ Stay
    BY <2>4, KeptBy DEF Stay
  <2>6. Apart'
    <3>1. \A d \in DOMAIN names : names[d].array \in 1 .. Len(mem)
                                  /\ names[d].array # labels.array
      BY DEF SamplesInv, Apart, Valid
    <3>2. \A n \in 1 .. Len(sent) : sent[n].labels.array \in 1 .. Len(mem)
                                    /\ sent[n].labels.array # labels.array
      BY DEF SamplesInv, Apart, Valid
    <3>3. Len(mem) + 1 \notin 1 .. Len(mem)
      BY SampleTypes
    <3> QED
      BY <2>1, <2>4, <2>5, <3>1, <3>2, <3>3 DEF Apart
  <2>7. SamplesTypeOK'
    BY <2>1, <2>4, SampleTypes DEF SamplesTypeOK, Memory, Keeps
  <2>8. labels'.array # 0
    BY <2>3, <2>4, SampleTypes
  <2> QED
    BY <2>1, <2>5, <2>6, <2>7, <2>8 DEF SamplesInv
<1> QED
    BY <1>1, <1>2

(***************************************************************************)
(* A metric: copied after what its own labels were appended to is as valid *)
(* as labelsValues was.                                                    *)
(***************************************************************************)
LEMMA SendKeeps ==
    ASSUME SamplesInv, step \in Looping, step' = step,
           UNCHANGED <<intrinsec, names, kind, item, labels>>,
           k' \in Nat \ {0}, j' \in Nat \ {0},
           NEW d \in Desc, NEW m1, NEW s1 \in Slice, Keeps(mem, m1, labels), Valid(m1, s1),
           NEW scalar \in {"config", "hardware", "stats", "megabytes", "limit", "none"},
           NEW v \in Int, Send(d, m1, s1, scalar, v)
    PROVE  SamplesInv' /\ Stay
<1> DEFINE copy == Copy(m1, s1)
           new  == [desc |-> d, labels |-> copy.slice, at |-> <<k, j>>,
                    scalar |-> scalar, value |-> v]
<1>1. mem' = copy.mem /\ sent' = Append(sent, new)
    BY DEF Send
<1>2. m1 \in Memory /\ Len(mem) <= Len(m1) /\ Len(mem) \in Nat /\ Len(m1) \in Nat
    BY SampleTypes, LenType DEF Keeps
<1>3. /\ copy.mem \in Memory /\ Len(copy.mem) = Len(m1) + 1
      /\ copy.slice \in Slice /\ copy.slice.array = Len(m1) + 1
      /\ Valid(copy.mem, copy.slice)
    BY <1>2, CopyIs
<1>4. Keeps(mem, copy.mem, labels)
    BY SampleTypes, KeepsCopy
<1>5. new \in Metric
    BY <1>3, SampleTypes DEF Metric
<1>6. new.labels = copy.slice
    OBVIOUS
<1> HIDE DEF copy, new
<1>7. /\ \A e \in DOMAIN names : Valid(mem', names[e])
      /\ \A n \in 1 .. Len(sent) : Valid(mem', sent[n].labels)
      /\ labels.array # 0 => Valid(mem', labels)
      /\ Stay
    BY <1>1, <1>4, KeptBy DEF Stay
<1>8. /\ sent' \in Seq(Metric) /\ Len(sent') = Len(sent) + 1
      /\ sent'[Len(sent) + 1] = new
      /\ \A n \in 1 .. Len(sent) : sent'[n] = sent[n]
    BY <1>1, <1>5, SampleTypes
<1>9. new.labels.array # labels.array
  <2>1. labels.array = 0 \/ labels.array \in 1 .. Len(mem)
    BY DEF SamplesInv, Apart, Valid
  <2> QED
    BY <1>2, <1>3, <1>6, <2>1
<1>a. ASSUME NEW n \in 1 .. Len(sent')
      PROVE  Valid(mem', sent'[n].labels) /\ sent'[n].labels.array # labels.array
  <2>1. CASE n \in 1 .. Len(sent)
    BY <1>7, <1>8, <2>1 DEF SamplesInv, Apart
  <2>2. CASE n = Len(sent) + 1
    BY <1>1, <1>3, <1>6, <1>8, <1>9, <2>2
  <2> QED
    BY <1>8, <2>1, <2>2, SampleTypes
<1>b. Apart'
    BY <1>7, <1>a DEF SamplesInv, Apart
<1>c. SamplesTypeOK'
  <2>1. mem' \in Seq(Seq(Label))
    BY <1>1, <1>3 DEF Memory
  <2>2. step' \in {"annotate", "scalars", "cards", "nets", "disks"}
    BY DEF Looping
  <2> QED
    BY <1>8, <2>1, <2>2, SampleTypes DEF SamplesTypeOK
<1> QED
    BY <1>7, <1>b, <1>c DEF SamplesInv, Looping

LEMMA SendWithKeeps ==
    ASSUME SamplesInv, step \in Looping, step' = step,
           UNCHANGED <<intrinsec, names, kind, item, labels>>,
           k' \in Nat \ {0}, j' \in Nat \ {0},
           NEW d \in Desc, NEW own \in Seq(Label), SendWith(d, own, 0)
    PROVE  SamplesInv' /\ Stay
<1>1. Valid(mem, labels)
    BY DEF SamplesInv, Apart
<1>2. /\ Keeps(mem, AppendMem(mem, labels, own), labels)
      /\ AppendTo(mem, labels, own) \in Slice
      /\ Valid(AppendMem(mem, labels, own), AppendTo(mem, labels, own))
    BY <1>1, AppendIs, SampleTypes
<1>3. Send(d, AppendMem(mem, labels, own), AppendTo(mem, labels, own), "none", 0)
    BY DEF SendWith
<1> QED
    BY <1>2, <1>3, SendKeeps

LEMMA SendScalarKeeps ==
    ASSUME SamplesInv, SendScalar PROVE SamplesInv' /\ Stay
<1>1. CASE Panic
    BY <1>1, PanicKeeps DEF SendScalar
<1>2. CASE ~ Panic
  <2> DEFINE scalar == Scalars[kind][k]
  <2>1. /\ step = "scalars" /\ k <= Len(Scalars[kind])
        /\ Send("plain", mem, labels, scalar, Value(scalar, item))
        /\ k' = k + 1 /\ j' = j
        /\ UNCHANGED <<intrinsec, names, kind, item, labels, step>>
    BY <1>2 DEF SendScalar
  <2>2. labels \in Slice /\ Valid(mem, labels) /\ Keeps(mem, mem, labels)
    BY <2>1, SampleTypes DEF SamplesInv, Apart, Looping, Keeps
  <2>3. kind \in AllKinds
    BY <2>1, SamplesAssumption DEF SamplesInv, AllKinds
  <2>4. k \in 1 .. Len(Scalars[kind])
    BY <2>1, <2>3, ScalarsType, SampleTypes
  <2>5. scalar \in {"config", "hardware", "stats", "megabytes", "limit", "none"}
    BY <2>3, <2>4, ScalarsType
  <2> HIDE DEF scalar
  <2>6. Value(scalar, item) \in Int
    BY ValueType, SampleTypes
  <2>7. k' \in Nat \ {0} /\ j' \in Nat \ {0} /\ step \in Looping
    BY <2>1, SampleTypes DEF Looping
  <2> QED
    BY <2>1, <2>2, <2>5, <2>6, <2>7, SendKeeps DEF Desc
<1> QED
    BY <1>1, <1>2

LEMMA DevicesKeep ==
    ASSUME SamplesInv, SendCard \/ SendAddress \/ SendDisk PROVE SamplesInv' /\ Stay
<1>1. PICK d \in Desc, own \in Seq(Label) : SendWith(d, own, 0)
  <2>1. /\ Ethernet(item, k) \in Seq(Label) /\ Network(k, j) \in Seq(Label)
        /\ Disk(k) \in Seq(Label)
    BY OwnType, SampleTypes
  <2> QED
    BY <2>1 DEF SendCard, SendAddress, SendDisk, Desc
<1>2. /\ step \in Looping /\ step' = step
      /\ UNCHANGED <<intrinsec, names, kind, item, labels>>
    BY DEF SendCard, SendAddress, SendDisk, Looping
<1>3. k' \in Nat \ {0} /\ j' \in Nat \ {0}
    BY SampleTypes DEF SendCard, SendAddress, SendDisk
<1> QED
    BY <1>1, <1>2, <1>3, SendWithKeeps

LEMMA LoopsKeep ==
    ASSUME SamplesInv, Skip \/ NextNetwork \/ NextLoop PROVE SamplesInv' /\ Stay
<1>1. CASE Skip
  <2>1. /\ step' = "done" /\ step # "new" /\ step' \notin Looping
        /\ intrinsec' = intrinsec /\ mem' = mem /\ names' = names /\ kind' = kind
        /\ item' = item /\ labels' = labels /\ sent' = sent /\ k' = k /\ j' = j
    BY <1>1 DEF Skip, Looping
  <2> QED
    BY <2>1, OtherwiseKeeps, SampleTypes
<1>2. CASE NextNetwork
  <2>1. /\ step' = "nets" /\ step = "nets" /\ step \in Looping
        /\ intrinsec' = intrinsec /\ mem' = mem /\ names' = names /\ kind' = kind
        /\ item' = item /\ labels' = labels /\ sent' = sent /\ k' = k + 1 /\ j' = 1
    BY <1>2 DEF NextNetwork, Looping
  <2>2. k' \in Nat \ {0} /\ j' \in Nat \ {0}
    BY <2>1, SampleTypes
  <2> QED
    BY <2>1, <2>2, OtherwiseKeeps
<1>3. CASE NextLoop /\ Panic
    BY <1>3, PanicKeeps DEF NextLoop
<1>4. CASE NextLoop /\ ~ Panic
  <2>1. /\ step' \in {"cards", "nets", "disks", "done"} /\ step # "new" /\ step \in Looping
        /\ intrinsec' = intrinsec /\ mem' = mem /\ names' = names /\ kind' = kind
        /\ item' = item /\ labels' = labels /\ sent' = sent /\ k' = 1 /\ j' = 1
    BY <1>4 DEF NextLoop, Goes, Looping
  <2> QED
    BY <2>1, OtherwiseKeeps
<1> QED
    BY <1>1, <1>2, <1>3, <1>4

LEMMA SamplesStep ==
    SamplesInv /\ FlagsInv' /\ [Next]_vars => SamplesInv' /\ (UNCHANGED sampleVars \/ Stay)
<1> SUFFICES ASSUME SamplesInv, FlagsInv', [Next]_vars
             PROVE  SamplesInv' /\ (UNCHANGED sampleVars \/ Stay)
    OBVIOUS
<1>1. ASSUME Parse PROVE SamplesInv' /\ Stay
  <2>1. UNCHANGED <<mem, names, kind, item, labels, sent, step, k, j>> /\ intrinsec' \in BOOLEAN
    BY <1>1 DEF Parse, FlagsInv, FlagsTypeOK, Flag, Switch
  <2>2. SamplesTypeOK'
    BY <2>1 DEF SamplesInv, SamplesTypeOK
  <2> QED
    BY <2>1, <2>2 DEF SamplesInv, Apart, Stay
<1>2. ASSUME NEW kd \in Kinds, NEW it \in Items[kd], Make(kd, it) PROVE SamplesInv' /\ Stay
    BY <1>2, MakeKeeps DEF Make
<1>3. ASSUME Run PROVE SamplesInv' /\ Stay
    BY <1>3, NewDeviceLabelsKeeps, PlainLabelsKeeps, AnnotateKeeps, SendScalarKeeps,
       DevicesKeep, LoopsKeep DEF Run, SamplesNext
<1>4. ASSUME UNCHANGED vars PROVE SamplesInv' /\ UNCHANGED sampleVars
    BY <1>4 DEF vars, sampleVars, SamplesInv, SamplesTypeOK, Apart
<1> QED
    BY <1>1, <1>2, <1>3, <1>4 DEF Next, Stopped

(***************************************************************************)
(* Types, for every command line, item and width of numbers.               *)
(***************************************************************************)
THEOREM ExporterTypes == Spec => []TypeOK
<1>1. FlagsInv /\ SamplesInv => TypeOK
    BY DEF FlagsInv, SamplesInv, TypeOK
<1> QED
    BY <1>1, FlagsInvInit, FlagsStep, SamplesInvInit, SamplesStep, PTL DEF Spec

(***************************************************************************)
(* append never writes what a desc, a metric sent or labelsValues reads,   *)
(* for any number of devices and whatever room the arrays have.            *)
(***************************************************************************)
THEOREM SlicesStay == Spec => ReadsStay
<1>1. SamplesInv /\ FlagsInv' /\ [Next]_vars =>
         [\A s \in Made : s.array # 0 => View(mem', s) = View(mem, s)]_sampleVars
    BY SamplesStep DEF Stay
<1> QED
    BY <1>1, FlagsInvInit, FlagsStep, SamplesInvInit, SamplesStep, PTL DEF Spec, ReadsStay

-----------------------------------------------------------------------------
(***************************************************************************)
(* The values: each metric sent has the value its kind of metric has for   *)
(* the item, and the item is one of those of the collector.                *)
(***************************************************************************)
SentValues ==
    \A n \in 1 .. Len(sent) :
        sent[n].scalar # "none" => sent[n].value = Value(sent[n].scalar, item)

ItemOf == step # "new" => kind \in Kinds /\ item \in Items[kind]

ValueInv == SentValues /\ ItemOf

LEMMA SentOne ==
    ASSUME SamplesInv, NEW d, NEW m, NEW s, NEW scalar, NEW v,
           Send(d, m, s, scalar, v)
    PROVE  /\ Len(sent') = Len(sent) + 1
           /\ \A n \in 1 .. Len(sent) : sent'[n] = sent[n]
           /\ sent'[Len(sent) + 1].desc = d /\ sent'[Len(sent) + 1].at = <<k, j>>
           /\ sent'[Len(sent) + 1].scalar = scalar /\ sent'[Len(sent) + 1].value = v
           /\ sent'[Len(sent) + 1].labels = Copy(m, s).slice
           /\ \A n \in 1 .. Len(sent') : n \in 1 .. Len(sent) \/ n = Len(sent) + 1
<1> DEFINE new == [desc |-> d, labels |-> Copy(m, s).slice, at |-> <<k, j>>,
                   scalar |-> scalar, value |-> v]
<1>1. sent' = Append(sent, new)
    BY DEF Send
<1>2. sent \in Seq(Metric) /\ Len(sent) \in Nat
    BY SampleTypes
<1>5. /\ new.desc = d /\ new.at = <<k, j>> /\ new.scalar = scalar /\ new.value = v
      /\ new.labels = Copy(m, s).slice
    OBVIOUS
<1> HIDE DEF new
<1>3. sent \in Seq(Metric \cup {new}) /\ new \in Metric \cup {new}
    BY <1>2
<1>4. /\ Len(sent') = Len(sent) + 1 /\ sent'[Len(sent) + 1] = new
      /\ \A n \in 1 .. Len(sent) : sent'[n] = sent[n]
    BY <1>1, <1>2, <1>3
<1> QED
    BY <1>2, <1>4, <1>5

(* What is sent beside the plain metrics has no number of the item.  *)
LEMMA SentIs ==
    ASSUME SamplesInv, SendScalar \/ SendCard \/ SendAddress \/ SendDisk, ~ Panic
    PROVE  /\ Len(sent') = Len(sent) + 1
           /\ \A n \in 1 .. Len(sent) : sent'[n] = sent[n]
           /\ \A n \in 1 .. Len(sent') : n \in 1 .. Len(sent) \/ n = Len(sent) + 1
           /\ sent'[Len(sent) + 1].at = <<k, j>>
           /\ \/ /\ SendScalar /\ sent'[Len(sent) + 1].desc = "plain"
                 /\ sent'[Len(sent) + 1].scalar = Scalars[kind][k]
                 /\ sent'[Len(sent) + 1].value = Value(Scalars[kind][k], item)
              \/ /\ sent'[Len(sent) + 1].scalar = "none"
                 /\ \/ SendCard /\ sent'[Len(sent) + 1].desc = "ethernet"
                    \/ SendAddress /\ sent'[Len(sent) + 1].desc = "network"
                    \/ SendDisk /\ sent'[Len(sent) + 1].desc = "disk"
<1>1. CASE SendScalar
  <2>1. Send("plain", mem, labels, Scalars[kind][k], Value(Scalars[kind][k], item))
    BY <1>1 DEF SendScalar
  <2>2. /\ Len(sent') = Len(sent) + 1
        /\ \A n \in 1 .. Len(sent) : sent'[n] = sent[n]
        /\ \A n \in 1 .. Len(sent') : n \in 1 .. Len(sent) \/ n = Len(sent) + 1
        /\ sent'[Len(sent) + 1].at = <<k, j>> /\ sent'[Len(sent) + 1].desc = "plain"
        /\ sent'[Len(sent) + 1].scalar = Scalars[kind][k]
        /\ sent'[Len(sent) + 1].value = Value(Scalars[kind][k], item)
    BY <2>1, SentOne
  <2> QED
    BY <1>1, <2>2
<1>2. CASE SendCard
  <2>1. Send("ethernet", AppendMem(mem, labels, Ethernet(item, k)),
             AppendTo(mem, labels, Ethernet(item, k)), "none", 0)
    BY <1>2 DEF SendCard, SendWith
  <2>2. /\ Len(sent') = Len(sent) + 1
        /\ \A n \in 1 .. Len(sent) : sent'[n] = sent[n]
        /\ \A n \in 1 .. Len(sent') : n \in 1 .. Len(sent) \/ n = Len(sent) + 1
        /\ sent'[Len(sent) + 1].at = <<k, j>> /\ sent'[Len(sent) + 1].desc = "ethernet"
        /\ sent'[Len(sent) + 1].scalar = "none"
    BY <2>1, SentOne
  <2> QED
    BY <1>2, <2>2
<1>3. CASE SendAddress
  <2>1. Send("network", AppendMem(mem, labels, Network(k, j)),
             AppendTo(mem, labels, Network(k, j)), "none", 0)
    BY <1>3 DEF SendAddress, SendWith
  <2>2. /\ Len(sent') = Len(sent) + 1
        /\ \A n \in 1 .. Len(sent) : sent'[n] = sent[n]
        /\ \A n \in 1 .. Len(sent') : n \in 1 .. Len(sent) \/ n = Len(sent) + 1
        /\ sent'[Len(sent) + 1].at = <<k, j>> /\ sent'[Len(sent) + 1].desc = "network"
        /\ sent'[Len(sent) + 1].scalar = "none"
    BY <2>1, SentOne
  <2> QED
    BY <1>3, <2>2
<1>4. CASE SendDisk
  <2>1. Send("disk", AppendMem(mem, labels, Disk(k)),
             AppendTo(mem, labels, Disk(k)), "none", 0)
    BY <1>4 DEF SendDisk, SendWith
  <2>2. /\ Len(sent') = Len(sent) + 1
        /\ \A n \in 1 .. Len(sent) : sent'[n] = sent[n]
        /\ \A n \in 1 .. Len(sent') : n \in 1 .. Len(sent) \/ n = Len(sent) + 1
        /\ sent'[Len(sent) + 1].at = <<k, j>> /\ sent'[Len(sent) + 1].desc = "disk"
        /\ sent'[Len(sent) + 1].scalar = "none"
    BY <2>1, SentOne
  <2> QED
    BY <1>4, <2>2
<1> QED
    BY <1>1, <1>2, <1>3, <1>4

(* Of the steps of Update, those that send and those that do not.  *)
LEMMA StepsOf ==
    ASSUME SamplesNext
    PROVE  \/ (SendScalar \/ SendCard \/ SendAddress \/ SendDisk) /\ ~ Panic
           \/ sent' = sent
BY DEF SamplesNext, NewDeviceLabels, Skip, PlainLabels, Annotate, SendScalar, NextNetwork,
       NextLoop, Panic

LEMMA SameItem ==
    ASSUME SamplesNext
    PROVE  /\ kind' = kind /\ item' = item /\ intrinsec' = intrinsec
           /\ step # "new" /\ step' # "new"
<1>1. kind' = kind /\ item' = item /\ intrinsec' = intrinsec
    BY DEF SamplesNext, NewDeviceLabels, Skip, PlainLabels, Annotate, SendScalar, SendCard,
           SendAddress, SendDisk, NextNetwork, NextLoop, Panic
<1>2. step # "new"
    BY DEF SamplesNext, NewDeviceLabels, Skip, PlainLabels, Annotate, SendScalar, SendCard,
           SendAddress, SendDisk, NextNetwork, NextLoop, After
<1>3. CASE NewDeviceLabels
    BY <1>3 DEF NewDeviceLabels, After
<1>4. CASE PlainLabels \/ Annotate \/ Skip
    BY <1>4 DEF PlainLabels, Annotate, Skip, Panic
<1>5. CASE SendScalar \/ SendCard \/ SendAddress \/ SendDisk \/ NextNetwork
    BY <1>2, <1>5 DEF SendScalar, SendCard, SendAddress, SendDisk, NextNetwork, Panic
<1>6. CASE NextLoop
    BY <1>6 DEF NextLoop, Goes, Panic
<1> QED
    BY <1>1, <1>2, <1>3, <1>4, <1>5, <1>6 DEF SamplesNext

LEMMA ValueStep == SamplesInv /\ ValueInv /\ [Next]_vars => ValueInv'
<1> SUFFICES ASSUME SamplesInv, ValueInv, [Next]_vars PROVE ValueInv'
    OBVIOUS
<1>1. CASE Parse
    BY <1>1 DEF Parse, ValueInv, SentValues, ItemOf
<1>2. ASSUME NEW kd \in Kinds, NEW it \in Items[kd], Make(kd, it) PROVE ValueInv'
  <2>1. sent = <<>> /\ sent' = sent /\ kind' = kd /\ item' = it
    BY <1>2 DEF Make, NewLabels, SamplesInv
  <2>2. Len(sent') = 0
    BY <2>1
  <2> QED
    BY <2>1, <2>2 DEF ValueInv, SentValues, ItemOf
<1>3. CASE Run
  <2>1. SamplesNext
    BY <1>3 DEF Run
  <2>2. kind' = kind /\ item' = item /\ step # "new"
    BY <2>1, SameItem
  <2>3. ItemOf'
    BY <2>2 DEF ValueInv, ItemOf
  <2>4. CASE sent' = sent
    BY <2>2, <2>3, <2>4 DEF ValueInv, SentValues
  <2>5. CASE sent' # sent
    <3>1. (SendScalar \/ SendCard \/ SendAddress \/ SendDisk) /\ ~ Panic
      BY <2>1, <2>5, StepsOf
    <3>2. ASSUME NEW n \in 1 .. Len(sent'), sent'[n].scalar # "none"
          PROVE  sent'[n].value = Value(sent'[n].scalar, item)
      BY <3>1, <3>2, SentIs DEF ValueInv, SentValues
    <3> QED
      BY <2>2, <2>3, <3>2 DEF ValueInv, SentValues
  <2> QED
    BY <2>4, <2>5
<1>4. CASE UNCHANGED vars
    BY <1>4 DEF vars, sampleVars, ValueInv, SentValues, ItemOf
<1> QED
    BY <1>1, <1>2, <1>3, <1>4 DEF Next, Stopped

LEMMA WrappedExact ==
    ASSUME NEW half \in Nat \ {0}, NEW n \in Signed(half)
    PROVE  Wrapped(n, half) = n
<1>1. n + half \in 0 .. 2 * half - 1
    BY DEF Signed
<1>2. \A a \in Nat, b \in Nat \ {0} : a < b => a % b = a
    OBVIOUS
<1>3. (n + half) % (2 * half) = n + half
    BY <1>1, <1>2
<1> QED
    BY <1>3 DEF Wrapped, Signed

(* A number of 32 bits times a megabyte fits in 64.  *)
LEMMA ProductFits ==
    ASSUME NEW n \in Signed(Half32) PROVE n * Mb \in Signed(Half64)
<1>1. /\ Half32 \in Nat \ {0} /\ Half64 \in Nat \ {0} /\ Mb \in Nat \ {0}
      /\ Half32 * Mb <= Half64
    BY SamplesAssumption
<1>2. n \in Int /\ - Half32 <= n /\ n <= Half32 - 1
    BY <1>1 DEF Signed
<1>3. \A a, b \in Int, c \in Nat : a <= b => a * c <= b * c
    OBVIOUS
<1>4. (- Half32) * Mb <= n * Mb /\ n * Mb <= (Half32 - 1) * Mb
    BY <1>1, <1>2, <1>3
<1>5. (- Half32) * Mb = - (Half32 * Mb) /\ (Half32 - 1) * Mb = Half32 * Mb - Mb
    BY <1>1
<1>6. n * Mb \in Int /\ Half32 * Mb \in Int
    BY <1>1, <1>2
<1> QED
    BY <1>1, <1>4, <1>5, <1>6 DEF Signed

LEMMA ExactValues == SamplesInv /\ ValueInv => BytesExact
<1> SUFFICES ASSUME SamplesInv, ValueInv,
                    kind # "respool" \/ item.size * Mb \in Signed(Half64),
                    NEW n \in 1 .. Len(sent)
             PROVE  /\ sent[n].scalar = "megabytes" => sent[n].value = item.size * Mb
                    /\ sent[n].scalar = "limit" /\ "limit" \in item.has =>
                          (sent[n].value < 0 <=> item.size < 0)
    BY DEF BytesExact
<1>1. step # "new"
    BY DEF SamplesInv
<1>2. kind \in Kinds /\ item \in Items[kind] /\ item.size \in Int
    BY <1>1, SampleTypes DEF ValueInv, ItemOf, Item, Signed
<1>3. item.size * Mb \in Signed(Half64)
  <2>1. CASE kind # "respool"
    BY <1>2, <2>1, SamplesAssumption, ProductFits
  <2> QED
    BY <2>1
<1>4. Bytes(item.size) = item.size * Mb
    BY <1>3, WrappedExact, SamplesAssumption DEF Bytes
<1>5. CASE sent[n].scalar = "megabytes"
    BY <1>4, <1>5 DEF ValueInv, SentValues, Value
<1>6. CASE sent[n].scalar = "limit" /\ "limit" \in item.has
  <2>1. sent[n].value = item.size * Mb
    BY <1>4, <1>6 DEF ValueInv, SentValues, Value
  <2>2. Mb \in Nat \ {0}
    BY SamplesAssumption
  <2>3. item.size * Mb < 0 <=> item.size < 0
    BY <1>2, <2>2
  <2> QED
    BY <1>6, <2>1, <2>3
<1> QED
    BY <1>5, <1>6

(***************************************************************************)
(* Memory in bytes is exact, for any widths of numbers in which a number   *)
(* of the narrow one times a megabyte fits in the wide one.                *)
(***************************************************************************)
THEOREM BytesAreExact == Spec => []BytesExact
<1>1. Init => ValueInv
    BY DEF Init, SamplesInit, ValueInv, SentValues, ItemOf
<1> QED
    BY <1>1, ExactValues, ValueStep, FlagsInvInit, FlagsStep, SamplesInvInit, SamplesStep,
       PTL DEF Spec

-----------------------------------------------------------------------------
(* Where Update is says how many metrics are out, and of which collectors. *)
PlaceInv ==
    /\ step \in {"new", "labels", "annotate"} \cup Building => sent = <<>> /\ k = 1
    /\ step = "scalars" => Len(sent) = k - 1
    /\ step \in {"annotate", "cards", "nets", "disks"} => kind = "vm"

LEMMA OddScalar ==
    ASSUME NEW kd \in AllKinds, NEW n \in 1 .. Len(Scalars[kd])
    PROVE  /\ Scalars[kd][n] = "config" => kd = "vm" /\ n = 1
           /\ Scalars[kd][n] = "hardware" => kd = "esx"
<1>1. CASE kd = "vm"
  <2>1. Scalars[kd] = <<"config", "stats", "megabytes">>
    BY <1>1 DEF Scalars, VmScalars
  <2> QED
    BY <1>1, <2>1
<1>2. CASE kd = "esx"
  <2>1. Scalars[kd] = <<"stats", "hardware", "megabytes">>
    BY <1>2 DEF Scalars, EsxScalars
  <2> QED
    BY <1>2, <2>1
<1>3. CASE kd \in {"ds", "spod"}
  <2>1. Scalars[kd] = <<"stats">>
    BY <1>3 DEF Scalars
  <2> QED
    BY <2>1
<1>4. CASE kd = "respool"
  <2>1. Scalars[kd] = <<"stats", "megabytes", "limit">>
    BY <1>4 DEF Scalars, ResourcePoolScalars
  <2> QED
    BY <2>1
<1> QED
    BY <1>1, <1>2, <1>3, <1>4 DEF AllKinds

LEMMA PlaceStep == SamplesInv /\ PlaceInv /\ [Next]_vars => PlaceInv'
<1> SUFFICES ASSUME SamplesInv, PlaceInv, [Next]_vars PROVE PlaceInv'
    OBVIOUS
<1>1. CASE Parse
    BY <1>1 DEF Parse, PlaceInv
<1>2. ASSUME NEW kd \in Kinds, NEW it \in Items[kd], Make(kd, it) PROVE PlaceInv'
  <2>1. /\ step = "new" /\ sent = <<>> /\ sent' = sent /\ k' = k
        /\ step' \in {"network", "labels"}
    BY <1>2 DEF Make, NewLabels, SamplesInv
  <2> QED
    BY <2>1 DEF PlaceInv
<1>3. CASE Run
  <2>0. /\ kind' = kind /\ k \in Nat \ {0} /\ Len(sent) \in Nat
        /\ (sent = <<>> => Len(sent) = 0)
    BY <1>3, SameItem, SampleTypes DEF Run
  <2>1. CASE Panic
    BY <2>1 DEF Panic, PlaceInv, Building
  <2>2. CASE NewDeviceLabels
    <3>1. /\ step \in Building /\ step' \in {"ethernet", "disk", "labels"} /\ sent' = sent /\ k' = k
      BY <2>2 DEF NewDeviceLabels, After, Building
    <3> QED
      BY <3>1 DEF PlaceInv
  <2>3. CASE PlainLabels /\ ~ Panic
    <3>1. /\ step = "labels" /\ sent' = sent /\ k' = k
          /\ step' = IF kind = "vm" /\ intrinsec THEN "annotate" ELSE "scalars"
      BY <2>3 DEF PlainLabels
    <3> QED
      BY <2>0, <3>1 DEF PlaceInv, Building
  <2>4. CASE Annotate /\ ~ Panic
    <3>1. step = "annotate" /\ sent' = sent /\ k' = k /\ step' = "scalars"
      BY <2>4 DEF Annotate
    <3> QED
      BY <2>0, <3>1 DEF PlaceInv, Building
  <2>5. CASE SendScalar /\ ~ Panic
    <3>1. /\ step' = "scalars" /\ step = "scalars" /\ k' = k + 1 /\ Len(sent') = Len(sent) + 1
      BY <2>5, SentIs DEF SendScalar
    <3> QED
      BY <2>0, <3>1 DEF PlaceInv, Building
  <2>6. CASE SendCard \/ SendAddress \/ SendDisk \/ NextNetwork
    <3>1. step' = step /\ step \in {"cards", "nets", "disks"}
      BY <2>6 DEF SendCard, SendAddress, SendDisk, NextNetwork
    <3> QED
      BY <2>0, <3>1 DEF PlaceInv, Building
  <2>7. CASE NextLoop /\ ~ Panic
    <3>1. /\ step' \in {"cards", "nets", "disks", "done"}
          /\ step' # "done" => kind = "vm" \/ step \in {"cards", "nets"}
      BY <2>7 DEF NextLoop, Goes
    <3> QED
      BY <2>0, <3>1 DEF PlaceInv, Building
  <2>8. CASE Skip
    BY <2>8 DEF Skip, PlaceInv, Building
  <2> QED
    BY <1>3, <2>1, <2>2, <2>3, <2>4, <2>5, <2>6, <2>7, <2>8 DEF Run, SamplesNext
<1>4. CASE UNCHANGED vars
    BY <1>4 DEF vars, sampleVars, PlaceInv
<1> QED
    BY <1>1, <1>2, <1>3, <1>4 DEF Next, Stopped

LEMMA PanicsAt ==
    ASSUME SamplesNext, step' = "panic"
    PROVE  (PlainLabels \/ Annotate \/ SendScalar \/ NextLoop) /\ Panic
  <1>1. ~ NewDeviceLabels
    BY DEF NewDeviceLabels, After
  <1>2. ~ (Skip \/ SendCard \/ SendAddress \/ NextNetwork \/ SendDisk)
    BY DEF Skip, SendCard, SendAddress, NextNetwork, SendDisk
  <1>3. PlainLabels => Panic
    BY DEF PlainLabels
  <1>4. Annotate => Panic
    BY DEF Annotate
  <1>5. SendScalar => Panic
    BY DEF SendScalar
  <1>6. NextLoop => Panic
    BY DEF NextLoop, Goes
  <1> QED
    BY <1>1, <1>2, <1>3, <1>4, <1>5, <1>6 DEF SamplesNext

(***************************************************************************)
(* A panic: where it is, the item lacks what is dereferenced there.        *)
(***************************************************************************)
LEMMA PanicStep ==
    ASSUME SamplesInv, PlaceInv, PanicNeedsOddItem, SamplesNext PROVE PanicNeedsOddItem'
<1>0. /\ kind' = kind /\ item' = item /\ step # "new" /\ kind \in AllKinds
    BY SameItem, SamplesAssumption DEF SamplesInv, AllKinds
<1>1. ASSUME Panic, ~ Healthy,
             sent # <<>> => \/ kind = "esx" /\ "hardware" \notin item.has
                            \/ kind = "vm" /\ \E n \in 1 .. Len(item.disks) : ~ item.disks[n]
      PROVE  PanicNeedsOddItem'
    BY <1>0, <1>1 DEF Panic, PanicNeedsOddItem, Healthy
<1>2. CASE PlainLabels /\ Panic
  <2>1. ~ ForLabels[kind] \subseteq item.has /\ sent = <<>>
    BY <1>2 DEF PlainLabels, Panic, PlaceInv
  <2>2. ~ Healthy
    BY <1>0, <2>1 DEF ForLabels, Healthy, AllKinds
  <2> QED
    BY <1>1, <1>2, <2>1, <2>2
<1>3. CASE Annotate /\ Panic
  <2>1. "config" \notin item.has /\ kind = "vm" /\ sent = <<>>
    BY <1>3 DEF Annotate, Panic, PlaceInv
  <2>2. ~ Healthy
    BY <2>1 DEF Healthy
  <2> QED
    BY <1>1, <1>3, <2>1, <2>2
<1>4. CASE SendScalar /\ Panic
  <2>1. /\ step = "scalars" /\ k <= Len(Scalars[kind]) /\ Len(sent) = k - 1
        /\ ~ ForScalar(Scalars[kind][k]) \subseteq item.has
    BY <1>4 DEF SendScalar, Panic, PlaceInv
  <2>2. k \in 1 .. Len(Scalars[kind])
    BY <1>0, <2>1, ScalarsType, SampleTypes
  <2>3. Scalars[kind][k] \in {"config", "hardware"} /\ Scalars[kind][k] \notin item.has
    BY <2>1 DEF ForScalar
  <2>4. CASE Scalars[kind][k] = "config"
    <3>1. kind = "vm" /\ k = 1
      BY <1>0, <2>2, <2>4, OddScalar
    <3>2. ~ Healthy
      BY <2>3, <2>4, <3>1 DEF Healthy
    <3>3. sent = <<>>
      BY <2>1, <3>1, SampleTypes
    <3> QED
      BY <1>1, <1>4, <3>2, <3>3
  <2>5. CASE Scalars[kind][k] = "hardware"
    <3>1. kind = "esx" /\ "hardware" \notin item.has
      BY <1>0, <2>2, <2>3, <2>5, OddScalar
    <3>2. ~ Healthy
      BY <3>1 DEF Healthy
    <3> QED
      BY <1>1, <1>4, <3>1, <3>2
  <2> QED
    BY <2>3, <2>4, <2>5
<1>5. CASE NextLoop /\ Panic
  <2>1. step = "nets" /\ FALSE \in {item.disks[n] : n \in 1 .. Len(item.disks)}
    BY <1>5 DEF NextLoop, Goes, Panic
  <2>2. kind = "vm" /\ \E n \in 1 .. Len(item.disks) : ~ item.disks[n]
    BY <2>1 DEF PlaceInv
  <2>3. ~ Healthy
    BY <2>2 DEF Healthy
  <2> QED
    BY <1>1, <1>5, <2>2, <2>3
<1>6. CASE step' # "panic"
    BY <1>6 DEF PanicNeedsOddItem
<1> QED
  <2>1. step' = "panic" => (PlainLabels \/ Annotate \/ SendScalar \/ NextLoop) /\ Panic
    BY PanicsAt
  <2> QED
    BY <1>2, <1>3, <1>4, <1>5, <1>6, <2>1

(***************************************************************************)
(* Only an item that lacks something, or has a disk on another backing,    *)
(* ends the process.                                                       *)
(***************************************************************************)
THEOREM PanicsCaused == Spec => []PanicNeedsOddItem
<1>1. Init => PlaceInv /\ PanicNeedsOddItem
    BY DEF Init, SamplesInit, PlaceInv, PanicNeedsOddItem
<1>2. SamplesInv /\ PlaceInv /\ PanicNeedsOddItem /\ [Next]_vars => PanicNeedsOddItem'
  <2> SUFFICES ASSUME SamplesInv, PlaceInv, PanicNeedsOddItem, [Next]_vars
               PROVE  PanicNeedsOddItem'
      OBVIOUS
  <2>1. CASE Parse
    BY <2>1 DEF Parse, PanicNeedsOddItem, Healthy
  <2>2. ASSUME NEW kd \in Kinds, NEW it \in Items[kd], Make(kd, it) PROVE PanicNeedsOddItem'
    BY <2>2 DEF Make, NewLabels, PanicNeedsOddItem
  <2>3. CASE Run
    BY <2>3, PanicStep DEF Run
  <2>4. CASE UNCHANGED vars
    BY <2>4 DEF vars, sampleVars, PanicNeedsOddItem, Healthy
  <2> QED
    BY <2>1, <2>2, <2>3, <2>4 DEF Next, Stopped
<1> QED
    BY <1>1, <1>2, PlaceStep, FlagsInvInit, FlagsStep, SamplesInvInit, SamplesStep,
       PTL DEF Spec
=============================================================================

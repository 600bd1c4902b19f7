------------------------------ MODULE Exporter ------------------------------
(***************************************************************************)
(* The exporter from its command line to the samples of an item: main      *)
(* parses its flags (CollectorFlags), NewMainCollector makes the enabled   *)
(* collectors, and one of them reports an item (CollectorSamples), with    *)
(* the Intrinsec labels if their flag is set.                              *)
(***************************************************************************)
EXTENDS CollectorFlags, CollectorSamples

ASSUME KindsAssumption == Kinds \subseteq Collector

vars == <<flagVars, sampleVars>>

Init == FlagsInit /\ SamplesInit /\ intrinsec = FALSE

Parse ==
    /\ FlagsNext
    /\ intrinsec' = value'["collector.intrinsec"]
    /\ UNCHANGED <<mem, names, kind, item, labels, sent, step, k, j>>

(* NewMainCollector makes the enabled collectors; of one of them we follow *)
(* an item.  Nothing reads the command line or forcedCollectors again.     *)
Make(kd, it) ==
    /\ main = "serving" /\ kd \in On
    /\ NewLabels(kd, it)
    /\ args' = <<>> /\ next' = 1 /\ forced' = {} /\ main' = "running"
    /\ UNCHANGED value

Run ==
    /\ main = "running"
    /\ SamplesNext
    /\ UNCHANGED flagVars

(* The command line is refused, no collector is on, or the item reported.  *)
Stopped ==
    /\ \/ main = "exit"
       \/ main = "serving" /\ On = {}
       \/ main = "running" /\ step \in {"done", "panic"}
    /\ UNCHANGED vars

Next ==
    \/ Parse \/ Run \/ Stopped
    \/ \E kd \in Kinds : \E it \in Items[kd] : Make(kd, it)

Spec == Init /\ [][Next]_vars

TypeOK == FlagsTypeOK /\ SamplesTypeOK
=============================================================================

--------------------------- MODULE CollectorFlags ---------------------------
(***************************************************************************)
(* From the command line to the collectors that run: registerCollector and *)
(* its flag action, DisableDefaultCollectors, NewMainCollector             *)
(* (collector/collector.go), and what main does between kingpin.Parse and  *)
(* the server (govc_exporter.go).                                          *)
(*                                                                         *)
(* kingpin, as the code uses it: a flag that is not on the command line    *)
(* gets its default; then the values are set in the order of the arguments *)
(* and a flag given twice is an error; then the actions of the flags given *)
(* run, in the same order.                                                 *)
(***************************************************************************)
EXTENDS Naturals, Sequences, FiniteSets

CONSTANTS
    Collector,    \* the names collectors are registered under
    ByDefault,    \* those registered with isDefaultEnabled
    MaxArgs       \* bound: how many of these flags a command line has

Switch == {"collector.disable-defaults", "collector.intrinsec"}

Flag == Collector \cup Switch

(* --flag or --no-flag.  *)
Arg == [flag : Flag, value : BOOLEAN]

ASSUME FlagsAssumption ==
    /\ ByDefault \subseteq Collector /\ Collector \cap Switch = {}
    /\ IsFiniteSet(Collector) /\ MaxArgs \in Nat

VARIABLES
    args,         \* the command line
    main,         \* where main is
    next,         \* the argument it is at
    value,        \* the flags' values; collectorState points into them
    forced        \* forcedCollectors

flagVars == <<args, main, next, value, forced>>

-----------------------------------------------------------------------------
(* init has registered every collector; bool flags are false until parsed.  *)
FlagsInit ==
    /\ args \in UNION {[1 .. n -> Arg] : n \in 0 .. MaxArgs}
    /\ main = "defaults" /\ next = 1
    /\ value = [f \in Flag |-> FALSE]
    /\ forced = {}

Given == {args[n].flag : n \in 1 .. Len(args)}

SetDefaults ==
    /\ main = "defaults"
    /\ value' = [f \in Flag |-> f \in ByDefault /\ f \notin Given]
    /\ main' = "values"
    /\ UNCHANGED <<args, next, forced>>

SetValue ==
    /\ main = "values" /\ next <= Len(args)
    /\ \A n \in 1 .. next - 1 : args[n].flag # args[next].flag
    /\ value' = [value EXCEPT ![args[next].flag] = args[next].value]
    /\ next' = next + 1
    /\ UNCHANGED <<args, main, forced>>

(* "flag cannot be repeated": kingpin exits.  *)
Repeated ==
    /\ main = "values" /\ next <= Len(args)
    /\ \E n \in 1 .. next - 1 : args[n].flag = args[next].flag
    /\ main' = "exit"
    /\ UNCHANGED <<args, next, value, forced>>

ValuesSet ==
    /\ main = "values" /\ next > Len(args)
    /\ main' = "actions" /\ next' = 1
    /\ UNCHANGED <<args, value, forced>>

(* Mutant: the action is attached to every flag.  *)
ForcesAny(arg) == TRUE

(* collectorFlagAction; the other flags have no action.  *)
Forces(arg) == arg.flag \in Collector

RunAction ==
    /\ main = "actions" /\ next <= Len(args)
    /\ forced' = IF Forces(args[next]) THEN forced \cup {args[next].flag} ELSE forced
    /\ next' = next + 1
    /\ UNCHANGED <<args, main, value>>

(* Mutant: the default is taken away from every collector.  *)
DisableAll == [f \in Flag |-> f \notin Collector /\ value[f]]

(* DisableDefaultCollectors.  *)
Disabled == [f \in Flag |-> IF f \in Collector \ forced THEN FALSE ELSE value[f]]

Parsed ==
    /\ main = "actions" /\ next > Len(args)
    /\ value' = IF value["collector.disable-defaults"] THEN Disabled ELSE value
    /\ main' = "serving"
    /\ UNCHANGED <<args, next, forced>>

FlagsNext ==
    SetDefaults \/ SetValue \/ Repeated \/ ValuesSet \/ RunAction \/ Parsed

-----------------------------------------------------------------------------
(* Those *enabled in NewMainCollector without filters: ScrapeHandler's      *)
(* Enabled.                                                                *)
On == {c \in Collector : value[c]}

FlagsTypeOK ==
    /\ args \in Seq(Arg) /\ next \in Nat
    /\ main \in {"defaults", "values", "actions", "serving", "running", "exit"}
    /\ value \in [Flag -> BOOLEAN]
    /\ forced \subseteq Collector

(***************************************************************************)
(* "Set all collectors to disabled by default" (govc_exporter.go:160): what*)
(* the server starts with does not depend on the order of the arguments.   *)
(* A collector is as its own flag says, and without one as its default,    *)
(* unless the defaults are off.                                            *)
(***************************************************************************)
Asked(f, v) == [flag |-> f, value |-> v] \in {args[n] : n \in 1 .. Len(args)}

EnabledAsAsked ==
    main = "serving" =>
        On = {c \in Collector :
                IF c \in Given THEN Asked(c, TRUE)
                ELSE c \in ByDefault /\ ~ Asked("collector.disable-defaults", TRUE)}
=============================================================================

----------------------------- MODULE MCExporter -----------------------------
(***************************************************************************)
(* Items for Exporter: VMs with and without each optional part, with up to *)
(* two cards, networks, addresses and disks; numbers of 4 and 8 bits, with *)
(* a megabyte of 16 bytes, as 32, 64 and 2^20 are for the code.            *)
(***************************************************************************)
EXTENDS Exporter

MCKinds == {"vm", "esx", "ds", "spod", "respool"}

Plain(has, size) ==
    [has |-> has, note |-> {}, cards |-> <<>>, nets |-> <<>>, disks |-> <<>>, size |-> size]

Whole_VM == {"config", "guest", "summary.guest"}

MCItems ==
    [vm |-> {[has |-> Whole_VM, note |-> note, cards |-> cards, nets |-> nets,
              disks |-> disks, size |-> 7] :
                note \in {{}, {"service"}, {"crit", "responsable", "service"}},
                cards \in {<<>>, <<TRUE, FALSE>>},
                nets \in {<<>>, <<2, 0, 1>>},
                disks \in {<<>>, <<TRUE, TRUE>>, <<TRUE, FALSE>>}}
            \cup {Plain(has, -8) : has \in SUBSET Whole_VM},
     esx     |-> {Plain(has, 7) : has \in SUBSET {"product", "hardware"}},
     ds      |-> {Plain({}, 7)},
     spod    |-> {Plain(has, 7) : has \in SUBSET {"summary"}},
     respool |-> {Plain({}, 7)} \cup
                 {Plain({"summary"} \cup has, size) :
                    has \in SUBSET {"quickStats", "limit"}, size \in {-1, 0, 7, 127}}]
=============================================================================

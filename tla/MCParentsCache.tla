--------------------------- MODULE MCParentsCache ---------------------------
(***************************************************************************)
(* A small vCenter for ParentsCache: a cluster and two folders that can be *)
(* nested either way, a datastore cluster, one datacenter.                 *)
(***************************************************************************)
EXTENDS ParentsCache, TLC

CONSTANTS cl, f1, f2, pod, dc, n1, n2

MCMor  == {cl, f1, f2, pod, dc}
MCKey  == {cl, pod}
MCName == {n1, n2}

MCType ==
    cl :> "ClusterComputeResource" @@ f1 :> "Folder" @@ f2 :> "Folder" @@
    pod :> "StoragePod" @@ dc :> "Datacenter"

MCUnder ==
    cl :> {f1, f2} @@ f1 :> {f2, dc} @@ f2 :> {f1, dc} @@ pod :> {f2, dc} @@ dc :> {NoRef}

MCInventory0 ==
    cl  :> [name |-> n1, parent |-> f1] @@ f1 :> [name |-> n1, parent |-> f2] @@
    f2  :> [name |-> n1, parent |-> dc] @@ pod :> [name |-> n1, parent |-> dc] @@
    dc  :> [name |-> n1, parent |-> NoRef]

(* The Updates run the same code.  *)
Symmetric == Permutations(Update)
=============================================================================

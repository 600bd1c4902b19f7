--------------------------- MODULE MCVcCollector ----------------------------
(***************************************************************************)
(* A small vCenter for VcCollector: a datacenter, a cluster in it with a   *)
(* resource pool and a host, a folder for VMs.  Collector vms lists one VM *)
(* in the pool, with a disk that may not be flat; rps lists a pool without *)
(* quick stats and the pool, which may lack its summary.                   *)
(***************************************************************************)
EXTENDS VcCollector, TLC

CONSTANTS a1, a2, b1, vms, rps, dc, cl, rp, hs, folder,
          nDc, nCl, nRp, nHs, nFolder

MCMor  == {dc, cl, rp, hs, folder}
MCKey  == {cl, folder}
MCName == {nDc, nCl, nRp, nHs, nFolder}
MCType ==
    dc :> "Datacenter" @@ cl :> "ClusterComputeResource" @@ rp :> "ResourcePool" @@
    hs :> "HostSystem" @@ folder :> "Folder"
MCUnder == [m \in MCMor |-> {}]
MCInventory0 ==
    dc :> [name |-> nDc, parent |-> NoRef] @@ cl :> [name |-> nCl, parent |-> dc] @@
    rp :> [name |-> nRp, parent |-> cl]    @@ hs :> [name |-> nHs, parent |-> cl] @@
    folder :> [name |-> nFolder, parent |-> dc]

MCCollector == {vms, rps}
MCKind      == vms :> "vm" @@ rps :> "respool"
MCItems ==
    vms :> <<[parent |-> folder, pool |-> rp, host |-> hs,
              stats |-> TRUE, lacks |-> "details"]>> @@
    rps :> <<[parent |-> cl, pool |-> NoRef, host |-> NoRef,
              stats |-> FALSE, lacks |-> "nothing"],
             [parent |-> cl, pool |-> NoRef, host |-> NoRef,
              stats |-> TRUE, lacks |-> "summary"]>>

(* The same VM and one in no pool and on no host.  *)
MCTwoItems ==
    vms :> <<[parent |-> folder, pool |-> rp, host |-> hs,
              stats |-> TRUE, lacks |-> "details"],
             [parent |-> folder, pool |-> NoRef, host |-> NoRef,
              stats |-> TRUE, lacks |-> "nothing"]>> @@
    rps :> <<>>

(* Two Updates of one object, and one of another beside them.  *)
OfAll  == a1 :> vms @@ a2 :> vms @@ b1 :> rps
OfPair == a1 :> vms @@ a2 :> vms

(* They are Updates of the same object.  *)
Symmetric == Permutations({a1, a2})
=============================================================================

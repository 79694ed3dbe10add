---------------------------- MODULE PcdNamespaces ----------------------------
(***************************************************************************)
(* The "delete -pcd" command composed with the namespaces it can break.   *)
(* DeletePcdCmd hands the LSA partition to ModifyPcdConfig with no check  *)
(* of the namespaces on the DIMMs (IsNamespaceOnDimms is never called),   *)
(* so the LSA of some DIMMs of an interleave set may be zeroed under a    *)
(* namespace that spans all of them.  Namespaces are created and deleted  *)
(* before the command and after it, where the driver may restart and      *)
(* rebuild its inventory from what is left on the media.                  *)
(***************************************************************************)
EXTENDS Naturals

CONSTANTS
    Dimms, PcdValues,            \* as in DeletePcd
    NUnits, Uuids, Sizes, Largest, \* as in Namespaces
    MaxNsOps                     \* namespace operations and restarts in all

VARIABLES
    osBuild, manageable, force, dimmTarget, pcdValue, pc, mask, ids,
    todo, agreed, confirmed, cleared, rc,
    labels, nsList, used, nsPc, cur, nsTodo, nsRet,
    nsOps      \* namespace operations and restarts so far

Pcd == INSTANCE DeletePcd
Ns == INSTANCE Namespaces WITH todo <- nsTodo

pcdVars == <<osBuild, manageable, force, dimmTarget, pcdValue, pc, mask, ids,
             todo, agreed, confirmed, cleared, rc>>
nsVars == <<labels, nsList, used, nsPc, cur, nsTodo, nsRet>>
vars == <<pcdVars, nsVars, nsOps>>

Init == Pcd!Init /\ Ns!Init /\ nsOps = 0

(* The namespaces may change only while no command runs.                  *)
Quiet == pc \in {"start", "done"} /\ nsPc = "idle"

(* A step of DeletePcdCmd before ModifyPcdConfig.                          *)
CommandStep ==
    /\ nsPc = "idle"
    /\ \/ Pcd!Start \/ Pcd!SelectConfigIdMask \/ Pcd!SelectDimms
       \/ Pcd!FormatDisplayTargets \/ Pcd!PromptGlobal \/ Pcd!PromptDimm
    /\ UNCHANGED <<nsVars, nsOps>>

(* ModifyPcdConfig: every DIMM whose LSA partition it cleared has its     *)
(* label storage area zeroed.                                              *)
ClearPartitions ==
    /\ Pcd!ModifyPcdConfig
    /\ Ns!ZeroLabelStorageArea({d \in Dimms : "LSA" \in cleared'[d] \ cleared[d]})
    /\ UNCHANGED nsOps

(* The start of a creation or a delete of a namespace.                    *)
NamespaceOp ==
    /\ Quiet /\ nsOps < MaxNsOps
    /\ Ns!AllocateNamespaceCapacity \/ Ns!DeleteNamespace
    /\ nsOps' = nsOps + 1
    /\ UNCHANGED pcdVars

(* A restart of the driver, which rebuilds the inventory; it may cut a    *)
(* creation or a delete short, but not the command, which runs in the     *)
(* shell on top of the driver.                                             *)
Restart ==
    /\ pc \in {"start", "done"}
    /\ Ns!InitializeNamespaces
    /\ UNCHANGED <<pcdVars, nsOps>>

(* The label writes of a creation or a delete under way.                  *)
LabelStep ==
    /\ Ns!InsertNamespaceLabels \/ Ns!RemoveNamespaceLabels
    /\ UNCHANGED <<pcdVars, nsOps>>

Next == CommandStep \/ ClearPartitions \/ NamespaceOp \/ LabelStep \/ Restart

Spec == Init /\ [][Next]_vars

-----------------------------------------------------------------------------
(* The properties of both components, checked on the composition.          *)
TypeOK == Pcd!TypeOK /\ Ns!TypeOK
ClearedAsRequested == Pcd!ClearedAsRequested
ConsentBeforeClear == Pcd!ConsentBeforeClear
NoDoubleAllocation == Ns!NoDoubleAllocation
UsedCoversMedia == Ns!UsedCoversMedia
=============================================================================

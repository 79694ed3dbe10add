------------------------------ MODULE Namespaces ----------------------------
(***************************************************************************)
(* Namespace provisioning across the DIMMs of one interleave set: the      *)
(* Capacity Allocator and the Namespace Inventory (spec.md 4.4, 4.5, 5;    *)
(* the prototypes FindADMemmapRangeInIS, AllocateNamespaceCapacity,        *)
(* InsertNamespaceLabels, RemoveNamespaceLabels, ZeroLabelStorageArea and  *)
(* InitializeNamespaces in Namespace.h).  DPA space is a few units per     *)
(* DIMM.  An App Direct namespace takes the same range on every DIMM of    *)
(* the set, a block namespace a range on one DIMM.  The allocation marks   *)
(* the range taken in the in-memory free map; the labels are then written  *)
(* DIMM by DIMM, and any write may fail with no rollback of the others.    *)
(* Each DIMM's LSA is taken as atomic here: LsaStore shows it refines the  *)
(* label map of LabelMap.                                                  *)
(***************************************************************************)
EXTENDS Naturals, FiniteSets, FiniteSetsExt

CONSTANTS
    Dimms,      \* the DIMMs of the interleave set
    NUnits,     \* DPA units of each DIMM
    Uuids,      \* namespace UUIDs GenerateRandomGuid may return
    Sizes,      \* capacities a caller may request, in units
    Largest     \* the MAX_UINT64 request: the largest free range

Units == 0..(NUnits - 1)

(* The targets of AllocateNamespaceCapacity: the interleave set, or one   *)
(* DIMM.                                                                   *)
Targets == {Dimms} \cup {{d} : d \in Dimms}

DpaRange(start, size) == start..(start + size - 1)

(* NAMESPACE_LABEL as the inventory reads it: the range on this DIMM and  *)
(* how many labels the namespace has in all.                               *)
Label == [uuid : Uuids, start : Units, size : 1..NUnits,
          total : 1..Cardinality(Dimms)]

(* NAMESPACE: its DIMMs, its range and whether its labels agree.          *)
Namespace == [uuid : Uuids, dimms : SUBSET Dimms, start : Units,
              size : 1..NUnits, total : 1..Cardinality(Dimms), healthy : BOOLEAN]

VARIABLES
    labels,   \* labels[d]: the labels in the LSA of DIMM d
    nsList,   \* the namespaces list of the driver
    used,     \* used[d]: units the in-memory free map of DIMM d counts as taken
    nsPc,     \* "idle", or the labels of "create" or "delete" being written
    cur,      \* the namespace being created or deleted
    todo,     \* DIMMs whose labels are still to be written or removed
    nsRet     \* status of the last namespace operation

nsVars == <<labels, nsList, used, nsPc, cur, todo, nsRet>>

NoNamespace == [uuid |-> CHOOSE u \in Uuids : TRUE, dimms |-> {}, start |-> 0,
                size |-> 1, total |-> 1, healthy |-> FALSE]

TypeOK ==
    /\ labels \in [Dimms -> SUBSET Label]
    /\ nsList \subseteq Namespace
    /\ used \in [Dimms -> SUBSET Units]
    /\ nsPc \in {"idle", "create", "delete"}
    /\ cur \in Namespace /\ todo \subseteq Dimms
    /\ nsRet \in {"Success", "OutOfResources", "DeviceError", "NotFound"}

Init ==
    /\ labels = [d \in Dimms |-> {}]
    /\ nsList = {}
    /\ used = [d \in Dimms |-> {}]
    /\ nsPc = "idle" /\ cur = NoNamespace /\ todo = {}
    /\ nsRet = "Success"

-----------------------------------------------------------------------------
(* The free map common to the DIMMs ds, and its free runs <<start, size>>. *)
CommonFree(ds) == {u \in Units : \A d \in ds : u \notin used[d]}

FreeRuns(free) ==
    {r \in Units \X (1..NUnits) : DpaRange(r[1], r[2]) \subseteq free}

NoRange == <<>>

(* The run of the size with the lowest DPA among the free runs, or for     *)
(* MAX_UINT64 the largest run.                                             *)
LowestRun(free, size) ==
    LET fits == {r \in FreeRuns(free) : size = Largest \/ r[2] = size}
        want == IF size = Largest /\ fits # {}
                  THEN Max({r[2] : r \in fits}) ELSE size
        best == {r \in fits : r[2] = want}
    IN IF best = {} THEN NoRange
       ELSE CHOOSE r \in best : \A q \in best : r[1] <= q[1]

(* Mutant: the range is looked up in the free map of one DIMM only.        *)
FindRangeFirstDimm(ds, size) == LowestRun(CommonFree({Min(ds)}), size)

(* FindADMemmapRangeInIS: the lowest run free on every DIMM of the target. *)
FindADMemmapRangeInIS(ds, size) == LowestRun(CommonFree(ds), size)

OnMedia(u) == \E d \in Dimms : \E l \in labels[d] : l.uuid = u

(* CreateNamespace with a fresh GUID: AllocateNamespaceCapacity finds a   *)
(* range on the target and marks it taken in the free map, then the label *)
(* writes start.                                                           *)
AllocateNamespaceCapacity ==
    /\ nsPc = "idle"
    /\ \E u \in Uuids, ds \in Targets, size \in Sizes :
         LET r == FindADMemmapRangeInIS(ds, size) IN
         /\ \A n \in nsList : n.uuid # u
         /\ ~OnMedia(u)
         /\ IF r = NoRange
              THEN /\ nsRet' = "OutOfResources"
                   /\ UNCHANGED <<used, nsPc, cur, todo>>
              ELSE /\ cur' = [uuid |-> u, dimms |-> ds, start |-> r[1],
                              size |-> r[2], total |-> Cardinality(ds),
                              healthy |-> TRUE]
                   /\ used' = [d \in Dimms |->
                                 IF d \in ds THEN used[d] \cup DpaRange(r[1], r[2])
                                 ELSE used[d]]
                   /\ todo' = ds
                   /\ nsPc' = "create"
                   /\ UNCHANGED nsRet
    /\ UNCHANGED <<labels, nsList>>

LabelOf(n) == [uuid |-> n.uuid, start |-> n.start, size |-> n.size,
               total |-> n.total]

(* InsertNamespaceLabels on the next DIMM, in DIMM order.  It succeeds,   *)
(* or fails and the creation stops there: the labels already written and *)
(* the taken range stay.  The last success lists the namespace.           *)
InsertNamespaceLabels ==
    LET d == Min(todo) IN
    /\ nsPc = "create" /\ todo # {}
    /\ \/ /\ labels' = [labels EXCEPT ![d] = @ \cup {LabelOf(cur)}]
          /\ todo' = todo \ {d}
          /\ IF todo = {d}
               THEN nsList' = nsList \cup {cur} /\ nsPc' = "idle" /\ nsRet' = "Success"
               ELSE UNCHANGED <<nsList, nsPc, nsRet>>
       \/ /\ nsRet' \in {"OutOfResources", "DeviceError"}
          /\ nsPc' = "idle" /\ todo' = {}
          /\ UNCHANGED <<labels, nsList>>
    /\ UNCHANGED <<used, cur>>

(* Mutant: the delete gives the range back to the free map before it has  *)
(* removed any label.                                                      *)
DeleteNamespaceFreesFirst ==
    /\ nsPc = "idle"
    /\ \E n \in nsList :
         /\ cur' = n /\ todo' = n.dimms /\ nsPc' = "delete"
         /\ used' = [d \in Dimms |->
                       IF d \in n.dimms THEN used[d] \ DpaRange(n.start, n.size)
                       ELSE used[d]]
    /\ UNCHANGED <<labels, nsList, nsRet>>

(* DeleteNamespace of a listed namespace: its labels are removed DIMM by  *)
(* DIMM.                                                                   *)
DeleteNamespace ==
    /\ nsPc = "idle"
    /\ \E n \in nsList :
         /\ cur' = n /\ todo' = n.dimms /\ nsPc' = "delete"
    /\ UNCHANGED <<labels, nsList, used, nsRet>>

(* RemoveNamespaceLabels on the next DIMM.  A failure stops the delete:   *)
(* the namespace stays listed and keeps its range.  The last success      *)
(* drops it from the list and frees its range.                            *)
RemoveNamespaceLabels ==
    LET d == Min(todo) IN
    /\ nsPc = "delete" /\ todo # {}
    /\ \/ /\ labels' = [labels EXCEPT ![d] = {l \in @ : l.uuid # cur.uuid}]
          /\ todo' = todo \ {d}
          /\ IF todo = {d}
               THEN /\ nsList' = nsList \ {cur}
                    /\ used' = [e \in Dimms |->
                                  IF e \in cur.dimms THEN used[e] \ DpaRange(cur.start, cur.size)
                                  ELSE used[e]]
                    /\ nsPc' = "idle" /\ nsRet' = "Success"
               ELSE UNCHANGED <<nsList, used, nsPc, nsRet>>
       \/ /\ nsRet' = "DeviceError"
          /\ nsPc' = "idle" /\ todo' = {}
          /\ UNCHANGED <<labels, nsList, used>>
    /\ UNCHANGED cur

(* ZeroLabelStorageArea on the DIMMs ds: their LSAs hold no label.        *)
ZeroLabelStorageArea(ds) ==
    /\ nsPc = "idle"
    /\ labels' = [d \in Dimms |-> IF d \in ds THEN {} ELSE labels[d]]
    /\ UNCHANGED <<nsList, used, nsPc, cur, todo, nsRet>>

(* The labels of namespace u on the media, and the DIMMs that hold them.  *)
LabelsOf(u) == {l \in UNION {labels[d] : d \in Dimms} : l.uuid = u}
HoldersOf(u) == {d \in Dimms : \E l \in labels[d] : l.uuid = u}

(* The namespaces the labels on the media describe: one per UUID, healthy *)
(* only when every label it counts was found.                              *)
Rebuilt ==
    {LET l == CHOOSE m \in LabelsOf(u) : TRUE IN
       [uuid |-> u, dimms |-> HoldersOf(u), start |-> l.start, size |-> l.size,
        total |-> l.total, healthy |-> Cardinality(HoldersOf(u)) = l.total]
     : u \in {u \in Uuids : OnMedia(u)}}

(* Mutant: namespaces whose labels disagree are left out of the inventory. *)
InitializeNamespacesDropsBroken ==
    LET kept == {n \in Rebuilt : n.healthy} IN
    /\ nsList' = kept
    /\ used' = [d \in Dimms |->
                  UNION {DpaRange(n.start, n.size) : n \in {m \in kept : d \in m.dimms}}]
    /\ nsPc' = "idle" /\ cur' = NoNamespace /\ todo' = {}
    /\ UNCHANGED <<labels, nsRet>>

(* InitializeNamespaces when the driver loads, after a restart that may   *)
(* cut a creation or a delete short: the namespaces list and the free map *)
(* are rebuilt from the labels on the media; a namespace with missing     *)
(* labels is listed and flagged, not dropped.                              *)
InitializeNamespaces ==
    /\ nsList' = Rebuilt
    /\ used' = [d \in Dimms |->
                  UNION {DpaRange(l.start, l.size) : l \in labels[d]}]
    /\ nsPc' = "idle" /\ cur' = NoNamespace /\ todo' = {}
    /\ UNCHANGED <<labels, nsRet>>

Next ==
    \/ AllocateNamespaceCapacity
    \/ InsertNamespaceLabels
    \/ DeleteNamespace
    \/ RemoveNamespaceLabels
    \/ \E ds \in SUBSET Dimms : ds # {} /\ ZeroLabelStorageArea(ds)
    \/ InitializeNamespaces

Spec == Init /\ [][Next]_nsVars

-----------------------------------------------------------------------------
(* No two namespaces hold the same DPA of a DIMM on the media, whatever   *)
(* creations and deletes failed half-way, whatever LSAs were zeroed and    *)
(* wherever the driver restarted: the allocator consults a free map kept  *)
(* in step with the labels by AllocateNamespaceCapacity, DeleteNamespace   *)
(* and InitializeNamespaces.                                               *)
NoDoubleAllocation ==
    \A d \in Dimms : \A l, m \in labels[d] :
        l # m => DpaRange(l.start, l.size) \cap DpaRange(m.start, m.size) = {}

(* The in-memory free map never offers a DPA that a label on the media    *)
(* holds: a failed label write keeps its range taken, a failed delete     *)
(* keeps it, and a restart rebuilds the map from every label found,        *)
(* those of broken namespaces included.                                    *)
UsedCoversMedia ==
    \A d \in Dimms : \A l \in labels[d] : DpaRange(l.start, l.size) \subseteq used[d]
=============================================================================

------------------------- MODULE ShowMemoryResources -------------------------
(***************************************************************************)
(* The "show -memoryresources" command (cli/ShowMemoryResourcesCommand.c, *)
(* ShowMemoryResources): after its setup it asks the driver for the       *)
(* MEMORY_RESOURCES_INFO and prints six capacities, each formatted by     *)
(* MakeCapacityString.  The first call assigns ReturnCode, the other five *)
(* go through KEEP_ERROR.  A printed capacity is abstracted to "value",   *)
(* or "null" when MakeCapacityString failed and left the string NULL.     *)
(***************************************************************************)
EXTENDS Naturals, Sequences, SequencesExt

Capacities == <<"Raw", "Volatile", "AppDirect", "Unconfigured",
                "Inaccessible", "Reserved">>
Codes == {"Success", "NotFound", "InvalidParameter", "LoadError",
          "DeviceError", "OutOfResources"}

VARIABLES
    pc,      \* "start", "caps" (the MakeCapacityString calls), "done"
    next,    \* index in Capacities of the next call
    shown,   \* what is printed for each capacity ("none" before its call)
    rc       \* ReturnCode

vars == <<pc, next, shown, rc>>

TypeOK ==
    /\ pc \in {"start", "caps", "done"}
    /\ next \in 1..(Len(Capacities) + 1)
    /\ shown \in [ToSet(Capacities) -> {"none", "value", "null"}]
    /\ rc \in Codes

Init ==
    /\ pc = "start" /\ next = 1
    /\ shown = [c \in ToSet(Capacities) |-> "none"]
    /\ rc = "Success"

(* Display preferences, the -units option, the config protocol and        *)
(* GetMemoryResourcesInfo may fail; a missing current configuration comes *)
(* back as EFI_LOAD_ERROR with its own message.                           *)
Start ==
    /\ pc = "start"
    /\ \/ rc' \in {"NotFound", "InvalidParameter", "LoadError", "DeviceError"}
          /\ pc' = "done"
       \/ pc' = "caps" /\ UNCHANGED rc
    /\ UNCHANGED <<next, shown>>

(* Mutant: the result of each call is assigned, not kept.                 *)
AssignError(kept, new) == new

(* KEEP_ERROR: an error already kept stays.                               *)
KeepError(kept, new) == IF kept = "Success" THEN new ELSE kept

(* One MakeCapacityString and the key it sets; the first result is        *)
(* assigned to ReturnCode, the later ones kept with KEEP_ERROR.           *)
MakeCapacityString ==
    /\ pc = "caps"
    /\ \E r \in {"Success", "OutOfResources"} :
         /\ rc' = IF next = 1 THEN r ELSE KeepError(rc, r)
         /\ shown' = [shown EXCEPT ![Capacities[next]] =
                        IF r = "Success" THEN "value" ELSE "null"]
    /\ next' = next + 1
    /\ pc' = IF next = Len(Capacities) THEN "done" ELSE "caps"

Next == Start \/ MakeCapacityString

Spec == Init /\ [][Next]_vars

-----------------------------------------------------------------------------
(* When show -memoryresources has printed its capacities, it returns      *)
(* success exactly when every one of the six was formatted: a failed      *)
(* MakeCapacityString is never hidden by a later one that succeeds.       *)
CapacityFailureReported ==
    (pc = "done" /\ next > Len(Capacities)) =>
        (rc = "Success" <=> \A i \in 1..Len(Capacities) : shown[Capacities[i]] = "value")
=============================================================================

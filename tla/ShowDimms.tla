------------------------------- MODULE ShowDimms ------------------------------
(***************************************************************************)
(* The "show -dimm" command (cli/ShowDimmsCommand.c, ShowDimms).  After   *)
(* its setup it selects DIMMs by -dimm and -socket, then walks the DIMM   *)
(* list in order, printing either the summary table or, with -all or      *)
(* -display, the detailed attributes.  A DIMM is its index in the list    *)
(* and carries the DIMM_INFO fields the control flow reads.  The          *)
(* attributes are one of each kind the detailed view handles: see Attrs.  *)
(* A printed value is "value", "Unknown", "N/A", "null" (a NULL string), *)
(* "AppDirect" for the interface format code, "0"/"1" for the mixed-SKU   *)
(* flag.  A DIMM reports at most one interface format code.               *)
(***************************************************************************)
EXTENDS Naturals, FiniteSets

CONSTANTS
    NDimms,      \* DimmCount
    Sockets,     \* socket ids of the platform
    Skus,        \* SkuInformation values
    ErrorBits,   \* DIMM_INFO ErrorMask bits the driver may set
    Options,     \* "table", "all", or the one attribute -display names
    DimmInfos    \* the DIMM_INFO records a model lets the driver return

Dimms == 1..NDimms
(* Capacity: MakeCapacityString assigned to ReturnCode; HealthStateReason: *)
(* a conversion that ends the command when it fails; InterfaceFormatCode; *)
(* Plain: the attributes printed straight from DIMM_INFO before the      *)
(* health state reason; Inventory: those printed after the interface      *)
(* format code, from Manageability to FormFactor; and the                 *)
(* attributes of manageable DIMMs only: VolatileCapacity (KEEP_ERROR),     *)
(* BootStatus (GetBSRAndBootStatusBitMask assigned to ReturnCode),        *)
(* MaxControllerTemperature (FIS 2.0 only) and MixedSku.                  *)
(* They are in pOnlyManageableAllowedDisplayValues, set to N/A on an     *)
(* unmanageable DIMM.                                                      *)
ManageableOnly == {"VolatileCapacity", "BootStatus", "MaxControllerTemperature", "MixedSku"}
Attrs == {"Capacity", "HealthStateReason", "InterfaceFormatCode", "Plain", "Inventory"} \cup ManageableOnly
DimmInfo == [socket : Sockets, manageable : BOOLEAN, fis20 : BOOLEAN,
             appDirect : BOOLEAN, errorMask : SUBSET ErrorBits, sku : Skus]
ASSUME DimmInfos \subseteq DimmInfo

Codes == {"Success", "InvalidParameter", "OutOfResources", "NotFound", "Aborted",
          "DeviceError"}
Values == {"value", "Unknown", "N/A", "null", "AppDirect", "0", "1"}

VARIABLES
    dimm,            \* the DIMM_INFO list GetAllDimmList returns
    dimmTarget,      \* DIMM ids of -dimm ({} when not given)
    socketTarget,    \* socket ids of -socket ({} when not given)
    option,          \* the display option
    pc, idx,         \* step, and DimmIndex
    FIS_2_0, ByteAddressable, IsMixedSku,   \* flags of ShowDimms
    nulls,           \* gNullValuesEncounteredForDisplay > 0: the printer
                     \* counts a NULL value while gDisplayNulls is set
    shown,           \* printed <<dimm, attribute, value>> entries
    reachedEnd,      \* the loop ended and the null-value check ran
    rc               \* ReturnCode

vars == <<dimm, dimmTarget, socketTarget, option, pc, idx, FIS_2_0,
          ByteAddressable, IsMixedSku, nulls, shown, reachedEnd, rc>>

TypeOK ==
    /\ dimm \in [Dimms -> DimmInfo]
    /\ dimmTarget \subseteq Dimms /\ socketTarget \subseteq Sockets
    /\ option \in Options
    /\ pc \in {"setup", "select", "mixedSku", "table", "detail", "end", "done"}
    /\ idx \in 1..(NDimms + 1)
    /\ {FIS_2_0, ByteAddressable, IsMixedSku, nulls, reachedEnd} \subseteq BOOLEAN
    /\ shown \subseteq Dimms \X Attrs \X Values
    /\ rc \in Codes

Init ==
    /\ dimm \in [Dimms -> DimmInfos]
    /\ dimmTarget \in SUBSET Dimms
    /\ socketTarget \in SUBSET Sockets
    /\ option \in Options
    /\ pc = "setup" /\ idx = 1
    /\ FIS_2_0 = FALSE /\ ByteAddressable = FALSE /\ IsMixedSku = FALSE
    /\ nulls = FALSE /\ shown = {} /\ reachedEnd = FALSE
    /\ rc = "Success"

Inputs == <<dimm, dimmTarget, socketTarget, option>>
Flags == <<FIS_2_0, ByteAddressable, IsMixedSku>>

ShowTableView == option = "table"
ShowAll == option = "all"
(* gDisplayNulls: set for -display, so that a NULL value is printed as    *)
(* "Unsupported Field" and counted.                                        *)
DisplayNulls == option \notin {"table", "all"}
Wants(a) == ShowAll \/ option = a

(* ContainUint on -dimm and on -socket: the filter of both loops.         *)
Wanted(d) ==
    /\ dimmTarget = {} \/ d \in dimmTarget
    /\ socketTarget = {} \/ dimm[d].socket \in socketTarget

(* The setup calls, each of which may fail and goto Finish: the display   *)
(* options, -socket parsing, preferences, -units, the config protocol,    *)
(* the command status, GetAllDimmList, IsSkuMixed, the copy of the DIMM   *)
(* list and -dimm parsing.                                                 *)
Setup ==
    /\ pc = "setup"
    /\ \/ /\ rc' \in {"OutOfResources", "InvalidParameter", "NotFound", "Aborted"}
          /\ pc' = "done"
       \/ pc' = "select" /\ UNCHANGED rc
    /\ UNCHANGED <<Inputs, idx, Flags, nulls, shown, reachedEnd>>

(* Mutant: the socket check looks at every DIMM, not only those that      *)
(* -dimm marked ok to display.                                             *)
FoundAnyOnSocket ==
    \E d \in Dimms : dimm[d].socket \in socketTarget

(* Some DIMM marked ok to display (DimmIsOkToDisplay) is on a -socket.    *)
Found ==
    \E d \in Dimms : (dimmTarget = {} \/ d \in dimmTarget) /\ dimm[d].socket \in socketTarget

(* With -socket, no DIMM that is ok to display on those sockets is        *)
(* EFI_NOT_FOUND; then the table or the detailed view.                     *)
SelectTargets ==
    /\ pc = "select"
    /\ IF socketTarget # {} /\ ~Found
         THEN rc' = "NotFound" /\ pc' = "done"
         ELSE /\ pc' = IF ShowTableView THEN "table" ELSE "mixedSku"
              /\ UNCHANGED rc
    /\ UNCHANGED <<Inputs, idx, Flags, nulls, shown, reachedEnd>>

(* Mutant: the comparison loop stops one DIMM early.                      *)
MixedSkuSkipLast ==
    \E i \in 1..(NDimms - 1) : dimm[i].manageable /\ dimm[i].sku # dimm[1].sku

(* IsDimmsMixedSkuCfg: every manageable DIMM compared with pDimms[0].     *)
MixedSku ==
    \E i \in Dimms : dimm[i].manageable /\ dimm[i].sku # dimm[1].sku

(* IsDimmsMixedSkuCfg before the detailed view; GetDimmCount, the         *)
(* allocation and GetDimms may fail.                                       *)
IsDimmsMixedSkuCfg ==
    /\ pc = "mixedSku"
    /\ \/ rc' \in {"NotFound", "OutOfResources", "Aborted"} /\ pc' = "done"
          /\ UNCHANGED IsMixedSku
       \/ IsMixedSku' = MixedSku /\ pc' = "detail" /\ rc' = "Success"
    /\ UNCHANGED <<Inputs, idx, FIS_2_0, ByteAddressable, nulls, shown, reachedEnd>>

(* The condition of both DIMM loops, DimmIndex < DimmCount.                *)
MoreDimms == idx <= NDimms

(* What GetPreferredDimmIdAsString, whose body is not under src/, may      *)
(* return; the DimmID string is printed either way.                        *)
IdResults == {"Success", "InvalidParameter"}

(* One row of the summary table: MakeCapacityString's result is assigned  *)
(* to ReturnCode and then overwritten by GetPreferredDimmIdAsString.      *)
(* gDisplayNulls is not set, so a NULL capacity is not counted.           *)
TableRow ==
    LET d == idx IN
    /\ pc = "table" /\ MoreDimms
    /\ idx' = idx + 1
    /\ IF ~Wanted(d)
         THEN UNCHANGED <<shown, rc>>
         ELSE \E cap \in {"Success", "OutOfResources"}, id \in IdResults :
                /\ shown' = shown \cup {<<d, "Capacity", IF cap = "Success" THEN "value" ELSE "null">>,
                                        <<d, "Plain", "value">>}
                /\ rc' = id
    /\ UNCHANGED <<Inputs, pc, Flags, nulls, reachedEnd>>

(* The capacity of a DIMM_INFO: the printed value, or NULL when           *)
(* MakeCapacityString failed.                                              *)
CapacityValue(r) == IF r = "Success" THEN "value" ELSE "null"

(* Manageability to FormFactor: the identity, location and SMBIOS        *)
(* attributes every DIMM prints ("Unknown" for a UID the driver could not  *)
(* read, N/A for manufacturing data that is not valid).                    *)
InventoryEntries(d) == IF Wants("Inventory") THEN {<<d, "Inventory", "value">>} ELSE {}

(* Max Controller Temperature without a memory info page error: N/A      *)
(* while FIS_2_0 is clear; with it set, the value, or an "Unknown" string *)
(* that is built and freed without being printed after a smart and health *)
(* error.                                                                  *)
MaxControllerTemperatureEntry(d, fis) ==
    IF ~fis THEN {<<d, "MaxControllerTemperature", "N/A">>}
    ELSE IF "SmartAndHealth" \in dimm[d].errorMask THEN {}
    ELSE {<<d, "MaxControllerTemperature", "value">>}

(* MixedSku: the flag IsDimmsMixedSkuCfg computed before the loop.         *)
MixedSkuEntry(d) == {<<d, "MixedSku", IF IsMixedSku THEN "1" ELSE "0">>}

(* An unmanageable DIMM: N/A for every manageable-only attribute wanted.  *)
NotApplicableEntries(d) == {<<d, a, "N/A">> : a \in {x \in ManageableOnly : Wants(x)}}

(* The attributes of a manageable DIMM (the block under                    *)
(* "if (pDimms[DimmIndex].ManageabilityState)"), given the FIS_2_0 flag    *)
(* after this DIMM, and the outcomes of the volatile capacity string and  *)
(* of GetBSRAndBootStatusBitMask.  MaxControllerTemperature is only in   *)
(* the branch without a memory info page error, and with a smart and      *)
(* health error its "Unknown" string is built and freed, never printed.   *)
ManageableEntries(d, fis, vol, bsr) ==
    LET info == dimm[d] IN
    (IF Wants("VolatileCapacity") THEN {<<d, "VolatileCapacity", CapacityValue(vol)>>} ELSE {})
    \cup (IF Wants("BootStatus")
            THEN {<<d, "BootStatus", IF bsr = "Success" THEN "value" ELSE "Unknown">>} ELSE {})
    \cup (IF Wants("MaxControllerTemperature") /\ "MemInfoPage" \notin info.errorMask
            THEN MaxControllerTemperatureEntry(d, fis) ELSE {})
    \cup (IF Wants("MixedSku") THEN MixedSkuEntry(d) ELSE {})

(* ReturnCode through a manageable DIMM: the volatile capacity is kept    *)
(* with KEEP_ERROR, GetBSRAndBootStatusBitMask is assigned.                *)
ManageableRc(r, vol, bsr) ==
    LET r2 == IF Wants("VolatileCapacity") /\ r # "Success" THEN r
              ELSE IF Wants("VolatileCapacity") THEN vol ELSE r
    IN IF Wants("BootStatus") THEN bsr ELSE r2

(* One DIMM of the detailed view.  FIS_2_0 is raised for a FIS 1.13 or    *)
(* later DIMM; the DimmID is always printed and GetPreferredDimmIdAsString *)
(* assigns ReturnCode; the capacity string is assigned to ReturnCode, and *)
(* so is the health state reason conversion, which ends the command (goto *)
(* Finish) when it fails or gives a NULL string, the latter with the      *)
(* EFI_SUCCESS it returned; ByteAddressable is raised by an App Direct     *)
(* interface format code, and without it the code string stays NULL;     *)
(* then the manageable-only attributes, or N/A.                            *)
VisitDimm ==
    LET d == idx
        info == dimm[d]
        fis == FIS_2_0 \/ info.fis20
        ba == ByteAddressable \/ (Wants("InterfaceFormatCode") /\ info.appDirect)
    IN
    /\ pc = "detail" /\ MoreDimms
    /\ idx' = idx + 1
    /\ IF ~Wanted(d)
         THEN UNCHANGED <<shown, nulls, rc, FIS_2_0, ByteAddressable, pc>>
         ELSE \E cap, vol \in {"Success", "OutOfResources"}, id \in IdResults,
                 reason \in {"Success", "OutOfResources", "NullString"},
                 bsr \in {"Success", "DeviceError"} :
              LET r1 == IF Wants("Capacity") THEN cap ELSE id
                  r2 == IF Wants("HealthStateReason") THEN "Success" ELSE r1
                  head == {<<d, "Plain", "value">>}
                          \cup (IF Wants("Capacity") THEN {<<d, "Capacity", CapacityValue(cap)>>} ELSE {})
                  stop == Wants("HealthStateReason") /\ reason # "Success"
                  rest == (IF Wants("HealthStateReason") THEN {<<d, "HealthStateReason", "value">>} ELSE {})
                          \cup (IF Wants("InterfaceFormatCode")
                                  THEN {<<d, "InterfaceFormatCode", IF ba THEN "AppDirect" ELSE "null">>}
                                  ELSE {})
                          \cup InventoryEntries(d)
                          \cup (IF info.manageable THEN ManageableEntries(d, fis, vol, bsr)
                                ELSE NotApplicableEntries(d))
                  nullNow == (Wants("Capacity") /\ cap # "Success")
                             \/ (~stop /\ Wants("InterfaceFormatCode") /\ ~ba)
                             \/ (~stop /\ info.manageable /\ Wants("VolatileCapacity") /\ vol # "Success")
              IN
              /\ FIS_2_0' = fis
              /\ nulls' = (nulls \/ (DisplayNulls /\ nullNow))
              /\ IF stop
                   THEN /\ shown' = shown \cup head
                        /\ rc' = IF reason = "NullString" THEN "Success" ELSE reason
                        /\ pc' = "done"
                        /\ UNCHANGED ByteAddressable
                   ELSE /\ shown' = shown \cup head \cup rest
                        /\ rc' = IF info.manageable THEN ManageableRc(r2, vol, bsr) ELSE r2
                        /\ ByteAddressable' = ba
                        /\ UNCHANGED pc
    /\ UNCHANGED <<Inputs, IsMixedSku, reachedEnd>>

(* The loop ends: the table or the detailed view is done.                  *)
EndLoop ==
    /\ pc \in {"table", "detail"} /\ ~MoreDimms
    /\ pc' = "end"
    /\ UNCHANGED <<Inputs, idx, Flags, nulls, shown, reachedEnd, rc>>

(* Without -all, a NULL value printed makes a successful command return   *)
(* EFI_INVALID_PARAMETER.                                                  *)
NullCheck == IF ~ShowAll /\ nulls /\ rc = "Success" THEN "InvalidParameter" ELSE rc

(* After the loop: the null-value check and the table attributes.         *)
Finish ==
    /\ pc = "end"
    /\ rc' = NullCheck
    /\ reachedEnd' = TRUE /\ pc' = "done"
    /\ UNCHANGED <<Inputs, idx, Flags, nulls, shown>>

Next ==
    \/ Setup \/ SelectTargets \/ IsDimmsMixedSkuCfg \/ TableRow \/ VisitDimm
    \/ EndLoop \/ Finish

Spec == Init /\ [][Next]_vars

-----------------------------------------------------------------------------
WantedDimms == {d \in Dimms : Wanted(d)}
Listed == {e[1] : e \in shown}

(* When show -dimm gets through its DIMM loop, it has listed exactly the  *)
(* DIMMs that -dimm and -socket select, and there is at least one: the    *)
(* DimmIsOkToDisplay marking, the socket check that returns NOT_FOUND and *)
(* the filters of the two loops agree.                                     *)
ListsExactlySelection ==
    reachedEnd => (Listed = WantedDimms /\ WantedDimms # {})

(* The mixed-SKU flag is never 0 while two manageable DIMMs have          *)
(* different SKUs.                                                         *)
MixedSkuDetected ==
    \A e \in shown :
        (e[2] = "MixedSku" /\ e[3] = "0") =>
            \A i, j \in Dimms : (dimm[i].manageable /\ dimm[j].manageable) => dimm[i].sku = dimm[j].sku

(* Every per-DIMM attribute shown in the detailed view describes that     *)
(* DIMM: a maximum controller temperature only for a DIMM whose firmware  *)
(* implements FIS 1.13 or later, and the App Direct interface format code *)
(* only for a DIMM that reports it.                                        *)
AttributesOfOwnDimm ==
    \A e \in shown :
        /\ (e[2] = "MaxControllerTemperature" /\ e[3] = "value") => dimm[e[1]].fis20
        /\ (e[2] = "InterfaceFormatCode" /\ e[3] = "AppDirect") => dimm[e[1]].appDirect
=============================================================================

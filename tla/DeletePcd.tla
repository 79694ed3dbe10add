------------------------------ MODULE DeletePcd -----------------------------
(***************************************************************************)
(* The "delete -pcd" command (cli/DeletePcdCommand.c, DeletePcdCmd): it   *)
(* picks the partitions to clear from the -pcd value, the DIMMs from the  *)
(* -dimm value, asks for confirmation unless -force is given (once, then  *)
(* once per DIMM), and hands everything to one ModifyPcdConfig call.  The *)
(* Config partitions (CIN, COUT, CCUR) are always cleared together and    *)
(* are one partition "Config" here.  The values of -pcd are case-folded   *)
(* tokens, since ValidatePcdTarget compares them with StrICmp.            *)
(***************************************************************************)
EXTENDS FiniteSets, FiniteSetsExt

CONSTANTS
    Dimms,       \* DIMM ids GetDimmList returns
    PcdValues    \* -pcd values the user may type: "", "Config", "LSA", ...

Partitions == {"Config", "LSA"}
Answers == {"yes", "no", "error"}   \* PromptYesNo: confirmed, declined, failed
Codes == {"Success", "NotFound", "InvalidParameter", "OutOfResources",
          "NotStarted", "DeviceError"}

VARIABLES
    osBuild,     \* compiled with OS_BUILD
    manageable,  \* manageability of each DIMM
    force,       \* -force or -f given
    dimmTarget,  \* DIMMs named by -dimm ({} when none are named)
    pcdValue,    \* value of -pcd
    pc,          \* the step of DeletePcdCmd about to run
    mask,        \* ConfigIdMask
    ids,         \* pDimmIds handed to ModifyPcdConfig
    todo,        \* DIMMs the per-DIMM prompt loop has still to ask about
    agreed,      \* the global prompt was answered yes
    confirmed,   \* DIMMs whose own prompt was answered yes
    cleared,     \* partitions ModifyPcdConfig cleared on each DIMM
    rc           \* ReturnCode

vars == <<osBuild, manageable, force, dimmTarget, pcdValue, pc, mask, ids,
          todo, agreed, confirmed, cleared, rc>>

TypeOK ==
    /\ osBuild \in BOOLEAN /\ force \in BOOLEAN /\ agreed \in BOOLEAN
    /\ manageable \in [Dimms -> BOOLEAN]
    /\ dimmTarget \subseteq Dimms /\ ids \subseteq Dimms
    /\ todo \subseteq Dimms /\ confirmed \subseteq Dimms
    /\ pcdValue \in PcdValues
    /\ pc \in {"start", "mask", "dimms", "display", "prompt", "perDimm",
               "modify", "done"}
    /\ mask \subseteq Partitions
    /\ cleared \in [Dimms -> SUBSET Partitions]
    /\ rc \in Codes

Init ==
    /\ osBuild \in BOOLEAN
    /\ manageable \in [Dimms -> BOOLEAN]
    /\ force \in BOOLEAN
    /\ dimmTarget \in SUBSET Dimms
    /\ pcdValue \in PcdValues
    /\ pc = "start"
    /\ mask = {} /\ ids = {} /\ todo = {} /\ confirmed = {}
    /\ agreed = FALSE
    /\ cleared = [d \in Dimms |-> {}]
    /\ rc = "InvalidParameter"

Fixed == <<osBuild, manageable, force, dimmTarget, pcdValue>>

Fail(code) == rc' = code /\ pc' = "done"

(* ValidatePcdTarget: the -pcd value equals the expected one, ignoring case. *)
ValidatePcdTarget(value, expected) == value = expected

(* Config protocol, DIMM list, command status and -dimm parsing, then the *)
(* manageability of the DIMMs named by -dimm.                             *)
Start ==
    /\ pc = "start"
    /\ \/ Fail("NotFound")               \* OpenNvmDimmProtocol, GetDimmList
       \/ Fail("OutOfResources")         \* InitializeCommandStatus
       \/ /\ \E d \in dimmTarget : ~manageable[d]
          /\ Fail("InvalidParameter")
       \/ /\ \A d \in dimmTarget : manageable[d]
          /\ pc' = "mask"
          /\ UNCHANGED rc
    /\ UNCHANGED <<Fixed, mask, ids, todo, agreed, confirmed, cleared>>

(* Mutant: the default mask ignores the OS build.                         *)
DefaultMaskAll == Partitions

(* The mask when -pcd names no partition: the Config ones in the OS build, *)
(* every partition otherwise.                                              *)
DefaultMask == IF osBuild THEN {"Config"} ELSE Partitions

(* ConfigIdMask from the -pcd value; no recognised value means every      *)
(* partition, or the Config ones only in the OS build, where LSA is refused. *)
SelectConfigIdMask ==
    LET lsa == ValidatePcdTarget(pcdValue, "LSA")
        chosen == (IF lsa THEN {"LSA"} ELSE {})
                    \cup (IF ValidatePcdTarget(pcdValue, "Config") THEN {"Config"} ELSE {})
    IN
    /\ pc = "mask"
    /\ IF lsa /\ osBuild
         THEN Fail("InvalidParameter") /\ UNCHANGED mask
         ELSE /\ mask' = IF chosen # {} THEN chosen
                         ELSE DefaultMask
              /\ pc' = "dimms"
              /\ UNCHANGED rc
    /\ UNCHANGED <<Fixed, ids, todo, agreed, confirmed, cleared>>

(* Mutant: the copy loop runs to Index <= DimmCount and takes one id past *)
(* the end of the list.                                                    *)
SelectDimmsPastEnd ==
    /\ pc = "dimms"
    /\ \/ /\ dimmTarget = {}
          /\ \/ Fail("OutOfResources") /\ UNCHANGED ids
             \/ ids' = Dimms \cup {Max(Dimms) + 1} /\ pc' = "display" /\ UNCHANGED rc
       \/ /\ dimmTarget # {}
          /\ ids' = dimmTarget /\ pc' = "display" /\ UNCHANGED rc
    /\ UNCHANGED <<Fixed, mask, todo, agreed, confirmed, cleared>>

(* No -dimm value: every DIMM of the list.                                 *)
SelectDimms ==
    /\ pc = "dimms"
    /\ \/ /\ dimmTarget = {}
          /\ \/ Fail("OutOfResources") /\ UNCHANGED ids
             \/ ids' = Dimms /\ pc' = "display" /\ UNCHANGED rc
       \/ /\ dimmTarget # {}
          /\ ids' = dimmTarget /\ pc' = "display" /\ UNCHANGED rc
    /\ UNCHANGED <<Fixed, mask, todo, agreed, confirmed, cleared>>

(* The "Config & LSA" text of the prompts; CatSPrint may fail.            *)
FormatDisplayTargets ==
    /\ pc = "display"
    /\ \/ Fail("OutOfResources")
       \/ pc' = "prompt" /\ UNCHANGED rc
    /\ UNCHANGED <<Fixed, mask, ids, todo, agreed, confirmed, cleared>>

(* Mutant: a yes to the global warning skips the per-DIMM prompts.        *)
PromptGlobalOnly ==
    /\ pc = "prompt"
    /\ IF force
         THEN pc' = "modify" /\ UNCHANGED <<agreed, todo, rc>>
         ELSE \E a \in Answers :
                IF a = "yes"
                  THEN agreed' = TRUE /\ pc' = "modify" /\ UNCHANGED <<todo, rc>>
                  ELSE Fail("NotStarted") /\ UNCHANGED <<agreed, todo>>
    /\ UNCHANGED <<Fixed, mask, ids, confirmed, cleared>>

(* Without -force: the global warning prompt.                              *)
PromptGlobal ==
    /\ pc = "prompt"
    /\ IF force
         THEN pc' = "modify" /\ UNCHANGED <<agreed, todo, rc>>
         ELSE \E a \in Answers :
                IF a = "yes"
                  THEN agreed' = TRUE /\ todo' = ids /\ pc' = "perDimm" /\ UNCHANGED rc
                  ELSE Fail("NotStarted") /\ UNCHANGED <<agreed, todo>>
    /\ UNCHANGED <<Fixed, mask, ids, confirmed, cleared>>

(* One pass of the per-DIMM prompt loop, in DIMM id order; the DIMM id    *)
(* string may fail to be built.                                            *)
PromptDimm ==
    LET d == Min(todo) IN
    /\ pc = "perDimm"
    /\ \/ /\ todo = {}
          /\ pc' = "modify"
          /\ UNCHANGED <<todo, confirmed, rc>>
       \/ /\ todo # {}
          /\ \E a \in Answers \cup {"idError"} :
               IF a = "yes"
                 THEN confirmed' = confirmed \cup {d} /\ todo' = todo \ {d}
                      /\ UNCHANGED <<pc, rc>>
               ELSE IF a = "idError"
                 THEN Fail("InvalidParameter") /\ UNCHANGED <<todo, confirmed>>
                 ELSE Fail("NotStarted") /\ UNCHANGED <<todo, confirmed>>
    /\ UNCHANGED <<Fixed, mask, ids, agreed, cleared>>

(* ModifyPcdConfig over all the DIMMs at once; each DIMM may fail on its  *)
(* own, and any failure makes the command fail.                           *)
ModifyPcdConfig ==
    /\ pc = "modify"
    /\ \E ok \in SUBSET ids :
         /\ cleared' = [d \in Dimms |->
                          IF d \in ok THEN cleared[d] \cup mask ELSE cleared[d]]
         /\ Fail(IF ok = ids THEN "Success" ELSE "DeviceError")
    /\ UNCHANGED <<Fixed, mask, ids, todo, agreed, confirmed>>

Next ==
    \/ Start \/ SelectConfigIdMask \/ SelectDimms \/ FormatDisplayTargets
    \/ PromptGlobal \/ PromptDimm \/ ModifyPcdConfig

Spec == Init /\ [][Next]_vars

-----------------------------------------------------------------------------
(* The partitions the user asked for: the one -pcd names, or every one    *)
(* when -pcd has no value (the Config ones in the OS build).              *)
Requested ==
    CASE pcdValue = "Config" -> {"Config"}
      [] pcdValue = "LSA"    -> IF osBuild THEN {} ELSE {"LSA"}
      [] pcdValue = ""       -> IF osBuild THEN {"Config"} ELSE Partitions
      [] OTHER               -> {}

(* A partition is cleared on a DIMM only if the user asked for it, on a   *)
(* DIMM the user selected (every DIMM when -dimm has no value): the       *)
(* target parsing of DeletePcdCmd and the mask it passes to               *)
(* ModifyPcdConfig.                                                        *)
ClearedAsRequested ==
    \A d \in Dimms :
        /\ cleared[d] \subseteq Requested
        /\ cleared[d] # {} => (dimmTarget = {} \/ d \in dimmTarget)

(* Nothing is cleared on a DIMM unless -force was given or the user       *)
(* confirmed both the global warning and that DIMM's own prompt.          *)
ConsentBeforeClear ==
    \A d \in Dimms : cleared[d] # {} => (force \/ (agreed /\ d \in confirmed))
=============================================================================

----------------------------- MODULE Diagnostics ----------------------------
(***************************************************************************)
(* The two entry points of the diagnostics core                           *)
(* (driver/Core/Diagnostics/CoreDiagnostics.c): CoreStartDiagnostics runs *)
(* every selected test (quick, config, security, firmware) in that order, *)
(* keeps the first error with KEEP_ERROR and combines the per-test        *)
(* messages and states into one result; CoreStartDiagnosticsDetail runs   *)
(* the first selected test of its else-if chain into one DIAG_INFO.  The  *)
(* tests themselves are outside the model: each run returns a status and  *)
(* the set of severities its messages set in the test state.              *)
(***************************************************************************)
EXTENDS Naturals, Sequences, SequencesExt, FiniteSets

CONSTANTS
    Dimms,         \* the platform DIMMs
    BadId,         \* a DIMM id the user may give that no DIMM has
    Outcomes,      \* [rc, state] a test run may end with
    HiiCanFail,    \* may HiiGetString return NULL
    Entries        \* entry points the callers use

TestOrder == <<"Quick", "Config", "Security", "Fw">>
Tests == ToSet(TestOrder)
Severities == {"Ok", "Warning", "Failed", "Aborted"}
Errors == {"InvalidParameter", "OutOfResources", "DeviceError", "Aborted"}

VARIABLES
    entry,       \* "Combined" (CoreStartDiagnostics) or "Detail"
    selected,    \* tests the DiagnosticsTest mask selects
    prefOk,      \* DimmIdPreference is DISPLAY_DIMM_ID_HANDLE or _UID
    specified,   \* pDimmIds
    manageable,  \* IsDimmManageable of each DIMM
    pc, next,    \* step, and index into TestOrder of the next test
    ran,         \* the test runs so far: [test, dimms, rc, state]
    report,      \* state string shown for each test ("none" if not shown)
    rc           \* ReturnCode

vars == <<entry, selected, prefOk, specified, manageable, pc, next, ran, report, rc>>

TypeOK ==
    /\ entry \in Entries
    /\ selected \subseteq Tests /\ prefOk \in BOOLEAN
    /\ specified \subseteq Dimms \cup {BadId}
    /\ manageable \in [Dimms -> BOOLEAN]
    /\ pc \in {"validate", "run", "combine", "done"}
    /\ next \in 1..(Len(TestOrder) + 1)
    /\ ran \in Seq([test : Tests, dimms : SUBSET Dimms,
                    rc : {"Success"} \cup Errors, state : SUBSET Severities])
    /\ report \in [Tests -> Severities \cup {"none"}]
    /\ rc \in {"Success"} \cup Errors

Init ==
    /\ entry \in Entries
    /\ selected \in SUBSET Tests
    /\ prefOk \in BOOLEAN
    /\ specified \in SUBSET (Dimms \cup {BadId})
    /\ manageable \in [Dimms -> BOOLEAN]
    /\ pc = "validate" /\ next = 1 /\ ran = <<>>
    /\ report = [t \in Tests |-> "none"]
    /\ rc = "Success"

Inputs == <<entry, selected, prefOk, specified, manageable>>

(* Mutant: the last error wins.                                           *)
KeepLastError(kept, new) == IF new = "Success" THEN kept ELSE new

(* KEEP_ERROR: an error already kept stays.                               *)
KeepError(kept, new) == IF kept = "Success" THEN new ELSE kept

ManageableDimms == {d \in Dimms : manageable[d]}

(* Mutant: the DIMM ids given are only counted, not looked up.            *)
IdsCountOnly == Cardinality(specified) <= Cardinality(Dimms)

(* The DIMM ids given for the quick test: no more than the platform has,  *)
(* and each the id of a platform DIMM.                                     *)
IdsValid == Cardinality(specified) <= Cardinality(Dimms) /\ BadId \notin specified

(* The parameter checks and the DIMM lists both entry points build; an    *)
(* AllocateZeroPool may fail.  CoreStartDiagnosticsDetail allocates its   *)
(* DIAG_INFO first and reports its failure as an invalid parameter.        *)
Validate ==
    LET quickIds == "Quick" \in selected /\ specified # {} IN
    /\ pc = "validate"
    /\ \/ /\ entry = "Detail"
          /\ rc' = "InvalidParameter" /\ pc' = "done"
       \/ rc' = "OutOfResources" /\ pc' = "done"
       \/ /\ ~prefOk \/ selected = {}
          /\ rc' = "InvalidParameter" /\ pc' = "done"
       \/ /\ prefOk /\ selected # {} /\ quickIds
          /\ \/ /\ ~IdsValid
                /\ rc' = "InvalidParameter"
             \/ rc' = "OutOfResources"
          /\ pc' = "done"
       \/ /\ prefOk /\ selected # {}
          /\ quickIds => IdsValid
          /\ pc' = "run" /\ UNCHANGED rc
    /\ UNCHANGED <<Inputs, next, ran, report>>

(* The DIMMs a test is given: the quick test the user's DIMMs, or every   *)
(* DIMM when none are given; the other tests the manageable DIMMs.        *)
DimmsFor(t) ==
    IF t = "Quick" THEN (IF specified # {} THEN specified ELSE Dimms)
    ELSE ManageableDimms

RunDiagnostic(t, o) == [test |-> t, dimms |-> DimmsFor(t), rc |-> o.rc, state |-> o.state]

(* Mutant: a failed state is looked for before an aborted one.            *)
GetDiagnosticStateFailedFirst(s) ==
    CASE "Failed" \in s  -> "Failed"
      [] "Aborted" \in s -> "Aborted"
      [] "Warning" \in s -> "Warning"
      [] OTHER           -> "Ok"

(* GetDiagnosticState: the first of aborted, failed, warning, ok set, and *)
(* ok when none is set.                                                    *)
GetDiagnosticState(s) ==
    CASE "Aborted" \in s -> "Aborted"
      [] "Failed" \in s  -> "Failed"
      [] "Warning" \in s -> "Warning"
      [] OTHER           -> "Ok"

(* CoreStartDiagnostics: one step of the sequence of if blocks, running   *)
(* test TestOrder[next] if it is selected and keeping its first error.    *)
RunSelectedTest ==
    LET t == TestOrder[next] IN
    /\ pc = "run" /\ entry = "Combined"
    /\ IF t \in selected
         THEN \E o \in Outcomes :
                /\ ran' = Append(ran, RunDiagnostic(t, o))
                /\ rc' = KeepError(rc, o.rc)
         ELSE UNCHANGED <<ran, rc>>
    /\ next' = next + 1
    /\ pc' = IF next = Len(TestOrder) THEN "combine" ELSE "run"
    /\ UNCHANGED <<Inputs, report>>

(* CombineDiagnosticsTestResults: a header, state and messages for each   *)
(* test that left messages; a test whose name or state string cannot be   *)
(* got is skipped.                                                         *)
CombineDiagnosticsTestResults ==
    /\ pc = "combine"
    /\ \E lost \in (IF HiiCanFail THEN SUBSET Tests ELSE {{}}) :
         report' = [t \in Tests |->
                      IF \E i \in DOMAIN ran : ran[i].test = t /\ ran[i].state # {}
                                              /\ t \notin lost
                        THEN GetDiagnosticState(ran[SelectInSeq(ran, LAMBDA r : r.test = t)].state)
                        ELSE "none"]
    /\ pc' = "done"
    /\ UNCHANGED <<Inputs, next, ran, rc>>

(* The else-if chain of CoreStartDiagnosticsDetail: the quick, config,    *)
(* security and firmware bits are tested in that order and only the first *)
(* one set is run.                                                         *)
FirstSelected == TestOrder[SelectInSeq(TestOrder, LAMBDA x : x \in selected)]

(* CoreStartDiagnosticsDetail: the first selected test, and the state      *)
(* string of its result.                                                    *)
RunFirstSelectedTest ==
    LET t == FirstSelected IN
    /\ pc = "run" /\ entry = "Detail"
    /\ \E o \in Outcomes :
         /\ ran' = <<RunDiagnostic(t, o)>>
         /\ rc' = KeepError(rc, o.rc)
         /\ \E shown \in (IF HiiCanFail THEN BOOLEAN ELSE {TRUE}) :
              report' = [report EXCEPT ![t] =
                           IF shown /\ o.state # {} THEN GetDiagnosticState(o.state) ELSE "none"]
    /\ pc' = "done"
    /\ UNCHANGED <<Inputs, next>>

Next ==
    \/ Validate \/ RunSelectedTest \/ CombineDiagnosticsTestResults
    \/ RunFirstSelectedTest

Spec == Init /\ [][Next]_vars

-----------------------------------------------------------------------------
(* The most severe severity of a test state, by rank.                     *)
Rank == [s \in Severities |-> CASE s = "Ok" -> 1 [] s = "Warning" -> 2
                                   [] s = "Failed" -> 3 [] s = "Aborted" -> 4]
MostSevere(s) == IF s = {} THEN "Ok"
                 ELSE CHOOSE x \in s : \A y \in s : Rank[x] >= Rank[y]

(* When a diagnostics call returns, every test that ran and left messages *)
(* is shown with its most severe state: the combined result of            *)
(* CoreStartDiagnostics, or the DIAG_INFO of CoreStartDiagnosticsDetail,  *)
(* drops no test that was run.                                             *)
EveryRunTestReported ==
    pc = "done" =>
        \A i \in DOMAIN ran :
            ran[i].state # {} => report[ran[i].test] = MostSevere(ran[i].state)

(* The status of a finished call is the error of the first test run that  *)
(* failed, in the order the tests ran, or success: later errors never     *)
(* overwrite an earlier one (KEEP_ERROR).                                  *)
FirstErrorKept ==
    (pc = "done" /\ ran # <<>>) =>
        LET i == SelectInSeq(ran, LAMBDA r : r.rc # "Success") IN
        rc = IF i = 0 THEN "Success" ELSE ran[i].rc

(* When a call returns success, every selected test was run, as the       *)
(* comment of both entry points says ("runs the specified diagnostics     *)
(* tests").                                                                 *)
AllSelectedTestsRun ==
    (pc = "done" /\ rc = "Success") => selected = {ran[i].test : i \in DOMAIN ran}
=============================================================================

------------------------------ MODULE ShowSensor ----------------------------
(***************************************************************************)
(* The "show -sensor" command (cli/ShowSensorCommand.c, ShowSensor): after *)
(* its setup it walks the DIMM list in order; for each selected DIMM whose *)
(* sensors can be read it prints every sensor asked for with the          *)
(* attributes the display options ask for.  A value is abstracted to      *)
(* "value" (a number from DimmSensorsSet) or "N/A".                        *)
(***************************************************************************)
EXTENDS Naturals, FiniteSets

CONSTANTS
    NDimms,        \* length of the DIMM list GetAllDimmList returns
    Options        \* display options: "default", "all", or one attribute

Dimms == 1..NDimms    \* a DIMM is its DimmIndex in the list
Sensors == {"ControllerTemperature", "MediaTemperature", "SpareCapacity", "Health"}
Temperatures == {"ControllerTemperature", "MediaTemperature"}
Attributes == {"CurrentValue", "AlarmThreshold", "AlarmEnabled",
               "ThrottlingStopThreshold", "ThrottlingStartThreshold",
               "ShutdownThreshold", "MaxTemperature"}
SensorTargets == {""} \cup Sensors \cup {"Bogus"}
Codes == {"Success", "InvalidParameter", "OutOfResources", "NotFound",
          "NotReady", "DeviceError"}

VARIABLES
    fis113,        \* FwApiMajor >= 2, or 1 and FwApiMinor >= 13, of each DIMM
    readable,      \* what GetSensorsInfo returns for each DIMM
    dimmTarget,    \* DIMMs named by -dimm ({} when not given)
    sensorTarget,  \* value of -sensor
    option,        \* display option
    pc, idx,       \* step, and DimmIndex
    FIS_1_13,      \* the flag of ShowSensor
    shown,         \* printed <<dimm, sensor, attribute, value>> entries
    rc             \* ReturnCode

vars == <<fis113, readable, dimmTarget, sensorTarget, option, pc, idx,
          FIS_1_13, shown, rc>>

TypeOK ==
    /\ fis113 \in [Dimms -> BOOLEAN]
    /\ readable \in [Dimms -> {"Success", "NotReady", "DeviceError"}]
    /\ dimmTarget \subseteq Dimms
    /\ sensorTarget \in SensorTargets
    /\ option \in Options
    /\ pc \in {"setup", "dimm", "done"}
    /\ idx \in 1..(NDimms + 1)
    /\ FIS_1_13 \in BOOLEAN
    /\ shown \subseteq Dimms \X Sensors \X Attributes \X {"value", "N/A"}
    /\ rc \in Codes

Init ==
    /\ fis113 \in [Dimms -> BOOLEAN]
    /\ readable \in [Dimms -> {"Success", "NotReady", "DeviceError"}]
    /\ dimmTarget \in SUBSET Dimms
    /\ sensorTarget \in SensorTargets
    /\ option \in Options
    /\ pc = "setup" /\ idx = 1
    /\ FIS_1_13 = FALSE
    /\ shown = {}
    /\ rc = "Success"

Inputs == <<fis113, readable, dimmTarget, sensorTarget, option>>

(* Display options, config protocol, command status, the DIMM list and    *)
(* -dimm parsing may fail; a -sensor name that matches no sensor fails.   *)
Setup ==
    /\ pc = "setup"
    /\ \/ /\ rc' \in {"OutOfResources", "InvalidParameter", "NotFound"}
          /\ pc' = "done"
       \/ /\ sensorTarget = "Bogus"
          /\ rc' = "InvalidParameter" /\ pc' = "done"
       \/ /\ sensorTarget # "Bogus"
          /\ pc' = "dimm" /\ UNCHANGED rc
    /\ UNCHANGED <<Inputs, idx, FIS_1_13, shown>>

(* Whether the display options ask for an attribute: CurrentValue unless  *)
(* -display leaves it out, the others with -all or -display naming them.  *)
Wanted(a) ==
    IF a = "CurrentValue" THEN option \in {"default", "all", "CurrentValue"}
    ELSE option \in {"all", a}

(* The attributes each sensor has, by its index in DimmSensorsSet.        *)
HasAttribute(s, a) ==
    CASE a \in {"CurrentValue"} -> TRUE
      [] a \in {"AlarmThreshold", "AlarmEnabled"} ->
            s \in Temperatures \cup {"SpareCapacity"}
      [] OTHER -> s \in Temperatures

(* The printed value of an attribute, given the FIS_1_13 flag.            *)
AttributeValue(a, flag) ==
    IF a = "MaxTemperature" /\ ~flag THEN "N/A" ELSE "value"

(* Mutant: only DIMMs named by -dimm are shown, none when it is not given. *)
SelectedOnlyNamed(d) == d \in dimmTarget

(* A DIMM the command reports on: every DIMM when -dimm has no value.     *)
Selected(d) == dimmTarget = {} \/ d \in dimmTarget

(* Mutant: the loop runs to DimmIndex <= DimmsCount.                       *)
DimmLoopPastEnd == idx <= NDimms + 1

(* The loop condition DimmIndex < DimmsCount.                              *)
DimmLoopContinues == idx <= NDimms

(* The sensors -sensor asks for: all of them when it has no value.        *)
SensorsShown == IF sensorTarget = "" THEN Sensors ELSE {sensorTarget}

(* One pass of the DIMM loop.  A DIMM not named by -dimm is skipped; a    *)
(* DIMM id string that cannot be built ends the command; a DIMM whose     *)
(* sensors cannot be read is reported and skipped; otherwise the flag is *)
(* raised for a FIS 1.13 firmware and the sensors are printed, where the  *)
(* health string may fail to be allocated.                                *)
VisitDimm ==
    LET d == idx
        flag == FIS_1_13 \/ fis113[d]
        printed == {<<d, p[1], p[2], AttributeValue(p[2], flag)>> :
                      p \in {q \in SensorsShown \X Attributes :
                               Wanted(q[2]) /\ HasAttribute(q[1], q[2])}}
        healthFails == "Health" \in SensorsShown /\ Wanted("CurrentValue")
    IN
    /\ pc = "dimm"
    /\ DimmLoopContinues
    /\ idx' = idx + 1
    /\ \/ /\ ~Selected(d)
          /\ UNCHANGED <<FIS_1_13, shown, rc, pc>>
       \/ /\ Selected(d)
          /\ \/ rc' = "InvalidParameter" /\ pc' = "done" /\ UNCHANGED <<FIS_1_13, shown>>
             \/ /\ readable[d] # "Success"
                /\ rc' = readable[d]
                /\ UNCHANGED <<FIS_1_13, shown, pc>>
             \/ /\ readable[d] = "Success"
                /\ FIS_1_13' = flag
                /\ \/ shown' = shown \cup printed /\ rc' = "Success" /\ UNCHANGED pc
                   \/ /\ healthFails
                      /\ shown' = shown \cup {e \in printed : e[2] # "Health"}
                      /\ rc' = "OutOfResources" /\ pc' = "done"
    /\ UNCHANGED Inputs

(* After the last DIMM the table attributes are set and the command ends. *)
Finish ==
    /\ pc = "dimm"
    /\ ~DimmLoopContinues
    /\ pc' = "done"
    /\ UNCHANGED <<Inputs, idx, FIS_1_13, shown, rc>>

Next == Setup \/ VisitDimm \/ Finish

Spec == Init /\ [][Next]_vars

-----------------------------------------------------------------------------
(* The MaxTemperature of a DIMM's temperature sensors is printed as a     *)
(* value only when that DIMM's firmware implements FIS 1.13 or later, as  *)
(* the comment at the MaxTemperature case says; older DIMMs show N/A.     *)
MaxTemperatureOnlyFromFis113 ==
    \A e \in shown : (e[3] = "MaxTemperature" /\ e[4] = "value") => fis113[e[1]]

(* When show -sensor ends with success, every DIMM of the list that the   *)
(* user asked about and whose sensors could be read shows every attribute *)
(* the display options ask for, of every sensor -sensor names that has it: *)
(* the -dimm filter, the continue on a failed GetSensorsInfo and the      *)
(* attribute switch drop nothing else.                                     *)
EveryReadableDimmShown ==
    (pc = "done" /\ rc = "Success") =>
        \A d \in Dimms, s \in SensorTargets \ {"", "Bogus"}, a \in Attributes :
            /\ dimmTarget = {} \/ d \in dimmTarget
            /\ readable[d] = "Success"
            /\ sensorTarget \in {"", s}
            /\ a \in (IF option = "all" THEN Attributes
                       ELSE IF option = "default" THEN {"CurrentValue"} ELSE {option})
            /\ HasAttribute(s, a)
            => \E v \in {"value", "N/A"} : <<d, s, a, v>> \in shown
=============================================================================

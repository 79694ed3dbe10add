--------------------------- MODULE MC_Diagnostics ---------------------------
(* Diagnostics with two DIMMs and five test outcomes: success with no     *)
(* message, with ok messages, with a warning, and two distinct errors      *)
(* whose states differ in their most severe bit.                           *)
EXTENDS Diagnostics

MCOutcomes ==
    { [rc |-> "Success", state |-> {}],
      [rc |-> "Success", state |-> {"Ok"}],
      [rc |-> "Success", state |-> {"Ok", "Warning"}],
      [rc |-> "DeviceError", state |-> {"Warning", "Failed"}],
      [rc |-> "Aborted", state |-> {"Failed", "Aborted"}] }
=============================================================================

-------------------------------- MODULE ShowCli --------------------------------
(***************************************************************************)
(* The two inventory commands of the CLI, "show -dimm" (ShowDimms) and    *)
(* "show -memoryresources" (ShowMemoryResources), as the command parser   *)
(* dispatches them: the command line names one registered command, and   *)
(* its handler runs to the end.  The handlers share no state but the     *)
(* display-null counter, which ShowDimms clears when it starts and when  *)
(* it finishes; each keeps its own ReturnCode and printer output.        *)
(***************************************************************************)
EXTENDS Naturals

CONSTANTS NDimms, Sockets, Skus, ErrorBits, Options, DimmInfos

VARIABLES
    command,                                   \* the command line's verb
    dimm, dimmTarget, socketTarget, option,    \* show -dimm inputs
    dPc, idx, FIS_2_0, ByteAddressable, IsMixedSku, nulls, dShown,
    reachedEnd, dRc,                           \* show -dimm state
    mPc, mNext, mShown, mRc                    \* show -memoryresources state

D == INSTANCE ShowDimms WITH pc <- dPc, shown <- dShown, rc <- dRc
M == INSTANCE ShowMemoryResources WITH pc <- mPc, next <- mNext, shown <- mShown, rc <- mRc

dVars == <<dimm, dimmTarget, socketTarget, option, dPc, idx, FIS_2_0,
           ByteAddressable, IsMixedSku, nulls, dShown, reachedEnd, dRc>>
mVars == <<mPc, mNext, mShown, mRc>>
vars == <<command, dVars, mVars>>

Commands == {"dimm", "memoryresources"}

TypeOK == command \in Commands /\ D!TypeOK /\ M!TypeOK

Init == command \in Commands /\ D!Init /\ M!Init

(* The handler of the dispatched command takes a step; the other command *)
(* never runs.                                                            *)
RunShowDimms == command = "dimm" /\ D!Next /\ UNCHANGED <<command, mVars>>
RunShowMemoryResources ==
    command = "memoryresources" /\ M!Next /\ UNCHANGED <<command, dVars>>

Next == RunShowDimms \/ RunShowMemoryResources

Spec == Init /\ [][Next]_vars

-----------------------------------------------------------------------------
(* show -dimm lists exactly the DIMMs -dimm and -socket select when it   *)
(* gets through its loop (ShowDimms, the socket check and both loops).   *)
ListsExactlySelection == D!ListsExactlySelection

(* show -dimm never reports "MixedSku 0" while two manageable DIMMs have *)
(* different SKUs (IsDimmsMixedSkuCfg).                                   *)
MixedSkuDetected == D!MixedSkuDetected

(* show -memoryresources returns success exactly when all six capacity   *)
(* strings were made (the KEEP_ERROR chain of MakeCapacityString calls). *)
CapacityFailureReported == M!CapacityFailureReported
=============================================================================

--------------------------- MODULE BootProperties ---------------------------
(***************************************************************************)
(* The property API with all its callers: programs that use typed values   *)
(* and the bionic-style calls, while the boot properties service sets      *)
(* properties of its own.                                                  *)
(***************************************************************************)
EXTENDS SystemProperties, QemuProperties

bootVars == <<apiVars, sysVars, qemuVars>>

BootTypeOK == ApiTypeOK /\ SysTypeOK /\ QemuTypeOK

BootInit == PropInit /\ QemuInit

\* A step of a call, of any thread.
ThreadStep(t) == SysStep(t) /\ UNCHANGED qemuVars

ThreadCalls(t) == SysCall(t) /\ UNCHANGED qemuVars

ProcessRestarts(p) == SysRestart(p) /\ UNCHANGED qemuVars

ServiceStep == QemuWork /\ UNCHANGED sysVars

ServiceFails == ReceiveFails /\ UNCHANGED sysVars

HostActs == HostStep /\ UNCHANGED sysVars

BootNext ==
    \/ \E t \in Threads : ThreadStep(t) \/ ThreadCalls(t)
    \/ \E p \in Procs : ProcessRestarts(p)
    \/ ServiceStep
    \/ ServiceFails
    \/ HostActs

\* The service is scheduled, and so are the calls it makes; its reads need not
\* fail.
BootSpec ==
    /\ BootInit /\ [][BootNext]_bootVars
    /\ WF_bootVars(ServiceStep) /\ WF_bootVars(ThreadStep(Q))

=============================================================================

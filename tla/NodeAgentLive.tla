---------------------------- MODULE NodeAgentLive ----------------------------
(***************************************************************************)
(* Progress of the node agent once its environment calms down.             *)
(*                                                                         *)
(* At first the process may be killed, the host may reboot and the pointer *)
(* may drift, any number of times.  Afterwards the agent takes its own     *)
(* steps, and three outside parties are fair: the service manager          *)
(* relaunches it, the host performs a requested reboot and the operator    *)
(* answers an attention hold.  A boot hook that is invoked again and again *)
(* finally completes without asking for another reboot, and the confirming *)
(* write finally succeeds.  Health gates may fail forever, updates may     *)
(* keep failing and candidate hooks owe nothing.                           *)
(***************************************************************************)
EXTENDS NodeAgent

AgentStep == Launch \/ InstallNext \/ BootNext \/ LoopNext \/ UpdateNext

RequestedReboot == pc = "rebooting" /\ HostReboots

Disturbance == pc' = "killed" \/ Corrupt \/ Drift

\* The u32 counter of failed gates is full: it takes a crash between counting a failure
\* and settling the rollback, as many times as the counter has values.
CounterSpent == tx # None /\ tx.fails = MaxFailures

Finally(hook) == hook /\ pc' # "down" /\ ~reboot'

LiveSpec ==
    /\ Spec
    /\ WF_vars(AgentStep)
    /\ WF_vars(RequestedReboot)
    /\ WF_vars(OperatorResolves)
    /\ SF_vars(Finally(CompensateCandidate))
    /\ SF_vars(Finally(RestorePredecessor))
    /\ SF_vars(Finally(BootConverge))
    /\ SF_vars(DisarmUpdateRollback /\ pc' = "collect")

\* The installation is held: its only release never passed a gate and was rejected.
HeldForRecovery == installed # None /\ RejectedProvisional

\* No crash, failed gate or failed update leaves the node in an endless relaunch loop:
\* once disturbances end it always gets back to its control loop, unless its first
\* install is held.
AlwaysSettles ==
    <>[][~Disturbance]_vars => []<>(pc = "idle" \/ HeldForRecovery \/ CounterSpent)

=============================================================================

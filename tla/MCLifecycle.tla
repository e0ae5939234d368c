----------------------------- MODULE MCLifecycle -----------------------------
(***************************************************************************)
(* The broker for TLC: the rows of a workspace (BrokerControl) and one     *)
(* device code under the Enrollments clean-up (DevicePolling).  The two    *)
(* share no state; a behaviour exercises one of them, and what the other   *)
(* is owed is nothing.                                                     *)
(***************************************************************************)
EXTENDS MCControl, DevicePolling

VARIABLE part

InitLifecycle ==
    /\ part \in {"control", "polling"}
    /\ InitFocus /\ PollingInit
    /\ part = "control" => kind = "Enrollment"
    /\ part = "polling" =>
          /\ focus = "rows"
          /\ workspace.creator = CHOOSE u \in Users : TRUE

NextLifecycle ==
    \/ part = "control" /\ NextFocus /\ UNCHANGED <<part, pollingVars>>
    \/ part = "polling" /\ PollingNext /\ UNCHANGED <<part, vars, focus>>

\* Fairness of DevicePolling, for a code that is exercised; workspaces and connections that
\* are not have nothing to confirm.
Owed(A) == part = "polling" /\ A
OwedPolling ==
    /\ WF_pollingVars(Owed(tick)) /\ WF_pollingVars(Owed(cleanup_list))
    /\ WF_pollingVars(Owed(cleanup_expired_enrollments))

SpecLifecycle ==
    /\ InitLifecycle /\ [][NextLifecycle]_<<vars, focus, part, pollingVars>>
    /\ Fairness /\ OwedPolling
=============================================================================

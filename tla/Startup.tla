------------------------------ MODULE Startup ------------------------------
(***************************************************************************)
(* runProduction before the claim: a run that is admitted by its policy      *)
(* prepares its control socket, beside other runs that name the same one.    *)
(* What the others do during the admission commutes with it, so that they    *)
(* start with the second stage, in which nothing of the first is used.       *)
(***************************************************************************)
EXTENDS Admission, EndpointLock

startupVars == <<admissionVars, endpointVars>>

StartupInit == AdmissionInit /\ EndpointInit /\ path = Absent

admission == stage # "endpoint" /\ AdmissionNext /\ UNCHANGED endpointVars

\* lockAndPrepareApprovalEndpoint is called; whatever is at the path by then.
prepareEndpoint ==
    /\ stage = "admitted" /\ stage' = "endpoint"
    /\ files' = <<>> /\ edits' = 0 /\ request' = Nothing /\ hashed' = <<>> /\ read' = <<>>
    /\ effective' = Nothing /\ sandbox' = Nothing
    /\ path' \in OldPaths /\ UNCHANGED <<lock, step, before, listener, closed, meddled>>

endpoint == stage = "endpoint" /\ EndpointNext /\ UNCHANGED admissionVars

\* A run that has returned exits, but does not have to.
AllOver ==
    /\ stage = "endpoint" /\ \A p \in Runs : step[p] \in {"end", "returned"}
    /\ UNCHANGED startupVars

StartupNext == admission \/ prepareEndpoint \/ endpoint \/ AllOver

StartupSpec == StartupInit /\ [][StartupNext]_startupVars
=============================================================================

------------------------------ MODULE Requests ------------------------------
(***************************************************************************)
(* What the services of a tenant's back office share: requests that are in *)
(* flight side by side, each suspended wherever its handler awaits, and    *)
(* the faults that end one half-way (a failed database call, a restart).   *)
(***************************************************************************)
EXTENDS Integers, FiniteSets

CONSTANTS
    Handlers,    \* requests that may be in flight at once
    MaxRequests, \* bound: requests ever accepted
    MaxFaults    \* bound: faults

ASSUME RequestsAssumption == {MaxRequests, MaxFaults} \subseteq Nat

VARIABLES
    requests, \* requests accepted so far
    faults    \* faults so far

\* A request comes in, ...
Request ==
    requests < MaxRequests /\ requests' = requests + 1 /\ UNCHANGED faults
\* ... goes on, ...
Step == UNCHANGED <<requests, faults>>
\* ... or fails.
Fault == faults < MaxFaults /\ faults' = faults + 1 /\ UNCHANGED requests
=============================================================================

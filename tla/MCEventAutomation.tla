------------------------- MODULE MCEventAutomation -------------------------
(* Instances of EventAutomation for TLC. *)
EXTENDS EventAutomation, TLC

\* Server instances are interchangeable, and so are handlers.
WorkerSymmetry == Permutations(Instances) \union Permutations(Handlers)
=============================================================================

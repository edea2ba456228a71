-------------------------- MODULE MCRouteTransfer --------------------------
(***************************************************************************)
(* TLC instances of RouteTransfer.  Executions, payments and worker        *)
(* invocations are interchangeable in the safety runs.                     *)
(***************************************************************************)
EXTENDS RouteTransfer, TLC

Symmetry ==
    Permutations(Caller) \cup Permutations(Worker) \cup Permutations(Payment)

=============================================================================

------------------------------- MODULE MCJoin -------------------------------
(* The request governor, or the join bot on small instances: one visit      *)
(* while the join queue is empty, or batches while no page is open.  A      *)
(* behaviour is one of the three, with the variables of the others at rest. *)
EXTENDS MCGovernor, JoinWalk, JoinBatch

CONSTANT main

VARIABLE program

NoVisit == WalkFrom("done", "unclear") /\ user = "none" /\ member = "no"
NoBatches == BatchFrom("skipped")
NoRequests == Init /\ file.maxPerHour = DefaultCeiling

GovernorOrJoinInit ==
    \/ program = "governor" /\ Init /\ NoVisit /\ NoBatches
    \/ program = "join" /\ NoRequests /\ WalkInit /\ NoBatches
    \/ program = "join" /\ NoRequests /\ NoVisit /\ BatchInit

GovernorOrJoinNext ==
    /\ UNCHANGED program
    /\ \/ program = "governor" /\ Next /\ UNCHANGED <<walkVars, batchVars>>
       \/ program = "join" /\ WalkNext /\ UNCHANGED <<vars, batchVars>>
       \/ program = "join" /\ BatchNext /\ UNCHANGED <<vars, walkVars>>

\* The fairness of Governor is owed where it runs; a visit or batches at rest
\* owe nothing.
GovernorOrJoinSpec ==
    /\ GovernorOrJoinInit /\ [][GovernorOrJoinNext]_<<program, vars, walkVars, batchVars>>
    /\ WalkFairness /\ BatchFairness
    /\ WF_vars(program = "governor" /\ Tick)
    /\ \A p \in Procs : WF_vars(program = "governor" /\ Step(p))
=============================================================================

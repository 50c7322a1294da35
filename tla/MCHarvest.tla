----------------------------- MODULE MCHarvest ------------------------------
(* The delivery of leads, or the harvests that find them.  A behaviour is   *)
(* one of the two, with the variables of the other at rest.  The delivery   *)
(* is by two pushers of one lead, or by one pusher of two leads; the        *)
(* harvests are for two communities and a run of one: of one class, or with *)
(* one watched; one has posted lately.                                      *)
EXTENDS MCLeadDelivery, Harvest

CONSTANTS k1, k2

VARIABLE program

TwoCommunities ==
    /\ <<class[k1], class[k2]>> \in {<<"watched", "fit">>, <<"other", "other">>}
    /\ lively[k1] /\ ~lively[k2] /\ Cardinality(Known) # 1

NoCommunity ==
    /\ order = <<>>
    /\ \A c \in Communities : class[c] = "other" /\ ~lively[c] /\ site[c] = "gone"

\* Two pushers share one lead, or one pusher has two; the rows of the others
\* were stored and deleted before.
Pairs == {{1, 3}, {2, 3}}

DeliveryInit(inPlay) ==
    /\ row = [l \in Leads |-> IF l \in inPlay THEN "new" ELSE "deleted"]
    /\ byline = [l \in Leads |-> IF l \notin inPlay THEN "member"
                                 ELSE IF l \in Anonymous THEN "nobody" ELSE "named"]
    /\ synced = [l \in Leads |-> FALSE] /\ answer = Nothing /\ portal = Nothing
    /\ stage = [p \in Pushers |-> "idle"] /\ reply = [p \in Pushers |-> Nothing]
    /\ pending = [p \in Pushers |-> {}] /\ batch = pending /\ madeUp = pending
    /\ seen = reply /\ late = pending /\ stale = [p \in Pushers |-> FALSE]
    /\ untold = {} /\ missed = {} /\ faults = 0

\* A process that takes no part has no fairness either.
Pushes(p) == program = "two pushers" \/ (program = "two leads" /\ p = p1)

FindOrSendInit ==
    /\ HarvestInit
    /\ \/ program = "two pushers" /\ DeliveryInit({3}) /\ NoCommunity
       \/ program = "two leads" /\ NoCommunity /\ \E two \in Pairs : DeliveryInit(two)
       \/ program = "harvest" /\ DeliveryInit({}) /\ TwoCommunities

PusherNext(p) ==
    Pushes(p) /\ (Judge(p) \/ Send(p) \/ Conclude(p) \/ Crash(p))

FindOrSendNext ==
    /\ UNCHANGED program
    /\ \/ (\E p \in Pushers : PusherNext(p)) /\ UNCHANGED harvestVars
       \/ program = "harvest" /\ HarvestNext /\ UNCHANGED vars

\* The fairness of each part, owed where that part runs.
FindOrSendSpec ==
    /\ FindOrSendInit /\ [][FindOrSendNext]_<<program, vars, harvestVars>>
    /\ \A p \in Pushers :
         /\ WF_vars(Pushes(p) /\ Post(p))
         /\ WF_vars(Pushes(p) /\ Record(p))
         /\ WF_vars(Pushes(p) /\ RecordRolledBack(p))
         /\ SF_vars(Pushes(p) /\ Drain(p))
    /\ WF_harvestVars(program = "harvest" /\ Harvester)
    /\ WF_harvestVars(program = "harvest" /\ Tick)
=============================================================================

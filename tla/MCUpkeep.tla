------------------------------ MODULE MCUpkeep -------------------------------
(* The job queue, or one of the two stages of the unattended upkeep that    *)
(* keep a cursor in the rows, each over two communities.  A behaviour is    *)
(* one of the three, with the variables of the others at rest.              *)
EXTENDS MCJobQueue, Enrichment, JoinTypes

CONSTANTS h1, h2, a1

VARIABLE program

\* The second community says little by its name and enough by its description;
\* of the first, the words leave the rules in doubt.
SmallEnrich ==
    /\ EnrichInit /\ score[2] = [name |-> "no", full |-> "yes"]
    /\ score[1].full = "between" /\ page[2] = "full"
    /\ \/ score[1].name = "yes" /\ page[1] = "full"
       \/ score[1].name = "between" /\ page[1] = "name"

\* The second community suits us, has no name, and its custom domain is not served.
SmallJoin ==
    /\ JoinInit
    /\ site[h2] = "dead" /\ site[h1] \in {"dead", "locked_unknown"}
    /\ there[a1] = "locked_unknown"
    /\ price[h2] = "none" /\ price[h1] # "paid" /\ fit[h2] /\ h2 \notin named
    /\ site[h1] = "dead" => h1 \notin named /\ fit[h1]
    /\ price[h1] = "free_join" => site[h1] = "locked_unknown"

EnrichAtRest == EnrichInit /\ \A i \in Ids : page[i] = "full" /\ score[i].name = "no" /\ score[i].full = "no"
JoinAtRest ==
    /\ JoinInit /\ there[a1] = "paid" /\ named = {}
    /\ \A c \in Communities : site[c] = "paid" /\ price[c] = "none" /\ ~fit[c]

UpkeepInit ==
    /\ Init
    /\ \/ program = "queue" /\ EnrichAtRest /\ JoinAtRest
       \/ program = "enrich" /\ SmallEnrich /\ JoinAtRest
       \/ program = "join types" /\ SmallJoin /\ EnrichAtRest

UpkeepNext ==
    /\ UNCHANGED program
    /\ \/ program = "queue" /\ Next /\ UNCHANGED <<enrichVars, joinVars>>
       \/ program = "enrich" /\ EnrichNext /\ UNCHANGED <<vars, joinVars>>
       \/ program = "join types" /\ JoinNext /\ UNCHANGED <<vars, enrichVars>>

\* The fairness of each part, owed where that part runs.
UpkeepSpec ==
    /\ UpkeepInit /\ [][UpkeepNext]_<<program, vars, enrichVars, joinVars>>
    /\ \A w \in Workers :
         /\ WF_vars(program = "queue" /\ ClaimSelect(w))
         /\ SF_vars(program = "queue" /\ ClaimWon(w))
         /\ WF_vars(program = "queue" /\ ClaimLost(w))
         /\ WF_vars(program = "queue" /\ \E outcome \in {"done", "error"} : Complete(w, outcome))
    /\ WF_vars(program = "queue" /\ Tick)
    /\ WF_enrichVars(program = "enrich" /\ Maintenance)
    /\ WF_joinVars(program = "join types" /\ Checker)
=============================================================================

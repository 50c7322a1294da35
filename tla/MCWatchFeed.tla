---------------------------- MODULE MCWatchFeed -----------------------------
(* The watcher on small instances: the checks of one feed, or the row of    *)
(* one community and what decides when and how it is asked.  A behaviour is *)
(* one of the two, with the variables of the other at rest.                 *)
EXTENDS WatchFeed, WatchRows

CONSTANT c1

VARIABLE watches

OnePin == <<1>>
PostAbovePin == <<2>>

\* Nobody wants the community, so nothing is ever asked.
RowsAtRest == RowsInit /\ \A c \in Communities : ~wanted[c] /\ site[c] = "open"

\* The other two answers are a change of the community away.
OneOfTwoSites == RowsInit /\ \A c \in Communities : site[c] \in {"open", "closed"}

WatchInit ==
    \/ watches = "feed" /\ Init /\ RowsAtRest
    \/ watches = "rows" /\ Init /\ OneOfTwoSites

WatchNext ==
    /\ UNCHANGED watches
    /\ \/ watches = "feed" /\ Next /\ UNCHANGED rowsVars
       \/ watches = "rows" /\ RowsNext /\ UNCHANGED vars

\* FairSpec and RowsFairness, each where its part is the one that runs.
WatchSpec ==
    /\ WatchInit /\ [][WatchNext]_<<watches, vars, rowsVars>>
    /\ WF_vars(watches = "feed" /\ Watcher)
    /\ WF_rowsVars(watches = "rows" /\ RowsWatcher)
    /\ WF_rowsVars(watches = "rows" /\ ResyncComesDue)
    /\ \A c \in Communities :
         /\ WF_rowsVars(watches = "rows" /\ ComesDue(c))
         /\ WF_rowsVars(watches = "rows" /\ SpacesExpire(c))
=============================================================================

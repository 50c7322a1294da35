----------------------------- MODULE Enrichment -----------------------------
(***************************************************************************)
(* From a bare address to a judged community: discovery records a row,     *)
(* enrichment fetches its name and description, and the judge decides      *)
(* whether it is worth joining (circle_leads/pipeline.py: enrich_pending,  *)
(* classify_icp_pending; classifier/icp_relevance.py: classify_icp_fit;    *)
(* discovery/persist.py: persist_finds).                                   *)
(*                                                                         *)
(* The scheduled pass runs the two stages one after the other, each on a   *)
(* bounded batch, with an orderly cursor of its own: enrichment walks the  *)
(* rows by id and starts over, the judge takes rows never judged and then, *)
(* with an LLM, those the rules once turned down, the longest unjudged     *)
(* first.  A person's filter-relevant is another process with a batch of   *)
(* its own.  A judge reads a row, thinks, and writes what changed.         *)
(***************************************************************************)
EXTENDS Naturals, SequencesExt

CONSTANTS
    Rows,         \* the number of communities there are to find; ids 1 .. Rows
    EnrichBatch,  \* ENRICH_BATCH
    JudgeBatch,   \* ICP_SCHEDULED_BATCH
    Llm,          \* an LLM key is set
    MaxMishaps,   \* bound: fetches and LLM calls that fail, stages that are killed
    MaxHappenings \* bound: changes of a page, runs of filter-relevant by a person

ASSUME EnrichmentAssumption ==
    /\ Rows \in Nat \ {0} /\ EnrichBatch \in Nat \ {0} /\ JudgeBatch \in Nat \ {0}
    /\ Llm \in BOOLEAN /\ MaxMishaps \in Nat /\ MaxHappenings \in Nat

Ids == 1 .. Rows

\* What is known of a community: nothing, its name, or its name and description.
Texts == {"blank", "name", "full"}
\* What the rules say of a text: enough for a yes, for a no, or for neither.
Scores == {"yes", "no", "between"}

VARIABLES
    page,     \* what a community tells of itself to a visitor
    score,    \* what the rules say of its name and of its full text
    found,    \* the ids of the rows there are
    text,     \* Community.name, description
    decided,  \* Community.icp_decided_by: "never" judged, "rules" or "llm"
    flag,     \* Community.icp_flag
    turn,     \* the rows judged, by icp_checked_at
    cursor,   \* enrichment_cursor_id
    stage,    \* of the pass: "due", "enrich", "list" or "judge"
    pending,  \* per judge: the rows it has still to judge
    read,     \* per judge: the row it is at, as it read it
    mode,     \* what the person asked for: "rules", "llm", or that it be trusted
    touched,  \* history: the rows the person flagged since the pass listed its own
    mishaps, happenings

outside == <<page, score>>
community == <<found, text, decided, flag, turn>>
judges == <<pending, read, mode, touched>>
enrichVars == <<outside, community, cursor, stage, judges, mishaps, happenings>>

Judges == {"schedule", "person"}
NoRow == [id |-> 0, text |-> "blank", decided |-> "never", flag |-> FALSE]

EnrichInit ==
    /\ page \in [Ids -> Texts]
    /\ score \in [Ids -> [name: Scores, full: Scores]]
    /\ found = {} /\ text = [i \in Ids |-> "blank"]
    /\ decided = [i \in Ids |-> "never"] /\ flag = [i \in Ids |-> FALSE] /\ turn = <<>>
    /\ cursor = 0 /\ stage = "due"
    /\ pending = [j \in Judges |-> <<>>] /\ read = [j \in Judges |-> NoRow]
    /\ mode = "rules" /\ touched = {}
    /\ mishaps = 0 /\ happenings = 0

Fuller(a, b) ==
    IF a = "full" \/ b = "full" THEN "full" ELSE IF a = "name" \/ b = "name" THEN "name" ELSE "blank"

-----------------------------------------------------------------------------
(* Discovery: rows are numbered as they come; a find tells something or    *)
(* nothing, and one of a row there is fills a missing name in.             *)

NextId == Rows + 1 - Cardinality(Ids \ found)

PersistFind ==
    /\ found # Ids
    /\ found' = found \cup {NextId}
    /\ \E t \in {"blank", page[NextId]} : text' = [text EXCEPT ![NextId] = t]
    /\ UNCHANGED <<outside, decided, flag, turn, cursor, stage, judges, mishaps,
                   happenings>>

FindAgain(i) ==
    /\ i \in found /\ text[i] = "blank" /\ page[i] # "blank"
    /\ text' = [text EXCEPT ![i] = "name"]
    /\ UNCHANGED <<outside, found, decided, flag, turn, cursor, stage, judges, mishaps,
                   happenings>>

PageChanges ==
    /\ happenings < MaxHappenings /\ happenings' = happenings + 1
    /\ \E i \in Ids, t \in Texts : t # page[i] /\ page' = [page EXCEPT ![i] = t]
    /\ UNCHANGED <<score, community, cursor, stage, judges, mishaps>>

-----------------------------------------------------------------------------
(* Enrichment.                                                             *)

InOrder(ids) == CHOOSE s \in SetToSeqs(ids) : \A i, j \in DOMAIN s : i < j => s[i] < s[j]
AtPositions(s, at) == LET order == InOrder(at) IN [k \in DOMAIN order |-> s[order[k]]]
FirstOf(s, n) == SubSeq(s, 1, IF Len(s) < n THEN Len(s) ELSE n)

\* _run_community_maintenance, once the stage is due.
BeginPass ==
    /\ stage = "due" /\ stage' = "enrich"
    /\ UNCHANGED <<outside, community, cursor, judges, mishaps, happenings>>

Backlog == FirstOf(InOrder({i \in found : i > cursor /\ text[i] # "full"}), EnrichBatch)

\* Mutant: at the end of the backlog the cursor stays.
NoNewLap ==
    /\ stage = "enrich" /\ Backlog = <<>> /\ cursor' = cursor
    /\ stage' = "list"
    /\ UNCHANGED <<outside, community, judges, mishaps, happenings>>

\* The end of the backlog: the next pass starts over.
StartOver ==
    /\ stage = "enrich" /\ Backlog = <<>> /\ cursor' = 0
    /\ stage' = "list"
    /\ UNCHANGED <<outside, community, judges, mishaps, happenings>>

\* fetch_community_metadata: what the page tells once boilerplate is left out.
FetchCommunityMetadata(i) == page[i]

EnrichPending ==
    /\ stage = "enrich" /\ Backlog # <<>> /\ stage' = "list"
    /\ cursor' = Last(Backlog)
    /\ \E failed \in {{}} \cup {{i} : i \in ToSet(Backlog)} :
           /\ IF failed = {} THEN UNCHANGED mishaps
              ELSE mishaps < MaxMishaps /\ mishaps' = mishaps + 1
           /\ text' = [i \in Ids |-> IF i \in ToSet(Backlog) \ failed
                                       THEN Fuller(text[i], FetchCommunityMetadata(i)) ELSE text[i]]
    /\ UNCHANGED <<outside, found, decided, flag, turn, judges, happenings>>

-----------------------------------------------------------------------------
(* The judge.                                                              *)

\* Mutant: a row is a row, flagged or not.
EligibleFlaggedToo ==
    AtPositions(turn, {k \in DOMAIN turn : decided[turn[k]] = "rules" /\ text[turn[k]] # "blank"})

\* _llm_eligible_icp_ids: turned down by the rules, and there is text to judge.
LlmEligible ==
    AtPositions(turn, {k \in DOMAIN turn : /\ decided[turn[k]] = "rules" /\ ~flag[turn[k]]
                                           /\ text[turn[k]] # "blank"})

NeverJudged == InOrder({i \in found : decided[i] = "never"})

ListPending ==
    /\ stage = "list" /\ stage' = "judge"
    /\ pending' = [pending EXCEPT !["schedule"] =
                      FirstOf(NeverJudged \o (IF Llm THEN LlmEligible ELSE <<>>), JudgeBatch)]
    /\ touched' = {}
    /\ UNCHANGED <<outside, community, cursor, read, mode, mishaps, happenings>>

Idle(j) == pending[j] = <<>> /\ read[j] = NoRow

\* filter-relevant, with or without --recheck, whatever the pass is doing: with
\* the rules alone, with the LLM, or trusting the LLM's flags.
FilterRelevant ==
    /\ Idle("person") /\ happenings < MaxHappenings /\ happenings' = happenings + 1
    /\ mode' \in {"rules"} \cup (IF Llm THEN {"llm", "trusts"} ELSE {})
    /\ \E listed \in {NeverJudged, InOrder(found)} :
           pending' = [pending EXCEPT !["person"] = listed]
    /\ UNCHANGED <<outside, community, cursor, stage, read, touched, mishaps>>

UsesLlm(j) == IF j = "schedule" THEN Llm ELSE mode # "rules"
Trusts(j) == j = "person" /\ mode = "trusts"

RulesSay(i, words) == IF words = "blank" THEN "no" ELSE score[i][words]

\* s.get(Community, ...): what the judge goes by until it commits.
ReadRow(j) ==
    /\ pending[j] # <<>> /\ read[j] = NoRow
    /\ LET i == Head(pending[j]) IN
         read' = [read EXCEPT ![j] = [id |-> i, text |-> text[i], decided |-> decided[i],
                                      flag |-> flag[i]]]
    /\ pending' = [pending EXCEPT ![j] = Tail(@)]
    /\ UNCHANGED <<outside, community, cursor, stage, mode, touched, mishaps, happenings>>

Without(s, i) == AtPositions(s, {k \in DOMAIN s : s[k] # i})

\* The commit: a column whose value is what the judge had read is left alone.
Judged(j, how, verdict) ==
    LET i == read[j].id IN
    /\ decided' = [decided EXCEPT ![i] = IF how = read[j].decided THEN @ ELSE how]
    /\ flag' = [flag EXCEPT ![i] = IF verdict = read[j].flag THEN @ ELSE verdict]
    /\ turn' = Append(Without(turn, i), i)
    /\ touched' = IF j = "person" /\ flag'[i] THEN touched \cup {i} ELSE touched
    /\ read' = [read EXCEPT ![j] = NoRow]
    /\ UNCHANGED <<outside, found, text, cursor, stage, pending, mode, happenings>>

\* classify_icp_fit, on the words that were read.
JudgeRow(j) ==
    LET says == RulesSay(read[j].id, read[j].text) IN
    /\ read[j] # NoRow
    /\ \/ says # "between" /\ Judged(j, "rules", says = "yes") /\ UNCHANGED mishaps
       \/ says = "between" /\ ~UsesLlm(j) /\ Judged(j, "rules", FALSE) /\ UNCHANGED mishaps
       \/ /\ says = "between" /\ UsesLlm(j)
          /\ \/ \E fit \in BOOLEAN : Judged(j, "llm", fit /\ Trusts(j)) /\ UNCHANGED mishaps
             \/ mishaps < MaxMishaps /\ mishaps' = mishaps + 1 /\ Judged(j, "rules", FALSE)

EndPass ==
    /\ stage = "judge" /\ Idle("schedule") /\ stage' = "due"
    /\ UNCHANGED <<outside, community, cursor, judges, mishaps, happenings>>

Stops(j) ==
    /\ mishaps < MaxMishaps /\ mishaps' = mishaps + 1
    /\ pending' = [pending EXCEPT ![j] = <<>>] /\ read' = [read EXCEPT ![j] = NoRow]
    /\ UNCHANGED <<outside, community, cursor, mode, touched, happenings>>

\* The pass is killed, or an error ends it; the stage comes due again.
PassKilled == stage # "due" /\ stage' = "due" /\ Stops("schedule")
PersonStops == ~Idle("person") /\ Stops("person") /\ UNCHANGED stage

-----------------------------------------------------------------------------
ClassifyIcpFit(j) == ReadRow(j) \/ JudgeRow(j)
Maintenance ==
    BeginPass \/ StartOver \/ EnrichPending \/ ListPending \/ ClassifyIcpFit("schedule") \/ EndPass
EnrichNext ==
    \/ PersistFind \/ PageChanges \/ (\E i \in Ids : FindAgain(i))
    \/ Maintenance \/ PassKilled
    \/ FilterRelevant \/ ClassifyIcpFit("person") \/ PersonStops

\* The stage comes due again and again, and its passes end; a person's run may
\* stop anywhere.
EnrichFairness == WF_enrichVars(Maintenance)
EnrichSpec == EnrichInit /\ [][EnrichNext]_enrichVars /\ EnrichFairness

-----------------------------------------------------------------------------
EnrichTypeOK ==
    /\ page \in [Ids -> Texts] /\ text \in [Ids -> Texts]
    /\ decided \in [Ids -> {"never", "rules", "llm"}] /\ flag \in [Ids -> BOOLEAN]
    /\ found \subseteq Ids /\ ToSet(turn) = {i \in Ids : decided[i] # "never"}
    /\ mode \in {"rules", "llm", "trusts"} /\ touched \subseteq found
    /\ cursor \in 0 .. Rows /\ stage \in {"due", "enrich", "list", "judge"}
    /\ \A j \in Judges : ToSet(pending[j]) \subseteq found /\ read[j].id \in found \cup {0}

\* A community in the join queue leaves it only when a person has its row judged
\* again: the unattended passes, with their LLM, on a fuller text or on a row
\* read before the person's verdict, never demote it (_llm_eligible_icp_ids:
\* "Never demote a row already in the join queue") -- but for a row the person
\* flagged while a pass had it on its list, which is judged without a new look
\* at the flag.
QueueKeepsItsRows ==
    [][\A i \in Ids : flag[i] /\ ~flag'[i] => JudgeRow("person") \/ i \in touched]_enrichVars

\* A community whose own words the rules would accept is flagged in the end,
\* also when it was judged before anybody had fetched them, its site was down
\* on the first lap, or new rows kept coming -- unless an LLM decided it on
\* less than that (_run_community_maintenance, enrich_pending: "every row is
\* eventually visited").
TextIsJudged ==
    \A i \in Ids :
        <>[](i \in found /\ page[i] = "full" /\ score[i].full = "yes")
            => <>[](flag[i] \/ decided[i] = "llm")
=============================================================================

---------------------------- MODULE LeadDelivery ----------------------------
(***************************************************************************)
(* How a stored lead reaches the client's portal and how its row keeps     *)
(* what the portal said (circle_leads/export/vini_ingest.py, with the      *)
(* author adoption and retire_lead() of storage/database.py).              *)
(*                                                                         *)
(* Several processes push: the watcher, the worker and the recovery lane.  *)
(* A push loads the rows, sends one HTTP request that may last 30 s, and   *)
(* writes the answers in the same transaction, without a row lock: other   *)
(* processes re-judge and retire leads, learn author ids and push in       *)
(* between.  What the ORM loaded stays as it was loaded, and a column is   *)
(* written only when it differs from that.                                 *)
(*                                                                         *)
(* A body names its author: by the member id, or by one made up of the     *)
(* community and a name, the author's or the company's in the text; with   *)
(* neither there is no body.  So every hold that a better body could clear *)
(* comes after a body that named somebody, and is stamped as sent.         *)
(*                                                                         *)
(* A lead is a row id; a lead stored again after a deletion is another     *)
(* row.  The portal is external: it refuses some leads, parks some, and    *)
(* answers "duplicate" for what it has already published.                  *)
(***************************************************************************)
EXTENDS Naturals, FiniteSets

CONSTANTS
    NumLeads,     \* bound: lead rows ever stored
    Pushers,      \* processes that store, judge and push leads
    Authors,      \* authors of the posts behind the leads
    AuthorOf,     \* the author of each lead's post
    Anonymous,    \* leads whose post was stored without an author row
    Company,      \* leads whose text names a company
    Unsendable,   \* leads without an address or a text
    Refused,      \* leads the portal answers with an error item
    Parked,       \* leads the portal holds back for what no body can mend
    Fixable,      \* leads it holds back while the body names no member id
    BatchLimit,   \* the 25 of drain_unsynced_leads()
    MaxFaults     \* bound: crashes, unanswered requests, answers without items

Leads == 1 .. NumLeads

ASSUME LeadsAssumption == NumLeads \in Nat /\ MaxFaults \in Nat
ASSUME AuthorAssumption == AuthorOf \in [Leads -> Authors]
ASSUME PortalAssumption == /\ Unsendable \subseteq Leads
                           /\ Refused \subseteq Leads
                           /\ Parked \subseteq Leads
                           /\ Fixable \subseteq Leads
                           /\ Refused \cap Parked = {}
                           /\ Fixable \cap Parked = {}

VARIABLES
    row,          \* "new" before the INSERT, then Lead.classification
    synced,       \* Lead.external_synced_at is set
    answer,       \* Lead.vini_status
    byline,       \* the post's author row: "nobody", "named", or a "member" by id
    portal,       \* what the far side did with the lead
    stage,        \* per process: "idle", "sending" or "answered"
    pending,      \* per process: ids its read collected for export
    batch,        \* per process: leads in the request
    madeUp,       \* per process: the fixable ones, sent with a made-up author id
    seen,         \* per process: vini_status of the batch as loaded
    reply,        \* per process: the portal's item per lead, "untold" or "silence"
    stale,        \* per process: a row of the batch was deleted meanwhile
    late,         \* history, per process: rows another push has answered meanwhile
    untold,       \* history: leads stamped on an answer that had no item for them
    missed,       \* history: leads whose author became known when it was no use
    faults

lead == <<row, synced, answer>>
push == <<stage, batch, madeUp, seen, reply, stale, late>>
vars == <<row, synced, answer, byline, portal, stage, pending, batch, madeUp,
          seen, reply, stale, late, untold, missed, faults>>

Landed == {"accepted", "duplicate"}
Answers == Landed \cup {"held", "rejected"}
Statuses == Answers \cup {"none", "error"}
Bylines == {"nobody", "named", "member"}

\* Mutant: only leads that were never tried.
NeverTried == {l \in Leads : row[l] = "LEAD" /\ answer[l] = "none"}

\* Leads that are not stamped.
Waiting == {l \in Leads : row[l] = "LEAD" /\ ~ synced[l]}

\* What push_unsynced_leads() selects: its join wants an author row.
Unsynced == {l \in Waiting : byline[l] # "nobody"}

\* ORDER BY id LIMIT n.
FirstOf(S, n) == {l \in S : Cardinality({k \in S : k < l}) < n}

Nothing == [l \in Leads |-> "none"]

Init ==
    /\ row = [l \in Leads |-> "new"]
    /\ synced = [l \in Leads |-> FALSE]
    /\ answer = Nothing
    /\ byline = [l \in Leads |-> IF l \in Anonymous THEN "nobody" ELSE "named"]
    /\ portal = Nothing
    /\ stage = [p \in Pushers |-> "idle"]
    /\ pending = [p \in Pushers |-> {}]
    /\ batch = [p \in Pushers |-> {}]
    /\ madeUp = [p \in Pushers |-> {}]
    /\ seen = [p \in Pushers |-> Nothing]
    /\ reply = [p \in Pushers |-> Nothing]
    /\ stale = [p \in Pushers |-> FALSE]
    /\ late = [p \in Pushers |-> {}]
    /\ untold = {} /\ missed = {} /\ faults = 0

-----------------------------------------------------------------------------
(* The rows a push works on.                                               *)

\* A read judged the post a lead: insert or re-affirm its row, and remember
\* it for the export at the end of the read unless it is already sent.
Store(p, l) ==
    /\ stage[p] = "idle"
    /\ row[l] # "deleted"
    /\ \A k \in Leads : k < l => row[k] # "new"
    /\ row' = [row EXCEPT ![l] = "LEAD"]
    /\ pending' = [pending EXCEPT ![p] = IF synced[l] THEN @ ELSE @ \cup {l}]
    /\ UNCHANGED <<synced, answer, byline, portal, push, untold, missed, faults>>

\* retire_lead(): a lead that was sent is kept and demoted; so is one an
\* operator has reviewed or other leads are filed under; else it is deleted.
Retire(p, l) ==
    /\ stage[p] = "idle"
    /\ row[l] \in {"LEAD", "NOT_LEAD"}
    /\ \E verdict \in {"NOT_LEAD", "deleted"} :
         /\ synced[l] => verdict = "NOT_LEAD"
         /\ row' = [row EXCEPT ![l] = verdict]
         /\ stale' = [q \in Pushers |->
                        stale[q] \/ (l \in batch[q] /\ verdict = "deleted")]
    /\ UNCHANGED <<synced, answer, byline, portal, stage, pending, batch,
                   madeUp, seen, reply, late, untold, missed, faults>>

\* The authors of some leads become members by id; what those leads are stamped
\* with is taken back, where they are leads by now and no push is open.
BecomeMembers(some) ==
    /\ byline' = [l \in Leads |-> IF l \in some THEN "member" ELSE byline[l]]
    /\ synced' = [l \in Leads |-> synced[l] /\ ~ (l \in some /\ row[l] = "LEAD")]
    /\ missed' = missed \cup {l \in some : row[l] # "LEAD" \/ \E q \in Pushers : l \in batch[q]}
    /\ UNCHANGED <<row, answer, portal, pending, push, untold, faults>>

\* _adopt_author_identity(): a read learns the member id of a named author.
LearnId(p, a) ==
    /\ stage[p] = "idle"
    /\ \E l \in Leads : AuthorOf[l] = a /\ byline[l] = "named"
    /\ BecomeMembers({l \in Leads : AuthorOf[l] = a /\ byline[l] = "named"})

\* _attach_author_with_identity(): a re-read finds who wrote one post.
AttachAuthor(p, l) ==
    /\ stage[p] = "idle" /\ row[l] # "new" /\ byline[l] # "member"
    /\ BecomeMembers({l})

-----------------------------------------------------------------------------
(* push_leads_by_ids(): load the rows, drop the ones without a payload.    *)

\* lead_to_ingest_payload().
HasPayload(l) == l \notin Unsendable /\ (byline[l] # "nobody" \/ l \in Company)

Load(p, S) ==
    LET ready == {l \in S : HasPayload(l)} IN
    /\ stage[p] = "idle"
    /\ ready # {}
    /\ stage' = [stage EXCEPT ![p] = "sending"]
    /\ batch' = [batch EXCEPT ![p] = ready]
    /\ madeUp' = [madeUp EXCEPT ![p] = {l \in ready \cap Fixable : byline[l] # "member"}]
    /\ seen' = [seen EXCEPT ![p] = [l \in Leads |-> IF l \in ready THEN answer[l] ELSE "none"]]
    /\ stale' = [stale EXCEPT ![p] = FALSE]
    /\ UNCHANGED <<lead, byline, portal, reply, late, untold, missed, faults>>

\* The end of a triage or a classify pass.
PushPending(p) ==
    /\ Load(p, pending[p] \cap Waiting)
    /\ pending' = [pending EXCEPT ![p] = {}]

\* drain_unsynced_leads(), after every watcher batch and every harvest.
Drain(p) ==
    /\ Load(p, FirstOf(Unsynced, BatchLimit))
    /\ UNCHANGED pending

\* retry_failed_leads(): transport failures whose backoff is over.
RetryFailed(p) ==
    /\ \E S \in SUBSET {l \in Waiting : answer[l] = "error"} :
         /\ Cardinality(S) <= BatchLimit
         /\ Load(p, S)
    /\ UNCHANGED pending

\* push-leads --id: an operator sends leads again, stamped or not.
PushForced(p) ==
    /\ \E S \in SUBSET {l \in Leads : row[l] = "LEAD"} : Load(p, S)
    /\ UNCHANGED pending

-----------------------------------------------------------------------------
(* The request.                                                            *)

ItemFor(p, l) ==
    IF l \in Refused THEN "rejected"
    ELSE IF portal[l] = "published" THEN "duplicate"
    ELSE IF l \in Parked \cup madeUp[p] THEN "held" ELSE "accepted"

PortalAfter(p, l) ==
    IF ItemFor(p, l) = "accepted" THEN "published"
    ELSE IF ItemFor(p, l) = "held" THEN "parked" ELSE portal[l]

PortalTakes(p) ==
    portal' = [l \in Leads |-> IF l \in batch[p] THEN PortalAfter(p, l) ELSE portal[l]]

Answered(p, with) ==
    /\ stage[p] = "sending"
    /\ reply' = [reply EXCEPT ![p] = [l \in Leads |-> IF l \in batch[p] THEN with[l] ELSE "none"]]
    /\ stage' = [stage EXCEPT ![p] = "answered"]
    /\ UNCHANGED <<lead, byline, pending, batch, madeUp, seen, stale, late, untold, missed>>

Post(p) ==
    /\ PortalTakes(p)
    /\ Answered(p, [l \in Leads |-> ItemFor(p, l)])
    /\ UNCHANGED faults

\* A 2xx that cannot be read, or whose list is shorter than what was sent.
PostUntold(p) ==
    /\ faults < MaxFaults /\ faults' = faults + 1
    /\ PortalTakes(p)
    /\ \E without \in SUBSET batch[p] :
         Answered(p, [l \in Leads |-> IF l \in without THEN "untold" ELSE ItemFor(p, l)])

\* An HTTP error or a timeout: the portal may have taken the batch or not.
PostUnanswered(p) ==
    /\ faults < MaxFaults /\ faults' = faults + 1
    /\ PortalTakes(p) \/ UNCHANGED portal
    /\ Answered(p, [l \in Leads |-> "silence"])

-----------------------------------------------------------------------------
(* Writing the answers.                                                    *)

\* Mutants: a failed request overwrites an answer; any 2xx counts as delivered.
SilenceWins(p, l) == IF reply[p][l] # "silence" THEN reply[p][l] ELSE "error"
StampedOnAnyAnswer(p, l) == reply[p][l] # "silence"

\* _record_answer() and _record_no_answer(): both look at the row as loaded.  No
\* item in a 2xx counts as delivered.
StatusToWrite(p, l) ==
    IF reply[p][l] = "untold" THEN "accepted"
    ELSE IF reply[p][l] # "silence" THEN reply[p][l]
    ELSE IF seen[p][l] \in {"none", "error"} THEN "error" ELSE seen[p][l]

Stamped(p, l) == reply[p][l] \in Landed \cup {"held", "untold"}

Finish(p) ==
    /\ stage' = [stage EXCEPT ![p] = "idle"]
    /\ batch' = [batch EXCEPT ![p] = {}]
    /\ madeUp' = [madeUp EXCEPT ![p] = {}]
    /\ seen' = [seen EXCEPT ![p] = Nothing]
    /\ reply' = [reply EXCEPT ![p] = Nothing]
    /\ stale' = [stale EXCEPT ![p] = FALSE]

Record(p) ==
    /\ stage[p] = "answered"
    /\ ~ stale[p]
    /\ answer' = [l \in Leads |->
                    IF l \in batch[p] /\ StatusToWrite(p, l) # seen[p][l]
                    THEN StatusToWrite(p, l) ELSE answer[l]]
    /\ synced' = [l \in Leads |-> synced[l] \/ (l \in batch[p] /\ Stamped(p, l))]
    /\ untold' = untold \cup {l \in batch[p] : reply[p][l] = "untold"}
    /\ late' = [q \in Pushers |-> IF q = p THEN {}
                                   ELSE late[q] \cup {l \in batch[q] : answer'[l] # answer[l]}]
    /\ Finish(p)
    /\ UNCHANGED <<row, byline, portal, pending, missed, faults>>

\* A row of the batch is gone: the UPDATE matches nothing and the whole
\* transaction is rolled back.
RecordRolledBack(p) ==
    /\ stage[p] = "answered"
    /\ stale[p]
    /\ Finish(p) /\ late' = [late EXCEPT ![p] = {}]
    /\ UNCHANGED <<lead, byline, portal, pending, untold, missed, faults>>

\* The process dies; its transaction and its list of ids are gone.
Crash(p) ==
    /\ faults < MaxFaults
    /\ stage[p] # "idle" \/ pending[p] # {}
    /\ faults' = faults + 1
    /\ pending' = [pending EXCEPT ![p] = {}]
    /\ Finish(p) /\ late' = [late EXCEPT ![p] = {}]
    /\ UNCHANGED <<lead, byline, portal, untold, missed>>

-----------------------------------------------------------------------------
Judge(p) ==
    \/ \E l \in Leads : Store(p, l) \/ Retire(p, l) \/ AttachAuthor(p, l)
    \/ \E a \in Authors : LearnId(p, a)

Send(p) == PushPending(p) \/ Drain(p) \/ RetryFailed(p) \/ PushForced(p)

Conclude(p) ==
    Post(p) \/ PostUntold(p) \/ PostUnanswered(p) \/ Record(p) \/ RecordRolledBack(p)

Next == \E p \in Pushers : Judge(p) \/ Send(p) \/ Conclude(p) \/ Crash(p)

Spec == Init /\ [][Next]_vars

(***************************************************************************)
(* A request ends (it has a timeout) and its answers are written.  The     *)
(* watcher drains after every batch of its endless loop, and every harvest *)
(* ends with a drain, so a process that is free again and again drains     *)
(* again and again.  Nothing else has to happen.                           *)
(***************************************************************************)
FairSpec ==
    /\ Spec
    /\ \A p \in Pushers :
         WF_vars(Post(p)) /\ WF_vars(Record(p)) /\ WF_vars(RecordRolledBack(p))
    /\ \A p \in Pushers : SF_vars(Drain(p))

-----------------------------------------------------------------------------
(* The columns and the processes' local state have their types.            *)
TypeOK ==
    /\ row \in [Leads -> {"new", "LEAD", "NOT_LEAD", "deleted"}]
    /\ synced \in [Leads -> BOOLEAN]
    /\ answer \in [Leads -> Statuses]
    /\ byline \in [Leads -> Bylines]
    /\ portal \in [Leads -> {"none", "parked", "published"}]
    /\ stage \in [Pushers -> {"idle", "sending", "answered"}]
    /\ pending \in [Pushers -> SUBSET Leads]
    /\ batch \in [Pushers -> SUBSET Leads] /\ madeUp \in [Pushers -> SUBSET Leads]
    /\ seen \in [Pushers -> [Leads -> Statuses]]
    /\ reply \in [Pushers -> [Leads -> Answers \cup {"none", "untold", "silence"}]]
    /\ stale \in [Pushers -> BOOLEAN] /\ late \in [Pushers -> SUBSET Leads]
    /\ untold \subseteq Leads /\ missed \subseteq Leads /\ faults \in Nat

(* vini_ingest.py, "Stamping it was how leads that never arrived came to   *)
(* be recorded as delivered": a stamp, and every word the row keeps of the *)
(* portal's answer, is true of what the portal has, whoever wrote it last  *)
(* and however many requests were lost or repeated -- but for the leads    *)
(* stamped on an answer that had no item for them ("a 2xx counts as        *)
(* delivered").  A fixable lead can be shown as held when a faster push    *)
(* has published it already.                                               *)
RowsTellTheTruth ==
    \A l \in Leads :
        /\ synced[l] => portal[l] # "none" \/ l \in untold
        /\ answer[l] \in Landed => portal[l] = "published" \/ l \in untold
        /\ answer[l] = "held" =>
             portal[l] = "parked" \/ (l \in Fixable /\ portal[l] = "published")
        /\ answer[l] = "rejected" => portal[l] = "none"

(* _record_no_answer(): "an earlier answer stays as it was".  A push that  *)
(* got no answer hides one the portal gave only if that one was written    *)
(* by another push while this one was open, after it had read the row.     *)
AnswerKept ==
    [][\A l \in Leads : answer[l] \in Answers /\ answer'[l] = "error" =>
          \E p \in Pushers : l \in batch[p] \cap late[p]]_vars

(* retire_lead(): the row is kept "when production (Vini) already received *)
(* it -- the row is the only record of what was sent".                     *)
SentIsRemembered ==
    \A l \in Leads : row[l] = "deleted" => portal[l] # "published"

(* drain_unsynced_leads(): "a lead parked earlier still goes out without a *)
(* manual push-leads".  Every lead the portal would take, whose post has   *)
(* an author row and which has fewer hopeless leads before it than a batch *)
(* holds, is stamped in the end or stops being a lead; and one the portal  *)
(* had parked goes out once its author is known, unless that was learnt    *)
(* while a push of it was open or it was no lead.                          *)
Hopeless == Refused \cup Unsendable
EveryLeadGoesOut ==
    \A l \in Leads \ Hopeless :
        Cardinality({k \in Hopeless : k < l}) < BatchLimit =>
            /\ ~<>[](row[l] = "LEAD" /\ byline[l] # "nobody" /\ ~synced[l])
            /\ ~<>[](/\ row[l] = "LEAD" /\ portal[l] = "parked"
                     /\ l \in Fixable \ missed /\ byline[l] = "member")
=============================================================================

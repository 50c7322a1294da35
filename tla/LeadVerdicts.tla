---------------------------- MODULE LeadVerdicts ----------------------------
(***************************************************************************)
(* How a stored post gets its verdict and a positive verdict its lead      *)
(* (circle_leads/triage/pipeline.py, pipeline.py, classifier/decisions.py, *)
(* upsert_post() to purge_community() of storage/database.py).             *)
(*                                                                         *)
(* Several processes judge: readers triage what they read, the worker and  *)
(* the recovery lane retry what a model failed on, an operator classifies  *)
(* by hand.  One post is one transaction, with a model call of seconds or  *)
(* minutes in the middle.  A retry locks the row first; a reader holds the *)
(* row only once it has written to it.  The ORM writes a column only when  *)
(* it differs from what the transaction loaded (READ COMMITTED).           *)
(*                                                                         *)
(* A post is a row id, given out in the order of the INSERTs; its lead is  *)
(* named by the post.  Thread context is part of the text.  A post that is *)
(* filtered by confidence is one that is not a lead.                       *)
(***************************************************************************)
EXTENDS Naturals

CONSTANTS
    NumPosts,     \* bound: post rows ever inserted
    Judges,       \* processes that read, retry and classify
    Texts,        \* what a post can say
    Ingested,     \* texts of posts the API ingest stores under Circle's id
    Upgrades,     \* <<preview, whole text>> of one post
    Edits,        \* <<text, later text>> of one ingested post
    Alike,        \* sets of two texts that are near-duplicates
    MaxFaults     \* bound: model errors, invalid answers and lost processes

Posts == 1 .. NumPosts

ASSUME BoundsAssumption == NumPosts \in Nat /\ MaxFaults \in Nat
ASSUME TextAssumption == /\ Ingested \subseteq Texts
                         /\ Upgrades \subseteq (Texts \ Ingested) \X (Texts \ Ingested)
                         /\ Edits \subseteq Ingested \X Ingested

VARIABLES
    row,          \* "free", "open" in a transaction, "stored" or "gone"
    text,         \* Post.content
    done,         \* Post.classified
    retry,        \* Post.classification_retry_at: "none", "waiting" or "due"
    verdict,      \* the audit's outcome; an invalid answer needs review
    judged,       \* the text of the audit's content_hash
    lead,         \* "none" or Lead.classification
    dup,          \* Lead.duplicate_of_id, 0 for none
    sent,         \* Lead.external_synced_at is set
    task,         \* per judge: its transaction
    faults,
    overtaken,    \* history: the text was changed under an open judgement
    buried        \* history: a repost whose original was demoted unsent

post == <<row, text, done, retry, verdict, judged>>
leads == <<lead, dup, sent>>
vars == <<row, text, done, retry, verdict, judged, lead, dup, sent, task,
          faults, overtaken, buried>>

Retries == {"none", "waiting", "due"}
Outcomes == {"lead", "not_lead", "error", "invalid"}
Verdicts == Outcomes \cup {"none", "input_changed"}

\* What a transaction loaded: the row's columns, and the text it works on.
Tasks == [step: {"idle", "found", "judging"}, post: Posts \cup {0},
          text: Texts \cup {"none"}, done: BOOLEAN, retry: Retries,
          verdict: Verdicts, lock: BOOLEAN]

Idle == [step |-> "idle", post |-> 0, text |-> "none", done |-> FALSE,
         retry |-> "none", verdict |-> "none", lock |-> FALSE]

Locked(p) == \E j \in Judges : task[j].lock /\ task[j].post = p

Init ==
    /\ row = [p \in Posts |-> "free"]
    /\ text = [p \in Posts |-> "none"]
    /\ done = [p \in Posts |-> FALSE]
    /\ retry = [p \in Posts |-> "none"]
    /\ verdict = [p \in Posts |-> "none"]
    /\ judged = [p \in Posts |-> "none"]
    /\ lead = [p \in Posts |-> "none"]
    /\ dup = [p \in Posts |-> 0]
    /\ sent = [p \in Posts |-> FALSE]
    /\ task = [j \in Judges |-> Idle]
    /\ faults = 0
    /\ overtaken = [p \in Posts |-> FALSE]
    /\ buried = [p \in Posts |-> FALSE]

-----------------------------------------------------------------------------
(* upsert_post(): a reader meets a post.                                   *)

Stored(t) == {p \in Posts : row[p] \in {"open", "stored"} /\ text[p] = t}

\* t is not stored, nor an older or a newer text of a stored post.  (An open
\* INSERT of the same text makes the second one wait.)
IsNew(t) ==
    \A u \in Texts :
        u = t \/ <<u, t>> \in Upgrades \cup Edits \/ <<t, u>> \in Upgrades \cup Edits
            => Stored(u) = {}

Begin(j, p, t, locks, step) ==
    /\ task[j].step = "idle"
    /\ task' = [task EXCEPT ![j] =
                  [step |-> step, post |-> p, text |-> t, done |-> done[p],
                   retry |-> retry[p], verdict |-> verdict[p], lock |-> locks]]

\* INSERT; triage goes on to judge the row in the same transaction.
ReadNew(j, p, t) ==
    /\ row[p] = "free" /\ \A q \in Posts : q < p => row[q] # "free"
    /\ IsNew(t)
    /\ text' = [text EXCEPT ![p] = t]
    /\ \/ /\ t \notin Ingested
          /\ Begin(j, p, t, TRUE, "judging")
          /\ row' = [row EXCEPT ![p] = "open"]
       \/ /\ t \in Ingested
          /\ task[j].step = "idle"
          /\ row' = [row EXCEPT ![p] = "stored"]
          /\ UNCHANGED task
    /\ UNCHANGED <<done, retry, verdict, judged, leads, faults, overtaken, buried>>

\* An unchanged post that has no verdict and no retry ahead is judged again,
\* unless it waits for review with this very text.
Recapture(j, p) ==
    /\ row[p] = "stored" /\ text[p] \notin Ingested
    /\ ~ done[p]
    /\ retry[p] # "waiting"
    /\ ~ (verdict[p] = "invalid" /\ judged[p] = text[p])
    /\ Begin(j, p, text[p], FALSE, "judging")
    /\ UNCHANGED <<post, leads, faults, overtaken, buried>>

\* The whole text of a stored preview, or an edited text: the row is loaded.
FindOlder(j, p, t) ==
    /\ row[p] = "stored"
    /\ <<text[p], t>> \in Upgrades \cup Edits
    /\ Begin(j, p, t, FALSE, "found")
    /\ UNCHANGED <<post, leads, faults, overtaken, buried>>

\* What the UPDATE leaves in the columns another transaction has changed
\* since they were loaded.
ClearedDone(k) == IF k.done THEN FALSE ELSE done[k.post]
ClearedRetry(k) == IF k.retry # "none" THEN "none" ELSE retry[k.post]

\* The UPDATE of a whole text waits for the row's lock and keeps it.
FlushUpgrade(j) ==
    /\ task[j].step = "found"
    /\ row[task[j].post] = "stored"
    /\ task[j].text \notin Ingested
    /\ ~ Locked(task[j].post)
    /\ task' = [task EXCEPT ![j].step = "judging", ![j].lock = TRUE]
    /\ UNCHANGED <<post, leads, faults, overtaken, buried>>

\* The UPDATE of an edited text, committed without a judgement.
FlushEdit(j) ==
    LET k == task[j]
        p == k.post
    IN  /\ k.step = "found"
        /\ row[p] = "stored"
        /\ k.text \in Ingested
        /\ ~ Locked(p)
        /\ text' = [text EXCEPT ![p] = k.text]
        /\ done' = [done EXCEPT ![p] = ClearedDone(k)]
        /\ retry' = [retry EXCEPT ![p] = ClearedRetry(k)]
        /\ verdict' = [verdict EXCEPT ![p] =
                         IF k.verdict = "invalid" THEN "input_changed" ELSE @]
        /\ overtaken' = [overtaken EXCEPT ![p] = done[p] /\ ~ k.done]
        /\ task' = [task EXCEPT ![j] = Idle]
        /\ UNCHANGED <<row, judged, leads, faults, buried>>

-----------------------------------------------------------------------------
(* classify_pending(): one post of the batch, its row locked.              *)

Lock(j, p) ==
    /\ row[p] = "stored"
    /\ ~ done[p]
    /\ verdict[p] # "invalid"
    /\ ~ Locked(p)
    /\ Begin(j, p, text[p], TRUE, "judging")
    /\ UNCHANGED <<post, leads, faults, overtaken, buried>>

\* Mutant: the lane selects the posts that were never tried.
RetryUntried(j, p) == retry[p] = "none" /\ Lock(j, p)

\* The worker's and the recovery lane's retry, every minute.
Retry(j, p) == retry[p] = "due" /\ Lock(j, p)

\* The classify command.
Classify(j, p) == retry[p] = "none" /\ Lock(j, p)

\* The minutes of the backoff pass.
RetryDue(p) ==
    /\ retry[p] = "waiting"
    /\ retry' = [retry EXCEPT ![p] = "due"]
    /\ UNCHANGED <<row, text, done, verdict, judged, leads, task, faults,
                   overtaken, buried>>

-----------------------------------------------------------------------------
(* The lead of a judged post.                                              *)

\* live_original(): still a lead, or in production.
Live(q) == lead[q] = "LEAD" \/ (lead[q] # "none" /\ sent[q])

\* Mutant: a later post can be the original.
AnyAlike(p, t) == {q \in Posts \ {p} : row[q] = "stored" /\ {text[q], t} \in Alike}

\* find_near_duplicate(): the committed earlier posts that say nearly t.
EarlierAlike(p, t) ==
    {q \in Posts : q < p /\ row[q] = "stored" /\ {text[q], t} \in Alike}

\* The first of them, if it can stand as an original.
FirstLive(p, t) ==
    LET near == EarlierAlike(p, t)
    IN  {q \in near : Live(q) /\ \A r \in near : q <= r}

\* A lead keeps the original it was filed under while that one is live.
OriginalOf(p, t) ==
    IF FirstLive(p, t) # {} THEN CHOOSE q \in FirstLive(p, t) : TRUE
    ELSE IF dup[p] # 0 /\ Live(dup[p]) THEN dup[p] ELSE 0

Reposts(p) == {q \in Posts : lead[q] # "none" /\ dup[q] = p}

\* Whether retire_lead() demotes instead of deleting.
Kept(p) == sent[p] \/ Reposts(p) # {}

\* Mutant: a lead that cannot be deleted is left as it is.
DeleteOnly(p) ==
    /\ lead' = [lead EXCEPT ![p] = IF Kept(p) THEN @ ELSE "none"]
    /\ dup' = [dup EXCEPT ![p] = IF Kept(p) THEN @ ELSE 0]
    /\ UNCHANGED <<buried, sent>>

Retire(p) ==
    /\ lead' = [lead EXCEPT ![p] = IF @ = "none" \/ ~ Kept(p) THEN "none" ELSE "NOT_LEAD"]
    /\ dup' = [dup EXCEPT ![p] = IF Kept(p) THEN @ ELSE 0]
    /\ buried' = [q \in Posts |-> \/ buried[q] /\ q # p
                                  \/ q \in Reposts(p) /\ ~ sent[p]]
    /\ UNCHANGED sent

File(p, t) ==
    /\ lead' = [lead EXCEPT ![p] = "LEAD"]
    /\ dup' = [dup EXCEPT ![p] = OriginalOf(p, t)]
    /\ buried' = [buried EXCEPT ![p] = FALSE]
    /\ UNCHANGED sent

\* A push delivers it (LeadDelivery has the details).
Send(p) ==
    /\ row[p] = "stored"
    /\ lead[p] = "LEAD" /\ dup[p] = 0 /\ ~ sent[p]
    /\ sent' = [sent EXCEPT ![p] = TRUE]
    /\ UNCHANGED <<post, lead, dup, task, faults, overtaken, buried>>

-----------------------------------------------------------------------------
(* evaluate_post() and what follows, to the end of the transaction.        *)

\* Mutant: an error is not tried again.
NoRetry(k, v) == ClearedRetry(k)

\* The time of the next attempt: none once there is a verdict, or when the
\* answer was invalid and somebody has to look.
NextRetry(k, v) == IF v = "error" THEN "waiting" ELSE ClearedRetry(k)

\* A reader without the lock leaves the text alone.
Record(k, v) ==
    LET p == k.post
    IN  /\ row' = [row EXCEPT ![p] = "stored"]
        /\ text' = [text EXCEPT ![p] = IF k.lock THEN k.text ELSE @]
        /\ done' = [done EXCEPT ![p] = v \in {"lead", "not_lead"} \/ ClearedDone(k)]
        /\ retry' = [retry EXCEPT ![p] = NextRetry(k, v)]
        /\ verdict' = [verdict EXCEPT ![p] = v]
        /\ judged' = [judged EXCEPT ![p] = k.text]
        /\ overtaken' = [overtaken EXCEPT ![p] =
                           \/ ~ k.lock /\ k.text # text[p]
                           \/ v \notin {"lead", "not_lead"} /\ ClearedDone(k)]

Conclude(j, v) ==
    LET k == task[j]
        p == k.post
    IN  /\ k.step = "judging"
        /\ row[p] \in {"open", "stored"}
        /\ k.lock \/ ~ Locked(p)
        /\ Record(k, v)
        /\ task' = [task EXCEPT ![j] = Idle]
        /\ \/ v = "lead" /\ File(p, k.text) /\ UNCHANGED faults
           \/ v = "not_lead" /\ Retire(p) /\ UNCHANGED faults
           \/ /\ v \in {"error", "invalid"}
              /\ faults < MaxFaults
              /\ faults' = faults + 1
              /\ UNCHANGED <<leads, buried>>

\* The transaction is rolled back: the process died, a row was deleted under
\* it, or two transactions' links and deletions collided.
Abort(j) ==
    LET p == task[j].post
        lost == task[j].step # "idle" /\ row[p] = "gone"
    IN  /\ task[j].step # "idle"
        /\ lost \/ faults < MaxFaults
        /\ faults' = IF lost THEN faults ELSE faults + 1
        /\ task' = [task EXCEPT ![j] = Idle]
        /\ row' = [row EXCEPT ![p] = IF @ = "open" THEN "gone" ELSE @]
        /\ text' = [text EXCEPT ![p] = IF row[p] = "open" THEN "none" ELSE @]
        /\ UNCHANGED <<done, retry, verdict, judged, leads, overtaken, buried>>

-----------------------------------------------------------------------------
(* purge_expired() and purge_community(): delete posts with their leads.   *)
(* A link from a lead that stays makes the whole purge fail.               *)

Purge(S) ==
    /\ S # {}
    /\ \A p \in S : row[p] = "stored" /\ ~ Locked(p) /\ Reposts(p) \subseteq S
    /\ row' = [p \in Posts |-> IF p \in S THEN "gone" ELSE row[p]]
    /\ text' = [p \in Posts |-> IF p \in S THEN "none" ELSE text[p]]
    /\ done' = [p \in Posts |-> p \notin S /\ done[p]]
    /\ retry' = [p \in Posts |-> IF p \in S THEN "none" ELSE retry[p]]
    /\ verdict' = [p \in Posts |-> IF p \in S THEN "none" ELSE verdict[p]]
    /\ judged' = [p \in Posts |-> IF p \in S THEN "none" ELSE judged[p]]
    /\ lead' = [p \in Posts |-> IF p \in S THEN "none" ELSE lead[p]]
    /\ dup' = [p \in Posts |-> IF p \in S THEN 0 ELSE dup[p]]
    /\ sent' = [p \in Posts |-> p \notin S /\ sent[p]]
    /\ overtaken' = [p \in Posts |-> p \notin S /\ overtaken[p]]
    /\ buried' = [p \in Posts |-> p \notin S /\ buried[p]]
    /\ UNCHANGED <<task, faults>>

-----------------------------------------------------------------------------
Read(j) ==
    \E p \in Posts :
        \/ \E t \in Texts : ReadNew(j, p, t) \/ FindOlder(j, p, t)
        \/ Recapture(j, p)

Proceed(j) ==
    \/ FlushUpgrade(j) \/ FlushEdit(j)
    \/ \E v \in Outcomes : Conclude(j, v)
    \/ Abort(j)

Next ==
    \/ \E j \in Judges : Read(j) \/ Proceed(j)
    \/ \E j \in Judges, p \in Posts : Retry(j, p) \/ Classify(j, p)
    \/ \E p \in Posts : RetryDue(p) \/ Send(p)
    \/ \E S \in SUBSET Posts : Purge(S)

Spec == Init /\ [][Next]_vars

(***************************************************************************)
(* Time passes, a model call ends (it has a timeout) and its transaction   *)
(* with it, and the recovery lane runs every minute and takes the posts    *)
(* that have waited longest.  Nobody has to read, classify or purge.       *)
(***************************************************************************)
FairSpec ==
    /\ Spec
    /\ \A j \in Judges : WF_vars(Proceed(j))
    /\ WF_vars(\E p \in Posts : RetryDue(p))
    /\ \A p \in Posts : SF_vars(\E j \in Judges : Retry(j, p))

-----------------------------------------------------------------------------
(* The rows and the open transactions have their types.                    *)
TypeOK ==
    /\ row \in [Posts -> {"free", "open", "stored", "gone"}]
    /\ text \in [Posts -> Texts \cup {"none"}]
    /\ done \in [Posts -> BOOLEAN]
    /\ retry \in [Posts -> Retries]
    /\ verdict \in [Posts -> Verdicts]
    /\ judged \in [Posts -> Texts \cup {"none"}]
    /\ lead \in [Posts -> {"none", "LEAD", "NOT_LEAD"}]
    /\ dup \in [Posts -> Posts \cup {0}]
    /\ sent \in [Posts -> BOOLEAN]
    /\ task \in [Judges -> Tasks]
    /\ faults \in Nat
    /\ overtaken \in [Posts -> BOOLEAN]
    /\ buried \in [Posts -> BOOLEAN]

(* triage/pipeline.py and classify_pending(): "after an edit the stored    *)
(* score, evidence quote, and extracted fields describe text that is now   *)
(* gone".  Whoever judged last, with or without the lock, the lead and the *)
(* receipt of a post with a verdict say the same.                          *)
LeadsMatchVerdicts ==
    \A p \in Posts :
        /\ verdict[p] = "lead" => lead[p] = "LEAD"
        /\ verdict[p] = "not_lead" => lead[p] # "LEAD"

(* "Content changed since last run: refresh and re-classify", and the      *)
(* durable retry of decisions.py: the text of a triaged post has its       *)
(* verdict, or a next attempt, or waits for a person, unless it was        *)
(* changed under an open judgement.                                        *)
NoTextForgotten ==
    \A p \in Posts : row[p] = "stored" /\ ~ overtaken[p] =>
        IF done[p] THEN verdict[p] \in {"lead", "not_lead"} /\ judged[p] = text[p]
        ELSE \/ retry[p] # "none"
             \/ verdict[p] = "invalid" /\ judged[p] = text[p]
             \/ text[p] \in Ingested

(* live_original() and retire_lead(): a repost is filed under an earlier   *)
(* post, so that no two hide each other, and that one has a lead that is   *)
(* live, unless it was demoted after the filing without having been sent.  *)
RepostsHaveOriginals ==
    \A p \in Posts : dup[p] # 0 =>
        /\ dup[p] < p
        /\ lead[dup[p]] # "none"
        /\ lead[p] = "LEAD" /\ ~ buried[p] => Live(dup[p])

(* "A lead once filed as a duplicate stays one": while its original is     *)
(* live a repost is not made a lead of its own, which a push would send.   *)
RepostsStayFiled ==
    [][\A p \in Posts : (dup[p] # 0 /\ Live(dup[p]) /\ lead'[p] = "LEAD") => dup'[p] # 0]_vars

(* The recovery lane: no retry waits for ever.                             *)
RetriesEnd ==
    \A p \in Posts :
        ~<>[](row[p] = "stored" /\ ~done[p] /\ retry[p] # "none" /\ verdict[p] = "error")
=============================================================================

-------------------------- MODULE ConnectProofs ---------------------------
(***************************************************************************)
(* Proofs about what becomes of the texts the connector and the other      *)
(* readers send in (their verdicts, leads and reposts), and about the      *)
(* threads of the remote browser.  They hold for any number of judges,     *)
(* posts, texts, callers and threads.                                      *)
(***************************************************************************)
EXTENDS LeadVerdicts, RemoteBrowser, TLAPS

-----------------------------------------------------------------------------
(* Verdicts, leads and reposts.                                            *)

(* No transaction has touched a row that is still to come.                 *)
FreeRowsAreFresh == \A p \in Posts : row[p] = "free" => ~ done[p]

(* A link goes with its lead.                                              *)
LinksNeedLeads == \A p \in Posts : lead[p] = "none" => dup[p] = 0

(* A judge that has a transaction open works on a post and a text.         *)
BusyHavePosts ==
    \A j \in Judges :
        task[j].step # "idle" => task[j].post \in Posts /\ task[j].text \in Texts

(* A row says something as long as it is there.                            *)
StoredHaveText == \A p \in Posts : row[p] \in {"open", "stored"} => text[p] \in Texts

IInv ==
    /\ TypeOK
    /\ BusyHavePosts
    /\ StoredHaveText
    /\ FreeRowsAreFresh
    /\ LinksNeedLeads
    /\ LeadsMatchVerdicts
    /\ NoTextForgotten
    /\ RepostsHaveOriginals

-----------------------------------------------------------------------------
(* What a filing links to: an earlier live lead, or nothing.               *)
LEMMA OriginalFacts ==
    ASSUME TypeOK, RepostsHaveOriginals, NEW p \in Posts, NEW t
    PROVE  /\ OriginalOf(p, t) \in Posts \cup {0}
           /\ OriginalOf(p, t) # 0 => OriginalOf(p, t) < p /\ Live(OriginalOf(p, t))
           /\ dup[p] # 0 /\ Live(dup[p]) => OriginalOf(p, t) # 0
<1>1. \A q \in FirstLive(p, t) : q \in Posts /\ q < p /\ Live(q)
  BY DEF FirstLive, EarlierAlike
<1>2. \A q \in Posts : q # 0
  BY DEF Posts
<1>3. CASE FirstLive(p, t) # {}
  <2>1. (CHOOSE q \in FirstLive(p, t) : TRUE) \in FirstLive(p, t)
    BY <1>3
  <2> QED
    BY <1>1, <1>2, <1>3, <2>1 DEF OriginalOf
<1>4. CASE FirstLive(p, t) = {}
  BY <1>4 DEF OriginalOf, TypeOK, RepostsHaveOriginals
<1> QED
  BY <1>3, <1>4

-----------------------------------------------------------------------------
(* Every transaction starts with what it loaded.                           *)
LEMMA BeginType ==
    ASSUME TypeOK, NEW j \in Judges, NEW p \in Posts, NEW t \in Texts,
           NEW locks \in BOOLEAN, NEW step \in {"found", "judging"},
           Begin(j, p, t, locks, step)
    PROVE  task' \in [Judges -> Tasks]
<1>1. [step |-> step, post |-> p, text |-> t, done |-> done[p],
       retry |-> retry[p], verdict |-> verdict[p], lock |-> locks] \in Tasks
  BY DEF TypeOK, Tasks
<1> QED
  BY <1>1 DEF Begin, TypeOK

LEMMA IdleType == Idle \in Tasks
  BY DEF Idle, Tasks, Retries, Verdicts

(* The judgement of a post that a transaction has open.                    *)
LEMMA RecordType ==
    ASSUME TypeOK, NEW k \in Tasks, k.post \in Posts, k.text \in Texts,
           NEW v \in Outcomes, Record(k, v)
    PROVE  /\ row' \in [Posts -> {"free", "open", "stored", "gone"}]
           /\ text' \in [Posts -> Texts \cup {"none"}]
           /\ done' \in [Posts -> BOOLEAN]
           /\ retry' \in [Posts -> Retries]
           /\ verdict' \in [Posts -> Verdicts]
           /\ judged' \in [Posts -> Texts \cup {"none"}]
           /\ overtaken' \in [Posts -> BOOLEAN]
<1>1. ClearedDone(k) \in BOOLEAN /\ ClearedRetry(k) \in Retries
  BY DEF ClearedDone, ClearedRetry, TypeOK, Retries
<1>2. NextRetry(k, v) \in Retries
  BY <1>1 DEF NextRetry, Retries
<1> QED
  BY <1>1, <1>2 DEF Record, TypeOK, Verdicts

LEMMA LeadType ==
    ASSUME TypeOK, RepostsHaveOriginals, NEW p \in Posts, NEW t, File(p, t) \/ Retire(p)
    PROVE  /\ lead' \in [Posts -> {"none", "LEAD", "NOT_LEAD"}]
           /\ dup' \in [Posts -> Posts \cup {0}]
           /\ sent' \in [Posts -> BOOLEAN]
           /\ buried' \in [Posts -> BOOLEAN]
<1>1. CASE File(p, t)
  BY <1>1, OriginalFacts DEF File, TypeOK
<1>2. CASE Retire(p)
  BY <1>2 DEF Retire, TypeOK
<1> QED
  BY <1>1, <1>2
-----------------------------------------------------------------------------
(* Taking up a post or waiting for it changes no row.                      *)
LEMMA RowsUntouched ==
    ASSUME IInv, UNCHANGED <<post, leads, overtaken, buried>>,
           task' \in [Judges -> Tasks], faults' \in Nat, BusyHavePosts'
    PROVE  IInv'
<1> USE DEF IInv, post, leads
<1>1. TypeOK'
  BY DEF TypeOK
<1>2. FreeRowsAreFresh' /\ LinksNeedLeads' /\ LeadsMatchVerdicts' /\ NoTextForgotten'
  BY DEF FreeRowsAreFresh, LinksNeedLeads, LeadsMatchVerdicts, NoTextForgotten
<1>3. RepostsHaveOriginals'
  BY DEF RepostsHaveOriginals, Live
<1>4. StoredHaveText'
  BY DEF StoredHaveText
<1> QED
  BY <1>1, <1>2, <1>3, <1>4

LEMMA BeginBusy ==
    ASSUME TypeOK, BusyHavePosts, NEW j \in Judges, NEW p \in Posts, NEW t \in Texts,
           NEW locks \in BOOLEAN, NEW step \in {"found", "judging"},
           Begin(j, p, t, locks, step)
    PROVE  BusyHavePosts'
  BY DEF TypeOK, BusyHavePosts, Begin

LEMMA GoIdleBusy ==
    ASSUME TypeOK, BusyHavePosts, NEW j \in Judges, task' = [task EXCEPT ![j] = Idle]
    PROVE  task' \in [Judges -> Tasks] /\ BusyHavePosts'
  BY IdleType DEF TypeOK, BusyHavePosts, Idle

LEMMA TakingUp ==
    ASSUME IInv, NEW j \in Judges, NEW p \in Posts,
           \/ \E t \in Texts : FindOlder(j, p, t)
           \/ Recapture(j, p) \/ Retry(j, p) \/ Classify(j, p)
    PROVE  IInv'
<1>1. PICK locks \in BOOLEAN, step \in {"found", "judging"}, u \in Texts :
        Begin(j, p, u, locks, step)
  <2>1. row[p] = "stored"
    BY DEF Recapture, FindOlder, Retry, Classify, Lock
  <2>2. text[p] \in Texts
    BY <2>1 DEF IInv, StoredHaveText
  <2> QED
    BY <2>2 DEF Recapture, FindOlder, Retry, Classify, Lock
<1>2. UNCHANGED <<post, leads, faults, overtaken, buried>>
  BY DEF Recapture, FindOlder, Retry, Classify, Lock
<1>3. task' \in [Judges -> Tasks] /\ BusyHavePosts' /\ faults' \in Nat
  BY <1>1, <1>2, BeginType, BeginBusy DEF IInv, TypeOK
<1> QED
  BY <1>2, <1>3, RowsUntouched

LEMMA LockTaken ==
    ASSUME IInv, NEW j \in Judges, FlushUpgrade(j)
    PROVE  IInv'
<1>1. task[j] \in Tasks /\ task[j].post \in Posts /\ task[j].text \in Texts
  BY DEF IInv, TypeOK, BusyHavePosts, FlushUpgrade
<1>2. [task[j] EXCEPT !.step = "judging", !.lock = TRUE] \in Tasks
  BY <1>1 DEF Tasks
<1>3. task' = [task EXCEPT ![j] = [task[j] EXCEPT !.step = "judging", !.lock = TRUE]]
  BY DEF FlushUpgrade, IInv, TypeOK
<1>4. task' \in [Judges -> Tasks]
  BY <1>2, <1>3 DEF IInv, TypeOK
<1>5. BusyHavePosts'
  BY <1>1, <1>3 DEF IInv, TypeOK, BusyHavePosts, Tasks
<1> QED
  BY <1>4, <1>5, RowsUntouched DEF FlushUpgrade, IInv, TypeOK

-----------------------------------------------------------------------------
(* Rows that change without a judgement.                                   *)
LEMMA NewRow ==
    ASSUME IInv, NEW j \in Judges, NEW p \in Posts, NEW t \in Texts, ReadNew(j, p, t)
    PROVE  IInv'
<1> USE DEF IInv
<1>1. task' \in [Judges -> Tasks] /\ BusyHavePosts'
  <2>1. CASE UNCHANGED task
    BY <2>1 DEF TypeOK, BusyHavePosts
  <2>2. CASE Begin(j, p, t, TRUE, "judging")
    BY <2>2, BeginType, BeginBusy
  <2> QED
    BY <2>1, <2>2 DEF ReadNew
<1>2. /\ row[p] = "free"
      /\ row' \in [Posts -> {"free", "open", "stored", "gone"}]
      /\ \A q \in Posts : row'[q] = "stored" =>
           row[q] = "stored" \/ (q = p /\ t \in Ingested)
      /\ \A q \in Posts : row'[q] = "free" => row[q] = "free"
      /\ \A q \in Posts \ {p} : row'[q] = row[q]
      /\ text' = [text EXCEPT ![p] = t]
      /\ UNCHANGED <<done, retry, verdict, judged, leads, faults, overtaken, buried>>
  BY DEF ReadNew, TypeOK
<1>3. TypeOK'
  BY <1>1, <1>2 DEF TypeOK, leads
<1>4. StoredHaveText' /\ FreeRowsAreFresh'
  BY <1>2 DEF StoredHaveText, FreeRowsAreFresh, TypeOK
<1>5. LinksNeedLeads' /\ LeadsMatchVerdicts' /\ RepostsHaveOriginals'
  BY <1>2 DEF LinksNeedLeads, LeadsMatchVerdicts, RepostsHaveOriginals, Live, leads
<1>6. NoTextForgotten'
  BY <1>2 DEF NoTextForgotten, FreeRowsAreFresh, TypeOK
<1> QED
  BY <1>1, <1>3, <1>4, <1>5, <1>6

LEMMA EditedRow ==
    ASSUME IInv, NEW j \in Judges, FlushEdit(j)
    PROVE  IInv'
<1> DEFINE k == task[j]
           p == task[j].post
<1> USE DEF IInv
<1>1. k \in Tasks /\ p \in Posts /\ k.text \in Texts /\ k.text \in Ingested
  BY DEF TypeOK, BusyHavePosts, FlushEdit
<1>2. task' \in [Judges -> Tasks] /\ BusyHavePosts'
  BY GoIdleBusy DEF FlushEdit
<1>3. ClearedDone(k) \in BOOLEAN /\ ClearedRetry(k) \in Retries
  BY <1>1 DEF ClearedDone, ClearedRetry, TypeOK, Retries
<1>4. TypeOK'
  BY <1>1, <1>2, <1>3 DEF FlushEdit, TypeOK, leads, Verdicts
<1>5. StoredHaveText' /\ FreeRowsAreFresh'
  BY <1>1 DEF FlushEdit, TypeOK, StoredHaveText, FreeRowsAreFresh
<1>6. LeadsMatchVerdicts'
  BY <1>1 DEF FlushEdit, TypeOK, LeadsMatchVerdicts, leads
<1>7. LinksNeedLeads' /\ RepostsHaveOriginals'
  BY DEF FlushEdit, LinksNeedLeads, RepostsHaveOriginals, Live, leads
<1>8. NoTextForgotten'
  BY <1>1 DEF FlushEdit, TypeOK, NoTextForgotten, ClearedDone
<1> QED
  BY <1>2, <1>4, <1>5, <1>6, <1>7, <1>8

LEMMA BackoffOver ==
    ASSUME IInv, NEW p \in Posts, RetryDue(p)
    PROVE  IInv'
<1> USE DEF IInv, RetryDue
<1>1. TypeOK' /\ BusyHavePosts'
  BY DEF TypeOK, BusyHavePosts, Retries, leads
<1>2. StoredHaveText' /\ FreeRowsAreFresh' /\ NoTextForgotten'
  BY DEF StoredHaveText, FreeRowsAreFresh, NoTextForgotten, TypeOK
<1>3. LinksNeedLeads' /\ LeadsMatchVerdicts' /\ RepostsHaveOriginals'
  BY DEF LinksNeedLeads, LeadsMatchVerdicts, RepostsHaveOriginals, Live, leads
<1> QED
  BY <1>1, <1>2, <1>3

LEMMA Delivered ==
    ASSUME IInv, NEW p \in Posts, Send(p)
    PROVE  IInv'
<1> USE DEF IInv, Send
<1>1. TypeOK' /\ BusyHavePosts'
  BY DEF TypeOK, BusyHavePosts, post
<1>2. StoredHaveText' /\ FreeRowsAreFresh' /\ NoTextForgotten'
  BY DEF StoredHaveText, FreeRowsAreFresh, NoTextForgotten, post
<1>3. LinksNeedLeads' /\ LeadsMatchVerdicts'
  BY DEF LinksNeedLeads, LeadsMatchVerdicts, post
<1>4. RepostsHaveOriginals'
  BY DEF RepostsHaveOriginals, Live, TypeOK
<1> QED
  BY <1>1, <1>2, <1>3, <1>4

LEMMA RolledBack ==
    ASSUME IInv, NEW j \in Judges, Abort(j)
    PROVE  IInv'
<1> USE DEF IInv, Abort
<1>1. task' \in [Judges -> Tasks] /\ BusyHavePosts'
  BY GoIdleBusy
<1>2. task[j].post \in Posts
  BY DEF BusyHavePosts
<1>3. TypeOK'
  BY <1>1, <1>2 DEF TypeOK, leads
<1>4. StoredHaveText' /\ FreeRowsAreFresh' /\ NoTextForgotten'
  BY <1>2 DEF StoredHaveText, FreeRowsAreFresh, NoTextForgotten, TypeOK
<1>5. LinksNeedLeads' /\ LeadsMatchVerdicts' /\ RepostsHaveOriginals'
  BY DEF LinksNeedLeads, LeadsMatchVerdicts, RepostsHaveOriginals, Live, leads
<1> QED
  BY <1>1, <1>3, <1>4, <1>5

-----------------------------------------------------------------------------
(* The end of a judgement.                                                 *)
LEMMA Filed ==
    ASSUME IInv, NEW p \in Posts, NEW t, File(p, t)
    PROVE  LinksNeedLeads' /\ RepostsHaveOriginals'
<1> USE DEF IInv
<1>1. /\ lead' = [lead EXCEPT ![p] = "LEAD"]
      /\ dup' = [dup EXCEPT ![p] = OriginalOf(p, t)]
      /\ buried' = [buried EXCEPT ![p] = FALSE]
      /\ sent' = sent
  BY DEF File
<1>2. \A q \in Posts : Live(q) => Live(q)'
  BY <1>1 DEF Live, TypeOK
<1>3. LinksNeedLeads'
  BY <1>1 DEF LinksNeedLeads, TypeOK
<1>4. ASSUME NEW q \in Posts, dup'[q] # 0
      PROVE  /\ dup'[q] < q
             /\ lead'[dup'[q]] # "none"
             /\ lead'[q] = "LEAD" /\ ~ buried'[q] => Live(dup[q])'
  <2>1. CASE q = p
    <3>1. dup'[q] = OriginalOf(p, t) /\ OriginalOf(p, t) \in Posts
      BY <1>1, <1>4, <2>1, OriginalFacts DEF TypeOK
    <3>2. OriginalOf(p, t) < p /\ Live(OriginalOf(p, t))
      BY <1>4, <3>1, OriginalFacts
    <3>3. Live(dup'[q])
      BY <3>1, <3>2
    <3>4. Live(dup[q])' /\ dup'[q] < q
      BY <1>1, <2>1, <3>1, <3>2, <3>3 DEF Live, TypeOK
    <3> QED
      BY <3>4 DEF Live
  <2>2. CASE q # p
    <3>1. dup'[q] = dup[q] /\ buried'[q] = buried[q] /\ lead'[q] = lead[q]
      BY <1>1, <2>2 DEF TypeOK
    <3>2. dup[q] \in Posts /\ dup[q] < q /\ lead[dup[q]] # "none"
      BY <1>4, <3>1 DEF TypeOK, RepostsHaveOriginals
    <3>3. lead'[dup[q]] # "none"
      BY <1>1, <3>2 DEF TypeOK
    <3>4. lead[q] = "LEAD" /\ ~ buried[q] => Live(dup[q])
      BY <1>4, <3>1 DEF RepostsHaveOriginals
    <3>5. Live(dup[q]) => Live(dup[q])'
      BY <1>1, <3>1, <3>2 DEF Live, TypeOK
    <3> QED
      BY <3>1, <3>2, <3>3, <3>4, <3>5
  <2> QED
    BY <2>1, <2>2
<1>5. RepostsHaveOriginals'
  BY <1>4 DEF RepostsHaveOriginals
<1> QED
  BY <1>3, <1>5

LEMMA Retired ==
    ASSUME IInv, NEW p \in Posts, Retire(p)
    PROVE  LinksNeedLeads' /\ RepostsHaveOriginals'
<1> USE DEF IInv
<1>1. /\ lead' = [lead EXCEPT ![p] = IF @ = "none" \/ ~ Kept(p) THEN "none" ELSE "NOT_LEAD"]
      /\ dup' = [dup EXCEPT ![p] = IF Kept(p) THEN @ ELSE 0]
      /\ buried' = [q \in Posts |-> \/ buried[q] /\ q # p
                                    \/ q \in Reposts(p) /\ ~ sent[p]]
      /\ sent' = sent
  BY DEF Retire
<1>2. LinksNeedLeads'
  BY <1>1 DEF LinksNeedLeads, TypeOK
<1>3. ASSUME NEW q \in Posts, dup'[q] # 0
      PROVE  /\ dup'[q] < q
             /\ lead'[dup'[q]] # "none"
             /\ lead'[q] = "LEAD" /\ ~ buried'[q] => Live(dup[q])'
  <2>1. dup'[q] = dup[q] /\ dup[q] # 0 /\ dup[q] \in Posts
    BY <1>1, <1>3 DEF TypeOK
  <2>2. dup[q] < q /\ lead[dup[q]] # "none"
    BY <2>1 DEF RepostsHaveOriginals
  <2>3. lead[q] = "LEAD" /\ ~ buried[q] => Live(dup[q])
    BY <2>1 DEF RepostsHaveOriginals
  <2>4. CASE dup[q] = p
    <3>1. q # p
      BY <2>2, <2>4 DEF Posts
    <3>2. q \in Reposts(p)
      BY <2>1, <2>4 DEF Reposts, LinksNeedLeads
    <3>3. lead'[p] = "NOT_LEAD"
      BY <1>1, <2>2, <2>4, <3>2 DEF Kept, TypeOK
    <3>4. sent[p] \/ buried'[q]
      BY <1>1, <3>2
    <3> QED
      BY <1>1, <2>1, <2>2, <2>4, <3>3, <3>4 DEF Live, TypeOK
  <2>5. CASE dup[q] # p
    <3>1. lead'[dup[q]] = lead[dup[q]] /\ sent'[dup[q]] = sent[dup[q]]
      BY <1>1, <2>1, <2>5 DEF TypeOK
    <3>2. lead'[q] = "LEAD" => q # p /\ lead[q] = "LEAD"
      BY <1>1 DEF TypeOK
    <3>3. q # p /\ buried[q] => buried'[q]
      BY <1>1
    <3> QED
      BY <2>1, <2>2, <2>3, <3>1, <3>2, <3>3 DEF Live
  <2> QED
    BY <2>4, <2>5
<1>4. RepostsHaveOriginals'
  BY <1>3 DEF RepostsHaveOriginals
<1> QED
  BY <1>2, <1>4

LEMMA Judged ==
    ASSUME IInv, NEW j \in Judges, NEW v \in Outcomes, Conclude(j, v)
    PROVE  IInv'
<1> DEFINE k == task[j]
           p == task[j].post
<1> USE DEF IInv
<1>1. /\ k \in Tasks /\ p \in Posts /\ k.text \in Texts
      /\ row[p] \in {"open", "stored"}
      /\ Record(k, v)
      /\ task' = [task EXCEPT ![j] = Idle]
  BY DEF Conclude, TypeOK, BusyHavePosts
<1>2. task' \in [Judges -> Tasks] /\ BusyHavePosts'
  BY <1>1, GoIdleBusy
<1>3. ClearedDone(k) \in BOOLEAN /\ ClearedRetry(k) \in Retries
  BY <1>1 DEF ClearedDone, ClearedRetry, TypeOK, Retries
<1>4. \/ v = "lead" /\ File(p, k.text) /\ UNCHANGED faults
      \/ v = "not_lead" /\ Retire(p) /\ UNCHANGED faults
      \/ v \in {"error", "invalid"} /\ faults' = faults + 1 /\ UNCHANGED <<leads, buried>>
  BY DEF Conclude
<1>5. TypeOK'
  <2>1. /\ row' \in [Posts -> {"free", "open", "stored", "gone"}]
        /\ text' \in [Posts -> Texts \cup {"none"}]
        /\ done' \in [Posts -> BOOLEAN]
        /\ retry' \in [Posts -> Retries]
        /\ verdict' \in [Posts -> Verdicts]
        /\ judged' \in [Posts -> Texts \cup {"none"}]
        /\ overtaken' \in [Posts -> BOOLEAN]
    BY <1>1, RecordType
  <2>2. /\ lead' \in [Posts -> {"none", "LEAD", "NOT_LEAD"}]
        /\ dup' \in [Posts -> Posts \cup {0}]
        /\ sent' \in [Posts -> BOOLEAN]
        /\ buried' \in [Posts -> BOOLEAN]
    <3>1. CASE File(p, k.text) \/ Retire(p)
      BY <1>1, <3>1, LeadType
    <3>2. CASE UNCHANGED <<leads, buried>>
      BY <3>2 DEF leads, TypeOK
    <3> QED
      BY <1>4, <3>1, <3>2
  <2>3. faults' \in Nat
    BY <1>4 DEF TypeOK
  <2> QED
    BY <1>2, <2>1, <2>2, <2>3 DEF TypeOK
<1>6. /\ row' = [row EXCEPT ![p] = "stored"]
      /\ text' = [text EXCEPT ![p] = IF k.lock THEN k.text ELSE @]
      /\ done' = [done EXCEPT ![p] = v \in {"lead", "not_lead"} \/ ClearedDone(k)]
      /\ retry' = [retry EXCEPT ![p] = NextRetry(k, v)]
      /\ verdict' = [verdict EXCEPT ![p] = v]
      /\ judged' = [judged EXCEPT ![p] = k.text]
      /\ overtaken' = [overtaken EXCEPT ![p] =
                         \/ ~ k.lock /\ k.text # text[p]
                         \/ v \notin {"lead", "not_lead"} /\ ClearedDone(k)]
  BY <1>1 DEF Record
<1>7. StoredHaveText'
  BY <1>1, <1>6 DEF TypeOK, StoredHaveText
<1>8. FreeRowsAreFresh'
  BY <1>1, <1>6 DEF TypeOK, FreeRowsAreFresh
<1>9. LeadsMatchVerdicts'
  BY <1>1, <1>4, <1>6 DEF TypeOK, LeadsMatchVerdicts, File, Retire, leads
<1>10. NoTextForgotten'
  <2>1. ASSUME NEW q \in Posts, q # p, row'[q] = "stored", ~ overtaken'[q]
        PROVE  IF done'[q] THEN verdict'[q] \in {"lead", "not_lead"} /\ judged'[q] = text'[q]
               ELSE \/ retry'[q] # "none"
                    \/ verdict'[q] = "invalid" /\ judged'[q] = text'[q]
                    \/ text'[q] \in Ingested
    BY <1>1, <1>6, <2>1 DEF TypeOK, NoTextForgotten
  <2>2. ASSUME ~ overtaken'[p]
        PROVE  IF done'[p] THEN verdict'[p] \in {"lead", "not_lead"} /\ judged'[p] = text'[p]
               ELSE \/ retry'[p] # "none"
                    \/ verdict'[p] = "invalid" /\ judged'[p] = text'[p]
                    \/ text'[p] \in Ingested
    <3>1. judged'[p] = text'[p] /\ verdict'[p] = v
      BY <1>1, <1>6, <2>2 DEF TypeOK
    <3>2. done'[p] = (v \in {"lead", "not_lead"})
      BY <1>1, <1>3, <1>6, <2>2 DEF TypeOK
    <3>3. v = "error" => retry'[p] = "waiting"
      BY <1>1, <1>6 DEF TypeOK, NextRetry
    <3>4. v \in {"lead", "not_lead", "error", "invalid"}
      BY DEF Outcomes
    <3> QED
      BY <3>1, <3>2, <3>3, <3>4
  <2> QED
    BY <2>1, <2>2 DEF NoTextForgotten
<1>11. LinksNeedLeads' /\ RepostsHaveOriginals'
  <2>1. CASE UNCHANGED <<leads, buried>>
    BY <2>1 DEF leads, LinksNeedLeads, RepostsHaveOriginals, Live
  <2> QED
    BY <1>1, <1>4, <2>1, Filed, Retired
<1> QED
  BY <1>2, <1>5, <1>7, <1>8, <1>9, <1>10, <1>11

-----------------------------------------------------------------------------
(* A purge takes the reposts with the original, or fails.                  *)
LEMMA Purged ==
    ASSUME IInv, NEW S \in SUBSET Posts, Purge(S)
    PROVE  IInv'
<1> USE DEF IInv
<1>1. TypeOK' /\ BusyHavePosts'
  BY DEF Purge, TypeOK, BusyHavePosts, Retries, Verdicts
<1>2. StoredHaveText' /\ FreeRowsAreFresh' /\ LinksNeedLeads' /\ LeadsMatchVerdicts'
  BY DEF Purge, TypeOK, StoredHaveText, FreeRowsAreFresh, LinksNeedLeads, LeadsMatchVerdicts
<1>3. NoTextForgotten'
  BY DEF Purge, NoTextForgotten
<1>4. ASSUME NEW q \in Posts, dup'[q] # 0
      PROVE  /\ dup'[q] < q
             /\ lead'[dup'[q]] # "none"
             /\ lead'[q] = "LEAD" /\ ~ buried'[q] => Live(dup[q])'
  <2>1. q \notin S /\ dup'[q] = dup[q] /\ dup[q] \in Posts
    BY <1>4 DEF Purge, TypeOK
  <2>2. dup[q] < q /\ lead[dup[q]] # "none"
    BY <1>4, <2>1 DEF RepostsHaveOriginals
  <2>3. q \in Reposts(dup[q])
    BY <1>4, <2>1 DEF Reposts, LinksNeedLeads
  <2>4. dup[q] \notin S
    BY <2>1, <2>3 DEF Purge
  <2>5. lead'[q] = lead[q] /\ buried'[q] = buried[q]
    BY <2>1 DEF Purge, TypeOK
  <2>6. lead'[dup[q]] = lead[dup[q]] /\ sent'[dup[q]] = sent[dup[q]]
    BY <2>1, <2>4 DEF Purge, TypeOK
  <2>7. lead[q] = "LEAD" /\ ~ buried[q] => Live(dup[q])
    BY <1>4, <2>1 DEF RepostsHaveOriginals
  <2> QED
    BY <2>1, <2>2, <2>5, <2>6, <2>7 DEF Live
<1>5. RepostsHaveOriginals'
  BY <1>4 DEF RepostsHaveOriginals
<1> QED
  BY <1>1, <1>2, <1>3, <1>5

-----------------------------------------------------------------------------
(* IInv is inductive.                                                      *)
LEMMA InitInv == Init => IInv
<1> SUFFICES ASSUME Init
             PROVE  IInv
  OBVIOUS
<1>1. TypeOK
  BY IdleType DEF Init, TypeOK, Retries, Verdicts
<1>2. BusyHavePosts /\ StoredHaveText /\ FreeRowsAreFresh
  BY DEF Init, BusyHavePosts, Idle, StoredHaveText, FreeRowsAreFresh
<1>3. LinksNeedLeads /\ LeadsMatchVerdicts /\ NoTextForgotten /\ RepostsHaveOriginals
  BY DEF Init, LinksNeedLeads, LeadsMatchVerdicts, NoTextForgotten, RepostsHaveOriginals
<1> QED
  BY <1>1, <1>2, <1>3 DEF IInv

LEMMA StepInv == IInv /\ [Next]_vars => IInv'
<1> SUFFICES ASSUME IInv, [Next]_vars
             PROVE  IInv'
  OBVIOUS
<1>1. ASSUME NEW j \in Judges, Read(j)
      PROVE  IInv'
  BY <1>1, NewRow, TakingUp DEF Read
<1>2. ASSUME NEW j \in Judges, Proceed(j)
      PROVE  IInv'
  BY <1>2, LockTaken, EditedRow, Judged, RolledBack DEF Proceed
<1>3. ASSUME NEW j \in Judges, NEW p \in Posts, Retry(j, p) \/ Classify(j, p)
      PROVE  IInv'
  BY <1>3, TakingUp
<1>4. ASSUME NEW p \in Posts, RetryDue(p) \/ Send(p)
      PROVE  IInv'
  BY <1>4, BackoffOver, Delivered
<1>5. ASSUME NEW S \in SUBSET Posts, Purge(S)
      PROVE  IInv'
  BY <1>5, Purged
<1>6. CASE UNCHANGED vars
  <2>1. TypeOK' /\ BusyHavePosts' /\ StoredHaveText' /\ FreeRowsAreFresh'
    BY <1>6 DEF vars, IInv, TypeOK, BusyHavePosts, StoredHaveText, FreeRowsAreFresh
  <2>2. LinksNeedLeads' /\ LeadsMatchVerdicts' /\ NoTextForgotten' /\ RepostsHaveOriginals'
    BY <1>6 DEF vars, IInv, LinksNeedLeads, LeadsMatchVerdicts, NoTextForgotten,
                RepostsHaveOriginals, Live
  <2> QED
    BY <2>1, <2>2 DEF IInv
<1> QED
  BY <1>1, <1>2, <1>3, <1>4, <1>5, <1>6 DEF Next

LEMMA SpecInv == Spec => []IInv
  BY InitInv, StepInv, PTL DEF Spec

-----------------------------------------------------------------------------
(* The rows and the open transactions have their types.                    *)
THEOREM TypeCorrect == Spec => []TypeOK
<1>1. IInv => TypeOK
  BY DEF IInv
<1> QED
  BY <1>1, SpecInv, PTL

(* Whoever judged last, the lead and the receipt of a post with a verdict  *)
(* say the same.                                                           *)
THEOREM VerdictsHaveLeads == Spec => []LeadsMatchVerdicts
<1>1. IInv => LeadsMatchVerdicts
  BY DEF IInv
<1> QED
  BY <1>1, SpecInv, PTL

(* The text of a triaged post has its verdict, a next attempt or a person  *)
(* to look at it, unless it was changed under an open judgement.           *)
THEOREM NothingForgotten == Spec => []NoTextForgotten
<1>1. IInv => NoTextForgotten
  BY DEF IInv
<1> QED
  BY <1>1, SpecInv, PTL

(* A repost is filed under an earlier post that has a lead, a live one     *)
(* unless it was demoted after the filing without having been sent.        *)
THEOREM RepostsAreKept == Spec => []RepostsHaveOriginals
<1>1. IInv => RepostsHaveOriginals
  BY DEF IInv
<1> QED
  BY <1>1, SpecInv, PTL

(* While its original is live a repost is not made a lead of its own:      *)
(* only a filing makes a lead or changes a live link.                      *)
THEOREM RepostsAreNotPromoted == Spec => RepostsStayFiled
<1>1. ASSUME IInv, [Next]_vars, NEW p \in Posts,
             dup[p] # 0, Live(dup[p]), lead'[p] = "LEAD"
      PROVE  dup'[p] # 0
  <2> USE <1>1 DEF IInv
  <2>1. CASE UNCHANGED dup
    BY <2>1
  <2>2. ASSUME NEW j \in Judges, NEW v \in Outcomes, Conclude(j, v)
        PROVE  dup'[p] # 0
    <3>1. task[j].post \in Posts
      BY <2>2 DEF Conclude, BusyHavePosts
    <3>2. CASE File(task[j].post, task[j].text)
      BY <3>1, <3>2, OriginalFacts DEF File, TypeOK
    <3>3. CASE Retire(task[j].post)
      BY <3>1, <3>3 DEF Retire, TypeOK
    <3>4. CASE UNCHANGED leads
      BY <3>4 DEF leads
    <3> QED
      BY <2>2, <3>2, <3>3, <3>4 DEF Conclude
  <2>3. ASSUME NEW S \in SUBSET Posts, Purge(S)
        PROVE  dup'[p] # 0
    BY <2>3 DEF Purge, TypeOK
  <2> QED
    BY ZenonT(60), <2>1, <2>2, <2>3 DEF Next, Read, Proceed, ReadNew, Recapture, FindOlder,
       FlushUpgrade, FlushEdit, Abort, Retry, Classify, Lock, RetryDue, Send, leads, vars
<1>2. IInv /\ [Next]_vars
        => [\A p \in Posts : (dup[p] # 0 /\ Live(dup[p]) /\ lead'[p] = "LEAD") => dup'[p] # 0]_vars
  BY <1>1
<1> QED
  BY <1>2, SpecInv, PTL DEF Spec, RepostsStayFiled

-----------------------------------------------------------------------------
(* The threads of the remote browser.                                      *)

Closures == [who : Callers \cup {None}, op : Ops \cup {"end"}, n : Nat]

\* What the proof needs of the types: threads are numbered as they are made,
\* and what the callers queue is no sentinel.
ThreadsNumbered ==
    /\ made \in Nat /\ worker \in 0 .. made /\ made <= MaxThreads
    /\ alive \subseteq 1 .. made
    /\ hand \in [Callers -> 0 .. made]
    /\ pc \in [Callers -> {"out", "take", "put", "wait", "swap", "retire"}]
    /\ op \in [Callers -> Ops] /\ ticket \in [Callers -> Nat] /\ begun \in Nat
    /\ calls \in [Threads -> Seq(Closures)]

\* A caller that still has to queue or to retire holds a thread.
HandsAreThreads == \A c \in Callers : pc[c] \in {"put", "retire"} => hand[c] # None

\* The thread a caller is about to retire can no longer be taken.
RetiredIsTakenOff == \A c \in Callers : pc[c] = "retire" => hand[c] # worker

\* Nothing is queued on a thread before it is made.
UnmadeAreEmpty == \A t \in Threads : t > made => calls[t] = <<>>

WorkerInv ==
    /\ ThreadsNumbered /\ HandsAreThreads /\ RetiredIsTakenOff /\ UnmadeAreEmpty
    /\ WorkerServes

USE RemoteBrowserAssumption

LEMMA WorkerInit == RemoteInit => WorkerInv
  BY DEF RemoteInit, WorkerInv, ThreadsNumbered, HandsAreThreads, RetiredIsTakenOff,
         UnmadeAreEmpty, WorkerServes, None, Ops, Threads

\* A closure that a caller queues is not the sentinel.
LEMMA ClosuresAreNoSentinel ==
    ASSUME NEW c \in Callers, NEW o \in Ops, NEW n \in Nat
    PROVE  /\ [who |-> c, op |-> o, n |-> n] \in Closures
           /\ [who |-> c, op |-> o, n |-> n] # Sentinel
<1>1. o # "end"
  BY DEF Ops
<1> QED
  BY <1>1 DEF Closures, Sentinel

\* Queueing one more closure leaves those that were queued where they are.
LEMMA Queueing ==
    ASSUME NEW s \in Seq(Closures), NEW x \in Closures
    PROVE  /\ Append(s, x) \in Seq(Closures)
           /\ \A k \in DOMAIN Append(s, x) :
                Append(s, x)[k] = x \/ \E i \in DOMAIN s : Append(s, x)[k] = s[i]
  OBVIOUS

\* A thread that takes its next closure leaves the others queued.
LEMMA Unqueueing ==
    ASSUME NEW s \in Seq(Closures), s # <<>>
    PROVE  /\ Tail(s) \in Seq(Closures)
           /\ Head(s) = s[1] /\ 1 \in DOMAIN s
           /\ \A k \in DOMAIN Tail(s) : \E i \in DOMAIN s : Tail(s)[k] = s[i]
  OBVIOUS

LEMMA CallerStep ==
    ASSUME WorkerInv, NEW c \in Callers, Caller(c) PROVE WorkerInv'
<1> USE DEF WorkerInv, ThreadsNumbered, HandsAreThreads, RetiredIsTakenOff, UnmadeAreEmpty, None,
            Threads
<1>1. CASE \E o \in Ops : Call(c, o)
  BY <1>1 DEF Call, threadVars, WorkerServes
<1>2. CASE Take(c)
  <2>1. /\ made' \in Nat /\ made' <= MaxThreads /\ made <= made'
        /\ worker' \in 1 .. made' /\ alive' \subseteq 1 .. made'
        /\ worker' = worker \/ worker' = made'
    <3>1. CASE worker = None
      <4>1. made < MaxThreads /\ made' = made + 1 /\ worker' = made' /\ alive' = alive \cup {made'}
        BY <1>2, <3>1 DEF Take
      <4> QED
        BY <4>1
    <3>2. CASE worker # None
      <4>1. UNCHANGED <<worker, made, alive>>
        BY <1>2, <3>2 DEF Take
      <4>2. worker \in 1 .. made
        BY <3>2
      <4> QED
        BY <4>1, <4>2
    <3> QED
      BY <3>1, <3>2
  <2>2. /\ hand' = [hand EXCEPT ![c] = worker'] /\ pc' = [pc EXCEPT ![c] = "put"]
        /\ UNCHANGED <<calls, op, ticket, begun>>
    BY <1>2 DEF Take
  <2>3. hand' \in [Callers -> 0 .. made'] /\ HandsAreThreads'
    BY <2>1, <2>2
  <2>4. WorkerServes'
    BY <1>2, <2>2 DEF Take, WorkerServes
  <2>5. RetiredIsTakenOff'
    BY <1>2, <2>2 DEF Take
  <2> QED
    BY <2>1, <2>2, <2>3, <2>4, <2>5
<1>3. CASE Put(c)
  <2> DEFINE x == [who |-> c, op |-> op[c], n |-> ticket[c]]
  <2>1. x \in Closures /\ x # Sentinel
    BY ClosuresAreNoSentinel
  <2>2. hand[c] \in Threads /\ hand[c] <= made
    BY <1>3 DEF Put
  <2>3. calls' = [calls EXCEPT ![hand[c]] = Append(calls[hand[c]], x)]
    BY <1>3 DEF Put
  <2> HIDE DEF x
  <2>4. WorkerServes'
    BY <1>3, <2>1, <2>2, <2>3, Queueing DEF Put, WorkerServes
  <2>5. calls' \in [Threads -> Seq(Closures)]
    BY <2>1, <2>2, <2>3, Queueing
  <2>6. ThreadsNumbered'
    BY <1>3, <2>5 DEF Put
  <2>7. HandsAreThreads' /\ RetiredIsTakenOff'
    BY <1>3 DEF Put
  <2>8. UnmadeAreEmpty'
    BY SMTT(30), <1>3, <2>2, <2>3 DEF Put
  <2> QED
    BY <2>4, <2>6, <2>7, <2>8
<1>4. CASE GiveUp(c)
  BY <1>4 DEF GiveUp, threadVars, WorkerServes
<1>5. CASE Swap(c)
  BY <1>5 DEF Swap, threadVars, WorkerServes
<1>6. CASE Shutdown(c)
  <2>1. Sentinel \in Closures
    BY DEF Sentinel, Closures
  <2>2. hand[c] \in Threads /\ hand[c] <= made /\ hand[c] # worker
    BY <1>6 DEF Shutdown
  <2>3. calls' = [calls EXCEPT ![hand[c]] = Append(calls[hand[c]], Sentinel)]
    BY <1>6 DEF Shutdown
  <2>4. calls' \in [Threads -> Seq(Closures)]
    BY <2>1, <2>2, <2>3, Queueing
  <2>5. WorkerServes'
    BY <1>6, <2>2, <2>3 DEF Shutdown, WorkerServes
  <2>6. ThreadsNumbered'
    BY <1>6, <2>4 DEF Shutdown
  <2>7. HandsAreThreads' /\ RetiredIsTakenOff'
    BY <1>6 DEF Shutdown
  <2>8. UnmadeAreEmpty'
    BY SMTT(30), <1>6, <2>2, <2>3 DEF Shutdown
  <2> QED
    BY <2>5, <2>6, <2>7, <2>8
<1> QED
  BY <1>1, <1>2, <1>3, <1>4, <1>5, <1>6 DEF Caller

\* A closure that ends wakes its caller, who goes out or on to the swap.
LEMMA EndingKeeps ==
    ASSUME WorkerInv, NEW t \in Threads, Ends(t) PROVE WorkerInv'
<1>1. /\ pc' \in [Callers -> {"out", "take", "put", "wait", "swap", "retire"}]
      /\ \A c \in Callers : pc'[c] = pc[c] \/ pc'[c] \in {"out", "swap"}
  BY DEF Ends, WorkerInv, ThreadsNumbered
<1> QED
  BY <1>1 DEF Ends, WorkerInv, ThreadsNumbered, HandsAreThreads, RetiredIsTakenOff, UnmadeAreEmpty,
              WorkerServes

LEMMA GoingKeeps ==
    ASSUME WorkerInv, NEW t, NEW where, Goes(t, where) PROVE WorkerInv'
  BY DEF Goes, callerVars, WorkerInv, ThreadsNumbered, HandsAreThreads, RetiredIsTakenOff,
         UnmadeAreEmpty, WorkerServes

LEMMA TakingKeeps ==
    ASSUME WorkerInv, NEW t \in Threads, NextCall(t) PROVE WorkerInv'
<1> USE DEF WorkerInv, ThreadsNumbered, UnmadeAreEmpty, Threads, None
<1>1. calls[t] \in Seq(Closures) /\ calls[t] # <<>> /\ t <= made
  BY DEF NextCall
<1>2. calls' = [calls EXCEPT ![t] = Tail(calls[t])]
  BY DEF NextCall
<1>3. calls' \in [Threads -> Seq(Closures)]
  BY <1>1, <1>2, Unqueueing
<1>4. WorkerServes'
  <2>1. worker = t => Head(calls[t]) # Sentinel
    BY <1>1, Unqueueing DEF WorkerServes
  <2> QED
    BY <1>1, <1>2, <2>1, Unqueueing DEF NextCall, WorkerServes
<1> QED
  BY <1>1, <1>2, <1>3, <1>4 DEF NextCall, callerVars, HandsAreThreads, RetiredIsTakenOff

LEMMA ThreadStep ==
    ASSUME WorkerInv, NEW t \in Threads, BrowserThread(t) PROVE WorkerInv'
<1>1. CASE NextCall(t)
  BY <1>1, TakingKeeps
<1>2. CASE StartBegins(t)
  BY <1>2, EndingKeeps, GoingKeeps DEF StartBegins
<1>3. CASE Launch(t)
  BY <1>3, EndingKeeps, GoingKeeps DEF Launch
<1>4. CASE StartGoes(t) \/ Stops(t)
  BY <1>4, EndingKeeps DEF StartGoes, Stops
<1>5. CASE LooksFirst(t)
  BY <1>5, EndingKeeps, GoingKeeps DEF LooksFirst
<1>6. CASE Touches(t) \/ Looks(t) \/ Fetches(t)
  BY <1>6, EndingKeeps DEF Touches, Looks, Fetches
<1> QED
  BY <1>1, <1>2, <1>3, <1>4, <1>5, <1>6 DEF BrowserThread

LEMMA WorkerStep == WorkerInv /\ [RemoteNext]_remoteVars => WorkerInv'
<1> SUFFICES ASSUME WorkerInv, [RemoteNext]_remoteVars PROVE WorkerInv'
  OBVIOUS
<1>1. CASE UNCHANGED remoteVars
  BY <1>1 DEF remoteVars, threadVars, callerVars, WorkerInv, ThreadsNumbered, HandsAreThreads,
              RetiredIsTakenOff, UnmadeAreEmpty, WorkerServes
<1> QED
  BY <1>1, CallerStep, ThreadStep DEF RemoteNext

\* Whoever starts, stops, calls or gives up waiting, a thread that can be taken
\* under the lock serves and was not told to end (RemoteBrowser._submit, stop).
THEOREM WorkersServe == RemoteSpec => []WorkerServes
<1>1. WorkerInv => WorkerServes
  BY DEF WorkerInv
<1> QED
  BY <1>1, WorkerInit, WorkerStep, PTL DEF RemoteSpec
=============================================================================

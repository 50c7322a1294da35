------------------------- MODULE LeadDeliveryProofs -------------------------
(***************************************************************************)
(* What the lead rows record of the portal's answers is true, for any      *)
(* number of leads, authors and concurrent pushers, any batch limit and    *)
(* any number of lost requests and crashes.                                *)
(***************************************************************************)
EXTENDS LeadDelivery, TLAPS

\* What the portal may have done with a lead of each kind.
PortalKinds ==
    \A l \in Leads :
        /\ l \in Refused => portal[l] = "none"
        /\ l \in Parked => portal[l] # "published"
        /\ l \notin Parked \cup Fixable => portal[l] # "parked"

\* What a status claims of the portal, in a form that no step undoes.
Vouched(l, status, at) ==
    /\ status \in Landed => at = "published"
    /\ status = "held" => at = "parked" \/ (l \in Fixable /\ at = "published")
    /\ status = "rejected" => l \in Refused

\* True of the rows, but for the leads taken for delivered without an item,
\* and of the items a process has yet to write.
RowsVouched ==
    \A l \in Leads :
        /\ Vouched(l, answer[l], portal[l]) \/ (answer[l] = "accepted" /\ l \in untold)
        /\ synced[l] => portal[l] # "none" \/ l \in untold

ItemsVouched ==
    \A p \in Pushers : stage[p] = "answered" =>
        \A l \in batch[p] : Vouched(l, reply[p][l], portal[l])

MadeUpAreFixable == \A p \in Pushers : madeUp[p] \subseteq Fixable

IInv ==
    /\ TypeOK
    /\ PortalKinds
    /\ RowsVouched
    /\ ItemsVouched
    /\ MadeUpAreFixable

-----------------------------------------------------------------------------
LEMMA TypeInit == Init => TypeOK
  BY LeadsAssumption DEF Init, TypeOK, Statuses, Answers, Landed, Nothing, Bylines

Replies == Answers \cup {"none", "untold", "silence"}

\* However a request ends, it leaves a reply for every lead.
LEMMA RepliesToAll ==
  ASSUME NEW p \in Pushers, Post(p) \/ PostUntold(p) \/ PostUnanswered(p)
  PROVE  \E with \in [Leads -> Replies] : Answered(p, with)
<1>1. \A l \in Leads : ItemFor(p, l) \in Answers
  BY DEF ItemFor, Answers, Landed
<1>2. CASE Post(p)
  BY <1>1, <1>2 DEF Post, Replies
<1>3. CASE PostUntold(p)
  <2>1. PICK without \in SUBSET batch[p] :
          Answered(p, [l \in Leads |-> IF l \in without THEN "untold" ELSE ItemFor(p, l)])
    BY <1>3 DEF PostUntold
  <2>2. [l \in Leads |-> IF l \in without THEN "untold" ELSE ItemFor(p, l)] \in [Leads -> Replies]
    BY <1>1 DEF Replies
  <2> QED
    BY <2>1, <2>2
<1>4. CASE PostUnanswered(p)
  BY <1>4 DEF PostUnanswered, Replies
<1> QED
  BY <1>2, <1>3, <1>4

\* What a push takes with it.
LEMMA Loaded ==
  ASSUME TypeOK, NEW p \in Pushers, NEW S \in SUBSET Leads, Load(p, S)
  PROVE  \E ready \in SUBSET Leads, made \in SUBSET Fixable :
           /\ made \subseteq ready
           /\ stage' = [stage EXCEPT ![p] = "sending"]
           /\ batch' = [batch EXCEPT ![p] = ready]
           /\ madeUp' = [madeUp EXCEPT ![p] = made]
           /\ seen' = [seen EXCEPT ![p] = [l \in Leads |-> IF l \in ready THEN answer[l] ELSE "none"]]
           /\ stale' = [stale EXCEPT ![p] = FALSE]
           /\ UNCHANGED <<lead, byline, portal, reply, late, untold, missed, faults>>
<1> DEFINE ready == {l \in S : HasPayload(l)}
           made == {l \in ready \cap Fixable : byline[l] # "member"}
<1>1. ready \in SUBSET Leads /\ made \in SUBSET Fixable /\ made \subseteq ready
  OBVIOUS
<1>2. /\ stage' = [stage EXCEPT ![p] = "sending"]
      /\ batch' = [batch EXCEPT ![p] = ready]
      /\ madeUp' = [madeUp EXCEPT ![p] = made]
      /\ seen' = [seen EXCEPT ![p] = [l \in Leads |-> IF l \in ready THEN answer[l] ELSE "none"]]
      /\ stale' = [stale EXCEPT ![p] = FALSE]
      /\ UNCHANGED <<lead, byline, portal, reply, late, untold, missed, faults>>
  BY DEF Load
<1> HIDE DEF ready, made
<1> QED
  BY <1>1, <1>2

LEMMA SendLoads ==
  ASSUME NEW p \in Pushers, Send(p)
  PROVE  \E S \in SUBSET Leads : Load(p, S)
<1>1. CASE PushPending(p)
  BY <1>1 DEF PushPending, Waiting
<1>2. CASE Drain(p)
  <2>1. FirstOf(Unsynced, BatchLimit) \in SUBSET Leads
    BY DEF FirstOf, Unsynced, Waiting
  <2> QED
    BY <1>2, <2>1 DEF Drain
<1>3. CASE RetryFailed(p)
  BY <1>3 DEF RetryFailed, Waiting
<1>4. CASE PushForced(p)
  BY <1>4 DEF PushForced
<1> QED
  BY <1>1, <1>2, <1>3, <1>4 DEF Send

LEMMA TypeStep == TypeOK /\ [Next]_vars => TypeOK'
<1> SUFFICES ASSUME TypeOK, [Next]_vars PROVE TypeOK'
  OBVIOUS
<1> USE DEF TypeOK, lead, push
<1>1. ASSUME NEW p \in Pushers, NEW l \in Leads, Store(p, l) PROVE TypeOK'
  BY <1>1 DEF Store
<1>2. ASSUME NEW p \in Pushers, NEW l \in Leads, Retire(p, l) PROVE TypeOK'
  BY <1>2 DEF Retire
<1>3. ASSUME NEW some \in SUBSET Leads, BecomeMembers(some) PROVE TypeOK'
  BY <1>3 DEF BecomeMembers, Bylines
<1>4. ASSUME NEW p \in Pushers, Send(p) PROVE TypeOK'
  <2>1. PICK S \in SUBSET Leads : Load(p, S)
    BY <1>4, SendLoads
  <2>2. pending' \in [Pushers -> SUBSET Leads]
    BY <1>4 DEF Send, PushPending, Drain, RetryFailed, PushForced
  <2>3. PICK ready \in SUBSET Leads, made \in SUBSET Fixable :
          /\ made \subseteq ready
          /\ stage' = [stage EXCEPT ![p] = "sending"]
          /\ batch' = [batch EXCEPT ![p] = ready]
          /\ madeUp' = [madeUp EXCEPT ![p] = made]
          /\ seen' = [seen EXCEPT ![p] = [l \in Leads |-> IF l \in ready THEN answer[l] ELSE "none"]]
          /\ stale' = [stale EXCEPT ![p] = FALSE]
          /\ UNCHANGED <<lead, byline, portal, reply, late, untold, missed, faults>>
    BY <2>1, Loaded
  <2> QED
    BY <2>2, <2>3 DEF Statuses
<1>9. ASSUME NEW p \in Pushers, NEW with \in [Leads -> Replies], Answered(p, with),
             PortalTakes(p) \/ UNCHANGED portal, faults' \in Nat
      PROVE  TypeOK'
  <2>1. portal' \in [Leads -> {"none", "parked", "published"}]
    BY <1>9 DEF PortalTakes, PortalAfter
  <2>2. /\ stage' \in [Pushers -> {"idle", "sending", "answered"}]
        /\ reply' \in [Pushers -> [Leads -> Replies]]
    BY <1>9 DEF Answered, Replies
  <2> QED
    BY <1>9, <2>1, <2>2 DEF Answered, Replies
<1>10. ASSUME NEW p \in Pushers, Post(p) \/ PostUntold(p) \/ PostUnanswered(p) PROVE TypeOK'
  <2>1. faults' \in Nat
    BY <1>10 DEF Post, PostUntold, PostUnanswered
  <2>2. \E with \in [Leads -> Replies] : Answered(p, with)
    BY <1>10, RepliesToAll
  <2> QED
    BY <1>9, <1>10, <2>1, <2>2 DEF Post, PostUntold, PostUnanswered
<1>11. ASSUME NEW p \in Pushers, Finish(p)
       PROVE  /\ stage' \in [Pushers -> {"idle", "sending", "answered"}]
              /\ batch' \in [Pushers -> SUBSET Leads]
              /\ madeUp' \in [Pushers -> SUBSET Leads]
              /\ seen' \in [Pushers -> [Leads -> Statuses]]
              /\ reply' \in [Pushers -> [Leads -> Replies]]
              /\ stale' \in [Pushers -> BOOLEAN]
  BY <1>11 DEF Finish, Statuses, Nothing, Replies
<1>12. ASSUME NEW p \in Pushers, Record(p) PROVE TypeOK'
  <2>1. \A l \in Leads : StatusToWrite(p, l) \in Statuses
    BY DEF StatusToWrite, Statuses, Answers, Landed
  <2> QED
    BY <1>11, <1>12, <2>1 DEF Record, Replies
<1>13. ASSUME NEW p \in Pushers, RecordRolledBack(p) PROVE TypeOK'
  BY <1>11, <1>13 DEF RecordRolledBack, Replies
<1>14. ASSUME NEW p \in Pushers, Crash(p) PROVE TypeOK'
  BY <1>11, <1>14 DEF Crash, Replies
<1>15. CASE UNCHANGED vars
  BY <1>15 DEF vars
<1> HIDE DEF TypeOK
<1> QED
  BY <1>1, <1>2, <1>3, <1>4, <1>10, <1>12, <1>13, <1>14, <1>15
     DEF Next, Judge, LearnId, AttachAuthor, Conclude

-----------------------------------------------------------------------------
\* One request, whether its answer comes back or not, keeps every claim
\* that was true, and its items are true.
LEMMA RequestKeepsTruth ==
  ASSUME IInv, NEW p \in Pushers, PortalTakes(p)
  PROVE  /\ PortalKinds'
         /\ \A l \in Leads : portal[l] # "none" => portal'[l] # "none"
         /\ \A l \in Leads, status \in Statuses \cup Replies :
              Vouched(l, status, portal[l]) => Vouched(l, status, portal'[l])
         /\ \A l \in batch[p] : Vouched(l, ItemFor(p, l), portal'[l])
<1> USE PortalAssumption DEF IInv, TypeOK, PortalKinds, MadeUpAreFixable, Vouched
<1>1. ASSUME NEW l \in Leads
      PROVE  /\ portal[l] = "published" => portal'[l] = "published"
             /\ portal[l] = "parked" =>
                  portal'[l] = "parked" \/ (l \in Fixable /\ portal'[l] = "published")
             /\ portal'[l] \in {"none", "parked", "published"}
             /\ l \in Refused => portal'[l] = "none"
             /\ l \in Parked => portal'[l] # "published"
             /\ l \notin Parked \cup Fixable => portal'[l] # "parked"
  <2>1. portal'[l] = portal[l] \/ (l \in batch[p] /\ portal'[l] = PortalAfter(p, l))
    BY DEF PortalTakes
  <2>2. /\ madeUp[p] \subseteq Fixable
        /\ portal[l] \in {"none", "parked", "published"}
        /\ l \in Refused => portal[l] = "none"
        /\ l \in Parked => portal[l] # "published"
        /\ l \notin Parked \cup Fixable => portal[l] # "parked"
        /\ Refused \cap Parked = {} /\ Fixable \cap Parked = {}
    OBVIOUS
  <2>3. CASE portal'[l] = portal[l]
    BY <2>3
  <2>4. CASE portal'[l] = PortalAfter(p, l)
    BY <2>2, <2>4 DEF PortalAfter, ItemFor
  <2> QED
    BY <2>1, <2>3, <2>4
<1>2. ASSUME NEW l \in batch[p] PROVE Vouched(l, ItemFor(p, l), portal'[l])
  BY DEF PortalTakes, PortalAfter, ItemFor, Landed
<1> QED
  BY <1>1, <1>2 DEF Landed

LEMMA InvInit == Init => IInv
<1> SUFFICES ASSUME Init PROVE IInv
  OBVIOUS
<1>1. TypeOK
  BY TypeInit
<1> QED
  BY <1>1 DEF Init, IInv, PortalKinds, RowsVouched, ItemsVouched, MadeUpAreFixable, Vouched,
              Landed, Nothing

LEMMA MadeUpStep == TypeOK /\ MadeUpAreFixable /\ [Next]_vars => MadeUpAreFixable'
<1> SUFFICES ASSUME TypeOK, MadeUpAreFixable, [Next]_vars PROVE MadeUpAreFixable'
  OBVIOUS
<1> USE DEF MadeUpAreFixable, TypeOK, push
<1>1. ASSUME NEW p \in Pushers, NEW S, Load(p, S) PROVE MadeUpAreFixable'
  BY <1>1 DEF Load
<1>2. ASSUME NEW p \in Pushers, Judge(p) PROVE MadeUpAreFixable'
  BY <1>2 DEF Judge, Store, Retire, LearnId, AttachAuthor, BecomeMembers
<1>3. ASSUME NEW p \in Pushers, Send(p) PROVE MadeUpAreFixable'
  BY <1>1, <1>3 DEF Send, PushPending, Drain, RetryFailed, PushForced
<1>4. ASSUME NEW p \in Pushers, Finish(p) PROVE MadeUpAreFixable'
  BY <1>4 DEF Finish
<1>5. ASSUME NEW p \in Pushers, Conclude(p) \/ Crash(p) PROVE MadeUpAreFixable'
  BY <1>4, <1>5 DEF Conclude, Post, PostUntold, PostUnanswered, Answered, Record,
                        RecordRolledBack, Crash
<1>6. CASE UNCHANGED vars
  BY <1>6 DEF vars
<1> QED
  BY <1>2, <1>3, <1>5, <1>6 DEF Next

LEMMA InvStep == IInv /\ [Next]_vars => IInv'
<1> SUFFICES ASSUME IInv, [Next]_vars PROVE IInv'
  OBVIOUS
<1>0. TypeOK' /\ MadeUpAreFixable'
  BY TypeStep, MadeUpStep DEF IInv
<1> USE DEF IInv, TypeOK, PortalKinds, RowsVouched, ItemsVouched, MadeUpAreFixable, Vouched, lead, push
<1>1. ASSUME NEW p \in Pushers, Judge(p) PROVE IInv'
  BY <1>0, <1>1 DEF Judge, Store, Retire, LearnId, AttachAuthor, BecomeMembers
<1>2. ASSUME NEW p \in Pushers, Send(p) PROVE IInv'
  <2>1. PICK S : Load(p, S)
    BY <1>2 DEF Send, PushPending, Drain, RetryFailed, PushForced
  <2>2. /\ UNCHANGED <<lead, portal, reply, untold>>
        /\ \A q \in Pushers : stage'[q] = "answered" =>
             stage[q] = "answered" /\ batch'[q] = batch[q]
    BY <2>1 DEF Load
  <2> QED
    BY <1>0, <2>2
<1>3. ASSUME NEW p \in Pushers, Post(p) \/ PostUntold(p) \/ PostUnanswered(p) PROVE IInv'
  <2>1. /\ batch[p] \in SUBSET Leads
        /\ UNCHANGED <<lead, batch, untold>>
        /\ \A q \in Pushers \ {p} : stage'[q] = stage[q] /\ reply'[q] = reply[q]
    BY <1>3 DEF Post, PostUntold, PostUnanswered, Answered
  <2>2. /\ PortalKinds'
        /\ \A l \in Leads : portal[l] # "none" => portal'[l] # "none"
        /\ \A l \in Leads, status \in Statuses \cup Replies :
             Vouched(l, status, portal[l]) => Vouched(l, status, portal'[l])
        /\ PortalTakes(p) => \A l \in batch[p] : Vouched(l, ItemFor(p, l), portal'[l])
    <3>1. CASE PortalTakes(p)
      BY <2>1, <3>1, RequestKeepsTruth
    <3>2. CASE ~ PortalTakes(p) /\ UNCHANGED portal
      BY <3>2
    <3> QED
      BY <1>3, <3>1, <3>2 DEF Post, PostUntold, PostUnanswered
  <2>3. RowsVouched'
    <3> HIDE DEF Vouched
    <3>1. \A l \in Leads : answer[l] \in Statuses
      OBVIOUS
    <3> QED
      BY <2>1, <2>2, <3>1
  <2>4. ASSUME NEW q \in Pushers, stage'[q] = "answered", NEW l \in batch'[q]
        PROVE  Vouched(l, reply'[q][l], portal'[l])
    <3>1. CASE q = p
      <4>1. l \in batch[p] /\ l \in Leads
        BY <2>1, <2>4, <3>1
      <4>2. \/ PortalTakes(p) /\ reply'[p][l] = ItemFor(p, l)
            \/ reply'[p][l] \in {"untold", "silence"}
        BY <1>3, <4>1 DEF Post, PostUntold, PostUnanswered, Answered
      <4>3. CASE PortalTakes(p) /\ reply'[p][l] = ItemFor(p, l)
        <5> HIDE DEF Vouched
        <5> QED
          BY <2>2, <3>1, <4>1, <4>3
      <4>4. CASE reply'[p][l] \in {"untold", "silence"}
        BY <3>1, <4>4 DEF Landed
      <4> QED
        BY <4>2, <4>3, <4>4
    <3>2. CASE q # p
      <4> HIDE DEF Vouched
      <4>1. stage[q] = "answered" /\ l \in batch[q] /\ reply'[q] = reply[q]
        BY <2>1, <2>4, <3>2
      <4>2. reply[q][l] \in Replies /\ l \in Leads
        BY <4>1 DEF Replies
      <4> QED
        BY <2>2, <4>1, <4>2
    <3> QED
      BY <3>1, <3>2
  <2> QED
    BY <1>0, <2>2, <2>3, <2>4
<1>5. ASSUME NEW p \in Pushers, Record(p) PROVE IInv'
  <2>1. /\ UNCHANGED portal
        /\ \A q \in Pushers : stage'[q] = "answered" =>
             /\ stage[q] = "answered"
             /\ batch'[q] = batch[q]
             /\ reply'[q] = reply[q]
    BY <1>5 DEF Record, Finish
  <2>2. ASSUME NEW l \in Leads
        PROVE  \/ Vouched(l, answer'[l], portal[l])
               \/ answer'[l] = "accepted" /\ l \in untold'
    <3>0. stage[p] = "answered" /\ untold \subseteq untold'
      BY <1>5 DEF Record
    <3>1. CASE answer'[l] = answer[l]
      BY <3>0, <3>1
    <3>2. CASE l \in batch[p] /\ answer'[l] = reply[p][l]
      BY <3>0, <3>2
    <3>3. CASE answer'[l] = "error"
      BY <3>3 DEF Landed
    <3>4. CASE l \in batch[p] /\ reply[p][l] = "untold" /\ answer'[l] = "accepted"
      BY <1>5, <3>4 DEF Record
    <3> QED
      BY <1>5, <3>1, <3>2, <3>3, <3>4 DEF Record, StatusToWrite
  <2>3. ASSUME NEW l \in Leads, synced'[l] PROVE portal[l] # "none" \/ l \in untold'
    BY <1>5, <2>3 DEF Record, Stamped, Landed
  <2> QED
    BY <1>0, <2>1, <2>2, <2>3
<1>6. ASSUME NEW p \in Pushers, RecordRolledBack(p) \/ Crash(p) PROVE IInv'
  <2>1. /\ UNCHANGED <<lead, portal, untold>>
        /\ \A q \in Pushers : stage'[q] = "answered" =>
             /\ stage[q] = "answered"
             /\ batch'[q] = batch[q]
             /\ reply'[q] = reply[q]
    BY <1>6 DEF RecordRolledBack, Crash, Finish
  <2> QED
    BY <1>0, <2>1
<1>7. CASE UNCHANGED vars
  BY <1>0, <1>7 DEF vars
<1> QED
  BY <1>1, <1>2, <1>3, <1>5, <1>6, <1>7 DEF Next, Conclude

-----------------------------------------------------------------------------
(* The types of the columns, whatever interleaves.                         *)
THEOREM TypeCorrect == Spec => []TypeOK
  BY TypeInit, TypeStep, PTL DEF Spec

(* vini_ingest.py: no lead is ever recorded as delivered, published, held  *)
(* or refused when it is not, with any number of concurrent pushers, but   *)
(* for those stamped on an answer that had no item for them.               *)
THEOREM RowsAlwaysTellTheTruth == Spec => []RowsTellTheTruth
<1>1. IInv => RowsTellTheTruth
  BY DEF IInv, PortalKinds, RowsVouched, Vouched, RowsTellTheTruth
<1> QED
  BY <1>1, InvInit, InvStep, PTL DEF Spec

-----------------------------------------------------------------------------
\* What a push has loaded is what the row says, until another push writes it.
Fresh == \A p \in Pushers : \A l \in batch[p] \ late[p] : seen[p][l] = answer[l]

LEMMA OnlyRecordAnswers ==
    ASSUME TypeOK, [Next]_vars
    PROVE  \/ UNCHANGED answer
           \/ \E p \in Pushers : Record(p)
<1> USE DEF lead, vars
<1>1. ASSUME NEW p \in Pushers, Judge(p) \/ Send(p) \/ Crash(p) PROVE UNCHANGED answer
  BY <1>1 DEF Judge, Store, Retire, LearnId, AttachAuthor, BecomeMembers, Send, PushPending,
              Drain, RetryFailed, PushForced, Load, Crash
<1>2. ASSUME NEW p \in Pushers, Conclude(p) PROVE UNCHANGED answer \/ Record(p)
  BY <1>2 DEF Conclude, Post, PostUntold, PostUnanswered, Answered, RecordRolledBack
<1> QED
  BY <1>1, <1>2 DEF Next

LEMMA FreshStep == TypeOK /\ Fresh /\ [Next]_vars => Fresh'
<1> SUFFICES ASSUME TypeOK, Fresh, [Next]_vars PROVE Fresh'
  OBVIOUS
<1> USE DEF Fresh, TypeOK, push, lead
<1>1. ASSUME NEW p \in Pushers, Judge(p) PROVE Fresh'
  BY <1>1 DEF Judge, Store, Retire, LearnId, AttachAuthor, BecomeMembers
<1>2. ASSUME NEW p \in Pushers, Send(p) PROVE Fresh'
  <2>1. PICK S \in SUBSET Leads : Load(p, S)
    BY <1>2, SendLoads
  <2>2. PICK ready \in SUBSET Leads :
          /\ batch' = [batch EXCEPT ![p] = ready]
          /\ seen' = [seen EXCEPT ![p] = [l \in Leads |-> IF l \in ready THEN answer[l] ELSE "none"]]
          /\ UNCHANGED <<answer, late>>
    BY <2>1, Loaded
  <2> QED
    BY <2>2
<1>3. ASSUME NEW p \in Pushers, Post(p) \/ PostUntold(p) \/ PostUnanswered(p) PROVE Fresh'
  <2>1. UNCHANGED <<answer, batch, seen, late>>
    BY <1>3 DEF Post, PostUntold, PostUnanswered, Answered
  <2> QED
    BY <2>1
<1>4. ASSUME NEW p \in Pushers, Record(p) PROVE Fresh'
  <2>1. ASSUME NEW q \in Pushers, NEW l \in batch'[q] \ late'[q] PROVE seen'[q][l] = answer'[l]
    <3>1. /\ q # p /\ batch'[q] = batch[q] /\ seen'[q] = seen[q] /\ l \in Leads
          /\ late'[q] = late[q] \cup {k \in batch[q] : answer'[k] # answer[k]}
      BY <1>4, <2>1 DEF Record, Finish
    <3> QED
      BY <2>1, <3>1
  <2> QED
    BY <2>1
<1>5. ASSUME NEW p \in Pushers, RecordRolledBack(p) \/ Crash(p) PROVE Fresh'
  <2>1. ASSUME NEW q \in Pushers, NEW l \in batch'[q] \ late'[q] PROVE seen'[q][l] = answer'[l]
    <3>1. /\ q # p /\ batch'[q] = batch[q] /\ seen'[q] = seen[q] /\ late'[q] = late[q]
          /\ UNCHANGED answer
      BY <1>5, <2>1 DEF RecordRolledBack, Crash, Finish
    <3> QED
      BY <2>1, <3>1
  <2> QED
    BY <2>1
<1>6. CASE UNCHANGED vars
  BY <1>6 DEF vars
<1> QED
  BY <1>1, <1>2, <1>3, <1>4, <1>5, <1>6 DEF Next, Conclude

\* An answer is lost only to a push that had read the row before.
LEMMA HidingStep ==
    ASSUME TypeOK, Fresh, [Next]_vars, NEW l \in Leads, answer[l] \in Answers, answer'[l] = "error"
    PROVE  \E p \in Pushers : l \in batch[p] \cap late[p]
<1>1. answer'[l] # answer[l] /\ answer[l] \notin {"none", "error"}
  BY DEF Answers, Landed
<1>2. PICK p \in Pushers : Record(p)
  BY <1>1, OnlyRecordAnswers
<1>3. l \in batch[p] /\ StatusToWrite(p, l) = "error" /\ StatusToWrite(p, l) # seen[p][l]
  BY <1>1, <1>2 DEF Record
<1>4. reply[p][l] # "error"
  BY DEF TypeOK, Answers, Landed
<1>5. seen[p][l] \in {"none", "error"}
  BY <1>3, <1>4 DEF StatusToWrite
<1>6. l \in late[p]
  BY <1>1, <1>3, <1>5 DEF Fresh
<1> QED
  BY <1>3, <1>6

(* _record_no_answer(), "an earlier answer stays as it was": with any      *)
(* number of pushes open at once, one that got no answer hides one the     *)
(* portal gave only if another push wrote it after this one had read the   *)
(* row.                                                                    *)
THEOREM AnswersAreKept == Spec => AnswerKept
<1>1. Init => Fresh
  BY DEF Init, Fresh
<1>2. TypeOK /\ Fresh /\ [Next]_vars
      => [\A l \in Leads : answer[l] \in Answers /\ answer'[l] = "error" =>
            \E p \in Pushers : l \in batch[p] \cap late[p]]_vars
  BY HidingStep
<1> QED
  BY <1>1, <1>2, FreshStep, TypeInit, TypeStep, PTL DEF Spec, AnswerKept
=============================================================================

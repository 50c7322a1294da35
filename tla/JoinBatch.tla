----------------------------- MODULE JoinBatch ------------------------------
(* The join bot's batches (join/joiner.py).  Each account runs its batches *)
(* on its own machine, with an attempt log of its own; all of them share   *)
(* the database.  What one visit does to a community is JoinWalk's         *)
(* business: here it ends with one of the outcomes a walk can have.        *)
EXTENDS Naturals, Sequences, FiniteSets, SequencesExt

CONSTANTS
    Accounts,    \* join accounts, one batch of each at a time
    Main,        \* the account whose cap also counts the database's outcomes
    N,           \* communities 1 .. N, the best ICP score first
    Limit,       \* candidates a batch takes
    Cap,         \* max_joins_per_day
    MaxCount,    \* bound: handoffs a log is told apart up to
    MaxTrouble   \* bound: browsers lost and batches killed

Communities == 1 .. N
None == "none"

ASSUME BatchAssumption ==
    /\ Main \in Accounts /\ None \notin Accounts
    /\ N \in Nat /\ Limit \in Nat \ {0} /\ Cap \in Nat
    /\ MaxCount \in Nat \ {0} /\ MaxTrouble \in Nat

VARIABLES
    status, joinAccount, session,  \* Community.join_status, .join_account; whose cookies
    attempted,                     \* communities with an outcome persisted today
    logged, handoffs,              \* attempt log: visits today, handoffs of each slug
    inside,                        \* the accounts a visit took for members (see JoinWalk)
    opened,                        \* pages really opened today
    batch,                         \* the running batch of each account
    trouble

filed == <<status, joinAccount, session, attempted>>
log == <<logged, handoffs>>
circle == <<inside, opened>>
batchVars == <<filed, log, circle, batch, trouble>>

Idle == [at |-> "idle", queue |-> <<>>, count |-> 0, outcome |-> None]
\* "pending_approval" is here a "joined" that captured no cookies.
MemberOutcomes == {"joined", "profile_pending"}
Outcomes == MemberOutcomes \cup {"skipped", "handoff"}
JoinQueueStatuses == {"not_attempted", "profile_pending"}

BatchFrom(first) ==
    /\ status = [c \in Communities |-> first]
    /\ joinAccount = [c \in Communities |-> None]
    /\ session = [c \in Communities |-> None]
    /\ attempted = {}
    /\ logged = [a \in Accounts |-> 0]
    /\ handoffs = [a \in Accounts |-> [c \in Communities |-> 0]]
    /\ inside = [c \in Communities |-> {}]
    /\ opened = [a \in Accounts |-> 0]
    /\ batch = [a \in Accounts |-> Idle]
    /\ trouble = 0
BatchInit == BatchFrom("not_attempted")

-----------------------------------------------------------------------------
(* select_join_candidates() and the daily cap.                             *)

WithSession == {c \in Communities : session[c] # None}
Queued(c) == status[c] \in JoinQueueStatuses
NeedsBot(c) == status[c] = "profile_pending" \/ c \notin WithSession
InQueue(c) == Queued(c) /\ NeedsBot(c)

Stuck(a) == {c \in Communities : handoffs[a][c] > 0}
PlainLimit(a) == Limit
RowLimit(a) == Limit + Cardinality(Stuck(a)) + Cardinality(WithSession)
FirstOf(seq, n) == SubSeq(seq, 1, IF Len(seq) < n THEN Len(seq) ELSE n)

Candidates(a) ==
    LET byScore == SelectSeq([c \in Communities |-> c], Queued)
        taken == {c \in ToSet(FirstOf(byScore, RowLimit(a))) : NeedsBot(c)}
        sooner(c, d) ==
            \/ handoffs[a][c] < handoffs[a][d]
            \/ handoffs[a][c] = handoffs[a][d] /\ c < d
    IN FirstOf(SetToSortSeq(taken, sooner), Limit)

OutcomesToday(a) == Cardinality(attempted)
AttemptsToday(a) ==
    IF a = Main /\ Cardinality(attempted) > logged[a] THEN Cardinality(attempted)
    ELSE logged[a]

StartBatch(a) ==
    /\ batch[a].at = "idle"
    /\ Candidates(a) # <<>>
    /\ AttemptsToday(a) < Cap
    /\ batch' = [batch EXCEPT ![a] =
         [at |-> "next", queue |-> Candidates(a), count |-> AttemptsToday(a), outcome |-> None]]
    /\ UNCHANGED <<filed, log, circle, trouble>>

-----------------------------------------------------------------------------
(* _run_batch(): one candidate after the other.                            *)

Current(a) == Head(batch[a].queue)
Next1(a, b) == [b EXCEPT !.at = "next", !.queue = Tail(batch[a].queue), !.outcome = None]

EndBatch(a) ==
    /\ batch[a].at = "next"
    /\ batch[a].queue = <<>> \/ batch[a].count >= Cap
    /\ batch' = [batch EXCEPT ![a] = Idle]
    /\ UNCHANGED <<filed, log, circle, trouble>>

Ready(a) == batch[a].at = "next" /\ batch[a].queue # <<>> /\ batch[a].count < Cap

DeadHost(a) ==
    /\ Ready(a)
    /\ status' = [status EXCEPT ![Current(a)] = "skipped"]
    /\ attempted' = attempted \cup {Current(a)}
    /\ batch' = [batch EXCEPT ![a] = Next1(a, @)]
    /\ UNCHANGED <<joinAccount, session, log, circle, trouble>>

AtMost(n, max) == IF n > max THEN max ELSE n
Noted(a, c) == [handoffs EXCEPT ![a][c] = AtMost(@ + 1, MaxCount)]

\* A walk in the droplet's browser opens the community once; the Ego driver
\* hands the profile questions back, is logged, and opens it a second time.
Visit(a) ==
    \E pages \in 1 .. 2, result \in Outcomes :
        /\ Ready(a)
        /\ opened' = [opened EXCEPT ![a] = @ + pages]
        /\ IF pages = 1 THEN UNCHANGED log
           ELSE /\ logged' = [logged EXCEPT ![a] = @ + 1]
                /\ handoffs' = Noted(a, Current(a))
        /\ inside' = IF result \in MemberOutcomes
                     THEN [inside EXCEPT ![Current(a)] = @ \cup {a}] ELSE inside
        /\ batch' = [batch EXCEPT ![a].at = "visited", ![a].outcome = result,
                                  ![a].count = @ + pages]
        /\ UNCHANGED <<filed, trouble>>

BrowserGone(a) ==    \* _BatchStop: a page was opened, no log entry says so
    /\ Ready(a) /\ trouble < MaxTrouble
    /\ trouble' = trouble + 1
    /\ opened' = [opened EXCEPT ![a] = @ + 1]
    /\ batch' = [batch EXCEPT ![a] = Idle]
    /\ UNCHANGED <<filed, log, inside>>

LogVisit(a) ==
    /\ batch[a].at = "visited"
    /\ logged' = [logged EXCEPT ![a] = @ + 1]
    /\ handoffs' = IF batch[a].outcome \in {"handoff", "profile_pending"}
                   THEN Noted(a, Current(a)) ELSE handoffs
    /\ batch' = [batch EXCEPT ![a].at = "logged"]
    /\ UNCHANGED <<filed, circle, trouble>>

ConnectHost(a) ==
    /\ batch[a].at = "logged" /\ batch[a].outcome = "joined"
    /\ session' = [session EXCEPT ![Current(a)] = a]
    /\ batch' = [batch EXCEPT ![a].at = "connected"]
    /\ UNCHANGED <<status, joinAccount, attempted, log, circle, trouble>>

EveryOutcome == Outcomes
MemberStatuses == MemberOutcomes

PersistTerminalOutcome(a) ==    \* a visit that captured no cookies connects nothing
    /\ batch[a].at \in {"logged", "connected"} /\ batch[a].outcome # "handoff"
    /\ status' = [status EXCEPT ![Current(a)] = batch[a].outcome]
    /\ attempted' = attempted \cup {Current(a)}
    /\ joinAccount' = IF batch[a].outcome \in MemberStatuses
                      THEN [joinAccount EXCEPT ![Current(a)] = a] ELSE joinAccount
    /\ batch' = [batch EXCEPT ![a] = Next1(a, @)]
    /\ UNCHANGED <<session, log, circle, trouble>>

RecordHandoff(a) ==    \* join_status stays: the bot comes back
    /\ batch[a].at = "logged" /\ batch[a].outcome = "handoff"
    /\ batch' = [batch EXCEPT ![a] = Next1(a, @)]
    /\ UNCHANGED <<filed, log, circle, trouble>>

Killed(a) ==
    /\ batch[a].at # "idle" /\ trouble < MaxTrouble
    /\ trouble' = trouble + 1
    /\ batch' = [batch EXCEPT ![a] = Idle]
    /\ UNCHANGED <<filed, log, circle>>

Midnight ==
    /\ attempted' = {}
    /\ logged' = [a \in Accounts |-> 0] /\ opened' = [a \in Accounts |-> 0]
    /\ UNCHANGED <<status, joinAccount, session, handoffs, inside, batch, trouble>>

BatchStep(a) ==
    \/ EndBatch(a) \/ DeadHost(a) \/ Visit(a) \/ LogVisit(a) \/ ConnectHost(a)
    \/ PersistTerminalOutcome(a) \/ RecordHandoff(a)

BatchNext ==
    \/ \E a \in Accounts : StartBatch(a) \/ BatchStep(a) \/ BrowserGone(a) \/ Killed(a)
    \/ Midnight

BatchSpec == BatchInit /\ [][BatchNext]_batchVars

\* The timer starts batches for ever, a batch goes on, days pass.
BatchFairness ==
    /\ \A a \in Accounts : WF_batchVars(BatchStep(a)) /\ SF_batchVars(StartBatch(a))
    /\ WF_batchVars(Midnight)

-----------------------------------------------------------------------------
BatchTypeOK ==
    /\ status \in [Communities -> JoinQueueStatuses \cup MemberOutcomes \cup {"skipped"}]
    /\ joinAccount \in [Communities -> Accounts \cup {None}]
    /\ session \in [Communities -> Accounts \cup {None}]
    /\ attempted \subseteq Communities
    /\ logged \in [Accounts -> Nat] /\ opened \in [Accounts -> Nat]
    /\ handoffs \in [Accounts -> [Communities -> 0 .. MaxCount]]
    /\ inside \in [Communities -> SUBSET Accounts]
    /\ batch \in [Accounts -> [at : {"idle", "next", "visited", "logged", "connected"},
                               queue : Seq(Communities), count : Nat,
                               outcome : Outcomes \cup {None}]]
    /\ trouble \in 0 .. MaxTrouble

(* _run_batch(), "every page opened counts": an account opens no more      *)
(* pages in a day than its cap, but for the second page of the last visit, *)
(* and one for every browser lost or batch killed before it wrote its log. *)
CapHolds == \A a \in Accounts : opened[a] <= Cap + 1 + trouble

(* _MEMBER_STATUSES, "the row remembers which account. Only that account   *)
(* can refresh the session later -- another one is not a member": the row  *)
(* and the session name accounts that a visit took for members.            *)
RowsNameMembers ==
    \A c \in Communities :
        /\ joinAccount[c] # None => joinAccount[c] \in inside[c]
        /\ session[c] # None => session[c] \in inside[c]

(* _handoff_counts(), "Head-of-line blocking guard": every community in    *)
(* the queue is visited some day, and the log says so, however many better *)
(* ones need a person every time.                                          *)
EveryCandidateVisited ==
    \A c \in Communities : ~<>[](InQueue(c) /\ \A a \in Accounts : handoffs[a][c] = 0)
=============================================================================

------------------------------ MODULE JobQueue ------------------------------
(***************************************************************************)
(* The durable scan-job queue (circle_leads/storage/job_queue.py) with the *)
(* processes that use it: dashboard requests that enqueue, and worker      *)
(* loops (circle_leads/cli/main.py, worker_cmd) that claim, run and        *)
(* complete jobs, and that crash and are restarted by systemd.             *)
(*                                                                         *)
(* Every row is one function value per column.  created_at is the order of *)
(* the ids.  Time is kept as ages: age[j] is how long ago row j was        *)
(* claimed, capped just above the staleness limit, so the state space is   *)
(* finite without a horizon on the clock.                                  *)
(*                                                                         *)
(* The database runs transactions under READ COMMITTED.  enqueue() and     *)
(* claim_next() read before they write, so each is two steps here; the     *)
(* rows an open claim has already put back to "queued" are invisible to    *)
(* others and locked until it commits.                                     *)
(***************************************************************************)
EXTENDS Integers, FiniteSets

CONSTANTS
    Workers,      \* worker processes polling the queue
    Callers,      \* dashboard requests that can be inside enqueue()
    Keys,         \* the (kind, host) pairs jobs are identified by
    Priorities,   \* priorities a caller may ask for; 0 is VIP
    MaxJobs,      \* bound: rows ever inserted
    MaxCrashes,   \* bound: worker deaths
    StaleAfter,   \* the 15 minutes of claim_next()
    MaxRun        \* the longest a live worker stays on one job

ASSUME PrioritiesAssumption == Priorities \subseteq Nat
ASSUME BoundsAssumption == MaxJobs \in Nat /\ MaxCrashes \in Nat
ASSUME TimesAssumption == StaleAfter \in Nat /\ MaxRun \in Nat

VARIABLES
    nextId,       \* the id the next INSERT gets
    state,        \* ScanJob.state, "absent" before the insert
    key,          \* ScanJob.kind and ScanJob.host
    prio,         \* ScanJob.priority
    age,          \* time since ScanJob.claimed_at
    attempts,     \* ScanJob.attempts
    asked,        \* per caller: the job it is about to insert, and since when
    born,         \* history: the next id when the row's request had looked
    phase,        \* per worker: where it is in its loop
    hand,         \* per worker: the row it selected or runs, 0 if none
    reset,        \* per worker: rows its open claim put back to "queued"
    ran,          \* per worker: time spent on the job in hand
    crashes       \* worker deaths so far

rows == <<nextId, state, key, prio, age, attempts>>
requests == <<asked, born>>
loop == <<phase, hand, reset, ran>>
vars == <<nextId, state, key, prio, age, attempts, asked, born, phase, hand, reset,
          ran, crashes>>

JobIds == 1 .. MaxJobs
NoAsk == [key |-> "none", prio |-> 0, seen |-> 0]
Asks == [key : Keys, prio : Priorities, seen : Nat \ {0}]

States == {"absent", "queued", "running", "done", "error"}
Active == {j \in JobIds : state[j] \in {"queued", "running"}}
Queued == {j \in JobIds : state[j] = "queued"}

\* Rows that an open claim of a worker other than w has updated: any other
\* UPDATE of them waits for that transaction.
LockedFor(w) == UNION {reset[v] : v \in Workers \ {w}}

\* ORDER BY priority, created_at.
Before(i, j) == prio[i] < prio[j] \/ (prio[i] = prio[j] /\ i < j)
IsFirst(j, Q) == j \in Q /\ \A i \in Q \ {j} : Before(j, i)

Init ==
    /\ nextId = 1
    /\ state = [j \in JobIds |-> "absent"]
    /\ key = [j \in JobIds |-> "none"]
    /\ prio = [j \in JobIds |-> 0]
    /\ age = [j \in JobIds |-> 0]
    /\ attempts = [j \in JobIds |-> 0]
    /\ asked = [c \in Callers |-> NoAsk] /\ born = [j \in JobIds |-> 0]
    /\ phase = [w \in Workers |-> "idle"]
    /\ hand = [w \in Workers |-> 0]
    /\ reset = [w \in Workers |-> {}]
    /\ ran = [w \in Workers |-> 0]
    /\ crashes = 0

-----------------------------------------------------------------------------
(* Mutants: forms of the definitions below that a bug would give them.     *)

\* Requeues a job at the limit, not beyond it.
StaleAtLimit == {j \in JobIds : state[j] = "running" /\ age[j] >= StaleAfter}
\* No requeue at all.
StaleNever == {}
\* An unconditional UPDATE.
ClaimAnyway(w) == hand[w] # 0
\* Only a queued twin counts as a duplicate.
LookQueuedOnly(c, k, p) ==
    /\ asked[c] = NoAsk
    /\ ~ \E j \in JobIds : state[j] = "queued" /\ key[j] = k
    /\ asked' = [asked EXCEPT ![c] = [key |-> k, prio |-> p, seen |-> nextId]]
    /\ UNCHANGED <<rows, born, loop, crashes>>

\* The rows the first UPDATE of claim_next() matches.
Stale == {j \in JobIds : state[j] = "running" /\ age[j] > StaleAfter}

-----------------------------------------------------------------------------
(* enqueue(): SELECT an identical queued or running job; if there is none,  *)
(* INSERT.  Finding one returns its id and changes nothing.                 *)

EnqueueLook(c, k, p) ==
    /\ asked[c] = NoAsk
    /\ ~ \E j \in Active : key[j] = k
    /\ asked' = [asked EXCEPT ![c] = [key |-> k, prio |-> p, seen |-> nextId]]
    /\ UNCHANGED <<rows, born, loop, crashes>>

EnqueueInsert(c) ==
    /\ asked[c] # NoAsk
    /\ nextId \in JobIds
    /\ nextId' = nextId + 1
    /\ state' = [state EXCEPT ![nextId] = "queued"]
    /\ key' = [key EXCEPT ![nextId] = asked[c].key]
    /\ prio' = [prio EXCEPT ![nextId] = asked[c].prio]
    /\ born' = [born EXCEPT ![nextId] = asked[c].seen]
    /\ asked' = [asked EXCEPT ![c] = NoAsk]
    /\ UNCHANGED <<age, attempts, loop, crashes>>

-----------------------------------------------------------------------------
(* claim_next(): requeue what is stale, SELECT the first queued row, then   *)
(* UPDATE it on condition that it is still queued.                          *)

ClaimSelect(w) ==
    /\ phase[w] = "idle"
    /\ Stale \cap LockedFor(w) = {}
    /\ \E j \in Queued \cup Stale :
         /\ IsFirst(j, Queued \cup Stale)
         /\ hand' = [hand EXCEPT ![w] = j]
    /\ phase' = [phase EXCEPT ![w] = "claiming"]
    /\ reset' = [reset EXCEPT ![w] = Stale]
    /\ UNCHANGED <<rows, requests, ran, crashes>>

StillQueued(w) == state[hand[w]] = "queued" \/ hand[w] \in reset[w]

ClaimWon(w) ==
    /\ phase[w] = "claiming"
    /\ StillQueued(w)
    /\ state' = [j \in JobIds |->
                    IF j = hand[w] THEN "running"
                    ELSE IF j \in reset[w] THEN "queued" ELSE state[j]]
    /\ age' = [age EXCEPT ![hand[w]] = 0]
    /\ attempts' = [attempts EXCEPT ![hand[w]] = @ + 1]
    /\ phase' = [phase EXCEPT ![w] = "running"]
    /\ reset' = [reset EXCEPT ![w] = {}]
    /\ UNCHANGED <<nextId, key, prio, requests, hand, ran, crashes>>

\* rowcount != 1: someone else claimed it.  The requeues are committed.
ClaimLost(w) ==
    /\ phase[w] = "claiming"
    /\ ~ StillQueued(w)
    /\ state' = [j \in JobIds |-> IF j \in reset[w] THEN "queued" ELSE state[j]]
    /\ phase' = [phase EXCEPT ![w] = "idle"]
    /\ hand' = [hand EXCEPT ![w] = 0]
    /\ reset' = [reset EXCEPT ![w] = {}]
    /\ UNCHANGED <<nextId, key, prio, age, attempts, requests, ran, crashes>>

\* A database error inside claim_next(): rolled back, logged, retried later.
ClaimAbort(w) ==
    /\ phase[w] = "claiming"
    /\ phase' = [phase EXCEPT ![w] = "idle"]
    /\ hand' = [hand EXCEPT ![w] = 0]
    /\ reset' = [reset EXCEPT ![w] = {}]
    /\ UNCHANGED <<rows, requests, ran, crashes>>

\* complete(): the row's state is overwritten whatever it is by now.
Complete(w, outcome) ==
    /\ phase[w] = "running"
    /\ hand[w] \notin LockedFor(w)
    /\ state' = [state EXCEPT ![hand[w]] = outcome]
    /\ phase' = [phase EXCEPT ![w] = "idle"]
    /\ hand' = [hand EXCEPT ![w] = 0]
    /\ ran' = [ran EXCEPT ![w] = 0]
    /\ UNCHANGED <<nextId, key, prio, age, attempts, requests, reset, crashes>>

\* The process dies or leaves (_leave_after) and systemd starts a new one.
Crash(w) ==
    /\ phase[w] # "idle"
    /\ crashes < MaxCrashes
    /\ crashes' = crashes + 1
    /\ phase' = [phase EXCEPT ![w] = "idle"]
    /\ hand' = [hand EXCEPT ![w] = 0]
    /\ reset' = [reset EXCEPT ![w] = {}]
    /\ ran' = [ran EXCEPT ![w] = 0]
    /\ UNCHANGED <<rows, requests>>

\* One unit of time.  A live worker ends its job within MaxRun.
Tick ==
    /\ \A w \in Workers : phase[w] = "running" => ran[w] < MaxRun
    /\ age' = [j \in JobIds |->
                 IF state[j] = "running" /\ age[j] <= StaleAfter
                 THEN age[j] + 1 ELSE age[j]]
    /\ ran' = [w \in Workers |-> IF phase[w] = "running" THEN ran[w] + 1 ELSE 0]
    /\ UNCHANGED <<nextId, state, key, prio, attempts, requests, phase, hand,
                   reset, crashes>>

-----------------------------------------------------------------------------
CallerStep(c) ==
    \/ \E k \in Keys, p \in Priorities : EnqueueLook(c, k, p)
    \/ EnqueueInsert(c)

WorkerStep(w) ==
    \/ ClaimSelect(w)
    \/ ClaimWon(w)
    \/ ClaimLost(w)
    \/ \E outcome \in {"done", "error"} : Complete(w, outcome)

Next ==
    \/ \E c \in Callers : CallerStep(c)
    \/ \E w \in Workers : WorkerStep(w) \/ ClaimAbort(w) \/ Crash(w)
    \/ Tick

Spec == Init /\ [][Next]_vars

(***************************************************************************)
(* The worker loop polls for ever and every step of it ends: a claim is    *)
(* three statements, and each job kind catches its errors.  A claim that   *)
(* fails again and again (ClaimAbort) still leaves the winning step        *)
(* enabled over and over, hence strong fairness for it: the database is    *)
(* not down for ever.  Time passes.  Nothing forces a caller or a crash.   *)
(***************************************************************************)
FairSpec ==
    /\ Spec
    /\ \A w \in Workers :
         /\ WF_vars(ClaimSelect(w))
         /\ SF_vars(ClaimWon(w))
         /\ WF_vars(ClaimLost(w))
         /\ WF_vars(\E outcome \in {"done", "error"} : Complete(w, outcome))
    /\ WF_vars(Tick)

-----------------------------------------------------------------------------
(* The columns and the processes' local state have their types.            *)
TypeOK ==
    /\ nextId \in 1 .. MaxJobs + 1
    /\ state \in [JobIds -> States]
    /\ key \in [JobIds -> Keys \cup {"none"}]
    /\ prio \in [JobIds -> Nat]
    /\ age \in [JobIds -> Nat]
    /\ attempts \in [JobIds -> Nat]
    /\ asked \in [Callers -> Asks \cup {NoAsk}] /\ born \in [JobIds -> Nat]
    /\ phase \in [Workers -> {"idle", "claiming", "running"}]
    /\ hand \in [Workers -> JobIds \cup {0}]
    /\ reset \in [Workers -> SUBSET JobIds]
    /\ ran \in [Workers -> Nat]
    /\ crashes \in Nat

(* job_queue.py:4, "concurrent workers never run the same job": no row is  *)
(* in the hands of two workers that are both executing it.                 *)
NoDoubleRun ==
    \A v, w \in Workers :
        /\ v # w
        /\ phase[v] = "running"
        /\ phase[w] = "running"
        => hand[v] # hand[w]

Overdue == {w \in Workers : phase[w] = "running" /\ ran[w] > StaleAfter}

(* claim_next(): what is true of that claim.  Two workers execute one row  *)
(* only after one of them has had it for longer than the staleness limit,  *)
(* however many there are, wherever they die and however long jobs take.   *)
DoubleRunsAreLate ==
    \A v, w \in Workers :
        /\ v # w /\ hand[v] = hand[w]
        /\ phase[v] = "running" /\ phase[w] = "running"
        => v \in Overdue \/ w \in Overdue

(* job_queue.py:25, enqueue's dedup: of two unfinished rows with the same  *)
(* kind and host, the earlier was inserted between the look and the insert *)
(* of the request that made the later.  No requeue and no second verdict   *)
(* brings a finished twin back.                                            *)
TwinsOverlapped ==
    \A i, j \in Active : i < j /\ key[i] = key[j] => born[j] <= i

(* What the dashboard shows as finished stays finished, and the verdict of *)
(* a row that was claimed once stands: only a worker that was handed the   *)
(* row anew can overwrite it.                                              *)
VerdictsStand ==
    [][\A j \in JobIds :
         state[j] \in {"done", "error"} =>
             /\ state'[j] \in {"done", "error"}
             /\ attempts[j] <= 1 => state'[j] = state[j]]_vars

(* Every inserted job ends, whichever worker dies on the way: a row left   *)
(* "running" by a dead worker comes back through the stale requeue.        *)
EveryJobEnds == \A j \in JobIds : ~<>[](j \in Active)

-----------------------------------------------------------------------------
(* How the rows and the worker loops map to the abstract ledger.           *)
LedgerStatus ==
    [j \in JobIds |->
        CASE state[j] = "absent" -> "new"
          [] state[j] \in {"queued", "running"} -> "waiting"
          [] OTHER -> "ended"]
LedgerHolder ==
    [w \in Workers |-> IF phase[w] = "running" THEN hand[w] ELSE 0]

Ledger == INSTANCE JobLedger
            WITH Job <- JobIds, Worker <- Workers,
                 status <- LedgerStatus, holder <- LedgerHolder, late <- Overdue

(* Rows, ages and transactions together give the promise of the abstract   *)
(* ledger, also for jobs that outlast the limit.                           *)
ImplementsLedger == Ledger!Spec
=============================================================================

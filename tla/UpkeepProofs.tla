--------------------------- MODULE UpkeepProofs ---------------------------
(***************************************************************************)
(* Proofs about the job queue, the enrichment of communities and their     *)
(* rows, for any number of workers, callers, keys and communities, any     *)
(* bound on crashes and jobs of any length.                                *)
(***************************************************************************)
EXTENDS JobQueue, Enrichment, JoinTypes, ListLemmas

-----------------------------------------------------------------------------
(* The inductive invariant, in parts.                                      *)

\* Rows are inserted in the order of their ids.
RowsInOrder == \A j \in JobIds : state[j] = "absent" <=> nextId <= j

\* A live worker's row was claimed; one that is still in time finds it exactly as
\* old as its run, or ended by one that was not.
HandsHeld ==
    \A w \in Workers :
        /\ phase[w] = "running" =>
             /\ hand[w] \in JobIds
             /\ state[hand[w]] # "absent"
             /\ ran[w] <= StaleAfter =>
                  \/ state[hand[w]] = "running" /\ age[hand[w]] = ran[w]
                  \/ state[hand[w]] \in {"done", "error"}
        /\ phase[w] # "running" => ran[w] = 0
        /\ phase[w] = "claiming" => hand[w] \in JobIds

\* An open claim has put back stale rows only, and no two claims the same.
ResetsStale ==
    /\ \A w \in Workers : reset[w] \subseteq Stale
    /\ \A w \in Workers : phase[w] # "claiming" => reset[w] = {}
    /\ \A v, w \in Workers : v # w => reset[v] \cap reset[w] = {}

\* A worker is alive and executing row j.
Runs(w, j) == phase[w] = "running" /\ hand[w] = j

\* What has been claimed once has had one worker, and ended with it.
ClaimsCount ==
    \A j \in JobIds :
        /\ attempts[j] = 0 =>
             state[j] \in {"absent", "queued"} /\ \A w \in Workers : ~Runs(w, j)
        /\ attempts[j] = 1 =>
             /\ \A v, w \in Workers : Runs(v, j) /\ Runs(w, j) => v = w
             /\ state[j] \in {"done", "error"} => \A w \in Workers : ~Runs(w, j)

\* What a caller found no twin of has none among the rows it could see.
AsksFresh ==
    \A c \in Callers : asked[c] # NoAsk =>
        /\ asked[c].seen <= nextId
        /\ \A j \in Active : key[j] = asked[c].key => asked[c].seen <= j

IInv ==
    /\ TypeOK
    /\ RowsInOrder
    /\ HandsHeld
    /\ ResetsStale
    /\ DoubleRunsAreLate
    /\ ClaimsCount
    /\ AsksFresh
    /\ TwinsOverlapped

-----------------------------------------------------------------------------
(* The columns and the processes' local state have their types, whatever   *)
(* the timing.                                                             *)
LEMMA TypeInit == Init => TypeOK
  BY BoundsAssumption DEF Init, TypeOK, JobIds, States, NoAsk, Asks

LEMMA TypeStep == TypeOK /\ [Next]_vars => TypeOK'
<1> SUFFICES ASSUME TypeOK, [Next]_vars PROVE TypeOK'
  OBVIOUS
<1> USE BoundsAssumption, PrioritiesAssumption DEF TypeOK, JobIds, States, rows, requests, loop
<1>1. ASSUME NEW c \in Callers, NEW k \in Keys, NEW p \in Priorities,
             EnqueueLook(c, k, p)
      PROVE  TypeOK'
  <2>1. nextId \in Nat \ {0}
    OBVIOUS
  <2>2. [key |-> k, prio |-> p, seen |-> nextId] \in Asks
    BY <2>1 DEF Asks
  <2>3. asked' \in [Callers -> Asks \cup {NoAsk}]
    BY <1>1, <2>2 DEF EnqueueLook
  <2> QED
    BY <1>1, <2>3 DEF EnqueueLook
<1>2. ASSUME NEW c \in Callers, EnqueueInsert(c) PROVE TypeOK'
  <2>1. asked[c] \in Asks
    BY <1>2 DEF EnqueueInsert
  <2>2. asked[c].key \in Keys /\ asked[c].prio \in Nat /\ asked[c].seen \in Nat
    BY <2>1 DEF Asks
  <2>3. asked' \in [Callers -> Asks \cup {NoAsk}]
    BY <1>2 DEF EnqueueInsert
  <2>4. /\ nextId' \in 1 .. MaxJobs + 1
        /\ state' \in [JobIds -> States]
        /\ UNCHANGED <<age, attempts, phase, hand, reset, ran, crashes>>
    BY <1>2 DEF EnqueueInsert
  <2>5. /\ key' \in [JobIds -> Keys \cup {"none"}]
        /\ prio' \in [JobIds -> Nat]
        /\ born' \in [JobIds -> Nat]
    BY <1>2, <2>2 DEF EnqueueInsert
  <2> QED
    BY <2>3, <2>4, <2>5
<1>3. ASSUME NEW w \in Workers, ClaimSelect(w) PROVE TypeOK'
  BY <1>3 DEF ClaimSelect, Queued, Stale
<1>4. ASSUME NEW w \in Workers, ClaimWon(w) PROVE TypeOK'
  <2>1. state' \in [JobIds -> States]
    BY <1>4 DEF ClaimWon
  <2>2. age' \in [JobIds -> Nat]
    BY <1>4 DEF ClaimWon
  <2>3. attempts' \in [JobIds -> Nat]
    <3>1. CASE hand[w] \in JobIds
      <4>1. attempts[hand[w]] + 1 \in Nat
        BY <3>1
      <4> QED
        BY <1>4, <4>1 DEF ClaimWon
    <3>2. CASE hand[w] \notin JobIds
      BY <1>4, <3>2 DEF ClaimWon
    <3> QED
      BY <3>1, <3>2
  <2> QED
    BY <1>4, <2>1, <2>2, <2>3 DEF ClaimWon
<1>5. ASSUME NEW w \in Workers, ClaimLost(w) PROVE TypeOK'
  BY <1>5 DEF ClaimLost
<1>6. ASSUME NEW w \in Workers, ClaimAbort(w) PROVE TypeOK'
  BY <1>6 DEF ClaimAbort
<1>7. ASSUME NEW w \in Workers, NEW o \in {"done", "error"}, Complete(w, o)
      PROVE  TypeOK'
  BY <1>7 DEF Complete
<1>8. ASSUME NEW w \in Workers, Crash(w) PROVE TypeOK'
  <2>1. crashes' \in Nat
    BY <1>8 DEF Crash
  <2>2. /\ hand' \in [Workers -> JobIds \cup {0}]
        /\ ran' \in [Workers -> Nat]
        /\ reset' \in [Workers -> SUBSET JobIds]
    BY <1>8 DEF Crash
  <2> QED
    BY <1>8, <2>1, <2>2 DEF Crash
<1>9. CASE Tick
  BY <1>9 DEF Tick
<1>10. CASE UNCHANGED vars
  BY <1>10 DEF vars
<1> QED
  BY <1>1, <1>2, <1>3, <1>4, <1>5, <1>6, <1>7, <1>8, <1>9, <1>10
     DEF Next, CallerStep, WorkerStep

(* Whatever the timing, rows and processes keep the types job_queue.py     *)
(* gives them.                                                             *)
THEOREM TypeCorrect == Spec => []TypeOK
  BY TypeInit, TypeStep, PTL DEF Spec

-----------------------------------------------------------------------------
(* Each part of IInv is preserved by every step, given IInv before it.     *)
LEMMA InvInit == Init => IInv
<1> SUFFICES ASSUME Init PROVE IInv
  OBVIOUS
<1>1. TypeOK
  BY TypeInit
<1>2. RowsInOrder
  BY BoundsAssumption DEF Init, RowsInOrder, JobIds
<1>3. HandsHeld /\ ResetsStale /\ DoubleRunsAreLate
  BY DEF Init, HandsHeld, ResetsStale, DoubleRunsAreLate
<1>4. ClaimsCount /\ AsksFresh /\ TwinsOverlapped
  BY DEF Init, ClaimsCount, AsksFresh, TwinsOverlapped, Active, Runs
<1> QED
  BY <1>1, <1>2, <1>3, <1>4 DEF IInv

LEMMA OrderStep ==
  ASSUME IInv, [Next]_vars
  PROVE  RowsInOrder'
<1> USE BoundsAssumption DEF IInv, TypeOK, RowsInOrder, JobIds, States, rows, requests, loop
<1>1. ASSUME NEW c \in Callers, EnqueueInsert(c) PROVE RowsInOrder'
  BY <1>1 DEF EnqueueInsert
<1>2. ASSUME NEW w \in Workers, ClaimWon(w) PROVE RowsInOrder'
  BY <1>2 DEF ClaimWon, StillQueued, ResetsStale, Stale
<1>3. ASSUME NEW w \in Workers, ClaimLost(w) PROVE RowsInOrder'
  BY <1>3 DEF ClaimLost, ResetsStale, Stale
<1>4. ASSUME NEW w \in Workers, NEW o \in {"done", "error"}, Complete(w, o)
      PROVE  RowsInOrder'
  BY <1>4 DEF Complete, HandsHeld
<1>5. ASSUME UNCHANGED <<nextId, state>> PROVE RowsInOrder'
  BY <1>5
<1> QED
  BY <1>1, <1>2, <1>3, <1>4, <1>5
     DEF Next, CallerStep, WorkerStep, EnqueueLook, ClaimSelect, ClaimAbort,
         Crash, Tick, vars

\* A row that is claimed is in the hand of nobody but those that overran, and no
\* other open claim has put it back.
LEMMA FreshClaim ==
  ASSUME IInv, NEW w \in Workers, ClaimWon(w)
  PROVE  /\ hand[w] \in JobIds
         /\ state[hand[w]] \in {"queued", "running"}
         /\ \A v \in Workers : Runs(v, hand[w]) => ran[v] > StaleAfter
         /\ hand[w] \notin LockedFor(w)
<1> USE DEF IInv, TypeOK
<1>1. hand[w] \in JobIds
  BY DEF ClaimWon, HandsHeld
<1>2. CASE state[hand[w]] = "queued"
  <2>1. \A v \in Workers : Runs(v, hand[w]) => ran[v] > StaleAfter
    BY <1>2, TimesAssumption DEF Runs, HandsHeld
  <2>2. hand[w] \notin LockedFor(w)
    BY <1>2 DEF LockedFor, ResetsStale, Stale
  <2> QED
    BY <1>1, <1>2, <2>1, <2>2
<1>3. CASE hand[w] \in reset[w]
  <2>1. state[hand[w]] = "running" /\ age[hand[w]] > StaleAfter
    BY <1>3 DEF ResetsStale, Stale
  <2>2. \A v \in Workers : Runs(v, hand[w]) => ran[v] > StaleAfter
    BY <2>1, <1>1, TimesAssumption DEF Runs, HandsHeld
  <2>3. hand[w] \notin LockedFor(w)
    BY <1>3 DEF LockedFor, ResetsStale
  <2> QED
    BY <1>1, <2>1, <2>2, <2>3
<1> QED
  BY <1>2, <1>3 DEF ClaimWon, StillQueued

LEMMA HandsStep ==
  ASSUME IInv, [Next]_vars
  PROVE  HandsHeld'
<1> USE TimesAssumption DEF IInv, TypeOK, HandsHeld, rows, requests, loop
<1>1. ASSUME NEW c \in Callers, EnqueueInsert(c) PROVE HandsHeld'
  BY <1>1 DEF EnqueueInsert, RowsInOrder
<1>2. ASSUME NEW w \in Workers, ClaimSelect(w) PROVE HandsHeld'
  BY <1>2 DEF ClaimSelect, Queued, Stale
<1>3. ASSUME NEW w \in Workers, ClaimWon(w) PROVE HandsHeld'
  <2>1. hand[w] \in JobIds /\ \A v \in Workers : Runs(v, hand[w]) => ran[v] > StaleAfter
    BY <1>3, FreshClaim
  <2>2. ASSUME NEW v \in Workers, phase'[v] = "running", v # w
        PROVE  /\ hand'[v] \in JobIds
               /\ state'[hand'[v]] # "absent"
               /\ ran'[v] <= StaleAfter =>
                    \/ state'[hand'[v]] = "running" /\ age'[hand'[v]] = ran'[v]
                    \/ state'[hand'[v]] \in {"done", "error"}
    <3>1. phase[v] = "running" /\ hand'[v] = hand[v] /\ ran'[v] = ran[v]
      BY <1>3, <2>2 DEF ClaimWon
    <3>2. ran[v] <= StaleAfter => hand[v] # hand[w]
      BY <2>1, <3>1 DEF Runs
    <3>3. ran[v] <= StaleAfter => hand[v] \notin reset[w]
      BY <3>1 DEF ResetsStale, Stale
    <3> QED
      BY <1>3, <3>1, <3>2, <3>3 DEF ClaimWon
  <2>3. /\ hand'[w] \in JobIds
        /\ state'[hand'[w]] = "running"
        /\ age'[hand'[w]] = ran'[w]
    BY <1>3, <2>1 DEF ClaimWon
  <2>4. \A v \in Workers : phase'[v] # "running" => ran'[v] = 0
    BY <1>3 DEF ClaimWon
  <2>5. \A v \in Workers : phase'[v] = "claiming" => hand'[v] \in JobIds
    BY <1>3 DEF ClaimWon
  <2> QED
    BY <2>2, <2>3, <2>4, <2>5
<1>4. ASSUME NEW w \in Workers, ClaimLost(w) PROVE HandsHeld'
  BY <1>4 DEF ClaimLost, ResetsStale, Stale
<1>5. ASSUME NEW w \in Workers, ClaimAbort(w) PROVE HandsHeld'
  BY <1>5 DEF ClaimAbort
<1>6. ASSUME NEW w \in Workers, NEW o \in {"done", "error"}, Complete(w, o)
      PROVE  HandsHeld'
  BY <1>6 DEF Complete
<1>7. ASSUME NEW w \in Workers, Crash(w) PROVE HandsHeld'
  BY <1>7 DEF Crash
<1>8. CASE Tick
  BY <1>8 DEF Tick
<1>9. ASSUME NEW c \in Callers, NEW k \in Keys, NEW p \in Priorities,
             EnqueueLook(c, k, p)
      PROVE  HandsHeld'
  BY <1>9 DEF EnqueueLook
<1>10. CASE UNCHANGED vars
  BY <1>10 DEF vars
<1> QED
  BY <1>1, <1>2, <1>3, <1>4, <1>5, <1>6, <1>7, <1>8, <1>9, <1>10
     DEF Next, CallerStep, WorkerStep

LEMMA ResetsStep ==
  ASSUME IInv, [Next]_vars
  PROVE  ResetsStale'
<1> USE TimesAssumption DEF IInv, TypeOK, ResetsStale, Stale, rows, requests, loop
<1>1. ASSUME NEW c \in Callers, EnqueueInsert(c) PROVE ResetsStale'
  BY <1>1 DEF EnqueueInsert, RowsInOrder
<1>2. ASSUME NEW w \in Workers, ClaimSelect(w) PROVE ResetsStale'
  <2>1. \A v \in Workers \ {w} : reset[v] \cap Stale = {}
    BY <1>2 DEF ClaimSelect, LockedFor
  <2> QED
    BY <1>2, <2>1 DEF ClaimSelect
<1>3. ASSUME NEW w \in Workers, ClaimWon(w) PROVE ResetsStale'
  <2>1. hand[w] \in JobIds /\ hand[w] \notin LockedFor(w)
    BY <1>3, FreshClaim
  <2>2. ASSUME NEW v \in Workers, v # w
        PROVE  reset[v] \cap (reset[w] \cup {hand[w]}) = {} /\ reset'[v] = reset[v]
    BY <1>3, <2>1, <2>2 DEF ClaimWon, LockedFor
  <2>3. reset'[w] = {}
    BY <1>3 DEF ClaimWon
  <2>4. ASSUME NEW v \in Workers, v # w PROVE reset'[v] \subseteq Stale'
    BY <1>3, <2>2, <2>4 DEF ClaimWon
  <2> QED
    BY <1>3, <2>2, <2>3, <2>4 DEF ClaimWon
<1>4. ASSUME NEW w \in Workers, ClaimLost(w) PROVE ResetsStale'
  BY <1>4 DEF ClaimLost
<1>5. ASSUME NEW w \in Workers, ClaimAbort(w) PROVE ResetsStale'
  BY <1>5 DEF ClaimAbort
<1>6. ASSUME NEW w \in Workers, NEW o \in {"done", "error"}, Complete(w, o)
      PROVE  ResetsStale'
  <2>1. \A v \in Workers : hand[w] \notin reset[v]
    BY <1>6 DEF Complete, LockedFor
  <2> QED
    BY <1>6, <2>1 DEF Complete
<1>7. ASSUME NEW w \in Workers, Crash(w) PROVE ResetsStale'
  BY <1>7 DEF Crash
<1>8. CASE Tick
  BY <1>8 DEF Tick
<1>9. ASSUME NEW c \in Callers, NEW k \in Keys, NEW p \in Priorities,
             EnqueueLook(c, k, p)
      PROVE  ResetsStale'
  BY <1>9 DEF EnqueueLook
<1>10. CASE UNCHANGED vars
  BY <1>10 DEF vars
<1> QED
  BY <1>1, <1>2, <1>3, <1>4, <1>5, <1>6, <1>7, <1>8, <1>9, <1>10
     DEF Next, CallerStep, WorkerStep

LEMMA DoubleRunStep ==
  ASSUME IInv, [Next]_vars
  PROVE  DoubleRunsAreLate'
<1> USE DEF IInv, TypeOK, DoubleRunsAreLate, Overdue, rows, requests, loop
<1>1. ASSUME NEW w \in Workers, ClaimWon(w) PROVE DoubleRunsAreLate'
  <2>1. \A v \in Workers : Runs(v, hand[w]) => ran[v] > StaleAfter
    BY <1>1, FreshClaim
  <2> QED
    BY <1>1, <2>1 DEF ClaimWon, Runs
<1>2. ASSUME NEW w \in Workers,
             \/ ClaimSelect(w) \/ ClaimLost(w) \/ ClaimAbort(w) \/ Crash(w)
             \/ \E o \in {"done", "error"} : Complete(w, o)
      PROVE  DoubleRunsAreLate'
  BY <1>2 DEF ClaimSelect, ClaimLost, ClaimAbort, Crash, Complete
<1>3. CASE Tick
  BY <1>3, TimesAssumption DEF Tick
<1>4. ASSUME UNCHANGED <<phase, hand, ran>> PROVE DoubleRunsAreLate'
  BY <1>4
<1> QED
  BY <1>1, <1>2, <1>3, <1>4
     DEF Next, CallerStep, WorkerStep, EnqueueLook, EnqueueInsert, vars

LEMMA ClaimsStep ==
  ASSUME IInv, [Next]_vars
  PROVE  ClaimsCount'
<1> USE DEF IInv, TypeOK, ClaimsCount, Runs, rows, requests, loop
<1>1. ASSUME NEW c \in Callers, EnqueueInsert(c) PROVE ClaimsCount'
  BY <1>1 DEF EnqueueInsert
<1>2. ASSUME NEW w \in Workers, ClaimWon(w) PROVE ClaimsCount'
  <2>1. hand[w] \in JobIds /\ attempts[hand[w]] \in Nat /\ phase[w] # "running"
    BY <1>2, FreshClaim DEF ClaimWon
  <2>2. /\ \A v \in Workers \ {w} : \A j \in JobIds : Runs(v, j)' <=> Runs(v, j)
        /\ \A j \in JobIds : Runs(w, j)' => j = hand[w]
    BY <1>2 DEF ClaimWon
  <2>3. attempts'[hand[w]] = attempts[hand[w]] + 1 /\ state'[hand[w]] = "running"
    BY <1>2, <2>1 DEF ClaimWon
  <2>4. ASSUME NEW j \in JobIds, j # hand[w]
        PROVE  /\ attempts'[j] = attempts[j]
               /\ state'[j] = state[j] \/ (j \in reset[w] /\ state'[j] = "queued")
    BY <1>2, <2>4 DEF ClaimWon
  <2>5. \A j \in reset[w] : state[j] = "running" /\ attempts[j] # 0
    BY DEF ResetsStale, Stale
  <2>6. ASSUME NEW j \in JobIds, j # hand[w]
        PROVE  /\ attempts'[j] = 0 => state'[j] \in {"absent", "queued"}
               /\ attempts'[j] = 1 /\ state'[j] \in {"done", "error"} => state'[j] = state[j]
    BY <2>4, <2>5, <2>6
  <2> HIDE DEF Runs
  <2>7. ASSUME NEW j \in JobIds, attempts'[j] = 0
        PROVE  state'[j] \in {"absent", "queued"} /\ \A v \in Workers : ~Runs(v, j)'
    <3>1. j # hand[w]
      BY <2>1, <2>3, <2>7
    <3> QED
      BY <2>2, <2>4, <2>6, <2>7, <3>1
  <2>8. ASSUME NEW j \in JobIds, attempts'[j] = 1
        PROVE  /\ \A u, v \in Workers : Runs(u, j)' /\ Runs(v, j)' => u = v
               /\ state'[j] \in {"done", "error"} => \A v \in Workers : ~Runs(v, j)'
    <3>1. CASE j = hand[w]
      <4>1. attempts[j] = 0
        BY <2>1, <2>3, <2>8, <3>1
      <4> QED
        BY <2>2, <2>3, <3>1, <4>1
    <3>2. CASE j # hand[w]
      BY <2>2, <2>4, <2>6, <2>8, <3>2
    <3> QED
      BY <3>1, <3>2
  <2> QED
    BY <2>7, <2>8
<1>3. ASSUME NEW w \in Workers, ClaimLost(w) PROVE ClaimsCount'
  <2>1. \A j \in reset[w] : state[j] = "running"
    BY DEF ResetsStale, Stale
  <2> QED
    BY <1>3, <2>1 DEF ClaimLost
<1>4. ASSUME NEW w \in Workers, NEW o \in {"done", "error"}, Complete(w, o)
      PROVE  ClaimsCount'
  <2>1. hand[w] \in JobIds /\ Runs(w, hand[w]) /\ attempts[hand[w]] # 0
    BY <1>4 DEF Complete, HandsHeld
  <2>2. \A v \in Workers, j \in JobIds : Runs(v, j)' <=> v # w /\ Runs(v, j)
    BY <1>4 DEF Complete
  <2>3. UNCHANGED attempts /\ \A j \in JobIds : j # hand[w] => state'[j] = state[j]
    BY <1>4 DEF Complete
  <2> HIDE DEF Runs
  <2> QED
    BY <2>1, <2>2, <2>3
<1>5. ASSUME NEW w \in Workers, Crash(w) \/ ClaimSelect(w) \/ ClaimAbort(w) PROVE ClaimsCount'
  BY <1>5 DEF Crash, ClaimSelect, ClaimAbort
<1>6. ASSUME UNCHANGED <<state, attempts, phase, hand>> PROVE ClaimsCount'
  BY <1>6
<1> QED
  BY <1>1, <1>2, <1>3, <1>4, <1>5, <1>6
     DEF Next, CallerStep, WorkerStep, EnqueueLook, Tick, vars

\* No step but an insert makes a row active.
LEMMA ActiveShrinks ==
  ASSUME IInv, [Next]_vars, \A c \in Callers : ~EnqueueInsert(c)
  PROVE  Active' \subseteq Active /\ UNCHANGED <<key, born, nextId>>
<1> USE DEF IInv, TypeOK, Active, rows, loop, requests
<1>1. ASSUME NEW w \in Workers, ClaimWon(w) PROVE Active' \subseteq Active
  BY <1>1, FreshClaim DEF ClaimWon, ResetsStale, Stale
<1>2. ASSUME NEW w \in Workers, ClaimLost(w) PROVE Active' \subseteq Active
  BY <1>2 DEF ClaimLost, ResetsStale, Stale
<1>3. ASSUME NEW w \in Workers, NEW o \in {"done", "error"}, Complete(w, o)
      PROVE  Active' \subseteq Active
  BY <1>3 DEF Complete, HandsHeld
<1> QED
  BY <1>1, <1>2, <1>3
     DEF Next, CallerStep, WorkerStep, EnqueueLook, ClaimSelect, ClaimWon, ClaimLost,
         ClaimAbort, Complete, Crash, Tick, vars

LEMMA TwinsStep ==
  ASSUME IInv, [Next]_vars
  PROVE  AsksFresh' /\ TwinsOverlapped'
<1> USE DEF IInv, TypeOK, AsksFresh, TwinsOverlapped
<1>1. ASSUME NEW c \in Callers, EnqueueInsert(c) PROVE AsksFresh' /\ TwinsOverlapped'
  <2>1. /\ nextId \in JobIds /\ nextId' = nextId + 1 /\ nextId \in Nat
        /\ key'[nextId] = asked[c].key /\ born'[nextId] = asked[c].seen
        /\ asked[c] # NoAsk /\ asked'[c] = NoAsk
        /\ \A d \in Callers \ {c} : asked'[d] = asked[d]
    BY <1>1 DEF EnqueueInsert, JobIds
  <2>2. \A j \in Active' : j # nextId =>
          /\ j \in Active /\ key'[j] = key[j] /\ born'[j] = born[j]
          /\ j < nextId /\ j \in Nat
    BY <1>1, <2>1 DEF EnqueueInsert, Active, RowsInOrder, JobIds
  <2>3. \A d \in Callers : asked[d] # NoAsk => asked[d].seen \in Nat
    BY DEF Asks
  <2>4. AsksFresh'
    <3> SUFFICES ASSUME NEW d \in Callers, asked'[d] # NoAsk
                 PROVE  /\ asked'[d].seen <= nextId'
                        /\ \A j \in Active' : key'[j] = asked'[d].key => asked'[d].seen <= j
      BY DEF AsksFresh
    <3>1. d # c /\ asked'[d] = asked[d]
      BY <2>1
    <3> QED
      BY <2>1, <2>2, <2>3, <3>1
  <2>5. TwinsOverlapped'
    <3> SUFFICES ASSUME NEW i \in Active', NEW j \in Active', i < j, key'[i] = key'[j]
                 PROVE  born'[j] <= i
      BY DEF TwinsOverlapped
    <3>1. CASE j = nextId
      BY <2>1, <2>2, <3>1
    <3>2. CASE j # nextId
      BY <2>1, <2>2, <3>2
    <3> QED
      BY <3>1, <3>2
  <2> QED
    BY <2>4, <2>5
<1>2. ASSUME NEW c \in Callers, NEW k \in Keys, NEW p \in Priorities, EnqueueLook(c, k, p)
      PROVE  AsksFresh' /\ TwinsOverlapped'
  <2>1. UNCHANGED <<nextId, state, key, born>> /\ Active' = Active
    BY <1>2 DEF EnqueueLook, rows, Active
  <2>2. /\ asked'[c] = [key |-> k, prio |-> p, seen |-> nextId]
        /\ \A d \in Callers \ {c} : asked'[d] = asked[d]
        /\ ~ \E j \in Active : key[j] = k
    BY <1>2 DEF EnqueueLook
  <2>3. nextId \in Nat
    BY BoundsAssumption
  <2> QED
    BY <2>1, <2>2, <2>3
<1>3. CASE /\ \A c \in Callers : ~EnqueueInsert(c)
           /\ \A c \in Callers, k \in Keys, p \in Priorities : ~EnqueueLook(c, k, p)
  <2>1. Active' \subseteq Active /\ UNCHANGED <<key, born, nextId>>
    BY <1>3, ActiveShrinks
  <2>2. UNCHANGED asked
    BY <1>3 DEF Next, CallerStep, WorkerStep, ClaimSelect, ClaimWon, ClaimLost, ClaimAbort,
                Complete, Crash, Tick, vars, requests
  <2> QED
    BY <2>1, <2>2
<1> QED
  BY <1>1, <1>2, <1>3

LEMMA InvStep == ASSUME IInv, [Next]_vars PROVE IInv'
<1>1. TypeOK'
  BY TypeStep DEF IInv
<1> QED
  BY <1>1, OrderStep, HandsStep, ResetsStep, DoubleRunStep, ClaimsStep, TwinsStep DEF IInv

LEMMA Invariance == Spec => []IInv
<1>1. Init => IInv
  BY InvInit
<1>2. IInv /\ [Next]_vars => IInv'
  BY InvStep
<1> QED
  BY <1>1, <1>2, PTL DEF Spec

-----------------------------------------------------------------------------
(* job_queue.py:4, as far as it holds: two workers execute one row only    *)
(* after one of them has overrun the staleness limit.                      *)
THEOREM DoubleRunsComeLate == Spec => []DoubleRunsAreLate
<1>1. IInv => DoubleRunsAreLate
  BY DEF IInv
<1> QED
  BY <1>1, Invariance, PTL

(* job_queue.py:25, as far as it holds: of two unfinished rows for one     *)
(* kind and host the earlier was inserted during the request for the       *)
(* later.                                                                  *)
THEOREM TwinsHaveOverlapped == Spec => []TwinsOverlapped
<1>1. IInv => TwinsOverlapped
  BY DEF IInv
<1> QED
  BY <1>1, Invariance, PTL

\* Only a worker that had the row in its hand writes a verdict.
LEMMA FinishedStep ==
  ASSUME IInv, [Next]_vars, NEW j \in JobIds, state[j] \in {"done", "error"}
  PROVE  state'[j] \in {"done", "error"} /\ (attempts[j] <= 1 => state'[j] = state[j])
<1> USE DEF IInv, TypeOK, rows, requests, loop
<1>1. ASSUME NEW c \in Callers, EnqueueInsert(c) PROVE state'[j] = state[j]
  BY <1>1 DEF EnqueueInsert, RowsInOrder, JobIds
<1>2. ASSUME NEW w \in Workers, ClaimWon(w) PROVE state'[j] = state[j]
  BY <1>2, FreshClaim DEF ClaimWon, ResetsStale, Stale
<1>3. ASSUME NEW w \in Workers, ClaimLost(w) PROVE state'[j] = state[j]
  BY <1>3 DEF ClaimLost, ResetsStale, Stale
<1>4. ASSUME NEW w \in Workers, NEW o \in {"done", "error"}, Complete(w, o)
      PROVE  state'[j] \in {"done", "error"} /\ (attempts[j] <= 1 => state'[j] = state[j])
  <2>1. CASE hand[w] = j
    <3>1. Runs(w, j)
      BY <1>4, <2>1 DEF Complete, Runs
    <3>2. attempts[j] \in Nat /\ attempts[j] # 0 /\ attempts[j] # 1
      BY <3>1 DEF ClaimsCount
    <3> QED
      BY <1>4, <2>1, <3>2 DEF Complete
  <2>2. CASE hand[w] # j
    BY <1>4, <2>2 DEF Complete
  <2> QED
    BY <2>1, <2>2
<1>5. CASE UNCHANGED state
  BY <1>5
<1> QED
  BY <1>1, <1>2, <1>3, <1>4, <1>5
     DEF Next, CallerStep, WorkerStep, EnqueueLook, ClaimSelect, ClaimAbort,
         Crash, Tick, vars

(* A finished row is never unfinished again, and the verdict of a row that *)
(* was claimed once stands: complete() overwrites one only for a row that  *)
(* was handed out anew.                                                    *)
THEOREM FinishedStaysFinished == Spec => VerdictsStand
<1>1. IInv /\ [Next]_vars =>
        [\A j \in JobIds :
           state[j] \in {"done", "error"} =>
               /\ state'[j] \in {"done", "error"}
               /\ attempts[j] <= 1 => state'[j] = state[j]]_vars
  BY FinishedStep
<1> QED
  BY <1>1, Invariance, PTL DEF Spec, VerdictsStand

-----------------------------------------------------------------------------
(* The mapping of rows and loops to the abstract ledger.                   *)
LEMMA LedgerInit == Init => Ledger!Init
  BY DEF Init, Ledger!Init, LedgerStatus, LedgerHolder, Ledger!Nothing, Overdue

LEMMA LedgerStep ==
  ASSUME IInv, [Next]_vars
  PROVE  [Ledger!Next]_<<LedgerStatus, LedgerHolder, Overdue>>
<1> USE TimesAssumption
        DEF IInv, TypeOK, States, LedgerStatus, LedgerHolder, Overdue, Ledger!Nothing, rows, requests, loop
<1>1. ASSUME NEW c \in Callers, EnqueueInsert(c)
      PROVE  Ledger!Submit(nextId)
  <2>1. nextId \in JobIds /\ state[nextId] = "absent"
    BY <1>1 DEF EnqueueInsert, RowsInOrder, JobIds
  <2> QED
    BY <1>1, <2>1 DEF EnqueueInsert, Ledger!Submit
<1>2. ASSUME NEW w \in Workers, ClaimWon(w)
      PROVE  Ledger!Take(w, hand[w])
  <2>1. /\ hand[w] \in JobIds
        /\ state[hand[w]] \in {"queued", "running"}
        /\ \A v \in Workers : Runs(v, hand[w]) => ran[v] > StaleAfter
    BY <1>2, FreshClaim
  <2>2. UNCHANGED LedgerStatus
    BY <1>2, <2>1 DEF ClaimWon, ResetsStale, Stale
  <2>3. \A v \in Workers : LedgerHolder[v] = hand[w] => v \in Overdue
    BY <2>1 DEF Runs, JobIds
  <2>4. LedgerHolder' = [LedgerHolder EXCEPT ![w] = hand[w]]
    BY <1>2 DEF ClaimWon
  <2>5. LedgerHolder[w] = 0 /\ LedgerStatus[hand[w]] = "waiting"
    BY <1>2, <2>1 DEF ClaimWon
  <2>6. UNCHANGED Overdue
    BY <1>2 DEF ClaimWon, HandsHeld
  <2> QED
    BY <2>2, <2>3, <2>4, <2>5, <2>6 DEF Ledger!Take
<1>3. ASSUME NEW w \in Workers, ClaimLost(w)
      PROVE  UNCHANGED <<LedgerStatus, LedgerHolder, Overdue>>
  <2>1. UNCHANGED <<LedgerStatus, LedgerHolder>>
    BY <1>3 DEF ClaimLost, ResetsStale, Stale
  <2>2. UNCHANGED Overdue
    BY <1>3 DEF ClaimLost
  <2> QED
    BY <2>1, <2>2
<1>4. ASSUME NEW w \in Workers, NEW o \in {"done", "error"}, Complete(w, o)
      PROVE  Ledger!End(w)
  <2>1. hand[w] \in JobIds /\ state[hand[w]] # "absent" /\ hand[w] # 0
    BY <1>4 DEF Complete, HandsHeld, JobIds
  <2>2. LedgerStatus' = [LedgerStatus EXCEPT ![hand[w]] = "ended"]
    BY <1>4, <2>1 DEF Complete
  <2>3. LedgerHolder' = [LedgerHolder EXCEPT ![w] = 0]
    BY <1>4 DEF Complete
  <2>4. LedgerHolder[w] = hand[w] /\ LedgerStatus[hand[w]] # "new"
    BY <1>4, <2>1 DEF Complete
  <2>5. Overdue' = Overdue \ {w}
    BY <1>4 DEF Complete
  <2> QED
    BY <2>1, <2>2, <2>3, <2>4, <2>5 DEF Ledger!End, Ledger!LetsGo
<1>5. ASSUME NEW w \in Workers, Crash(w)
      PROVE  Ledger!Die(w) \/ UNCHANGED <<LedgerStatus, LedgerHolder, Overdue>>
  <2>1. UNCHANGED LedgerStatus
    BY <1>5 DEF Crash
  <2>2. CASE phase[w] = "running"
    <3>1. LedgerHolder[w] # 0
      BY <2>2 DEF HandsHeld, JobIds
    <3>2. LedgerHolder' = [LedgerHolder EXCEPT ![w] = 0]
      BY <1>5 DEF Crash
    <3>3. Overdue' = Overdue \ {w}
      BY <1>5 DEF Crash
    <3> QED
      BY <2>1, <3>1, <3>2, <3>3 DEF Ledger!Die, Ledger!LetsGo
  <2>3. CASE phase[w] # "running"
    BY <1>5, <2>1, <2>3 DEF Crash
  <2> QED
    BY <2>2, <2>3
<1>6. ASSUME NEW w \in Workers, ClaimSelect(w) \/ ClaimAbort(w)
      PROVE  UNCHANGED <<LedgerStatus, LedgerHolder, Overdue>>
  BY <1>6 DEF ClaimSelect, ClaimAbort
<1>7. CASE Tick
  <2>1. UNCHANGED <<LedgerStatus, LedgerHolder>>
    BY <1>7 DEF Tick
  <2>2. Overdue \subseteq Overdue' /\ Overdue' \subseteq Workers
    BY <1>7 DEF Tick
  <2>3. \A w \in Overdue' : LedgerHolder[w] # 0
    BY <1>7 DEF Tick, HandsHeld, JobIds
  <2>4. Ledger!Overrun(Overdue')
    BY <2>1, <2>2, <2>3 DEF Ledger!Overrun
  <2>5. Overdue' \in SUBSET Workers
    BY <2>2
  <2> HIDE DEF Overdue
  <2> QED
    BY <2>4, <2>5 DEF Ledger!Next
<1>8. ASSUME UNCHANGED <<state, phase, hand, ran>>
      PROVE  UNCHANGED <<LedgerStatus, LedgerHolder, Overdue>>
  BY <1>8
<1>9. ASSUME NEW c \in Callers, EnqueueInsert(c) PROVE nextId \in JobIds
  BY <1>9 DEF EnqueueInsert
<1>10. ASSUME NEW w \in Workers, ClaimWon(w) PROVE hand[w] \in JobIds
  BY <1>10, FreshClaim
<1> HIDE DEF IInv, TypeOK, LedgerStatus, LedgerHolder, Overdue
<1> QED
  BY <1>1, <1>2, <1>3, <1>4, <1>5, <1>6, <1>7, <1>8, <1>9, <1>10
     DEF Next, CallerStep, WorkerStep, EnqueueLook, vars, Ledger!Next

(* The rows, their ages and the two-step transactions implement the        *)
(* ledger, however long jobs take: a job is handed on only when its holder *)
(* died or overran, and once ended it never waits again.                   *)
THEOREM QueueImplementsLedger == Spec => ImplementsLedger
<1>1. IInv /\ [Next]_vars => [Ledger!Next]_<<LedgerStatus, LedgerHolder, Overdue>>
  BY LedgerStep
<1> QED
  BY <1>1, LedgerInit, Invariance, PTL DEF Spec, ImplementsLedger, Ledger!Spec

-----------------------------------------------------------------------------
(* The enrichment queue keeps its rows.                                    *)

\* InOrder(ids) is a sequence of members of ids.
LEMMA InOrderType ==
    ASSUME NEW ids, ids \subseteq Nat, IsFiniteSet(ids)
    PROVE  InOrder(ids) \in Seq(ids)
<1> DEFINE n == Cardinality(ids)
<1>1. n \in Nat
  BY FS_CardinalityType
<1>2. PICK f \in [1 .. n -> ids] : Increasing(f)
  BY Orderable
<1>3. \A i, j \in 1 .. n : i # j => f[i] # f[j]
  <2>1. ASSUME NEW i \in 1 .. n PROVE i \in Nat /\ f[i] \in Nat
    <3>1. f[i] \in ids
      BY <1>2
    <3>2. f[i] \in Nat
      BY <3>1
    <3> QED
      BY <1>1, <3>2
  <2> QED
    BY <1>1, <1>2, <2>1 DEF Increasing
<1>4. f \in SetToSeqs(ids)
  BY <1>2, <1>3 DEF SetToSeqs
<1>5. InOrder(ids) \in SetToSeqs(ids)
  BY <1>2, <1>4 DEF InOrder, Increasing
<1> QED
  BY <1>1, <1>5 DEF SetToSeqs


\* The elements of a sequence at some positions of it are among its elements.
LEMMA AtPositionsType ==
    ASSUME NEW S, NEW s \in Seq(S), NEW at, at \subseteq DOMAIN s
    PROVE  /\ AtPositions(s, at) \in Seq(S)
           /\ \A k \in DOMAIN AtPositions(s, at) : \E p \in at : AtPositions(s, at)[k] = s[p]
<1> DEFINE order == InOrder(at)
<1>1. at \subseteq Nat /\ IsFiniteSet(at)
  <2>1. DOMAIN s = 1 .. Len(s) /\ Len(s) \in Nat
    OBVIOUS
  <2>2. IsFiniteSet(DOMAIN s)
    BY <2>1, FS_Interval
  <2> QED
    BY <2>1, <2>2, FS_Subset
<1>2. order \in Seq(at)
  BY <1>1, InOrderType
<1> HIDE DEF order
<1>3. AtPositions(s, at) = [k \in DOMAIN order |-> s[order[k]]]
  BY DEF AtPositions, order
<1>4. \A k \in DOMAIN order : order[k] \in at /\ s[order[k]] \in S
  BY <1>2
<1>5. DOMAIN order = 1 .. Len(order) /\ Len(order) \in Nat
  BY <1>2
<1>6. AtPositions(s, at) \in [1 .. Len(order) -> S]
  BY <1>3, <1>4, <1>5
<1> QED
  BY <1>3, <1>4, <1>5, <1>6

LEMMA FirstOfType ==
    ASSUME NEW S, NEW s \in Seq(S), NEW n \in Nat
    PROVE  /\ FirstOf(s, n) \in Seq(S)
           /\ \A k \in DOMAIN FirstOf(s, n) : k \in DOMAIN s /\ FirstOf(s, n)[k] = s[k]
  BY DEF FirstOf

-----------------------------------------------------------------------------
\* The rows there are have the ids given out so far; a judge holds one of them;
\* a row that was judged stays judged, and one that was not is not in the join
\* queue.
RowsTyped ==
    /\ text = [i \in Ids |-> text[i]]
    /\ decided = [i \in Ids |-> decided[i]]
    /\ flag \in [Ids -> BOOLEAN]
    /\ \E n \in 0 .. Rows : found = 1 .. n
    /\ turn \in Seq(found) /\ pending \in [Judges -> Seq(found)]
    /\ read = [j \in Judges |-> read[j]]
    /\ \A j \in Judges : read[j] # NoRow =>
         /\ read[j].id \in found /\ read[j].flag \in BOOLEAN
         /\ read[j].decided # "never" => decided[read[j].id] # "never"
    /\ \A i \in Ids : decided[i] = "never" => ~flag[i]

\* Between its passes the schedule has nothing in hand.
HandsEmpty == stage # "judge" => pending["schedule"] = <<>> /\ read["schedule"] = NoRow

\* Row i, as some words and a flag tell of it: in the join queue only on words the
\* rules accept, or because a person put it there during the pass.
Earned(i, words, flagged) == flagged => RulesSay(i, words) = "yes" \/ i \in touched

\* That is so of what a pass has still to judge, and of the row it has read, whose
\* words have not changed since there were any.
NothingToLose ==
    LET r == read["schedule"] IN
    /\ stage = "judge" => \A k \in DOMAIN pending["schedule"] :
         LET i == pending["schedule"][k] IN Earned(i, text[i], flag[i])
    /\ r # NoRow => Earned(r.id, r.text, r.flag) /\ r.text \in {"blank", text[r.id]}

EnrichInv == RowsTyped /\ HandsEmpty /\ NothingToLose

LEMMA EnrichStart == EnrichInit => EnrichInv
<1> SUFFICES ASSUME EnrichInit PROVE EnrichInv
  OBVIOUS
<1>1. {} = 1 .. 0 /\ 0 \in 0 .. Rows
  BY EnrichmentAssumption
<1>2. RowsTyped
  BY <1>1 DEF EnrichInit, RowsTyped, Judges
<1>3. HandsEmpty /\ NothingToLose
  BY DEF EnrichInit, HandsEmpty, NothingToLose, Judges
<1> QED
  BY <1>2, <1>3 DEF EnrichInv

LEMMA FoundAreIds == RowsTyped => found \subseteq Ids /\ found \subseteq Nat /\ IsFiniteSet(found)
<1> SUFFICES ASSUME RowsTyped PROVE found \subseteq Ids /\ found \subseteq Nat /\ IsFiniteSet(found)
  OBVIOUS
<1>1. PICK n \in 0 .. Rows : found = 1 .. n
  BY DEF RowsTyped
<1>2. n \in Int /\ Rows \in Nat
  BY EnrichmentAssumption
<1> QED
  BY <1>1, <1>2, FS_Interval DEF Ids

\* A row on the list of a pass.
LEMMA OnTheList ==
    ASSUME EnrichInv, NEW k \in DOMAIN pending["schedule"]
    PROVE  LET i == pending["schedule"][k] IN
           i \in found /\ i \in Ids /\ (stage = "judge" => Earned(i, text[i], flag[i]))
<1> DEFINE i == pending["schedule"][k]
<1>1. pending["schedule"] \in Seq(found)
  BY DEF EnrichInv, RowsTyped, Judges
<1>2. i \in found /\ i \in Ids
  BY <1>1, FoundAreIds DEF EnrichInv
<1>3. stage = "judge" => Earned(i, text[i], flag[i])
  BY Zenon DEF EnrichInv, NothingToLose
<1> QED
  BY <1>2, <1>3

\* What a commit writes: the schedule flags a row exactly on words the rules accept,
\* and what a person flags is noted.
LEMMA VerdictWritten ==
    ASSUME EnrichInv, NEW j \in Judges, JudgeRow(j)
    PROVE  LET r == read[j] IN
           \E how \in {"rules", "llm"}, verdict \in BOOLEAN :
             /\ decided' = [decided EXCEPT ![r.id] = IF how = r.decided THEN @ ELSE how]
             /\ flag' = [flag EXCEPT ![r.id] = IF verdict = r.flag THEN @ ELSE verdict]
             /\ turn' = Append(Without(turn, r.id), r.id)
             /\ touched' = IF j = "person" /\ flag'[r.id] THEN touched \cup {r.id} ELSE touched
             /\ read' = [read EXCEPT ![j] = NoRow]
             /\ UNCHANGED <<found, text, score, stage, pending>>
             /\ j = "schedule" => verdict = (RulesSay(r.id, r.text) = "yes")
<1> DEFINE says == RulesSay(read[j].id, read[j].text)
<1>1. CASE says # "between" /\ Judged(j, "rules", says = "yes")
  BY <1>1, Zenon DEF Judged, outside
<1>2. CASE says = "between" /\ \E how \in {"rules", "llm"} : Judged(j, how, FALSE)
  BY <1>2, Zenon DEF Judged, outside
<1>3. CASE \E llm \in BOOLEAN : says = "between" /\ Judged(j, "llm", llm /\ Trusts(j))
  <2>1. PICK llm \in BOOLEAN : says = "between" /\ Judged(j, "llm", llm /\ Trusts(j))
    BY <1>3
  <2>2. j = "schedule" => (llm /\ Trusts(j)) = FALSE
    BY DEF Trusts
  <2>3. (llm /\ Trusts(j)) \in BOOLEAN
    BY <2>1
  <2>4. "yes" # "between"
    OBVIOUS
  <2> QED
    BY <2>1, <2>2, <2>3, <2>4, Zenon DEF Judged, outside
<1> QED
  BY <1>1, <1>2, <1>3, Zenon DEF JudgeRow

\* A row the schedule turns down was not in the queue before, unless a person had
\* put it there since the pass listed it: the rules alone put rows there, and on
\* the same words they do not change their mind.
LEMMA JudgeKeeps ==
    ASSUME EnrichInv, NEW j \in Judges, JudgeRow(j)
    PROVE  /\ EnrichInv'
           /\ \A i \in Ids : flag[i] /\ ~flag'[i] => j = "person" \/ i \in touched
<1> DEFINE r == read[j]
           h == r.id
<1>1. r # NoRow /\ h \in found /\ h \in Ids /\ found \subseteq Ids /\ r.flag \in BOOLEAN
      /\ (r.decided # "never" => decided[h] # "never")
  BY FoundAreIds DEF EnrichInv, RowsTyped, JudgeRow
<1>2. PICK how \in {"rules", "llm"}, verdict \in BOOLEAN :
        /\ decided' = [decided EXCEPT ![h] = IF how = r.decided THEN @ ELSE how]
        /\ flag' = [flag EXCEPT ![h] = IF verdict = r.flag THEN @ ELSE verdict]
        /\ turn' = Append(Without(turn, h), h)
        /\ touched' = IF j = "person" /\ flag'[h] THEN touched \cup {h} ELSE touched
        /\ read' = [read EXCEPT ![j] = NoRow]
        /\ UNCHANGED <<found, text, score, stage, pending>>
        /\ j = "schedule" => verdict = (RulesSay(h, r.text) = "yes")
  BY VerdictWritten
<1>3. j = "schedule" =>
        /\ Earned(h, r.text, r.flag) /\ r.text \in {"blank", text[h]}
  BY <1>1 DEF EnrichInv, NothingToLose
<1> HIDE DEF r, h
<1>4. turn' \in Seq(found)
  <2>1. turn \in Seq(found) /\ {k \in DOMAIN turn : turn[k] # h} \subseteq DOMAIN turn
    BY DEF EnrichInv, RowsTyped
  <2>2. Without(turn, h) \in Seq(found)
    BY <2>1, AtPositionsType DEF Without
  <2> QED
    BY <1>1, <1>2, <2>2
<1>5. /\ \A i \in Ids : flag'[i] = IF i = h /\ verdict # r.flag THEN verdict ELSE flag[i]
      /\ \A i \in Ids : i # h => decided'[i] = decided[i]
      /\ decided'[h] # "never" /\ flag[h] \in BOOLEAN
      /\ flag' \in [Ids -> BOOLEAN]
      /\ decided' = [i \in Ids |-> decided'[i]]
  BY <1>1, <1>2 DEF EnrichInv, RowsTyped
<1>6. /\ read' = [k \in Judges |-> read'[k]]
      /\ \A k \in Judges : read'[k] = IF k = j THEN NoRow ELSE read[k]
  BY <1>2 DEF EnrichInv, RowsTyped
<1>7. RowsTyped'
  <2>1. \A k \in Judges : read'[k] # NoRow =>
          /\ read'[k].id \in found /\ read'[k].flag \in BOOLEAN
          /\ read'[k].decided # "never" => decided'[read'[k].id] # "never"
    BY <1>1, <1>5, <1>6 DEF EnrichInv, RowsTyped
  <2> QED
    BY <1>2, <1>4, <1>5, <1>6, <2>1 DEF EnrichInv, RowsTyped
<1>8. HandsEmpty'
  BY <1>2, <1>6 DEF EnrichInv, HandsEmpty, Judges
<1>9. /\ touched \subseteq touched' /\ UNCHANGED score
      /\ \A i, words : RulesSay(i, words)' = RulesSay(i, words)
  BY <1>2 DEF RulesSay
<1>10. NothingToLose'
  <2> DEFINE EarnedNow(i, words, flagged) == flagged => RulesSay(i, words) = "yes" \/ i \in touched'
  <2>1. ASSUME stage = "judge", NEW k \in DOMAIN pending["schedule"]
        PROVE  LET i == pending["schedule"][k] IN EarnedNow(i, text[i], flag'[i])
    <3> DEFINE i == pending["schedule"][k]
    <3>1. i \in Ids /\ Earned(i, text[i], flag[i])
      BY <2>1, OnTheList
    <3> HIDE DEF i
    <3>2. ASSUME i # h \/ verdict = r.flag
         PROVE  EarnedNow(i, text[i], flag'[i])
      BY <1>5, <1>9, <3>1, <3>2 DEF Earned
    <3>3. ASSUME i = h /\ verdict # r.flag /\ j = "person"
         PROVE  EarnedNow(i, text[i], flag'[i])
      BY <1>2, <3>3
    <3>4. ASSUME i = h /\ verdict # r.flag /\ j = "schedule"
         PROVE  EarnedNow(i, text[i], flag'[i])
      <4>1. flag'[i] => RulesSay(h, r.text) = "yes"
        BY <1>2, <1>5, <3>1, <3>4
      <4>2. RulesSay(h, r.text) = "yes" => r.text = text[h]
        BY <1>3, <3>4 DEF RulesSay
      <4> QED
        BY <3>4, <4>1, <4>2
    <3>5. EarnedNow(i, text[i], flag'[i])
      BY <3>2, <3>3, <3>4 DEF Judges
    <3> QED
      BY <3>5 DEF i
  <2>2. read["schedule"] # NoRow => LET q == read["schedule"] IN
          EarnedNow(q.id, q.text, q.flag) /\ q.text \in {"blank", text[q.id]}
    <3>1. read["schedule"] # NoRow => LET q == read["schedule"] IN
            Earned(q.id, q.text, q.flag) /\ q.text \in {"blank", text[q.id]}
      BY Zenon DEF EnrichInv, NothingToLose
    <3> QED
      BY <1>9, <3>1 DEF Earned
  <2>3. read'["schedule"] # NoRow => read'["schedule"] = read["schedule"]
    BY <1>6 DEF Judges
  <2>4. /\ UNCHANGED <<stage, pending, text>>
        /\ \A i, words : RulesSay(i, words)' = RulesSay(i, words)
    BY <1>2, <1>9
  <2> QED
    BY <2>1, <2>2, <2>3, <2>4 DEF NothingToLose, Earned
<1>11. \A i \in Ids : flag[i] /\ ~flag'[i] => j = "person" \/ i \in touched
  <2> SUFFICES ASSUME NEW i \in Ids, flag[i], ~flag'[i], j = "schedule" PROVE i \in touched
    BY DEF Judges
  <2>1. i = h /\ verdict # r.flag /\ ~verdict
    BY <1>5
  <2>2. r.flag /\ RulesSay(h, r.text) # "yes"
    BY <1>1, <1>2, <2>1
  <2> QED
    BY <1>3, <2>1, <2>2 DEF Earned
<1> QED
  BY <1>7, <1>8, <1>10, <1>11 DEF EnrichInv

\* A judge takes the next row of its list as it stands.
LEMMA ReadKeeps == ASSUME EnrichInv, NEW j \in Judges, ReadRow(j) PROVE EnrichInv'
<1> DEFINE h == Head(pending[j])
           r == [id |-> h, text |-> text[h], decided |-> decided[h], flag |-> flag[h]]
<1>1. /\ pending[j] \in Seq(found) /\ pending[j] # <<>>
      /\ UNCHANGED <<found, text, decided, flag, turn, score, stage, touched>>
      /\ pending' = [pending EXCEPT ![j] = Tail(@)] /\ read' = [read EXCEPT ![j] = r]
  BY DEF EnrichInv, RowsTyped, ReadRow, outside, community
<1>2. /\ h \in found /\ Tail(pending[j]) \in Seq(found) /\ 1 \in DOMAIN pending[j]
      /\ h = pending[j][1]
      /\ \A k \in DOMAIN Tail(pending[j]) :
           k + 1 \in DOMAIN pending[j] /\ Tail(pending[j])[k] = pending[j][k + 1]
  BY <1>1
<1>3. h \in Ids /\ flag[h] \in BOOLEAN
  BY <1>2, FoundAreIds DEF EnrichInv, RowsTyped
<1> HIDE DEF h
<1>4. r.id = h /\ r.text = text[h] /\ r.decided = decided[h] /\ r.flag = flag[h]
  OBVIOUS
<1> HIDE DEF r
<1>5. /\ \A k \in Judges : read'[k] = IF k = j THEN r ELSE read[k]
      /\ \A k \in Judges : pending'[k] = IF k = j THEN Tail(pending[j]) ELSE pending[k]
      /\ read' = [k \in Judges |-> read'[k]] /\ pending' \in [Judges -> Seq(found)]
  BY <1>1, <1>2 DEF EnrichInv, RowsTyped
<1>6. RowsTyped'
  BY <1>1, <1>2, <1>3, <1>4, <1>5 DEF EnrichInv, RowsTyped
<1>7. j = "schedule" => stage = "judge"
  <2>1. j = "schedule" /\ stage # "judge" => pending[j] = <<>>
    BY DEF EnrichInv, HandsEmpty
  <2> QED
    BY <1>1, <2>1
<1>8. HandsEmpty'
  BY <1>1, <1>5, <1>7 DEF EnrichInv, HandsEmpty, Judges
<1>9. NothingToLose'
  <2>1. ASSUME stage = "judge", NEW k \in DOMAIN pending'["schedule"]
        PROVE  LET i == pending'["schedule"][k] IN Earned(i, text[i], flag[i])
    <3>1. \E m \in DOMAIN pending["schedule"] : pending'["schedule"][k] = pending["schedule"][m]
      BY <1>2, <1>5 DEF Judges
    <3> QED
      BY <2>1, <3>1, OnTheList
  <2>2. LET q == read'["schedule"] IN
          q # NoRow => Earned(q.id, q.text, q.flag) /\ q.text \in {"blank", text[q.id]}
    <3>1. CASE j = "schedule"
      <4>1. Earned(h, text[h], flag[h])
        BY <1>2, <1>7, <3>1, OnTheList
      <4> QED
        BY <1>4, <1>5, <3>1, <4>1 DEF Judges
    <3>2. CASE j # "schedule"
      BY <1>5, <3>2 DEF EnrichInv, NothingToLose, Judges
    <3> QED
      BY <3>1, <3>2
  <2> QED
    BY <1>1, <2>1, <2>2 DEF NothingToLose, Earned, RulesSay
<1> QED
  BY <1>6, <1>8, <1>9 DEF EnrichInv

\* New words for a row that was there leave the schedule's reasons as they are: the
\* rules had nothing to accept before.
LEMMA WordsKeep ==
    ASSUME EnrichInv,
           UNCHANGED <<found, score, decided, flag, turn, stage, pending, read, touched>>,
           text' = [i \in Ids |-> text'[i]],
           \A i \in found : text'[i] = text[i] \/ text[i] = "blank"
    PROVE  EnrichInv'
<1>1. RowsTyped' /\ HandsEmpty'
  BY DEF EnrichInv, RowsTyped, HandsEmpty
<1>2. \A i, words : RulesSay(i, words)' = RulesSay(i, words) /\ RulesSay(i, "blank") = "no"
  BY DEF RulesSay
<1>3. ASSUME stage = "judge", NEW k \in DOMAIN pending["schedule"]
      PROVE  LET i == pending["schedule"][k] IN Earned(i, text'[i], flag[i])
  <2> DEFINE i == pending["schedule"][k]
  <2>1. i \in found /\ Earned(i, text[i], flag[i])
    BY <1>3, OnTheList
  <2> QED
    BY <1>2, <2>1 DEF Earned
<1>4. LET q == read["schedule"] IN
        q # NoRow => Earned(q.id, q.text, q.flag) /\ q.text \in {"blank", text'[q.id]}
  BY DEF EnrichInv, RowsTyped, NothingToLose, Judges
<1>5. NothingToLose'
  BY <1>3, <1>4 DEF NothingToLose, Earned, RulesSay
<1> QED
  BY <1>1, <1>5 DEF EnrichInv

\* A new row gets the next id; in the other case nobody's list has to know.
LEMMA FindKeeps == EnrichInv /\ PersistFind => EnrichInv'
<1> SUFFICES ASSUME EnrichInv, PersistFind PROVE EnrichInv'
  OBVIOUS
<1>1. PICK n \in 0 .. Rows : found = 1 .. n
  BY DEF EnrichInv, RowsTyped
<1>2. Rows \in Nat /\ n # Rows
  BY <1>1, EnrichmentAssumption DEF PersistFind, Ids
<1>3. NextId = n + 1
  <2>1. Ids \ found = (n + 1) .. Rows
    BY <1>1, <1>2 DEF Ids
  <2>2. n + 1 \in Int /\ Rows \in Int /\ ~(n + 1 > Rows)
    BY <1>1, <1>2
  <2>3. Cardinality((n + 1) .. Rows) = Rows - (n + 1) + 1
    BY <2>2, FS_Interval
  <2>4. Cardinality(Ids \ found) = Rows - (n + 1) + 1
    BY <2>1, <2>3, Zenon
  <2>5. n \in Int /\ Rows \in Int
    BY <1>1, <1>2
  <2>6. NextId = Rows + 1 - (Rows - (n + 1) + 1)
    BY <2>4, Zenon DEF NextId
  <2> QED
    BY <2>5, <2>6
<1>4. /\ n + 1 \in Ids /\ n + 1 \notin found /\ n + 1 \in 0 .. Rows
      /\ found' = 1 .. (n + 1) /\ found \subseteq found' /\ found \subseteq Ids
  BY <1>1, <1>2, <1>3 DEF PersistFind, Ids
<1>5. PICK t : text' = [text EXCEPT ![n + 1] = t]
  BY <1>3 DEF PersistFind
<1>6. UNCHANGED <<score, decided, flag, turn, stage, pending, read, touched>>
  BY DEF PersistFind, outside, judges
<1>7. /\ text' = [i \in Ids |-> text'[i]]
      /\ \A i \in found : text'[i] = text[i]
  BY <1>4, <1>5 DEF EnrichInv, RowsTyped
<1>8. turn' \in Seq(found') /\ pending' \in [Judges -> Seq(found')]
  <2>1. turn \in Seq(found) /\ pending \in [Judges -> Seq(found)]
    BY DEF EnrichInv, RowsTyped
  <2>2. ASSUME NEW s \in Seq(found) PROVE s \in Seq(found')
    <3>1. Len(s) \in Nat /\ s \in [1 .. Len(s) -> found]
      OBVIOUS
    <3>2. s \in [1 .. Len(s) -> found']
      BY <1>4, <3>1
    <3> QED
      BY <3>1, <3>2
  <2> QED
    BY <1>6, <2>1, <2>2
<1>9. RowsTyped'
  <2>1. \E m \in 0 .. Rows : found' = 1 .. m
    BY <1>4
  <2> QED
    BY <1>4, <1>6, <1>7, <1>8, <2>1 DEF EnrichInv, RowsTyped
<1>10. HandsEmpty'
  BY <1>6 DEF EnrichInv, HandsEmpty
<1>11. NothingToLose'
  <2>1. ASSUME stage = "judge", NEW k \in DOMAIN pending["schedule"]
        PROVE  LET i == pending["schedule"][k] IN Earned(i, text'[i], flag[i])
    <3>1. LET i == pending["schedule"][k] IN i \in found /\ Earned(i, text[i], flag[i])
      BY <2>1, OnTheList
    <3> QED
      BY <1>7, <3>1
  <2>2. LET q == read["schedule"] IN
          q # NoRow => Earned(q.id, q.text, q.flag) /\ q.text \in {"blank", text'[q.id]}
    BY <1>7 DEF EnrichInv, RowsTyped, NothingToLose, Judges
  <2> QED
    BY <1>6, <2>1, <2>2 DEF NothingToLose, Earned, RulesSay
<1> QED
  BY <1>9, <1>10, <1>11 DEF EnrichInv

\* A list somebody draws up anew, of rows there are.
LEMMA PendingType ==
    ASSUME EnrichInv, NEW j \in Judges, NEW listed \in Seq(found),
           pending' = [pending EXCEPT ![j] = listed],
           UNCHANGED <<found, text, decided, flag, turn, read>>
    PROVE  RowsTyped'
<1>1. pending' \in [Judges -> Seq(found)]
  BY DEF EnrichInv, RowsTyped
<1> QED
  BY <1>1 DEF EnrichInv, RowsTyped

\* Of the rows there are, those picked out, in the order of their ids.
LEMMA PickedInOrder ==
    ASSUME RowsTyped, NEW some \in SUBSET found
    PROVE  InOrder(some) \in Seq(some)
<1>1. some \subseteq Nat /\ IsFiniteSet(some)
  BY FoundAreIds, FS_Subset
<1> QED
  BY <1>1, InOrderType

\* An unattended pass lists rows never judged and rows not in the queue.
LEMMA ListKeeps == EnrichInv /\ ListPending => EnrichInv'
<1> SUFFICES ASSUME EnrichInv, ListPending PROVE EnrichInv'
  OBVIOUS
<1>1. found \subseteq Ids /\ RowsTyped
  BY FoundAreIds DEF EnrichInv
<1> DEFINE Fresh == {i \in found : decided[i] = "never"}
           at == {k \in DOMAIN turn : /\ decided[turn[k]] = "rules" /\ ~flag[turn[k]]
                                      /\ text[turn[k]] # "blank"}
           listed == NeverJudged \o (IF Llm THEN LlmEligible ELSE <<>>)
<1>2. NeverJudged \in Seq(Fresh)
  BY <1>1, PickedInOrder DEF NeverJudged
<1>3. /\ LlmEligible \in Seq(found)
      /\ \A k \in DOMAIN LlmEligible : \E p \in at : LlmEligible[k] = turn[p]
  <2>1. at \subseteq DOMAIN turn /\ turn \in Seq(found) /\ LlmEligible = AtPositions(turn, at)
    BY DEF EnrichInv, RowsTyped, LlmEligible
  <2> HIDE DEF at
  <2> QED
    BY <2>1, AtPositionsType
<1> DEFINE Unqueued == {i \in found : ~flag[i]}
<1>4. NeverJudged \in Seq(Unqueued)
  <2>1. Fresh \subseteq Unqueued
    BY <1>1 DEF RowsTyped
  <2> QED
    BY <1>2, <2>1
<1>5. LlmEligible \in Seq(Unqueued)
  <2>1. ASSUME NEW k \in DOMAIN LlmEligible PROVE LlmEligible[k] \in Unqueued
    <3>1. LlmEligible[k] \in found
      BY <1>3
    <3>2. PICK p \in at : LlmEligible[k] = turn[p]
      BY <1>3
    <3> QED
      BY <3>1, <3>2
  <2>2. LlmEligible \in [1 .. Len(LlmEligible) -> Unqueued] /\ Len(LlmEligible) \in Nat
    BY <1>3, <2>1
  <2> QED
    BY <2>2
<1> HIDE DEF Unqueued
<1>6. listed \in Seq(Unqueued)
  BY <1>4, <1>5
<1> DEFINE mine == FirstOf(listed, JudgeBatch)
<1>7. mine \in Seq(Unqueued)
  <2>1. JudgeBatch \in Nat
    BY EnrichmentAssumption
  <2> HIDE DEF listed
  <2> QED
    BY <1>6, <2>1, FirstOfType
<1>8. /\ pending' = [pending EXCEPT !["schedule"] = mine] /\ stage' = "judge"
      /\ UNCHANGED <<found, text, decided, flag, turn, score, read>>
      /\ read["schedule"] = NoRow
  BY DEF ListPending, outside, community, EnrichInv, HandsEmpty
<1> HIDE DEF mine
<1>9. mine \in Seq(found)
  BY <1>7 DEF Unqueued
<1>10. RowsTyped'
  BY <1>8, <1>9, PendingType DEF Judges
<1>11. pending'["schedule"] = mine
  BY <1>1, <1>8 DEF RowsTyped, Judges
<1>12. NothingToLose' /\ HandsEmpty'
  <2>1. \A k \in DOMAIN mine : ~flag[mine[k]]
    BY <1>7 DEF Unqueued
  <2> QED
    BY <1>8, <1>11, <2>1 DEF NothingToLose, HandsEmpty, Earned
<1> QED
  BY <1>10, <1>12 DEF EnrichInv

\* What neither judges, reads, lists nor finds leaves every row's verdict alone, and
\* an unattended pass begins with empty hands.
LEMMA OthersKeep ==
    ASSUME EnrichInv,
           \/ PageChanges \/ BeginPass \/ StartOver \/ EnrichPending \/ EndPass
           \/ FilterRelevant \/ PassKilled \/ PersonStops \/ UNCHANGED enrichVars
    PROVE  EnrichInv' /\ UNCHANGED flag
<1> USE DEF outside, community, judges, enrichVars
<1>1. CASE PageChanges \/ UNCHANGED enrichVars
  <2>1. UNCHANGED <<found, text, decided, flag, turn, score, stage, pending, read, touched>>
    BY <1>1 DEF PageChanges
  <2> QED
    BY <2>1 DEF EnrichInv, RowsTyped, HandsEmpty, NothingToLose, Earned, RulesSay
<1>2. CASE BeginPass \/ StartOver \/ EndPass
  <2>1. /\ UNCHANGED <<found, text, decided, flag, turn, pending, read>> /\ stage' # "judge"
        /\ pending["schedule"] = <<>> /\ read["schedule"] = NoRow
    BY <1>2 DEF BeginPass, StartOver, EndPass, Idle, EnrichInv, HandsEmpty
  <2> QED
    BY <2>1 DEF EnrichInv, RowsTyped, HandsEmpty, NothingToLose
<1>3. CASE EnrichPending
  <2>1. /\ UNCHANGED <<found, decided, flag, turn, pending, read>> /\ stage' = "list"
        /\ pending["schedule"] = <<>> /\ read["schedule"] = NoRow
    BY <1>3 DEF EnrichPending, EnrichInv, HandsEmpty
  <2>2. text' = [i \in Ids |-> text'[i]]
    BY <1>3 DEF EnrichPending
  <2> QED
    BY <2>1, <2>2 DEF EnrichInv, RowsTyped, HandsEmpty, NothingToLose
<1>4. CASE FilterRelevant
  <2>1. PICK listed \in {NeverJudged, InOrder(found)} : pending' = [pending EXCEPT !["person"] = listed]
    BY <1>4 DEF FilterRelevant
  <2>2. UNCHANGED <<found, text, decided, flag, turn, score, stage, read, touched>>
    BY <1>4 DEF FilterRelevant
  <2>3. listed \in Seq(found)
    <3>1. RowsTyped /\ {i \in found : decided[i] = "never"} \in SUBSET found
      BY DEF EnrichInv
    <3>2. NeverJudged \in Seq(found)
      <4>1. NeverJudged \in Seq({i \in found : decided[i] = "never"})
        BY <3>1, PickedInOrder DEF NeverJudged
      <4> QED
        BY <4>1
    <3>3. InOrder(found) \in Seq(found)
      BY <3>1, PickedInOrder
    <3> QED
      BY <2>1, <3>2, <3>3
  <2>4. RowsTyped'
    BY <2>1, <2>2, <2>3, PendingType DEF Judges
  <2>5. pending'["schedule"] = pending["schedule"]
    BY <2>1 DEF EnrichInv, RowsTyped, Judges
  <2> QED
    BY <2>2, <2>4, <2>5 DEF EnrichInv, HandsEmpty, NothingToLose, Earned, RulesSay
<1>5. ASSUME NEW j \in Judges, Stops(j), j = "schedule" => stage' # "judge", j = "person" => UNCHANGED stage
      PROVE  EnrichInv' /\ UNCHANGED flag
  <2>1. /\ UNCHANGED <<found, text, decided, flag, turn, score, touched>>
        /\ \A k \in Judges : pending'[k] = IF k = j THEN <<>> ELSE pending[k]
        /\ \A k \in Judges : read'[k] = IF k = j THEN NoRow ELSE read[k]
        /\ pending' \in [Judges -> Seq(found)] /\ read' = [k \in Judges |-> read'[k]]
    <3>1. <<>> \in Seq(found)
      OBVIOUS
    <3> QED
      BY <1>5, <3>1 DEF Stops, EnrichInv, RowsTyped
  <2>2. RowsTyped'
    BY <2>1 DEF EnrichInv, RowsTyped
  <2>3. HandsEmpty' /\ NothingToLose'
    BY <1>5, <2>1 DEF EnrichInv, HandsEmpty, NothingToLose, Earned, RulesSay, Judges
  <2> QED
    BY <2>1, <2>2, <2>3 DEF EnrichInv
<1> QED
  BY <1>1, <1>2, <1>3, <1>4, <1>5 DEF PassKilled, PersonStops, Judges

LEMMA EnrichKeeps ==
    ASSUME EnrichInv, [EnrichNext]_enrichVars
    PROVE  /\ EnrichInv'
           /\ \A i \in Ids : flag[i] /\ ~flag'[i] => JudgeRow("person") \/ i \in touched
<1>1. ASSUME NEW j \in Judges, JudgeRow(j)
      PROVE  /\ EnrichInv'
             /\ \A i \in Ids : flag[i] /\ ~flag'[i] => JudgeRow("person") \/ i \in touched
  BY <1>1, JudgeKeeps
<1>2. ASSUME EnrichInv', UNCHANGED flag
      PROVE  /\ EnrichInv'
             /\ \A i \in Ids : flag[i] /\ ~flag'[i] => JudgeRow("person") \/ i \in touched
  BY <1>2
<1>3. ASSUME NEW j \in Judges, ReadRow(j) PROVE EnrichInv' /\ UNCHANGED flag
  BY <1>3, ReadKeeps DEF ReadRow, community
<1>4. CASE PersistFind \/ ListPending
  BY <1>4, FindKeeps, ListKeeps DEF PersistFind, ListPending, community
<1>5. ASSUME NEW i \in Ids, FindAgain(i) PROVE EnrichInv' /\ UNCHANGED flag
  <2>1. /\ UNCHANGED <<found, score, decided, flag, turn, stage, pending, read, touched>>
        /\ text[i] = "blank" /\ text' = [text EXCEPT ![i] = "name"]
    BY <1>5 DEF FindAgain, outside, judges
  <2>2. text' = [k \in Ids |-> text'[k]] /\ \A k \in found : text'[k] = text[k] \/ text[k] = "blank"
    BY <2>1, FoundAreIds DEF EnrichInv, RowsTyped
  <2> QED
    BY <2>1, <2>2, WordsKeep
<1>6. CASE \/ PageChanges \/ BeginPass \/ StartOver \/ EnrichPending \/ EndPass
           \/ FilterRelevant \/ PassKilled \/ PersonStops \/ UNCHANGED enrichVars
  BY <1>6, OthersKeep
<1> QED
  BY <1>1, <1>2, <1>3, <1>4, <1>5, <1>6
     DEF EnrichNext, Maintenance, ClassifyIcpFit, Judges, PersistFind, ListPending, community

\* However fetching, judging, finding and killed passes alternate with a person's
\* runs, an unattended pass takes no community out of the join queue but one the
\* person put there while it was on the pass's list (_llm_eligible_icp_ids).
THEOREM QueueIsKept == EnrichSpec => QueueKeepsItsRows
<1>1. EnrichInv /\ [EnrichNext]_enrichVars => EnrichInv'
  BY EnrichKeeps
<1>2. EnrichInv /\ [EnrichNext]_enrichVars
      => [\A i \in Ids : flag[i] /\ ~flag'[i] => JudgeRow("person") \/ i \in touched]_enrichVars
  BY EnrichKeeps
<1> QED
  BY <1>1, <1>2, EnrichStart, PTL DEF EnrichSpec, QueueKeepsItsRows

-----------------------------------------------------------------------------
(* Two rows never have one address.                                        *)

HostIsFunction == host = [c \in Communities |-> host[c]]
AddressInv == HostIsFunction /\ OneRowPerAddress

\* A row moves only to an address that no other row has (_repoint).
LEMMA MovesApart ==
    ASSUME AddressInv, NEW c, NEW v, NEW at, Repoint(c, v, at)
    PROVE  AddressInv'
<1>1. CASE UNCHANGED host
  BY <1>1 DEF AddressInv, HostIsFunction, OneRowPerAddress
<1>2. CASE host' = [host EXCEPT ![c] = at] /\ ~\E d \in Communities \ {c} : host[d] = at
  <2>1. HostIsFunction'
    BY <1>2 DEF AddressInv, HostIsFunction
  <2>2. \A d \in Communities : host'[d] = IF d = c THEN at ELSE host[d]
    BY <1>2 DEF AddressInv, HostIsFunction
  <2>3. OneRowPerAddress'
    BY <1>2, <2>2 DEF AddressInv, OneRowPerAddress
  <2> QED
    BY <2>1, <2>3 DEF AddressInv
<1> QED
  BY <1>1, <1>2 DEF Repoint

LEMMA AddressesKeep == AddressInv /\ [JoinNext]_joinVars => AddressInv'
<1> SUFFICES ASSUME AddressInv, [JoinNext]_joinVars PROVE AddressInv'
  OBVIOUS
<1>1. CASE UNCHANGED host
  BY <1>1 DEF AddressInv, HostIsFunction, OneRowPerAddress
<1>2. CASE CheckNext
  BY <1>2, MovesApart DEF CheckNext, ClassifyRow
<1>3. ASSUME NEW c \in Communities, HarvestAsks(c) \/ EnrichAsks(c) \/ ManualCheck(c)
      PROVE  UNCHANGED host
  BY <1>3 DEF HarvestAsks, EnrichAsks, ManualCheck
<1>4. CASE BeginCheck \/ Hours \/ CheckKilled \/ RecheckAll \/ WorldChanges
  BY <1>1, <1>4 DEF BeginCheck, Hours, CheckKilled, RecheckAll, WorldChanges, row
<1>5. CASE UNCHANGED joinVars
  BY <1>1, <1>5 DEF joinVars, row
<1> QED
  BY <1>1, <1>2, <1>3, <1>4, <1>5 DEF JoinNext, Checker

\* Checks that follow communities to new addresses, beside harvests and in whatever
\* order, never leave two rows with one address (_repoint looks before it moves).
THEOREM AddressesStayApart == JoinSpec => []OneRowPerAddress
<1>1. JoinInit => AddressInv
  BY DEF JoinInit, AddressInv, HostIsFunction, OneRowPerAddress
<1>2. AddressInv => OneRowPerAddress
  BY DEF AddressInv
<1> QED
  BY <1>1, <1>2, AddressesKeep, PTL DEF JoinSpec
=============================================================================

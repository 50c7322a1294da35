----------------------------- MODULE JoinProofs ------------------------------
(***************************************************************************)
(* Proofs about the join bot.  Of its batches: rows and sessions name      *)
(* members, and the daily cap holds, for any number of accounts and        *)
(* communities, any limits and any order of visits.  Of a visit: whatever  *)
(* pages it is shown, credentials stay home, codes are fresh, and what it  *)
(* reports is true.                                                        *)
(***************************************************************************)
EXTENDS JoinBatch, JoinWalk, FiniteSetTheorems, TLAPS

-----------------------------------------------------------------------------
(* Rows name members.                                                      *)

\* A batch has its fields; which communities its queue names does not matter.
IsBatch(b) == {"at", "queue", "count", "outcome"} \subseteq DOMAIN b
Visiting(b) == b.at \in {"visited", "logged", "connected"}

\* What the proof needs of the types.
FilesAreFunctions ==
    /\ inside \in [Communities -> SUBSET Accounts]
    /\ joinAccount \in [Communities -> Accounts \cup {None}]
    /\ session \in [Communities -> Accounts \cup {None}]
    /\ DOMAIN batch = Accounts
    /\ \A a \in Accounts : IsBatch(batch[a])

\* Between a visit and the end of its record, an account whose visit made it a
\* member is a member.
VisitorsAreInside ==
    \A a \in Accounts :
        Visiting(batch[a]) /\ batch[a].outcome \in MemberOutcomes /\ Current(a) \in Communities
        => a \in inside[Current(a)]

IInv == FilesAreFunctions /\ VisitorsAreInside /\ RowsNameMembers

LEMMA FilesStart == BatchInit => IInv
<1> SUFFICES ASSUME BatchInit PROVE IInv
  OBVIOUS
<1>1. FilesAreFunctions
  BY DEF BatchInit, BatchFrom, FilesAreFunctions, IsBatch, Idle
<1>2. VisitorsAreInside
  BY DEF BatchInit, BatchFrom, VisitorsAreInside, Visiting, Idle
<1>3. RowsNameMembers
  BY DEF BatchInit, BatchFrom, RowsNameMembers
<1> QED
  BY <1>1, <1>2, <1>3 DEF IInv

\* Account a goes on to batch b, and no other batch changes.
GoesOnTo(a, b) ==
    /\ DOMAIN batch' = Accounts /\ batch'[a] = b /\ IsBatch(b)
    /\ \A d \in Accounts \ {a} : batch'[d] = batch[d]

LEMMA Replacing ==
    ASSUME FilesAreFunctions, NEW a \in Accounts, NEW b, IsBatch(b),
           batch' = [batch EXCEPT ![a] = b]
    PROVE  GoesOnTo(a, b)
  BY DEF FilesAreFunctions, GoesOnTo

LEMMA Moving ==
    ASSUME NEW b, NEW where, IsBatch(b)
    PROVE  LET moved == [b EXCEPT !.at = where] IN
           /\ IsBatch(moved) /\ moved.at = where
           /\ moved.queue = b.queue /\ moved.outcome = b.outcome
  BY DEF IsBatch

\* What an account's steps leave of its batch.
LEMMA NextOne ==
    ASSUME NEW a, NEW b, IsBatch(b)
    PROVE  IsBatch(Next1(a, b)) /\ Next1(a, b).at = "next"
  BY DEF IsBatch, Next1

\* The step names nobody and lets nobody out, and the account is in no visit
\* it was not in.
LEMMA QuietStep ==
    ASSUME IInv, NEW a \in Accounts, NEW b, GoesOnTo(a, b),
           UNCHANGED <<joinAccount, session, inside>>,
           \/ ~Visiting(b)
           \/ b.queue = batch[a].queue /\ b.outcome = batch[a].outcome /\ Visiting(batch[a])
    PROVE  IInv'
<1>1. FilesAreFunctions'
  BY DEF GoesOnTo, IInv, FilesAreFunctions, IsBatch
<1>2. VisitorsAreInside'
  BY DEF GoesOnTo, IInv, VisitorsAreInside, Current, Visiting
<1> QED
  BY <1>1, <1>2 DEF IInv, RowsNameMembers

LEMMA BatchKeeps ==
    ASSUME IInv, NEW a \in Accounts,
           StartBatch(a) \/ BatchStep(a) \/ BrowserGone(a) \/ Killed(a)
    PROVE  IInv'
<1> USE DEF filed, log, circle
<1>t. FilesAreFunctions /\ IsBatch(batch[a])
  BY DEF IInv, FilesAreFunctions
<1>1. CASE EndBatch(a) \/ BrowserGone(a) \/ Killed(a)
  <2>1. batch' = [batch EXCEPT ![a] = Idle] /\ UNCHANGED <<joinAccount, session, inside>>
    BY <1>1 DEF EndBatch, BrowserGone, Killed
  <2>2. IsBatch(Idle) /\ ~Visiting(Idle)
    BY DEF IsBatch, Idle, Visiting
  <2>3. GoesOnTo(a, Idle)
    BY <1>t, <2>1, <2>2, Replacing
  <2> QED
    BY <2>1, <2>2, <2>3, QuietStep
<1>2. CASE StartBatch(a)
  <2> DEFINE b == [at |-> "next", queue |-> Candidates(a), count |-> AttemptsToday(a),
                   outcome |-> None]
  <2>1. batch' = [batch EXCEPT ![a] = b] /\ UNCHANGED <<joinAccount, session, inside>>
    BY <1>2 DEF StartBatch
  <2>2. IsBatch(b) /\ ~Visiting(b)
    BY DEF IsBatch, Visiting
  <2> HIDE DEF b
  <2>3. GoesOnTo(a, b)
    BY <1>t, <2>1, <2>2, Replacing
  <2> QED
    BY <2>1, <2>2, <2>3, QuietStep
<1>3. CASE DeadHost(a) \/ RecordHandoff(a)
  <2> DEFINE b == Next1(a, batch[a])
  <2>1. batch' = [batch EXCEPT ![a] = b] /\ UNCHANGED <<joinAccount, session, inside>>
    BY <1>3 DEF DeadHost, RecordHandoff
  <2>2. IsBatch(b) /\ ~Visiting(b)
    BY <1>t, NextOne DEF Visiting
  <2> HIDE DEF b
  <2>3. GoesOnTo(a, b)
    BY <1>t, <2>1, <2>2, Replacing
  <2> QED
    BY <2>1, <2>2, <2>3, QuietStep
<1>4. CASE LogVisit(a)
  <2> DEFINE b == [batch[a] EXCEPT !.at = "logged"]
  <2>1. /\ batch' = [batch EXCEPT ![a] = b] /\ UNCHANGED <<joinAccount, session, inside>>
        /\ Visiting(batch[a])
    BY <1>4 DEF LogVisit, Visiting
  <2>2. IsBatch(b) /\ b.queue = batch[a].queue /\ b.outcome = batch[a].outcome
    BY <1>t, Moving
  <2> HIDE DEF b
  <2>3. GoesOnTo(a, b)
    BY <1>t, <2>1, <2>2, Replacing
  <2> QED
    BY <2>1, <2>2, <2>3, QuietStep
<1>5. CASE Visit(a)
  <2>1. PICK pages \in 1 .. 2, result \in Outcomes :
          /\ inside' = IF result \in MemberOutcomes
                       THEN [inside EXCEPT ![Current(a)] = @ \cup {a}] ELSE inside
          /\ batch' = [batch EXCEPT ![a].at = "visited", ![a].outcome = result,
                                    ![a].count = @ + pages]
          /\ UNCHANGED <<joinAccount, session>>
    BY <1>5 DEF Visit
  <2> DEFINE n == batch[a].count + pages
             b == [batch[a] EXCEPT !.at = "visited", !.outcome = result, !.count = n]
  <2>2. batch' = [batch EXCEPT ![a] = b]
    BY <1>t, <2>1 DEF FilesAreFunctions
  <2> HIDE DEF n
  <2>3. IsBatch(b) /\ b.queue = batch[a].queue /\ b.outcome = result
    BY <1>t DEF IsBatch
  <2> HIDE DEF b
  <2>4. GoesOnTo(a, b)
    BY <1>t, <2>2, <2>3, Replacing
  <2>5. /\ inside' \in [Communities -> SUBSET Accounts]
        /\ \A c \in Communities :
             /\ inside[c] \subseteq inside'[c]
             /\ result \in MemberOutcomes /\ c = Current(a) => a \in inside'[c]
    BY <1>t, <2>1 DEF FilesAreFunctions
  <2>6. FilesAreFunctions'
    BY <1>t, <2>1, <2>4, <2>5 DEF FilesAreFunctions, GoesOnTo, IsBatch
  <2>7. VisitorsAreInside'
    BY <2>3, <2>4, <2>5 DEF IInv, VisitorsAreInside, Current, Visiting, GoesOnTo
  <2>8. RowsNameMembers'
    BY <2>1, <2>5 DEF IInv, RowsNameMembers
  <2> QED
    BY <2>6, <2>7, <2>8 DEF IInv
<1>6. CASE ConnectHost(a)
  <2> DEFINE b == [batch[a] EXCEPT !.at = "connected"]
  <2>1. /\ batch' = [batch EXCEPT ![a] = b] /\ UNCHANGED <<joinAccount, inside>>
        /\ session' = [session EXCEPT ![Current(a)] = a]
        /\ Visiting(batch[a]) /\ batch[a].outcome \in MemberOutcomes
    BY <1>6 DEF ConnectHost, Visiting, MemberOutcomes
  <2>2. IsBatch(b) /\ b.queue = batch[a].queue /\ b.outcome = batch[a].outcome
    BY <1>t, Moving
  <2> HIDE DEF b
  <2>3. GoesOnTo(a, b)
    BY <1>t, <2>1, <2>2, Replacing
  <2>4. /\ session' \in [Communities -> Accounts \cup {None}]
        /\ \A c \in Communities : session'[c] = IF c = Current(a) THEN a ELSE session[c]
    BY <1>t, <2>1 DEF FilesAreFunctions
  <2>5. RowsNameMembers'
    BY <2>1, <2>4 DEF IInv, VisitorsAreInside, RowsNameMembers
  <2>6. FilesAreFunctions'
    BY <1>t, <2>1, <2>3, <2>4 DEF FilesAreFunctions, GoesOnTo, IsBatch
  <2>7. VisitorsAreInside'
    BY <2>1, <2>2, <2>3 DEF IInv, VisitorsAreInside, Current, Visiting, GoesOnTo
  <2> QED
    BY <2>5, <2>6, <2>7 DEF IInv
<1>7. CASE PersistTerminalOutcome(a)
  <2> DEFINE b == Next1(a, batch[a])
  <2>1. /\ batch' = [batch EXCEPT ![a] = b] /\ UNCHANGED <<session, inside>>
        /\ joinAccount' = IF batch[a].outcome \in MemberOutcomes
                          THEN [joinAccount EXCEPT ![Current(a)] = a] ELSE joinAccount
        /\ Visiting(batch[a])
    BY <1>7 DEF PersistTerminalOutcome, Visiting, MemberStatuses
  <2>2. IsBatch(b) /\ ~Visiting(b)
    BY <1>t, NextOne DEF Visiting
  <2> HIDE DEF b
  <2>3. GoesOnTo(a, b)
    BY <1>t, <2>1, <2>2, Replacing
  <2>4. /\ joinAccount' \in [Communities -> Accounts \cup {None}]
        /\ \A c \in Communities :
             joinAccount'[c] = IF batch[a].outcome \in MemberOutcomes /\ c = Current(a)
                               THEN a ELSE joinAccount[c]
    BY <1>t, <2>1 DEF FilesAreFunctions
  <2>5. RowsNameMembers'
    BY <2>1, <2>4 DEF IInv, VisitorsAreInside, RowsNameMembers
  <2>6. FilesAreFunctions'
    BY <1>t, <2>1, <2>3, <2>4 DEF FilesAreFunctions, GoesOnTo, IsBatch
  <2>7. VisitorsAreInside'
    BY <2>1, <2>2, <2>3 DEF IInv, VisitorsAreInside, Current, Visiting, GoesOnTo
  <2> QED
    BY <2>5, <2>6, <2>7 DEF IInv
<1> QED
  BY <1>1, <1>2, <1>3, <1>4, <1>5, <1>6, <1>7 DEF BatchStep

LEMMA BatchesKeep == IInv /\ [BatchNext]_batchVars => IInv'
<1> SUFFICES ASSUME IInv, [BatchNext]_batchVars PROVE IInv'
  OBVIOUS
<1>1. CASE Midnight \/ UNCHANGED batchVars
  <2>1. UNCHANGED <<joinAccount, session, inside, batch>>
    BY <1>1 DEF Midnight, batchVars, filed, circle
  <2> QED
    BY <2>1 DEF IInv, FilesAreFunctions, IsBatch, VisitorsAreInside, Current, Visiting,
                RowsNameMembers
<1> QED
  BY <1>1, BatchKeeps DEF BatchNext

\* However the batches of several accounts overlap or are killed, a row and a
\* stored session name an account that is a member (_persist_terminal_outcome,
\* _MEMBER_STATUSES).
THEOREM MembersAreNamed == BatchSpec => []RowsNameMembers
<1>1. IInv => RowsNameMembers
  BY DEF IInv
<1> QED
  BY <1>1, FilesStart, BatchesKeep, PTL DEF BatchSpec

-----------------------------------------------------------------------------
\* A visit that was made and is not in the attempt log yet.
Unlogged(b) == IF b.at = "visited" THEN 1 ELSE 0

PagesTyped ==
    /\ logged \in [Accounts -> Nat] /\ opened \in [Accounts -> Nat] /\ trouble \in Nat
    /\ IsFiniteSet(attempted)
    /\ \A a \in Accounts : batch[a].count \in Nat

\* The log lags behind by the visit under way and by what was lost; a batch
\* counts no less than the log has, also when midnight has emptied that.
PagesLogged == \A a \in Accounts : opened[a] <= logged[a] + trouble + Unlogged(batch[a])
CountsPages ==
    \A a \in Accounts :
        batch[a].at # "idle" => logged[a] + Unlogged(batch[a]) <= batch[a].count

CapInv == FilesAreFunctions /\ PagesTyped /\ PagesLogged /\ CountsPages /\ CapHolds

LEMMA CapStart == BatchInit => CapInv
<1> SUFFICES ASSUME BatchInit PROVE CapInv
  OBVIOUS
<1> USE DEF BatchInit, BatchFrom
<1>1. FilesAreFunctions
  BY FilesStart DEF IInv
<1>2. PagesTyped
  BY FS_EmptySet DEF PagesTyped, Idle
<1>3. \A a \in Accounts : opened[a] = 0 /\ logged[a] = 0 /\ batch[a] = Idle
  OBVIOUS
<1>4. PagesLogged /\ CountsPages /\ CapHolds
  BY <1>3, BatchAssumption DEF PagesLogged, CountsPages, CapHolds, Unlogged, Idle
<1> QED
  BY <1>1, <1>2, <1>4 DEF CapInv

\* What account a's step may do to its numbers: o pages opened and l visits
\* logged today, t losses in all, and batch b.
LEMMA PagesStep ==
    ASSUME CapInv, FilesAreFunctions', NEW a \in Accounts, NEW b, GoesOnTo(a, b), b.count \in Nat,
           NEW o \in Nat, NEW l \in Nat, IsFiniteSet(attempted'),
           opened' = [opened EXCEPT ![a] = o], logged' = [logged EXCEPT ![a] = l],
           trouble' \in Nat, trouble <= trouble',
           o <= l + trouble' + Unlogged(b),
           b.at # "idle" => l + Unlogged(b) <= b.count,
           o <= Cap + 1 + trouble'
    PROVE  CapInv'
<1> USE BatchAssumption DEF CapInv
<1>1. /\ opened'[a] = o /\ logged'[a] = l /\ batch'[a] = b
      /\ \A d \in Accounts \ {a} :
           opened'[d] = opened[d] /\ logged'[d] = logged[d] /\ batch'[d] = batch[d]
  BY DEF PagesTyped, GoesOnTo
<1>2. PagesTyped'
  BY <1>1 DEF PagesTyped
<1>3. ASSUME NEW d \in Accounts
      PROVE  /\ (opened[d] <= logged[d] + trouble + Unlogged(batch[d]))'
             /\ (batch[d].at # "idle" => logged[d] + Unlogged(batch[d]) <= batch[d].count)'
             /\ (opened[d] <= Cap + 1 + trouble)'
  <2>1. CASE d = a
    BY <1>1, <2>1 DEF Unlogged
  <2>2. CASE d # a
    <3>1. opened'[d] = opened[d] /\ logged'[d] = logged[d] /\ batch'[d] = batch[d]
      BY <1>1, <2>2
    <3>2. /\ opened[d] <= logged[d] + trouble + Unlogged(batch[d])
          /\ batch[d].at # "idle" => logged[d] + Unlogged(batch[d]) <= batch[d].count
          /\ opened[d] <= Cap + 1 + trouble
      BY DEF PagesLogged, CountsPages, CapHolds
    <3>3. opened[d] \in Nat /\ logged[d] \in Nat /\ trouble \in Nat /\ Unlogged(batch[d]) \in Nat
      BY DEF PagesTyped, Unlogged
    <3> QED
      BY <3>1, <3>2, <3>3 DEF Unlogged
  <2> QED
    BY <2>1, <2>2
<1> QED
  BY <1>2, <1>3 DEF PagesLogged, CountsPages, CapHolds

LEMMA CapKeeps ==
    ASSUME CapInv, IInv', NEW a \in Accounts,
           StartBatch(a) \/ BatchStep(a) \/ BrowserGone(a) \/ Killed(a)
    PROVE  CapInv'
<1> USE DEF filed, log, circle
<1>f. FilesAreFunctions /\ IsBatch(batch[a]) /\ FilesAreFunctions'
  BY DEF CapInv, FilesAreFunctions, IInv
<1>n. /\ opened[a] \in Nat /\ logged[a] \in Nat /\ trouble \in Nat /\ batch[a].count \in Nat
      /\ Cap \in Nat
      /\ opened = [opened EXCEPT ![a] = opened[a]] /\ logged = [logged EXCEPT ![a] = logged[a]]
  BY BatchAssumption DEF CapInv, PagesTyped
<1>c. /\ opened[a] <= logged[a] + trouble + Unlogged(batch[a])
      /\ batch[a].at # "idle" => logged[a] + Unlogged(batch[a]) <= batch[a].count
      /\ opened[a] <= Cap + 1 + trouble
  BY DEF CapInv, PagesLogged, CountsPages, CapHolds
<1>a. IsFiniteSet(attempted) /\ IsFiniteSet(attempted \cup {Current(a)})
  BY FS_AddElement DEF CapInv, PagesTyped
<1>i. IsBatch(Idle) /\ Idle.at = "idle" /\ Idle.count = 0 /\ Unlogged(Idle) = 0
  BY DEF IsBatch, Idle, Unlogged
<1>1. CASE EndBatch(a)
  <2>1. /\ batch' = [batch EXCEPT ![a] = Idle] /\ UNCHANGED <<opened, logged, attempted, trouble>>
        /\ Unlogged(batch[a]) = 0
    BY <1>1 DEF EndBatch, Unlogged
  <2>2. GoesOnTo(a, Idle)
    BY <1>f, <1>i, <2>1, Replacing
  <2> QED
    BY <1>f, <1>n, <1>c, <1>a, <1>i, <2>1, <2>2, PagesStep
<1>2. CASE BrowserGone(a)
  <2> DEFINE o == opened[a] + 1
  <2>1. /\ batch' = [batch EXCEPT ![a] = Idle] /\ UNCHANGED <<logged, attempted>>
        /\ trouble' = trouble + 1 /\ opened' = [opened EXCEPT ![a] = o]
        /\ Unlogged(batch[a]) = 0
    BY <1>2 DEF BrowserGone, Ready, Unlogged
  <2>2. GoesOnTo(a, Idle)
    BY <1>f, <1>i, <2>1, Replacing
  <2>3. /\ o \in Nat /\ trouble' \in Nat /\ trouble <= trouble'
        /\ o <= logged[a] + trouble' + Unlogged(Idle)
    BY <1>n, <1>c, <1>i, <2>1
  <2>4. o <= Cap + 1 + trouble'
    BY <1>n, <1>c, <2>1
  <2>5. IsFiniteSet(attempted') /\ logged' = [logged EXCEPT ![a] = logged[a]]
    BY <1>n, <1>a, <2>1
  <2>6. Idle.count \in Nat /\ (Idle.at # "idle" => logged[a] + Unlogged(Idle) <= Idle.count)
    BY <1>i
  <2> HIDE DEF o
  <2> QED
    BY <1>f, <1>n, <2>1, <2>2, <2>3, <2>4, <2>5, <2>6, PagesStep
<1>3. CASE Killed(a)
  <2>1. /\ batch' = [batch EXCEPT ![a] = Idle] /\ UNCHANGED <<logged, opened, attempted>>
        /\ trouble' = trouble + 1 /\ Unlogged(batch[a]) \in 0 .. 1
    BY <1>3 DEF Killed, Unlogged
  <2>2. GoesOnTo(a, Idle)
    BY <1>f, <1>i, <2>1, Replacing
  <2> QED
    BY <1>f, <1>n, <1>c, <1>a, <1>i, <2>1, <2>2, PagesStep
<1>4. CASE StartBatch(a)
  <2> DEFINE n == AttemptsToday(a)
             b == [at |-> "next", queue |-> Candidates(a), count |-> n, outcome |-> None]
  <2>1. /\ batch' = [batch EXCEPT ![a] = b] /\ UNCHANGED <<opened, logged, attempted, trouble>>
        /\ batch[a].at = "idle" /\ Unlogged(batch[a]) = 0
    BY <1>4 DEF StartBatch, Unlogged
  <2>2. n \in Nat /\ logged[a] <= n
    <3>1. Cardinality(attempted) \in Nat
      BY <1>a, FS_CardinalityType
    <3> QED
      BY <1>n, <3>1 DEF AttemptsToday
  <2> HIDE DEF n
  <2>3. IsBatch(b) /\ b.at = "next" /\ b.count = n /\ Unlogged(b) = 0
    BY DEF IsBatch, Unlogged
  <2> HIDE DEF b
  <2>4. GoesOnTo(a, b)
    BY <1>f, <2>1, <2>3, Replacing
  <2> QED
    BY <1>f, <1>n, <1>c, <1>a, <2>1, <2>2, <2>3, <2>4, PagesStep
<1>5. CASE DeadHost(a) \/ PersistTerminalOutcome(a) \/ RecordHandoff(a)
  <2> DEFINE b == Next1(a, batch[a])
  <2>1. /\ batch' = [batch EXCEPT ![a] = b] /\ UNCHANGED <<opened, logged, trouble>>
        /\ attempted' \in {attempted, attempted \cup {Current(a)}}
        /\ batch[a].at # "idle" /\ Unlogged(batch[a]) = 0
    BY <1>5 DEF DeadHost, PersistTerminalOutcome, RecordHandoff, Ready, Unlogged
  <2>2. IsBatch(b) /\ b.at = "next" /\ b.count = batch[a].count /\ Unlogged(b) = 0
    BY <1>f DEF IsBatch, Next1, Unlogged
  <2> HIDE DEF b
  <2>3. GoesOnTo(a, b)
    BY <1>f, <2>1, <2>2, Replacing
  <2>4. IsFiniteSet(attempted')
    BY <1>a, <2>1
  <2>5. /\ opened[a] <= logged[a] + trouble + Unlogged(b) /\ opened[a] <= Cap + 1 + trouble
        /\ logged[a] + Unlogged(b) <= b.count
    BY <1>c, <2>1, <2>2
  <2> QED
    BY <1>f, <1>n, <2>1, <2>2, <2>3, <2>4, <2>5, PagesStep
<1>6. CASE Visit(a)
  <2>1. PICK pages \in 1 .. 2, result \in Outcomes :
          /\ Ready(a)
          /\ opened' = [opened EXCEPT ![a] = @ + pages]
          /\ IF pages = 1 THEN UNCHANGED log
             ELSE /\ logged' = [logged EXCEPT ![a] = @ + 1]
                  /\ handoffs' = Noted(a, Current(a))
          /\ batch' = [batch EXCEPT ![a].at = "visited", ![a].outcome = result,
                                    ![a].count = @ + pages]
          /\ UNCHANGED <<filed, trouble>>
    BY <1>6 DEF Visit
  <2> DEFINE n == batch[a].count + pages
             b == [batch[a] EXCEPT !.at = "visited", !.outcome = result, !.count = n]
             l == IF pages = 1 THEN logged[a] ELSE logged[a] + 1
  <2>2. batch' = [batch EXCEPT ![a] = b]
    BY <1>f, <2>1 DEF FilesAreFunctions
  <2>3. n \in Nat /\ n = batch[a].count + pages /\ pages \in Nat
    BY <1>n
  <2> HIDE DEF n
  <2>4. IsBatch(b) /\ b.at = "visited" /\ b.count = n /\ Unlogged(b) = 1
    BY <1>f DEF IsBatch, Unlogged
  <2> HIDE DEF b
  <2>5. GoesOnTo(a, b)
    BY <1>f, <2>2, <2>4, Replacing
  <2>6. /\ opened' = [opened EXCEPT ![a] = opened[a] + pages]
        /\ logged' = [logged EXCEPT ![a] = l]
        /\ UNCHANGED <<attempted, trouble>>
    BY <1>n, <2>1
  <2>7. /\ Unlogged(batch[a]) = 0 /\ batch[a].at # "idle" /\ batch[a].count < Cap
    BY <2>1 DEF Ready, Unlogged
  <2>8. l \in Nat /\ l = logged[a] + pages - 1
    BY <1>n
  <2> HIDE DEF l
  <2>9. opened[a] + pages <= l + trouble + 1 /\ l + 1 <= n /\ opened[a] + pages <= Cap + 1 + trouble
    BY <1>n, <1>c, <2>3, <2>7, <2>8
  <2> DEFINE o == opened[a] + pages
  <2>10. /\ opened' = [opened EXCEPT ![a] = o] /\ o \in Nat
         /\ o <= l + trouble' + Unlogged(b) /\ o <= Cap + 1 + trouble'
         /\ l + Unlogged(b) <= b.count /\ b.count \in Nat
         /\ trouble' \in Nat /\ trouble <= trouble'
    BY <1>n, <2>3, <2>4, <2>6, <2>8, <2>9
  <2> HIDE DEF o
  <2> QED
    BY <1>f, <1>a, <2>5, <2>6, <2>8, <2>10, PagesStep
<1>7. CASE LogVisit(a)
  <2> DEFINE b == [batch[a] EXCEPT !.at = "logged"]
             l == logged[a] + 1
  <2>1. /\ batch' = [batch EXCEPT ![a] = b] /\ UNCHANGED <<opened, attempted, trouble>>
        /\ logged' = [logged EXCEPT ![a] = l]
        /\ batch[a].at # "idle" /\ Unlogged(batch[a]) = 1
    BY <1>7 DEF LogVisit, Unlogged
  <2>2. IsBatch(b) /\ b.at = "logged" /\ b.count = batch[a].count /\ Unlogged(b) = 0
    BY <1>f DEF IsBatch, Unlogged
  <2> HIDE DEF b
  <2>3. GoesOnTo(a, b)
    BY <1>f, <2>1, <2>2, Replacing
  <2>4. /\ l \in Nat /\ opened[a] <= l + trouble' + Unlogged(b) /\ l + Unlogged(b) <= b.count
        /\ opened[a] <= Cap + 1 + trouble' /\ trouble' \in Nat /\ trouble <= trouble'
        /\ b.count \in Nat /\ opened' = [opened EXCEPT ![a] = opened[a]]
    BY <1>n, <1>c, <2>1, <2>2
  <2> HIDE DEF l
  <2> QED
    BY <1>f, <1>n, <1>a, <2>1, <2>3, <2>4, PagesStep
<1>8. CASE ConnectHost(a)
  <2> DEFINE b == [batch[a] EXCEPT !.at = "connected"]
  <2>1. /\ batch' = [batch EXCEPT ![a] = b] /\ UNCHANGED <<opened, logged, attempted, trouble>>
        /\ batch[a].at # "idle" /\ Unlogged(batch[a]) = 0
    BY <1>8 DEF ConnectHost, Unlogged
  <2>2. IsBatch(b) /\ b.at = "connected" /\ b.count = batch[a].count /\ Unlogged(b) = 0
    BY <1>f DEF IsBatch, Unlogged
  <2> HIDE DEF b
  <2>3. GoesOnTo(a, b)
    BY <1>f, <2>1, <2>2, Replacing
  <2> QED
    BY <1>f, <1>n, <1>c, <1>a, <2>1, <2>2, <2>3, PagesStep
<1> QED
  BY <1>1, <1>2, <1>3, <1>4, <1>5, <1>6, <1>7, <1>8 DEF BatchStep

LEMMA CapsKeep == CapInv /\ IInv /\ [BatchNext]_batchVars => CapInv'
<1> SUFFICES ASSUME CapInv, IInv, [BatchNext]_batchVars PROVE CapInv'
  OBVIOUS
<1>1. IInv'
  BY BatchesKeep
<1>2. CASE Midnight
  <2>1. /\ UNCHANGED <<batch, trouble>> /\ attempted' = {}
        /\ logged' = [a \in Accounts |-> 0] /\ opened' = [a \in Accounts |-> 0]
    BY <1>2 DEF Midnight
  <2>2. PagesTyped'
    BY <2>1, FS_EmptySet DEF CapInv, PagesTyped
  <2>3. ASSUME NEW a \in Accounts
        PROVE  /\ opened'[a] <= logged'[a] + trouble' + Unlogged(batch[a])'
               /\ batch'[a].at # "idle" => logged'[a] + Unlogged(batch[a])' <= batch'[a].count
               /\ opened'[a] <= Cap + 1 + trouble'
    <3>1. /\ logged[a] \in Nat /\ trouble \in Nat /\ batch[a].count \in Nat /\ Cap \in Nat
          /\ batch[a].at # "idle" => logged[a] + Unlogged(batch[a]) <= batch[a].count
      BY BatchAssumption DEF CapInv, PagesTyped, CountsPages
    <3> QED
      BY <2>1, <3>1 DEF Unlogged
  <2> QED
    BY <1>1, <2>2, <2>3 DEF CapInv, PagesLogged, CountsPages, CapHolds, IInv
<1>3. CASE UNCHANGED batchVars
  BY <1>1, <1>3 DEF batchVars, filed, log, circle, CapInv, PagesTyped, PagesLogged, CountsPages,
                    CapHolds, Unlogged, IInv
<1> QED
  BY <1>1, <1>2, <1>3, CapKeeps DEF BatchNext

\* _run_batch(): the cap of a day holds, with a batch that runs over midnight,
\* visits of two pages, and batches that are lost before they wrote their log.
THEOREM DailyCapHolds == BatchSpec => []CapHolds
<1>1. CapInv => CapHolds
  BY DEF CapInv
<1> QED
  BY <1>1, CapStart, FilesStart, CapsKeep, BatchesKeep, PTL DEF BatchSpec

-----------------------------------------------------------------------------
(* One visit: where it types.                                              *)

\* Nothing but a credential is typed, and that where it may be.
TypedAtHome == host \in Hosts /\ CredentialsStayHome

\* What no key goes into leaves the typed hosts alone; every other step asks
\* MayType first.
LEMMA TypingStep == TypedAtHome /\ [WalkNext]_walkVars => TypedAtHome'
<1> SUFFICES ASSUME TypedAtHome, [WalkNext]_walkVars PROVE TypedAtHome'
  OBVIOUS
<1> USE DEF TypedAtHome, CredentialsStayHome, Hosts
<1>1. ASSUME NEW verdict, NEW next, NEW again, CodeStep(verdict, next, again)
      PROVE  UNCHANGED <<host, typed>>
  BY <1>1 DEF CodeStep, Look, Browse, site, mailbox
<1>2. CASE \/ TopOfRound \/ StoppedByGate \/ AlreadyMember \/ SignInAtGate \/ StepIntoSpace
           \/ NoJoin \/ AfterClick \/ ReadPage \/ SignInAfterClick \/ FormAppears \/ SignInFails
           \/ AfterLogin \/ AfterSignUp \/ ReadSignedUp \/ Readable \/ Onboarding \/ ProfileStep
           \/ OutOfPasses \/ DriverError \/ UNCHANGED walkVars
  <2>1. UNCHANGED <<host, typed>>
    BY <1>1, <1>2
    DEF TopOfRound, StoppedByGate, AlreadyMember, SignInAtGate, StepIntoSpace, NoJoin, AfterClick,
        ReadPage, SignInAfterClick, FormAppears, SignInFails, AfterLogin, AfterSignUp,
        ReadSignedUp, Readable, Onboarding, ProfileStep, OutOfPasses, DriverError, CodeAfterClick,
        Reading, Look, Browse, site, walkVars
  <2> QED
    BY <2>1
<1>3. CASE Open \/ ClickJoin \/ CheckLogin
  <2>1. host' \in Hosts /\ UNCHANGED typed
    BY <1>3 DEF Open, ClickJoin, CheckLogin, Browse, Look, site
  <2> QED
    BY <2>1
<1>4. MayType => host # "foreign"
  BY DEF MayType, Api, Circle
<1>5. CASE LoginHop \/ SubmitLogin \/ SignUp
  <2>1. host' \in Hosts
    BY <1>5 DEF LoginHop, SubmitLogin, SignUp, Look, site
  <2>2. typed' = typed \/ (MayType /\ typed' = typed \cup {host})
    BY <1>5 DEF LoginHop, SubmitLogin, SignUp, Look, Browse
  <2> QED
    BY <1>4, <2>1, <2>2
<1> QED
  BY <1>2, <1>3, <1>5 DEF WalkNext

(* _fill_credential(): whatever pages the walk is led to, the bot's email  *)
(* and password are typed on no host of somebody else's.                   *)
THEOREM CredentialsAreSafe == WalkSpec => []CredentialsStayHome
<1>1. WalkInit => TypedAtHome
  BY DEF WalkInit, WalkFrom, TypedAtHome, CredentialsStayHome, Hosts
<1>2. TypedAtHome => CredentialsStayHome
  BY DEF TypedAtHome
<1> QED
  BY <1>1, <1>2, TypingStep, PTL DEF WalkSpec

-----------------------------------------------------------------------------
\* Codes are numbered as they are mailed.  Whenever the bot looks, every code
\* mailed before is too old, so the one it types is the one just mailed.
CodesNumbered ==
    /\ sent \in Nat \ {0} /\ codes \in Nat /\ since = sent
    /\ inbox \subseteq 1 .. sent
    /\ entered \subseteq 2 .. sent
CodesCounted == CodesNumbered /\ IsFiniteSet(entered) /\ Cardinality(entered) = codes

LEMMA CodeTyped ==
    ASSUME CodesCounted, NEW verdict, NEW next, NEW again, CodeStep(verdict, next, again)
    PROVE  CodesCounted'
<1>1. CASE UNCHANGED mailbox
  BY <1>1 DEF CodesCounted, CodesNumbered, mailbox
<1>2. CASE /\ sent' \in {sent, sent + 1}
           /\ inbox' \in {inbox, inbox \cup {sent'}}
           /\ NewCodes(inbox') # {}
           /\ entered' = entered \cup {Newest(NewCodes(inbox'))}
           /\ codes' = codes + 1
           /\ since' = sent'
  <2>1. NewCodes(inbox') \subseteq {sent'} /\ sent' = sent + 1
    <3>1. PICK c \in inbox' : c > since
      BY <1>2 DEF NewCodes
    <3>2. \A d \in inbox' : d \in 1 .. sent \/ d = sent'
      BY <1>2 DEF CodesCounted, CodesNumbered
    <3>3. sent \in Nat /\ since = sent
      BY DEF CodesCounted, CodesNumbered
    <3>4. sent' = sent + 1
      BY <1>2, <3>1, <3>2, <3>3
    <3>5. ASSUME NEW d \in NewCodes(inbox') PROVE d = sent'
      BY <3>2, <3>3 DEF NewCodes
    <3> QED
      BY <3>4, <3>5
  <2>2. Newest(NewCodes(inbox')) = sent'
    <3>1. NewCodes(inbox') = {sent'} /\ sent' \in Nat
      BY <1>2, <2>1 DEF CodesCounted, CodesNumbered
    <3>2. sent' <= sent'
      BY <3>1
    <3> QED
      BY <3>1, <3>2 DEF Newest
  <2>3. CodesNumbered'
    BY <1>2, <2>1, <2>2 DEF CodesCounted, CodesNumbered
  <2>4. sent' \notin entered
    BY <2>1 DEF CodesCounted, CodesNumbered
  <2>5. IsFiniteSet(entered') /\ Cardinality(entered') = codes'
    BY <1>2, <2>2, <2>4, FS_AddElement DEF CodesCounted
  <2> QED
    BY <2>3, <2>5 DEF CodesCounted
<1> QED
  BY <1>1, <1>2 DEF CodeStep, Look, Browse, SinceTyped

LEMMA CodesStep == CodesCounted /\ [WalkNext]_walkVars => CodesCounted'
<1> SUFFICES ASSUME CodesCounted, [WalkNext]_walkVars PROVE CodesCounted'
  OBVIOUS
<1>1. CASE UNCHANGED mailbox
  BY <1>1 DEF CodesCounted, CodesNumbered, mailbox
<1>2. CASE TopOfRound \/ AfterClick \/ AfterLogin \/ AfterSignUp \/ Onboarding
  BY <1>1, <1>2, CodeTyped
  DEF TopOfRound, AfterClick, AfterLogin, AfterSignUp, Onboarding, CodeAfterClick, Look, Browse
<1>3. CASE \/ Open \/ StoppedByGate \/ AlreadyMember \/ SignInAtGate \/ StepIntoSpace \/ NoJoin
           \/ ClickJoin \/ ReadPage \/ SignInAfterClick \/ FormAppears \/ LoginHop \/ SignInFails
           \/ SubmitLogin \/ CheckLogin \/ SignUp \/ ReadSignedUp \/ Readable \/ ProfileStep
           \/ OutOfPasses \/ DriverError \/ UNCHANGED walkVars
  BY <1>1, <1>3
  DEF Open, StoppedByGate, AlreadyMember, SignInAtGate, StepIntoSpace, NoJoin, ClickJoin,
      ReadPage, SignInAfterClick, FormAppears, LoginHop, SignInFails, SubmitLogin, CheckLogin,
      SignUp, ReadSignedUp, Readable, ProfileStep, OutOfPasses, DriverError, Reading, Look,
      Browse, walkVars
<1> QED
  BY <1>2, <1>3 DEF WalkNext

(* fetch_login_code(): no code of an earlier visit is typed, and none      *)
(* twice, however many are mailed and whichever of them arrive.            *)
THEOREM CodesStayFresh == WalkSpec => []CodesAreFresh
<1>1. WalkInit => CodesCounted
  <2> SUFFICES ASSUME WalkInit PROVE CodesCounted
    OBVIOUS
  <2>1. CodesNumbered
    BY DEF WalkInit, WalkFrom, CodesNumbered
  <2> QED
    BY <2>1, FS_EmptySet DEF WalkInit, WalkFrom, CodesCounted
<1>2. CodesCounted => CodesAreFresh
  BY DEF CodesCounted, CodesNumbered, CodesAreFresh
<1> QED
  BY <1>1, <1>2, CodesStep, PTL DEF WalkSpec

-----------------------------------------------------------------------------
\* A visit that was told is on the profile step with the bot inside, or over; an
\* outcome ends the visit.
FinishersAreMembers ==
    /\ "told" \in tried => step \in {"finish", "done"}
    /\ step = "finish" /\ "told" \in tried => user = "bot" /\ Inside
    /\ step = "finish" => tried \cap {"told", "onboarding"} # {}
    /\ outcome # "none" => step = "done"

ReportInv == FinishersAreMembers /\ OutcomesAreTrue

\* A visit that goes on before the profile step has nothing to report yet.
LEMMA GoingOn ==
    ASSUME ReportInv, step \notin {"finish", "done"}, UNCHANGED outcome,
           step' \notin {"finish", "done"}, "told" \in tried' => "told" \in tried
    PROVE  ReportInv'
  BY DEF ReportInv, FinishersAreMembers, OutcomesAreTrue

\* A visit that stops where it stands, before the profile step or in it.
LEMMA Stopping ==
    ASSUME ReportInv, step # "done", NEW verdict, Stop(verdict), UNCHANGED <<user, member>>,
           \/ verdict \notin {"joined", "profile_incomplete"} /\ step # "finish"
           \/ step = "finish" /\ verdict = "joined" /\ (user = "bot" => member # "open")
           \/ step = "finish" /\ verdict # "joined"
    PROVE  ReportInv'
<1>1. step' = "done" /\ outcome' = verdict /\ tried' = tried
  BY DEF Stop, visit
<1>2. Inside' = Inside
  BY DEF Inside
<1> QED
  BY <1>1, <1>2 DEF ReportInv, FinishersAreMembers, OutcomesAreTrue, Inside

\* Another pass of the profile step.
LEMMA PassingOn ==
    ASSUME ReportInv, step = "finish", step' = "finish", UNCHANGED <<outcome, tried>>,
           user = "bot" /\ Inside => (user = "bot" /\ Inside)'
    PROVE  ReportInv'
  BY DEF ReportInv, FinishersAreMembers, OutcomesAreTrue

\* The walk comes to the profile step.
LEMMA Finishing ==
    ASSUME ReportInv, step \notin {"finish", "done"}, NEW why \in {"told", "onboarding"},
           Finish(why), Look, why = "told" => "member" \in Replies
    PROVE  ReportInv'
<1>1. step' = "finish" /\ UNCHANGED outcome /\ tried' = tried \cup {why}
  BY DEF Finish, GoOn
<1>2. UNCHANGED <<user, member>> /\ Inside' = Inside
  BY DEF Look, site, Inside
<1>3. why = "told" => user = "bot" /\ Inside
  <2>1. Account = "member" => user = "bot" /\ Inside
    BY DEF Account
  <2>2. why = "told" => Account = "member"
    BY DEF Replies
  <2> QED
    BY <2>1, <2>2
<1> QED
  BY <1>1, <1>2, <1>3 DEF ReportInv, FinishersAreMembers, OutcomesAreTrue

\* The emailed code, asked before the profile step or in it.
LEMMA CodeReports ==
    ASSUME ReportInv, NEW verdict \in {"login_code_needed", "email_code_needed"}, NEW next, NEW again,
           CodeStep(verdict, next, again),
           \/ step \notin {"finish", "done"} /\ next \notin {"finish", "done"}
           \/ step = "finish" /\ next = "finish"
    PROVE  ReportInv'
<1> USE DEF Look, site
<1>1. CASE Stop(verdict) /\ UNCHANGED <<user, member>>
  BY <1>1, Stopping
<1>2. CASE GoOn(next) /\ user' \in {user, "bot"} /\ UNCHANGED <<member, tried>>
  <2>1. step' = next /\ UNCHANGED outcome
    BY <1>2 DEF GoOn
  <2>2. user = "bot" /\ Inside => (user = "bot" /\ Inside)'
    BY <1>2 DEF Inside
  <2> QED
    BY <1>2, <2>1, <2>2, GoingOn, PassingOn
<1> QED
  BY <1>1, <1>2 DEF CodeStep

LEMMA ReportStep == ReportInv /\ [WalkNext]_walkVars => ReportInv'
<1> SUFFICES ASSUME ReportInv, [WalkNext]_walkVars PROVE ReportInv'
  OBVIOUS
<1> USE DEF Look, site, GoOn, NextRound, SignInFirst, visit
<1>1. CASE Open
  BY <1>1, Stopping, GoingOn DEF Open
<1>2. CASE TopOfRound
  BY <1>2, Stopping, GoingOn, CodeReports DEF TopOfRound
<1>3. CASE StoppedByGate \/ NoJoin \/ SignInFails
  BY <1>3, Stopping DEF StoppedByGate, NoJoin, PastTheGate, SignInFails
<1>4. CASE DriverError
  BY <1>4, Stopping DEF DriverError
<1>5. CASE AlreadyMember
  BY <1>5, Finishing DEF AlreadyMember
<1>6. CASE SignInAtGate \/ ClickJoin \/ SignInAfterClick \/ LoginHop \/ SubmitLogin
  BY <1>6, GoingOn DEF SignInAtGate, ClickJoin, PastTheGate, SignInAfterClick,
                      LoginHop, SubmitLogin
<1>7. CASE StepIntoSpace
  BY <1>7, GoingOn DEF StepIntoSpace, PastTheGate, ReportInv, FinishersAreMembers,
                      OutcomesAreTrue, Inside
<1>8. CASE AfterClick \/ AfterSignUp
  BY <1>8, CodeReports, GoingOn DEF AfterClick, AfterSignUp, CodeAfterClick
<1>9. ASSUME NEW unknown \in {"unclear", "application_form_detected"},
             step \notin {"finish", "done"}, Reading(unknown)
      PROVE  ReportInv'
  BY <1>9, Stopping, Finishing DEF Reading
<1>10. CASE ReadPage \/ ReadSignedUp
  BY <1>9, <1>10 DEF ReadPage, ReadSignedUp
<1>11. CASE FormAppears
  BY <1>11, Stopping, GoingOn DEF FormAppears
<1>12. CASE AfterLogin
  BY <1>12, CodeReports, GoingOn DEF AfterLogin
<1>13. CASE CheckLogin
  BY <1>13, Stopping, GoingOn DEF CheckLogin
<1>14. CASE SignUp
  BY <1>14, Stopping, GoingOn DEF SignUp
<1>15. CASE Readable
  BY <1>15, Stopping DEF Readable
<1>16. CASE Onboarding
  <2>1. CASE CodeStep("email_code_needed", "finish", 1)
    BY <1>16, <2>1, CodeReports DEF Onboarding
  <2>2. CASE NextPass /\ Look
    BY <1>16, <2>2, PassingOn DEF Onboarding, NextPass, Inside
  <2>3. CASE Stop("unclear") /\ Look
    BY <1>16, <2>3, Stopping DEF Onboarding
  <2> QED
    BY <1>16, <2>1, <2>2, <2>3 DEF Onboarding
<1>17. CASE ProfileStep
  <2>1. CASE Stop("profile_incomplete") /\ UNCHANGED member
    BY <1>17, <2>1, Stopping DEF ProfileStep
  <2>2. CASE NextPass /\ (IF user = "bot" THEN member' \in {"open", "in"} ELSE UNCHANGED member)
    BY <1>17, <2>2, PassingOn DEF ProfileStep, NextPass, Inside
  <2> QED
    BY <1>17, <2>1, <2>2 DEF ProfileStep
<1>18. CASE OutOfPasses
  BY <1>18, Stopping DEF OutOfPasses
<1>19. CASE UNCHANGED walkVars
  BY <1>19 DEF walkVars, ReportInv, FinishersAreMembers, OutcomesAreTrue, Inside
<1> QED
  BY <1>1, <1>2, <1>3, <1>4, <1>5, <1>6, <1>7, <1>8, <1>10, <1>11, <1>12, <1>13, <1>14, <1>15,
     <1>16, <1>17, <1>18, <1>19 DEF WalkNext

LEMMA ReportStart == WalkInit => ReportInv
  BY DEF WalkInit, WalkFrom, ReportInv, FinishersAreMembers, OutcomesAreTrue

(* A visit that Circle's API told of the membership reports it only with   *)
(* the bot's own account inside, whatever pages it is shown, whoever the   *)
(* browser is signed in as, whenever a code is asked for and however often *)
(* the API is silent; one that was not told reports it only behind the     *)
(* address of a new member's profile (run and _finish_membership,          *)
(* cdp_join.py).                                                           *)
THEOREM VisitsTellTheTruth == WalkSpec => []OutcomesAreTrue
<1>1. ReportInv => OutcomesAreTrue
  BY DEF ReportInv
<1> QED
  BY <1>1, ReportStart, ReportStep, PTL DEF WalkSpec

=============================================================================

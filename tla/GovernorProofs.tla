-------------------------- MODULE GovernorProofs ----------------------------
(***************************************************************************)
(* The shared pace and the pause survive any number of requesters, dead    *)
(* holders and take-overs, as long as no live holder's lock is removed.    *)
(***************************************************************************)
EXTENDS Governor, FiniteSetTheorems, TLAPS

\* What has been read is no younger than the clock.
SnapsArePast == \A p \in Procs : snap[p].highSeenAt <= now

TypeInv == TypeOK /\ SnapsArePast

\* Whoever is between mkdir() and rmdir() made the directory that is there.
HolderAlone == robbed \/ \A p \in Procs : pc[p] \in Critical => holder = p

\* What was read under the lock is still what the file says.
ReadsAreFresh == robbed \/ \A p \in Procs : pc[p] = "deciding" => snap[p] = file

\* Every slot granted is behind the file's nextAt.
PaceCovers ==
    robbed \/ \A i \in DOMAIN booked : booked[i].slot + Interval <= file.nextAt

IInv ==
    /\ TypeInv
    /\ HolderAlone
    /\ ReadsAreFresh
    /\ PaceCovers
    /\ SlotsApart

-----------------------------------------------------------------------------
(* The operators of the budget.                                            *)

LEMMA MaxOfFour ==
    ASSUME NEW a \in Nat, NEW b \in Nat, NEW c \in Nat, NEW d \in Nat
    PROVE  /\ Max({a, b, c, d}) \in Nat
           /\ Max({a, b, c, d}) >= a
           /\ Max({a, b, c, d}) >= b
           /\ \A x \in {a, b, c, d} : Max({a, b, c, d}) >= x
<1> DEFINE S == {a, b, c, d}
<1>1. \E m \in S : \A x \in S : m >= x
  OBVIOUS
<1>2. Max(S) \in S /\ \A x \in S : Max(S) >= x
  BY <1>1 DEF Max
<1> QED
  BY <1>2

LEMMA MaxOfTwo ==
    ASSUME NEW a \in Nat, NEW b \in Nat
    PROVE  Max({a, b}) \in Nat /\ Max({a, b}) >= a /\ Max({a, b}) >= b
<1>1. {a, b} = {a, b, a, b}
  OBVIOUS
<1> QED
  BY <1>1, MaxOfFour

LEMMA RecentHourType ==
    ASSUME NEW s \in Budget, now \in Nat PROVE RecentHour(s) \in Seq(Nat)
<1>1. s.hour \in Seq(Nat) /\ Len(s.hour) \in Nat
  BY DEF Budget
<1>2. Cardinality(Expired(s)) \in Nat
  <2>1. IsFiniteSet(1 .. Len(s.hour))
    BY <1>1, FS_Interval
  <2>2. Expired(s) \subseteq 1 .. Len(s.hour)
    BY <1>1 DEF Expired
  <2> QED
    BY <2>1, <2>2, FS_Subset, FS_CardinalityType
<1> QED
  BY <1>1, <1>2 DEF RecentHour

LEMMA SlotIsLater ==
    ASSUME NEW s \in Budget, NEW level, now \in Nat
    PROVE  /\ SlotFor(s, level) \in Nat
           /\ SlotFor(s, level) >= now
           /\ SlotFor(s, level) >= s.nextAt
           /\ \A x \in ProbeFrom(s, level) \cup HourFrom(s, RecentHour(s)) :
                 SlotFor(s, level) >= x
<1> DEFINE hour == RecentHour(s)
<1>1. s.nextAt \in Nat /\ s.lowNextAt \in Nat /\ s.maxPerHour \in Nat
  BY DEF Budget
<1>2. \E c \in Nat : ProbeFrom(s, level) = {c} \/ ProbeFrom(s, level) = {}
  BY <1>1 DEF ProbeFrom
<1>3. \E d \in Nat : HourFrom(s, hour) = {d} \/ HourFrom(s, hour) = {}
  <2>1. hour \in Seq(Nat) /\ HourLen \in Nat
    BY RecentHourType, LimitsAssumption
  <2> HIDE DEF hour
  <2>2. CASE s.maxPerHour > 0 /\ Len(hour) >= s.maxPerHour
    <3>1. hour[Len(hour) - s.maxPerHour + 1] \in Nat
      BY <2>1, <2>2, <1>1
    <3> QED
      BY <2>1, <2>2, <3>1 DEF HourFrom
  <2>3. CASE ~ (s.maxPerHour > 0 /\ Len(hour) >= s.maxPerHour)
    BY <2>3 DEF HourFrom
  <2> QED
    BY <2>2, <2>3
<1> HIDE DEF hour
<1>4. PICK c \in Nat : ProbeFrom(s, level) = {c} \/ ProbeFrom(s, level) = {}
  BY <1>2
<1>5. PICK d \in Nat : HourFrom(s, hour) = {d} \/ HourFrom(s, hour) = {}
  BY <1>3
<1>6. \E e \in Nat, f \in Nat :
        {now, s.nextAt} \cup ProbeFrom(s, level) \cup HourFrom(s, hour)
            = {now, s.nextAt, e, f}
  <2>1. CASE ProbeFrom(s, level) = {c} /\ HourFrom(s, hour) = {d}
    BY <2>1
  <2>2. CASE ProbeFrom(s, level) = {c} /\ HourFrom(s, hour) = {}
    <3>1. {now, s.nextAt} \cup ProbeFrom(s, level) \cup HourFrom(s, hour)
            = {now, s.nextAt, c, now}
      BY <2>2
    <3> QED
      BY <3>1
  <2>3. CASE ProbeFrom(s, level) = {} /\ HourFrom(s, hour) = {d}
    <3>1. {now, s.nextAt} \cup ProbeFrom(s, level) \cup HourFrom(s, hour)
            = {now, s.nextAt, now, d}
      BY <2>3
    <3> QED
      BY <3>1
  <2>4. CASE ProbeFrom(s, level) = {} /\ HourFrom(s, hour) = {}
    <3>1. {now, s.nextAt} \cup ProbeFrom(s, level) \cup HourFrom(s, hour)
            = {now, s.nextAt, now, now}
      BY <2>4
    <3> QED
      BY <3>1
  <2> QED
    BY <1>4, <1>5, <2>1, <2>2, <2>3, <2>4
<1>7. PICK e \in Nat, f \in Nat :
        {now, s.nextAt} \cup ProbeFrom(s, level) \cup HourFrom(s, hour)
            = {now, s.nextAt, e, f}
  BY <1>6
<1>8. SlotFor(s, level) = Max({now, s.nextAt, e, f})
  BY <1>7 DEF SlotFor, hour
<1>9. now \in Nat /\ s.nextAt \in Nat
  BY <1>1
<1>10. /\ Max({now, s.nextAt, e, f}) \in Nat
       /\ Max({now, s.nextAt, e, f}) >= now
       /\ Max({now, s.nextAt, e, f}) >= s.nextAt
       /\ \A x \in {now, s.nextAt, e, f} : Max({now, s.nextAt, e, f}) >= x
  BY <1>9, MaxOfFour, Zenon
<1>11. \A x \in ProbeFrom(s, level) \cup HourFrom(s, hour) : SlotFor(s, level) >= x
  BY <1>7, <1>8, <1>10, Zenon
<1> QED
  BY <1>8, <1>10, <1>11 DEF hour

LEMMA WithSlotType ==
    ASSUME NEW s \in Budget, NEW level, NEW slot \in Nat, now \in Nat,
           s.highSeenAt <= now
    PROVE  /\ WithSlot(s, level, slot) \in Budget
           /\ WithSlot(s, level, slot).highSeenAt <= now
           /\ WithSlot(s, level, slot).nextAt = slot + Interval
           /\ WithSlot(s, level, slot).cooldownUntil = s.cooldownUntil
           /\ WithSlot(s, level, slot).maxPerHour = s.maxPerHour
           /\ WithSlot(s, level, slot).hour = Append(RecentHour(s), slot)
           /\ WithSlot(s, level, slot).lowNextAt =
                 (IF level = Low THEN slot + 2 * Interval ELSE s.lowNextAt)
<1>1. RecentHour(s) \in Seq(Nat) /\ Interval \in Nat
  BY RecentHourType, LimitsAssumption
<1>2. Append(RecentHour(s), slot) \in Seq(Nat)
  BY <1>1
<1> DEFINE low == IF level = Low THEN slot + 2 * Interval ELSE s.lowNextAt
           seen == IF level = High THEN now ELSE s.highSeenAt
           hour == Append(RecentHour(s), slot)
           next == slot + Interval
           new == [s EXCEPT !.nextAt = next, !.lowNextAt = low,
                            !.highSeenAt = seen, !.hour = hour]
<1>3. low \in Nat /\ seen \in Nat /\ seen <= now /\ next \in Nat
  BY <1>1 DEF Budget
<1>4. WithSlot(s, level, slot) = new
  BY Zenon DEF WithSlot
<1> HIDE DEF low, seen, hour, next
<1>5. /\ new \in Budget /\ new.highSeenAt = seen /\ new.nextAt = next
      /\ new.cooldownUntil = s.cooldownUntil /\ new.maxPerHour = s.maxPerHour
      /\ new.hour = hour /\ new.lowNextAt = low
  BY <1>2, <1>3 DEF Budget, hour
<1> QED
  BY <1>3, <1>4, <1>5 DEF next, hour, low

-----------------------------------------------------------------------------
(* Types.                                                                  *)

LEMMA TypeInit == Init => TypeInv
<1> SUFFICES ASSUME Init PROVE TypeInv
  OBVIOUS
<1>1. NoBudget \in Budget /\ NoBudget.highSeenAt = 0
  BY LimitsAssumption DEF NoBudget, Budget
<1>2. file \in Budget /\ file.highSeenAt = 0
  BY <1>1, LimitsAssumption DEF Init, Budget
<1>3. now \in Nat
  BY LimitsAssumption DEF Init
<1>4. TypeOK
  <2>1. /\ pc \in [Procs -> Critical \cup
                 {"idle", "locking", "breaking", "sleeping", "napping", "sending"}]
        /\ task \in [Procs -> Tasks] /\ snap \in [Procs -> Budget]
        /\ patience \in [Procs -> Nat] /\ wake \in [Procs -> Nat]
        /\ paused \in [Procs -> Nat]
    BY <1>1 DEF Init, Tasks, Levels, High
  <2>2. booked \in Seq([slot : Nat, yields : BOOLEAN, level : Levels])
    BY DEF Init
  <2>3. /\ mtime \in Nat /\ mtime <= now /\ tripped \in Nat /\ tripped <= now
        /\ requests \in 0 .. MaxRequests /\ trips \in 0 .. MaxTrips
        /\ crashes \in 0 .. MaxCrashes
    BY <1>3, LimitsAssumption DEF Init
  <2>4. file.highSeenAt <= now /\ holder \in Procs \cup {NoProc} /\ robbed \in BOOLEAN
    <3>1. file.highSeenAt <= now
      BY <1>2, <1>3
    <3> QED
      BY <3>1 DEF Init
  <2> QED
    BY <1>2, <1>3, <2>1, <2>2, <2>3, <2>4 DEF TypeOK
<1>5. SnapsArePast
  BY <1>1, <1>3 DEF Init, SnapsArePast
<1> QED
  BY <1>4, <1>5 DEF TypeInv

LEMMA TypeStep == TypeInv /\ [Next]_vars => TypeInv'
<1> SUFFICES ASSUME TypeInv, [Next]_vars PROVE TypeInv'
  OBVIOUS
<1> USE LimitsAssumption, ProcsAssumption
<1> USE DEF TypeInv, TypeOK, SnapsArePast, lock, counts, pause
<1>0. NoBudget \in Budget /\ NoBudget.highSeenAt <= now
  BY DEF NoBudget, Budget
<1>1. ASSUME NEW p \in Procs, NEW level \in Levels, Ask(p, level) PROVE TypeInv'
  BY <1>1 DEF Ask, WaitFor, Become, Tasks
<1>2. ASSUME NEW p \in Procs, TakeLock(p) PROVE TypeInv'
  BY <1>2 DEF TakeLock, Become, Critical
<1>3. ASSUME NEW p \in Procs, GiveUpOnHolder(p) PROVE TypeInv'
  BY <1>3 DEF GiveUpOnHolder, Become
<1>4. ASSUME NEW p \in Procs, BreakLock(p) PROVE TypeInv'
  BY <1>4 DEF BreakLock, RemoveLock, Become
<1>5. ASSUME NEW p \in Procs, ReadFile(p) PROVE TypeInv'
  BY <1>5 DEF ReadFile, Become, Critical
<1>6. ASSUME NEW p \in Procs, Book(p) PROVE TypeInv'
  <2> DEFINE slot == SlotFor(snap[p], task[p])
             entry == [slot |-> slot, yields |-> now < snap[p].highSeenAt + HighActive,
                       level |-> task[p]]
  <2>1. slot \in Nat
    BY SlotIsLater
  <2>2. file' \in Budget /\ file'.highSeenAt <= now
    BY <1>6, <2>1, WithSlotType DEF Book
  <2>3. booked' \in Seq([slot : Nat, yields : BOOLEAN, level : Levels])
    <3>1. entry \in [slot : Nat, yields : BOOLEAN, level : Levels]
      BY <1>6, <2>1 DEF Book, Levels
    <3>2. booked' = Append(booked, entry)
      BY <1>6 DEF Book
    <3> QED
      BY <3>1, <3>2
  <2>4. wake' \in [Procs -> Nat] /\ pc' = [pc EXCEPT ![p] = "granted"]
    BY <1>6, <2>1 DEF Book, Become
  <2> HIDE DEF slot, entry
  <2> QED
    BY <1>6, <2>2, <2>3, <2>4 DEF Book, Critical
<1>7. ASSUME NEW p \in Procs, Refuse(p) PROVE TypeInv'
  BY <1>7 DEF Refuse, Become, Critical
<1>8. ASSUME NEW p \in Procs, WriteTrip(p) PROVE TypeInv'
  <2>1. file' \in Budget /\ file'.highSeenAt <= now
    <3>1. snap[p] \in Budget /\ now + Cooldown \in Nat /\ snap[p].highSeenAt <= now
      OBVIOUS
    <3>2. /\ [snap[p] EXCEPT !.cooldownUntil = now + Cooldown] \in Budget
          /\ [snap[p] EXCEPT !.cooldownUntil = now + Cooldown].highSeenAt <= now
      BY <3>1 DEF Budget
    <3>3. \/ file' = [snap[p] EXCEPT !.cooldownUntil = now + Cooldown]
          \/ file' = file
      BY <1>8 DEF WriteTrip
    <3> QED
      BY <3>2, <3>3
  <2>2. /\ tripped' \in Nat /\ tripped' <= now
        /\ paused' \in [Procs -> Nat]
    <3>1. /\ tripped' = now \/ tripped' = tripped
          /\ paused' = [q \in Procs |-> 0] \/ paused' = paused
      BY <1>8 DEF WriteTrip
    <3> QED
      BY <3>1
  <2> QED
    BY <1>8, <2>1, <2>2 DEF WriteTrip, Become, Critical
<1>9. ASSUME NEW p \in Procs, Recheck(p) PROVE TypeInv'
  BY <1>9 DEF Recheck, Become, Critical
<1>10. ASSUME NEW p \in Procs, Release(p) PROVE TypeInv'
  <2>1. Onward(p) \in {"sleeping", "sending", "napping", "idle"}
    BY <1>10 DEF Onward, Release
  <2>2. wake' \in [Procs -> Nat]
    <3> DEFINE until == Min({snap[p].cooldownUntil, now + Nap})
    <3>1. snap[p].cooldownUntil \in Nat
      BY DEF Budget
    <3>2. until \in Nat
      <4>1. \E m \in {snap[p].cooldownUntil, now + Nap} :
               \A x \in {snap[p].cooldownUntil, now + Nap} : m <= x
        BY <3>1
      <4> QED
        BY <3>1, <4>1 DEF Min
    <3>3. Max({now + 1, until}) \in Nat
      <4> HIDE DEF until
      <4>1. now + 1 \in Nat
        OBVIOUS
      <4> QED
        BY <3>2, <4>1, MaxOfTwo
    <3> QED
      BY <1>10, <3>3 DEF Release
  <2> QED
    BY <1>0, <1>10, <2>1, <2>2 DEF Release, RemoveLock, Drop, Become, Tasks, Levels
<1>11. ASSUME NEW p \in Procs, SlotComes(p) PROVE TypeInv'
  <2>1. CASE p \in Desktop
    <3>1. /\ task' = [task EXCEPT ![p] = "recheck"]
          /\ patience' = [patience EXCEPT ![p] = now + LockPatience]
          /\ pc' = [pc EXCEPT ![p] = "locking"]
          /\ wake' = [wake EXCEPT ![p] = 0]
      BY <1>11, <2>1 DEF SlotComes, WaitFor, Become
    <3>2. "recheck" \in Tasks
      BY DEF Tasks
    <3> QED
      BY <1>11, <3>1, <3>2 DEF SlotComes
  <2>2. CASE p \notin Desktop
    BY <1>11, <2>2 DEF SlotComes, Become
  <2> QED
    BY <2>1, <2>2
<1>12. ASSUME NEW p \in Procs, NapOver(p) PROVE TypeInv'
  BY <1>12 DEF NapOver, WaitFor, Become
<1>13. ASSUME NEW p \in Procs, SendOk(p) PROVE TypeInv'
  BY <1>0, <1>13 DEF SendOk, Sends, Drop, Become, Tasks, Levels
<1>14. ASSUME NEW p \in Procs, SendRefused(p) PROVE TypeInv'
  BY <1>14 DEF SendRefused, Sends, WaitFor, Become, Tasks
<1>15. ASSUME NEW p \in Procs, Crash(p) PROVE TypeInv'
  BY <1>0, <1>15 DEF Crash, Drop, Become, Tasks, Levels
<1>16. CASE Tick
  <2>1. now' = now + 1 /\ UNCHANGED snap /\ UNCHANGED file
    BY <1>16 DEF Tick
  <2>2. file.highSeenAt \in Nat /\ \A p \in Procs : snap[p].highSeenAt \in Nat
    BY DEF Budget
  <2>3. file'.highSeenAt <= now' /\ SnapsArePast'
    BY <2>1, <2>2
  <2> QED
    BY <1>16, <2>1, <2>3 DEF Tick
<1>17. CASE UNCHANGED vars
  BY <1>17 DEF vars
<1> QED
  BY <1>1, <1>2, <1>3, <1>4, <1>5, <1>6, <1>7, <1>8, <1>9, <1>10, <1>11, <1>12,
     <1>13, <1>14, <1>15, <1>16, <1>17 DEF Next, Step

-----------------------------------------------------------------------------
(* The lock.                                                               *)

LEMMA HolderStep == IInv /\ [Next]_vars => HolderAlone'
<1> SUFFICES ASSUME IInv, [Next]_vars PROVE HolderAlone'
  OBVIOUS
<1> USE ProcsAssumption
<1> USE DEF IInv, TypeInv, TypeOK, HolderAlone, lock, counts, pause
\* A step that leaves the lock alone and lets nobody into the critical section.
<1>1. ASSUME UNCHANGED <<holder, robbed>>, NEW p \in Procs,
             NEW state, pc' = [pc EXCEPT ![p] = state],
             state \in Critical => pc[p] \in Critical
      PROVE  HolderAlone'
  BY <1>1
<1>2. ASSUME NEW p \in Procs, NEW level \in Levels, Ask(p, level) PROVE HolderAlone'
  BY <1>1, <1>2 DEF Ask, WaitFor, Become, Critical
<1>3. ASSUME NEW p \in Procs, TakeLock(p) PROVE HolderAlone'
  BY <1>3 DEF TakeLock, Become
<1>4. ASSUME NEW p \in Procs, GiveUpOnHolder(p) PROVE HolderAlone'
  BY <1>1, <1>4 DEF GiveUpOnHolder, Become, Critical
<1>5. ASSUME NEW p \in Procs, BreakLock(p) PROVE HolderAlone'
  <2>1. pc' = [pc EXCEPT ![p] = "locking"] /\ pc[p] \notin Critical
    BY <1>5 DEF BreakLock, Become, Critical
  <2>2. robbed' \/ \A q \in Procs : pc[q] \notin Critical
    BY <1>5, <2>1 DEF BreakLock, RemoveLock
  <2> QED
    BY <2>1, <2>2 DEF Critical
<1>6. ASSUME NEW p \in Procs, ReadFile(p) PROVE HolderAlone'
  BY <1>1, <1>6 DEF ReadFile, Become, Critical
<1>7. ASSUME NEW p \in Procs, Book(p) PROVE HolderAlone'
  <2>1. pc[p] \in Critical /\ pc' = [pc EXCEPT ![p] = "granted"]
    BY <1>7 DEF Book, Become, Critical
  <2> QED
    BY <1>1, <1>7, <2>1 DEF Book
<1>8. ASSUME NEW p \in Procs, Refuse(p) PROVE HolderAlone'
  BY <1>1, <1>8 DEF Refuse, Become, Critical
<1>9. ASSUME NEW p \in Procs, WriteTrip(p) PROVE HolderAlone'
  BY <1>1, <1>9 DEF WriteTrip, Become, Critical
<1>10. ASSUME NEW p \in Procs, Recheck(p) PROVE HolderAlone'
  BY <1>1, <1>10 DEF Recheck, Become, Critical
<1>11. ASSUME NEW p \in Procs, Release(p) PROVE HolderAlone'
  <2>1. /\ pc' = [pc EXCEPT ![p] = Onward(p)] /\ pc[p] \in Critical
        /\ Onward(p) \notin Critical
    BY <1>11 DEF Release, Drop, Become, Onward, Critical
  <2>2. robbed' \/ holder = p
    BY <1>11, <2>1 DEF Release, RemoveLock
  <2>3. robbed' \/ \A q \in Procs : pc[q] \in Critical => q = p
    BY <1>11, <2>2 DEF Release, RemoveLock
  <2> QED
    BY <2>1, <2>3
<1>12. ASSUME NEW p \in Procs, SlotComes(p) PROVE HolderAlone'
  BY <1>1, <1>12 DEF SlotComes, WaitFor, Become, Critical
<1>13. ASSUME NEW p \in Procs, NapOver(p) PROVE HolderAlone'
  BY <1>1, <1>13 DEF NapOver, WaitFor, Become, Critical
<1>14. ASSUME NEW p \in Procs, SendOk(p) PROVE HolderAlone'
  BY <1>1, <1>14 DEF SendOk, Sends, Drop, Become, Critical
<1>15. ASSUME NEW p \in Procs, SendRefused(p) PROVE HolderAlone'
  BY <1>1, <1>15 DEF SendRefused, Sends, WaitFor, Become, Critical
<1>16. ASSUME NEW p \in Procs, Crash(p) PROVE HolderAlone'
  BY <1>1, <1>16 DEF Crash, Drop, Become, Critical
<1>17. CASE Tick
  BY <1>17 DEF Tick
<1>18. CASE UNCHANGED vars
  BY <1>18 DEF vars
<1> QED
  BY <1>2, <1>3, <1>4, <1>5, <1>6, <1>7, <1>8, <1>9, <1>10, <1>11, <1>12, <1>13,
     <1>14, <1>15, <1>16, <1>17, <1>18 DEF Next, Step

-----------------------------------------------------------------------------
(* The budget under the lock.                                              *)

\* Nobody else is between mkdir() and rmdir() while the budget is written.
LEMMA AloneInside ==
    ASSUME IInv, ~ robbed, NEW p \in Procs, NEW q \in Procs,
           pc[p] \in Critical, pc[q] \in Critical
    PROVE  p = q
  BY DEF IInv, HolderAlone

LEMMA FreshStep == IInv /\ [Next]_vars => ReadsAreFresh'
<1> SUFFICES ASSUME IInv, [Next]_vars PROVE ReadsAreFresh'
  OBVIOUS
<1> USE DEF IInv, TypeInv, TypeOK, ReadsAreFresh, lock, counts, pause
\* A step that writes nothing and lets nobody start deciding.
<1>1. ASSUME UNCHANGED file, robbed => robbed',
             \A q \in Procs : pc'[q] = "deciding" =>
                               pc[q] = "deciding" /\ snap'[q] = snap[q]
      PROVE  ReadsAreFresh'
  BY <1>1
\* A step that writes the file leaves nobody deciding on the old one.
<1>2. ASSUME NEW p \in Procs, pc[p] = "deciding", UNCHANGED <<robbed, snap>>,
             NEW state, pc' = [pc EXCEPT ![p] = state], state # "deciding"
      PROVE  ReadsAreFresh'
  <2>1. robbed \/ \A q \in Procs : pc[q] = "deciding" => q = p
    BY <1>2, AloneInside DEF Critical
  <2> QED
    BY <1>2, <2>1
<1>3. ASSUME NEW p \in Procs, NEW level \in Levels, Ask(p, level) PROVE ReadsAreFresh'
  BY <1>1, <1>3 DEF Ask, WaitFor, Become
<1>4. ASSUME NEW p \in Procs, TakeLock(p) PROVE ReadsAreFresh'
  BY <1>1, <1>4 DEF TakeLock, Become
<1>5. ASSUME NEW p \in Procs, GiveUpOnHolder(p) PROVE ReadsAreFresh'
  BY <1>1, <1>5 DEF GiveUpOnHolder, Become
<1>6. ASSUME NEW p \in Procs, BreakLock(p) PROVE ReadsAreFresh'
  BY <1>1, <1>6 DEF BreakLock, RemoveLock, Become
<1>7. ASSUME NEW p \in Procs, ReadFile(p) PROVE ReadsAreFresh'
  BY <1>7 DEF ReadFile, Become
<1>8. ASSUME NEW p \in Procs, Book(p) PROVE ReadsAreFresh'
  <2>1. pc' = [pc EXCEPT ![p] = "granted"]
    BY <1>8 DEF Book, Become
  <2> QED
    BY <1>2, <1>8, <2>1 DEF Book
<1>9. ASSUME NEW p \in Procs, Refuse(p) PROVE ReadsAreFresh'
  BY <1>1, <1>9 DEF Refuse, Become
<1>10. ASSUME NEW p \in Procs, WriteTrip(p) PROVE ReadsAreFresh'
  <2>1. pc' = [pc EXCEPT ![p] = "done"]
    BY <1>10 DEF WriteTrip, Become
  <2> QED
    BY <1>2, <1>10, <2>1 DEF WriteTrip
<1>11. ASSUME NEW p \in Procs, Recheck(p) PROVE ReadsAreFresh'
  BY <1>1, <1>11 DEF Recheck, Become
<1>12. ASSUME NEW p \in Procs, Release(p) PROVE ReadsAreFresh'
  <2>1. Onward(p) # "deciding"
    BY DEF Onward
  <2> QED
    BY <1>1, <1>12, <2>1 DEF Release, RemoveLock, Drop, Become
<1>13. ASSUME NEW p \in Procs, SlotComes(p) PROVE ReadsAreFresh'
  BY <1>1, <1>13 DEF SlotComes, WaitFor, Become
<1>14. ASSUME NEW p \in Procs, NapOver(p) PROVE ReadsAreFresh'
  BY <1>1, <1>14 DEF NapOver, WaitFor, Become
<1>15. ASSUME NEW p \in Procs, SendOk(p) PROVE ReadsAreFresh'
  BY <1>1, <1>15 DEF SendOk, Sends, Drop, Become
<1>16. ASSUME NEW p \in Procs, SendRefused(p) PROVE ReadsAreFresh'
  BY <1>1, <1>16 DEF SendRefused, Sends, WaitFor, Become
<1>17. ASSUME NEW p \in Procs, Crash(p) PROVE ReadsAreFresh'
  BY <1>1, <1>17 DEF Crash, Drop, Become
<1>18. CASE Tick
  BY <1>1, <1>18 DEF Tick
<1>19. CASE UNCHANGED vars
  BY <1>1, <1>19 DEF vars
<1> QED
  BY <1>3, <1>4, <1>5, <1>6, <1>7, <1>8, <1>9, <1>10, <1>11, <1>12, <1>13, <1>14,
     <1>15, <1>16, <1>17, <1>18, <1>19 DEF Next, Step

\* Only two steps write the file or book a slot.
LEMMA Writers ==
    ASSUME [Next]_vars
    PROVE  \/ UNCHANGED <<file, booked>> /\ (robbed => robbed')
           \/ \E p \in Procs : Book(p) \/ WriteTrip(p)
  BY DEF Next, Step, vars, lock, counts, pause, Ask, TakeLock, GiveUpOnHolder,
         BreakLock, ReadFile, Refuse, Recheck, Release, RemoveLock, SlotComes,
         NapOver, SendOk, SendRefused, Crash, Tick

\* What a trip writes, read off the fresh snapshot.
LEMMA TripWrites ==
    ASSUME IInv, ~ robbed, NEW p \in Procs, WriteTrip(p)
    PROVE  /\ UNCHANGED <<booked, robbed>>
           /\ file'.nextAt = file.nextAt
           /\ file'.cooldownUntil >= file.cooldownUntil
           /\ file'.hour = file.hour /\ file'.maxPerHour = file.maxPerHour
           /\ file'.lowNextAt = file.lowNextAt
<1>1. snap[p] = file /\ file \in Budget /\ now + Cooldown \in Nat
  <2>1. snap[p] = file
    BY DEF IInv, ReadsAreFresh, WriteTrip
  <2> QED
    BY <2>1, LimitsAssumption DEF IInv, TypeInv, TypeOK
<1>2. \/ file' = file
      \/ /\ file' = [file EXCEPT !.cooldownUntil = now + Cooldown]
         /\ now + Cooldown > file.cooldownUntil
  BY <1>1 DEF WriteTrip
<1> QED
  BY <1>1, <1>2 DEF WriteTrip, Budget

\* What the ceiling and the probes' clock have to do with the slot granted.
Granted(entry) ==
    /\ entry.slot >= now /\ entry.slot >= file.nextAt
    /\ \A x \in HourFrom(file, RecentHour(file)) : entry.slot >= x
    /\ file'.hour = Append(RecentHour(file), entry.slot)
    /\ file'.maxPerHour = file.maxPerHour
    /\ entry.level = Low /\ entry.yields => entry.slot >= file.lowNextAt
    /\ file'.lowNextAt = IF entry.level = Low THEN entry.slot + 2 * Interval ELSE file.lowNextAt

\* What a grant writes, read off the fresh snapshot.
LEMMA BookWrites ==
    ASSUME IInv, ~ robbed, NEW p \in Procs, Book(p)
    PROVE  /\ UNCHANGED robbed
           /\ file'.cooldownUntil = file.cooldownUntil
           /\ \E entry \in [slot : Nat, yields : BOOLEAN, level : Levels] :
                 /\ booked' = Append(booked, entry)
                 /\ entry.slot >= file.nextAt
                 /\ file'.nextAt = entry.slot + Interval
                 /\ Granted(entry)
<1> DEFINE slot == SlotFor(snap[p], task[p])
           entry == [slot |-> slot, yields |-> now < snap[p].highSeenAt + HighActive,
                     level |-> task[p]]
<1>1. snap[p] = file /\ file \in Budget /\ now \in Nat /\ file.highSeenAt <= now
  BY DEF IInv, TypeInv, TypeOK, ReadsAreFresh, Book
<1>2. slot \in Nat /\ slot >= file.nextAt
  BY <1>1, SlotIsLater
<1>3. file' = WithSlot(file, task[p], slot) /\ booked' = Append(booked, entry)
  BY <1>1 DEF Book
<1>4. entry \in [slot : Nat, yields : BOOLEAN, level : Levels]
  BY <1>2 DEF Book
<1>5. entry.slot = slot /\ entry.level = task[p] /\ (entry.yields = HighRecent(file))
  BY <1>1 DEF HighRecent
<1>6. /\ slot >= now /\ \A x \in HourFrom(file, RecentHour(file)) : slot >= x
      /\ task[p] = Low /\ HighRecent(file) => slot >= file.lowNextAt
  <2>1. slot >= now /\ \A x \in ProbeFrom(file, task[p]) \cup HourFrom(file, RecentHour(file)) :
                          slot >= x
    BY <1>1, SlotIsLater
  <2> HIDE DEF slot
  <2> QED
    BY <2>1 DEF ProbeFrom
<1> HIDE DEF slot, entry
<1>7. /\ file'.nextAt = slot + Interval /\ file'.cooldownUntil = file.cooldownUntil
      /\ file'.hour = Append(RecentHour(file), slot) /\ file'.maxPerHour = file.maxPerHour
      /\ file'.lowNextAt = IF task[p] = Low THEN slot + 2 * Interval ELSE file.lowNextAt
  <2> DEFINE f == WithSlot(file, task[p], slot)
  <2>1. /\ f.nextAt = slot + Interval /\ f.cooldownUntil = file.cooldownUntil
        /\ f.hour = Append(RecentHour(file), slot) /\ f.maxPerHour = file.maxPerHour
        /\ f.lowNextAt = IF task[p] = Low THEN slot + 2 * Interval ELSE file.lowNextAt
    <3> HIDE DEF f
    <3>1. slot \in Nat /\ now \in Nat /\ file \in Budget /\ file.highSeenAt <= now
      BY <1>1, <1>2
    <3> QED
      BY <3>1, WithSlotType DEF f
  <2> QED
    BY <1>3, <2>1, Zenon
<1>8. Granted(entry)
  BY <1>2, <1>5, <1>6, <1>7, Zenon DEF Granted
<1> QED
  BY <1>2, <1>3, <1>4, <1>5, <1>7, <1>8 DEF Book

LEMMA PaceStep == IInv /\ [Next]_vars => PaceCovers' /\ SlotsApart'
<1> SUFFICES ASSUME IInv, [Next]_vars, ~ robbed' PROVE PaceCovers' /\ SlotsApart'
  BY DEF PaceCovers, SlotsApart
<1>1. CASE UNCHANGED <<file, booked>> /\ (robbed => robbed')
  BY <1>1 DEF IInv, PaceCovers, SlotsApart
<1>2. ASSUME NEW p \in Procs, WriteTrip(p) PROVE PaceCovers' /\ SlotsApart'
  <2>1. ~ robbed
    BY <1>2 DEF WriteTrip
  <2> QED
    BY <1>2, <2>1, TripWrites DEF IInv, PaceCovers, SlotsApart
<1>3. ASSUME NEW p \in Procs, Book(p) PROVE PaceCovers' /\ SlotsApart'
  <2>1. ~ robbed
    BY <1>3 DEF Book
  <2>2. PICK entry \in [slot : Nat, yields : BOOLEAN, level : Levels] :
             /\ booked' = Append(booked, entry)
             /\ entry.slot >= file.nextAt
             /\ file'.nextAt = entry.slot + Interval
    BY <1>3, <2>1, BookWrites
  <2>3. /\ booked \in Seq([slot : Nat, yields : BOOLEAN, level : Levels])
        /\ file.nextAt \in Nat /\ Interval \in Nat /\ entry.slot \in Nat
    BY LimitsAssumption DEF IInv, TypeInv, TypeOK, Budget
  <2>4. \A i \in DOMAIN booked : /\ booked'[i] = booked[i]
                                 /\ booked[i].slot \in Nat
                                 /\ booked[i].slot + Interval <= file.nextAt
    <3> DEFINE R == [slot : Nat, yields : BOOLEAN, level : Levels]
    <3>1. \A i \in DOMAIN booked : booked[i] \in R
      <4>1. booked \in Seq(R)
        BY <2>3
      <4> HIDE DEF R
      <4> QED
        BY <4>1
    <3>2. \A i \in DOMAIN booked : booked'[i] = booked[i]
      BY <2>2, <2>3
    <3> QED
      BY <2>1, <3>1, <3>2 DEF IInv, PaceCovers
  <2>5. /\ DOMAIN booked' = DOMAIN booked \cup {Len(booked) + 1}
        /\ booked'[Len(booked) + 1] = entry
        /\ \A i \in DOMAIN booked : i < Len(booked) + 1
        /\ \A i \in DOMAIN booked' : i <= Len(booked) + 1
    BY <2>2, <2>3
  <2>6. \A i \in DOMAIN booked' : booked'[i].slot + Interval <= file'.nextAt
    BY <2>2, <2>3, <2>4, <2>5
  <2>7. \A i, j \in DOMAIN booked' :
           i < j => booked'[j].slot >= booked'[i].slot + Interval
    <3> SUFFICES ASSUME NEW i \in DOMAIN booked', NEW j \in DOMAIN booked', i < j
                 PROVE  booked'[j].slot >= booked'[i].slot + Interval
      OBVIOUS
    <3>1. i \in DOMAIN booked
      BY <2>3, <2>5
    <3>2. CASE j \in DOMAIN booked
      BY <2>1, <2>4, <3>1, <3>2 DEF IInv, SlotsApart
    <3>3. CASE j = Len(booked) + 1
      BY <2>2, <2>3, <2>4, <2>5, <3>1, <3>3
    <3> QED
      BY <2>5, <3>2, <3>3
  <2> QED
    BY <2>6, <2>7 DEF PaceCovers, SlotsApart
<1> QED
  BY <1>1, <1>2, <1>3, Writers

LEMMA PauseStep == IInv /\ [Next]_vars =>
                      (robbed' \/ file'.cooldownUntil >= file.cooldownUntil)
<1> SUFFICES ASSUME IInv, [Next]_vars, ~ robbed'
             PROVE  file'.cooldownUntil >= file.cooldownUntil
  OBVIOUS
<1>1. file.cooldownUntil \in Nat
  BY DEF IInv, TypeInv, TypeOK, Budget
<1>2. CASE UNCHANGED <<file, booked>>
  BY <1>1, <1>2
<1>3. ASSUME NEW p \in Procs, WriteTrip(p)
      PROVE  file'.cooldownUntil >= file.cooldownUntil
  BY <1>3, TripWrites DEF WriteTrip
<1>4. ASSUME NEW p \in Procs, Book(p)
      PROVE  file'.cooldownUntil >= file.cooldownUntil
  <2>1. ~ robbed
    BY <1>4 DEF Book
  <2>2. file'.cooldownUntil = file.cooldownUntil
    BY <1>4, <2>1, BookWrites
  <2> QED
    BY <1>1, <2>2
<1> QED
  BY <1>2, <1>3, <1>4, Writers

-----------------------------------------------------------------------------
(* The hourly ceiling and the probes.                                      *)

Entries == [slot : Nat, yields : BOOLEAN, level : Levels]

\* The hour in the file is the tail of the slots granted: what it no longer
\* holds started an hour ago.
HourIsBooked ==
    robbed \/ LET gone == Len(booked) - Len(file.hour) IN
       /\ gone >= 0
       /\ \A i \in DOMAIN file.hour : file.hour[i] = booked[gone + i].slot
       /\ \A i \in 1 .. gone : booked[i].slot + HourLen <= now

\* A slot starts an hour after the one that is as many before it as an hour allows.
HourApart ==
    robbed \/ file.maxPerHour = 0 \/
       \A j \in DOMAIN booked :
          j > file.maxPerHour => booked[j - file.maxPerHour].slot + HourLen <= booked[j].slot

\* The probes' own clock is behind every probe granted.
ProbesCovered ==
    robbed \/ \A i \in DOMAIN booked :
                 booked[i].level = Low => booked[i].slot + 2 * Interval <= file.lowNextAt

HInv == HourIsBooked /\ HourApart /\ ProbesCovered /\ ProbesAlternate

LEMMA HourStart == Init => HInv
<1> SUFFICES ASSUME Init PROVE HInv
  OBVIOUS
<1>1. booked = <<>> /\ file.hour = <<>>
  BY DEF Init, NoBudget
<1> QED
  BY <1>1 DEF HInv, HourIsBooked, HourApart, ProbesCovered, ProbesAlternate

LEMMA BookedEntries ==
    ASSUME IInv
    PROVE  /\ booked \in Seq(Entries) /\ Len(booked) \in Nat /\ DOMAIN booked = 1 .. Len(booked)
           /\ \A i \in 1 .. Len(booked) : booked[i] \in Entries /\ booked[i].slot \in Nat
<1>1. booked \in Seq(Entries)
  BY DEF IInv, TypeInv, TypeOK, Entries
<1>2. /\ Len(booked) \in Nat /\ DOMAIN booked = 1 .. Len(booked)
      /\ \A i \in 1 .. Len(booked) : booked[i] \in Entries
  BY <1>1
<1>3. \A x \in Entries : x.slot \in Nat
  BY DEF Entries
<1> QED
  BY <1>1, <1>2, <1>3, Zenon

\* Of slots in order, as many as there are expired ones come first and are those.
LEMMA ExpiredComeFirst ==
    ASSUME NEW q \in Seq(Nat), NEW E, NEW t \in Nat,
           E = {i \in DOMAIN q : q[i] + HourLen <= t},
           \A i, j \in 1 .. Len(q) : i < j => q[i] <= q[j]
    PROVE  /\ Cardinality(E) \in 0 .. Len(q)
           /\ \A i \in 1 .. Cardinality(E) : q[i] + HourLen <= t
<1>1. /\ Len(q) \in Nat /\ HourLen \in Nat /\ DOMAIN q = 1 .. Len(q)
      /\ \A i \in 1 .. Len(q) : q[i] \in Nat
  BY LimitsAssumption
<1>2. E \subseteq 1 .. Len(q)
  BY <1>1
<1>3. ASSUME NEW n \in Nat, E \subseteq 1 .. n
      PROVE  Cardinality(E) \in Nat /\ Cardinality(E) <= n
  <2>1. IsFiniteSet(1 .. n) /\ Cardinality(1 .. n) = n
    BY FS_Interval
  <2>2. IsFiniteSet(E) /\ Cardinality(E) <= Cardinality(1 .. n)
    BY <1>3, <2>1, FS_Subset
  <2> QED
    BY <2>1, <2>2, FS_CardinalityType
<1>4. Cardinality(E) \in 0 .. Len(q)
  BY <1>1, <1>2, <1>3
<1>5. ASSUME NEW i \in 1 .. Cardinality(E), ~ (q[i] + HourLen <= t) PROVE FALSE
  <2>1. i \in 1 .. Len(q) /\ i \in Nat /\ i - 1 \in Nat
    BY <1>1, <1>4
  <2>2. ASSUME NEW k \in E PROVE k \in 1 .. i - 1
    <3>1. k \in 1 .. Len(q) /\ q[k] + HourLen <= t
      BY <1>1
    <3>2. ~ (k >= i)
      <4> SUFFICES ASSUME k >= i PROVE FALSE
        OBVIOUS
      <4>1. q[i] <= q[k]
        BY <1>1, <2>1, <3>1
      <4> QED
        BY <1>1, <1>5, <2>1, <3>1, <4>1
    <3> QED
      BY <2>1, <3>1, <3>2
  <2>3. Cardinality(E) <= i - 1
    BY <1>3, <2>1, <2>2
  <2> QED
    BY <1>4, <2>1, <2>3
<1> QED
  BY <1>4, <1>5

LEMMA LaterPart ==
    ASSUME NEW q \in Seq(Nat), NEW e \in 0 .. Len(q)
    PROVE  /\ SubSeq(q, e + 1, Len(q)) \in Seq(Nat)
           /\ Len(SubSeq(q, e + 1, Len(q))) = Len(q) - e
           /\ \A i \in 1 .. Len(q) - e : SubSeq(q, e + 1, Len(q))[i] = q[e + i]
  OBVIOUS

\* The hour that is written back holds the later of the slots.
LEMMA RecentIsTail ==
    ASSUME NEW s \in Budget, now \in Nat,
           \A i, j \in 1 .. Len(s.hour) : i < j => s.hour[i] <= s.hour[j]
    PROVE  \E e \in 0 .. Len(s.hour) :
              /\ \A i \in 1 .. e : s.hour[i] + HourLen <= now
              /\ RecentHour(s) \in Seq(Nat) /\ Len(RecentHour(s)) = Len(s.hour) - e
              /\ \A i \in 1 .. Len(s.hour) - e : RecentHour(s)[i] = s.hour[e + i]
<1> DEFINE q == s.hour
           e == Cardinality(Expired(s))
<1>1. q \in Seq(Nat)
  BY DEF Budget
<1>2. Expired(s) = {i \in DOMAIN q : q[i] + HourLen <= now}
  BY DEF Expired
<1>3. RecentHour(s) = SubSeq(q, e + 1, Len(q))
  BY DEF RecentHour
<1>4. \A i, j \in 1 .. Len(q) : i < j => q[i] <= q[j]
  OBVIOUS
<1> HIDE DEF q
<1>5. e \in 0 .. Len(q) /\ \A i \in 1 .. e : q[i] + HourLen <= now
  BY <1>1, <1>2, <1>4, ExpiredComeFirst
<1> HIDE DEF e
<1>6. /\ RecentHour(s) \in Seq(Nat) /\ Len(RecentHour(s)) = Len(q) - e
      /\ \A i \in 1 .. Len(q) - e : RecentHour(s)[i] = q[e + i]
  BY <1>1, <1>3, <1>5, LaterPart
<1> QED
  BY <1>5, <1>6, Zenon DEF q

LEMMA TimeGoesOn == ASSUME TypeInv, [Next]_vars PROVE now' \in {now, now + 1}
  BY DEF Next, Step, vars, lock, counts, pause, Ask, TakeLock, GiveUpOnHolder, BreakLock, ReadFile,
         Book, Refuse, WriteTrip, Recheck, Release, SlotComes, NapOver, SendOk, SendRefused,
         Crash, Tick

\* A grant, seen from the list of slots.
LEMMA GrantKeepsHour ==
    ASSUME IInv, HInv, ~ robbed, NEW p \in Procs, Book(p) PROVE HInv'
<1> DEFINE n == Len(booked)
           q == file.hour
           h == Len(q)
           m == file.maxPerHour
           gone == n - h
           r == RecentHour(file)
           probe == file.lowNextAt
           next == file.nextAt
           s(i) == booked[i].slot
<1>1. /\ file \in Budget /\ now \in Nat /\ HourLen \in Nat /\ Interval \in Nat
      /\ m \in Nat /\ probe \in Nat /\ next \in Nat /\ q \in Seq(Nat)
  BY LimitsAssumption DEF IInv, TypeInv, TypeOK, Budget
<1>2. /\ booked \in Seq(Entries) /\ n \in Nat /\ DOMAIN booked = 1 .. n
      /\ \A i \in 1 .. n : booked[i] \in Entries /\ s(i) \in Nat
  BY BookedEntries
<1>3. PICK entry \in Entries : booked' = Append(booked, entry) /\ Granted(entry) /\ UNCHANGED robbed
  BY BookWrites DEF Entries
<1>4. /\ entry.slot \in Nat /\ entry.slot >= now /\ entry.slot >= next
      /\ file'.hour = Append(r, entry.slot) /\ file'.maxPerHour = m
      /\ \A x \in HourFrom(file, r) : entry.slot >= x
      /\ now' = now
      /\ entry.level = Low /\ entry.yields => entry.slot >= probe
      /\ file'.lowNextAt = IF entry.level = Low THEN entry.slot + 2 * Interval ELSE probe
  BY <1>3 DEF Granted, Entries, Book
<1>6. gone >= 0 /\ (\A i \in DOMAIN q : q[i] = s(gone + i)) /\ \A i \in 1 .. gone : s(i) + HourLen <= now
  BY DEF HInv, HourIsBooked
<1>7. \A i, j \in 1 .. n : i < j => s(j) >= s(i) + Interval
  BY <1>2 DEF IInv, SlotsApart
<1>8. /\ \A i \in 1 .. n : s(i) + Interval <= next
      /\ \A i \in 1 .. n : booked[i].level = Low => s(i) + 2 * Interval <= probe
      /\ m = 0 \/ \A j \in 1 .. n : j > m => s(j - m) + HourLen <= s(j)
      /\ \A i, j \in 1 .. n : i < j /\ {booked[i].level, booked[j].level} = {Low} /\ booked[j].yields
                                => s(j) >= s(i) + 2 * Interval
  BY <1>2 DEF IInv, PaceCovers, HInv, ProbesCovered, HourApart, ProbesAlternate
<1>b. h \in Nat /\ DOMAIN q = 1 .. h /\ HourFrom(file, r) =
         IF m > 0 /\ Len(r) >= m THEN {r[Len(r) - m + 1] + HourLen} ELSE {}
  <2>1. HourFrom(file, r) = IF m > 0 /\ Len(r) >= m THEN {r[Len(r) - m + 1] + HourLen} ELSE {}
    BY DEF HourFrom
  <2> HIDE DEF q, r
  <2> QED
    BY <1>1, <2>1
<1> HIDE DEF n, q, h, m, gone, r, probe, next
<1>g. gone \in Nat /\ gone + h = n
  BY <1>2, <1>6, <1>b DEF gone
<1>5. /\ DOMAIN booked' = 1 .. n + 1 /\ Len(booked') = n + 1 /\ booked'[n + 1] = entry
      /\ \A i \in 1 .. n : booked'[i] = booked[i]
  BY <1>2, <1>3 DEF n
<1> HIDE DEF s
<1>c. /\ \A i \in 1 .. n : booked'[i].slot = s(i)
      /\ booked'[n + 1].slot = entry.slot
  BY <1>5 DEF s
<1>a. \A i, j \in 1 .. h : i < j => q[i] <= q[j]
  <2> SUFFICES ASSUME NEW i \in 1 .. h, NEW j \in 1 .. h, i < j PROVE q[i] <= q[j]
    OBVIOUS
  <2>1. q[i] = s(gone + i) /\ q[j] = s(gone + j)
    BY <1>6, <1>b
  <2>2. gone + i \in 1 .. n /\ gone + j \in 1 .. n /\ gone + i < gone + j
    BY <1>2, <1>b, <1>g
  <2>3. s(gone + j) >= s(gone + i) + Interval /\ s(gone + i) \in Nat /\ s(gone + j) \in Nat
    BY <1>2, <1>7, <2>2
  <2> QED
    BY <1>1, <2>1, <2>3
<1>9. PICK e \in 0 .. h :
         /\ \A i \in 1 .. e : q[i] + HourLen <= now
         /\ r \in Seq(Nat) /\ Len(r) = h - e
         /\ \A i \in 1 .. h - e : r[i] = q[e + i]
  BY <1>1, <1>a, RecentIsTail DEF q, h, r
<1>e. e \in Nat /\ e <= h
  BY <1>9, <1>b
<1>10. ASSUME NEW i \in 1 .. gone + e PROVE s(i) + HourLen <= now
  <2>1. CASE i <= gone
    BY <1>6, <1>e, <1>g, <2>1
  <2>2. CASE i > gone
    <3>1. i - gone \in 1 .. e /\ i - gone \in 1 .. h /\ gone + (i - gone) = i
      BY <1>e, <1>b, <1>g, <2>2
    <3>2. q[i - gone] = s(i) /\ q[i - gone] + HourLen <= now
      BY <1>6, <1>9, <1>b, <3>1
    <3> QED
      BY <3>2
  <2> QED
    BY <1>e, <1>g, <2>1, <2>2
<1>11. ASSUME NEW i \in 1 .. h - e PROVE r[i] = s(gone + e + i) /\ gone + e + i \in 1 .. n
  <2>1. e + i \in 1 .. h /\ gone + (e + i) = gone + e + i /\ gone + e + i \in 1 .. n
    BY <1>2, <1>b, <1>e, <1>g
  <2>2. r[i] = q[e + i] /\ q[e + i] = s(gone + (e + i))
    BY <1>6, <1>9, <1>b, <2>1
  <2> QED
    BY <2>1, <2>2
<1>13. /\ Len(file'.hour) = h - e + 1 /\ DOMAIN file'.hour = 1 .. h - e + 1
       /\ \A i \in 1 .. h - e : file'.hour[i] = r[i]
       /\ file'.hour[h - e + 1] = entry.slot
  <2>1. r \in Seq(Nat) /\ entry.slot \in Nat /\ Len(r) = h - e /\ h - e \in Nat
    BY <1>4, <1>9, <1>b, <1>e
  <2>2. /\ Len(Append(r, entry.slot)) = Len(r) + 1
        /\ DOMAIN Append(r, entry.slot) = 1 .. Len(r) + 1
        /\ \A i \in 1 .. Len(r) : Append(r, entry.slot)[i] = r[i]
        /\ Append(r, entry.slot)[Len(r) + 1] = entry.slot
    BY <2>1
  <2> QED
    BY <1>4, <2>1, <2>2
<1>14. HourIsBooked'
  <2>1. Len(booked') - Len(file'.hour) = gone + e
    BY <1>2, <1>5, <1>b, <1>e, <1>13, <1>g
  <2>2. ASSUME NEW i \in 1 .. h - e + 1 PROVE file'.hour[i] = booked'[gone + e + i].slot
    <3>1. CASE i = h - e + 1
      <4>1. gone + e + i = n + 1
        BY <1>2, <1>b, <1>e, <1>g, <3>1
      <4> QED
        BY <1>c, <1>13, <3>1, <4>1
    <3>2. CASE i \in 1 .. h - e
      BY <1>c, <1>11, <1>13, <3>2
    <3> QED
      BY <1>b, <1>e, <3>1, <3>2
  <2>3. \A i \in 1 .. gone + e : booked'[i].slot + HourLen <= now'
    <3>1. \A i \in 1 .. gone + e : i \in 1 .. n
      BY <1>2, <1>b, <1>e, <1>g
    <3> QED
      BY <1>4, <1>c, <1>10, <3>1
  <2>4. gone + e >= 0
    BY <1>e, <1>g
  <2> QED
    BY <1>13, <2>1, <2>2, <2>3, <2>4 DEF HourIsBooked
<1>15. HourApart'
  <2>1. ASSUME m > 0, NEW j \in 1 .. n + 1, j > m
        PROVE  booked'[j - m].slot + HourLen <= booked'[j].slot
    <3>1. j - m \in 1 .. n /\ booked'[j - m].slot = s(j - m)
      BY <1>1, <1>2, <1>c, <2>1
    <3>2. CASE j \in 1 .. n
      <4>1. booked'[j].slot = s(j) /\ s(j - m) + HourLen <= s(j)
        BY <1>1, <1>8, <1>c, <2>1, <3>2
      <4> QED
        BY <3>1, <4>1
    <3>3. CASE j = n + 1
      <4>1. CASE h - e >= m
        <5>1. h - e - m + 1 \in 1 .. h - e
          BY <1>1, <1>b, <1>e, <2>1, <4>1
        <5>2. HourFrom(file, r) = {r[h - e - m + 1] + HourLen}
          BY <1>9, <1>b, <2>1, <4>1
        <5>3. entry.slot >= r[h - e - m + 1] + HourLen
          BY <1>4, <5>2
        <5>4. gone + e + (h - e - m + 1) = j - m
          BY <1>1, <1>2, <1>b, <1>e, <1>g, <3>3
        <5>5. r[h - e - m + 1] = s(j - m) /\ s(j - m) \in Nat
          BY <1>2, <1>11, <3>1, <5>1, <5>4
        <5> QED
          BY <1>1, <1>4, <1>c, <3>1, <3>3, <5>3, <5>5
      <4>2. CASE h - e < m
        <5>1. j - m \in 1 .. gone + e
          BY <1>1, <1>2, <1>b, <1>e, <1>g, <2>1, <3>1, <3>3, <4>2
        <5>2. s(j - m) + HourLen <= now /\ s(j - m) \in Nat
          BY <1>2, <1>10, <3>1, <5>1
        <5> QED
          BY <1>1, <1>4, <1>c, <3>1, <3>3, <5>2
      <4> QED
        BY <1>1, <1>b, <1>e, <4>1, <4>2
    <3> QED
      BY <1>2, <3>2, <3>3
  <2> QED
    BY <1>1, <1>4, <1>5, <2>1 DEF HourApart
<1>16. \A i \in 1 .. n : s(i) <= entry.slot
  BY <1>1, <1>2, <1>4, <1>8
<1>17. ProbesCovered'
  <2>1. ASSUME NEW i \in 1 .. n + 1, booked'[i].level = Low
        PROVE  booked'[i].slot + 2 * Interval <= file'.lowNextAt
    <3>1. CASE i \in 1 .. n
      <4>1. s(i) + 2 * Interval <= probe /\ s(i) <= entry.slot /\ s(i) \in Nat
        BY <1>2, <1>5, <1>8, <1>16, <2>1, <3>1
      <4> QED
        BY <1>1, <1>4, <1>c, <3>1, <4>1
    <3>2. CASE i = n + 1
      BY <1>1, <1>4, <1>5, <2>1, <3>2
    <3> QED
      BY <1>2, <3>1, <3>2
  <2> QED
    BY <1>5, <2>1 DEF ProbesCovered
<1>18. ProbesAlternate'
  <2>1. ASSUME NEW i \in 1 .. n + 1, NEW j \in 1 .. n + 1, i < j,
               {booked'[i].level, booked'[j].level} = {Low}, booked'[j].yields
        PROVE  booked'[j].slot >= booked'[i].slot + 2 * Interval
    <3>1. booked'[i].level = Low /\ booked'[j].level = Low
      BY <2>1, Zenon
    <3>2. i \in 1 .. n
      BY <1>2, <2>1
    <3>3. booked'[i].slot = s(i) /\ booked[i].level = Low
      BY <1>5, <1>c, <3>1, <3>2
    <3>4. CASE j \in 1 .. n
      <4>1. booked'[j] = booked[j] /\ booked'[i] = booked[i]
        BY <1>5, <3>2, <3>4
      <4>2. s(j) >= s(i) + 2 * Interval
        BY <1>8, <2>1, <3>2, <3>4, <4>1, Zenon
      <4> QED
        BY <1>c, <3>2, <3>4, <4>2
    <3>5. CASE j = n + 1
      <4>1. entry.level = Low /\ entry.yields
        BY <1>5, <2>1, <3>1, <3>5
      <4>2. s(i) + 2 * Interval <= probe /\ s(i) \in Nat
        BY <1>2, <1>8, <3>2, <3>3
      <4> QED
        BY <1>1, <1>4, <1>c, <3>3, <3>5, <4>1, <4>2
    <3> QED
      BY <1>2, <3>4, <3>5
  <2> QED
    BY <1>5, <2>1 DEF ProbesAlternate
<1> QED
  BY <1>14, <1>15, <1>17, <1>18 DEF HInv

LEMMA HourStep == IInv /\ HInv /\ [Next]_vars => HInv'
<1> SUFFICES ASSUME IInv, HInv, [Next]_vars, ~ robbed' PROVE HInv'
  BY DEF HInv, HourIsBooked, HourApart, ProbesCovered, ProbesAlternate
<1>1. now \in Nat /\ HourLen \in Nat /\ now' \in {now, now + 1}
      /\ \A i \in DOMAIN booked : booked[i].slot \in Nat
  BY BookedEntries, TimeGoesOn, LimitsAssumption DEF IInv, TypeInv, TypeOK
<1>2. ASSUME ~ robbed, UNCHANGED booked, file'.hour = file.hour,
             file'.maxPerHour = file.maxPerHour, file'.lowNextAt = file.lowNextAt
      PROVE  HInv'
  <2>1. \A i \in 1 .. Len(booked) - Len(file.hour) : i \in DOMAIN booked
    BY DEF IInv, TypeInv, TypeOK, Budget
  <2>2. HourIsBooked'
    BY <1>1, <1>2, <2>1 DEF HInv, HourIsBooked
  <2>3. HourApart' /\ ProbesCovered' /\ ProbesAlternate'
    BY <1>2 DEF HInv, HourApart, ProbesCovered, ProbesAlternate
  <2> QED
    BY <2>2, <2>3 DEF HInv
<1>3. CASE UNCHANGED <<file, booked>> /\ (robbed => robbed')
  BY <1>2, <1>3
<1>4. ASSUME NEW p \in Procs, WriteTrip(p) PROVE HInv'
  <2>1. ~ robbed
    BY <1>4 DEF WriteTrip
  <2> QED
    BY <1>2, <1>4, <2>1, TripWrites
<1>5. ASSUME NEW p \in Procs, Book(p) PROVE HInv'
  <2>1. ~ robbed
    BY <1>5 DEF Book
  <2> QED
    BY <1>5, <2>1, GrantKeepsHour
<1> QED
  BY <1>3, <1>4, <1>5, Writers

\* The slots of the hour up to a granted one are the last of those granted.
LEMMA HourIsFull ==
    ASSUME IInv, HInv PROVE HourlyCeiling
<1> SUFFICES ASSUME ~ robbed, file.maxPerHour > 0, NEW j \in DOMAIN booked
             PROVE  Cardinality({i \in 1 .. j : booked[i].slot + HourLen > booked[j].slot})
                      <= file.maxPerHour
  BY DEF HourlyCeiling
<1> DEFINE m == file.maxPerHour
           low == IF j > m THEN j - m ELSE 0
           s(i) == booked[i].slot
           hour == {i \in 1 .. j : s(i) + HourLen > s(j)}
<1>1. /\ m \in Nat /\ HourLen \in Nat /\ Interval \in Nat
      /\ Len(booked) \in Nat /\ j \in 1 .. Len(booked)
      /\ \A i \in 1 .. Len(booked) : s(i) \in Nat
  BY BookedEntries, LimitsAssumption DEF IInv, TypeInv, TypeOK, Budget
<1>a. /\ j > m => s(j - m) + HourLen <= s(j)
      /\ \A i, k \in 1 .. Len(booked) : i < k => s(k) >= s(i) + Interval
  BY BookedEntries DEF HInv, HourApart, IInv, SlotsApart
<1>b. low \in Nat /\ j - low <= m /\ low <= j /\ (low > 0 => j > m /\ low = j - m)
  BY <1>1
<1> HIDE DEF m, low, s
<1>3. hour \subseteq low + 1 .. j
  <2> SUFFICES ASSUME NEW i \in 1 .. j, s(i) + HourLen > s(j), i <= low PROVE FALSE
    BY <1>1, <1>b
  <2>1. low > 0 /\ low \in 1 .. Len(booked) /\ i \in 1 .. Len(booked)
    BY <1>1, <1>b
  <2>2. s(low) + HourLen <= s(j)
    BY <1>a, <1>b, <2>1
  <2>3. s(i) <= s(low)
    BY <1>1, <1>a, <2>1
  <2>4. s(i) \in Nat /\ s(low) \in Nat /\ s(j) \in Nat
    BY <1>1, <2>1
  <2> QED
    BY <1>1, <2>2, <2>3, <2>4
<1>4. IsFiniteSet(low + 1 .. j) /\ Cardinality(low + 1 .. j) <= m
  <2>1. low + 1 \in Int /\ j \in Int
    BY <1>1, <1>b
  <2>2. /\ IsFiniteSet(low + 1 .. j)
        /\ Cardinality(low + 1 .. j) = IF low + 1 > j THEN 0 ELSE j - (low + 1) + 1
    BY <2>1, FS_Interval
  <2> QED
    BY <1>1, <1>b, <2>1, <2>2
<1>5. Cardinality(hour) <= Cardinality(low + 1 .. j) /\ IsFiniteSet(hour)
  BY <1>3, <1>4, FS_Subset
<1>6. Cardinality(hour) \in Nat /\ Cardinality(low + 1 .. j) \in Nat
  BY <1>4, <1>5, FS_CardinalityType
<1> QED
  BY <1>1, <1>4, <1>5, <1>6 DEF m, s

-----------------------------------------------------------------------------
(* What is sent in a pause.                                                *)

\* Only the desktop app looks again before it sends.
OnlyDesktopRechecks ==
    \A p \in Procs :
        /\ task[p] = "recheck" => p \in Desktop
        /\ pc[p] = "clear" => p \in Desktop

\* A slot that a Python thread holds in a pause was granted before it, and
\* the thread has not sent in it yet.
PythonSendsOnce ==
    \A p \in Procs \ Desktop :
        /\ paused[p] \in 0 .. 1
        /\ Cooling(file) /\ pc[p] \in {"granted", "sleeping", "sending"} => paused[p] = 0

\* What the desktop app sends it has cleared at this very moment.
DesktopSendsCleared ==
    robbed \/ \A p \in Procs \cap Desktop :
        /\ paused[p] = 0
        /\ pc[p] \in {"clear", "sending"} => ~ Cooling(file) \/ now <= tripped

States == Critical \cup {"idle", "locking", "breaking", "sleeping", "napping", "sending"}

PInv == OnlyDesktopRechecks /\ PythonSendsOnce /\ DesktopSendsCleared

LEMMA PauseInit == Init => PInv
  BY DEF Init, PInv, OnlyDesktopRechecks, PythonSendsOnce, DesktopSendsCleared, High

\* A step that writes no pause and lets nobody send who was not about to.
LEMMA NobodyClears ==
    ASSUME IInv, PInv, UNCHANGED <<now, file, tripped, paused>>, robbed => robbed',
           NEW p \in Procs, NEW state, NEW purpose,
           pc' = [pc EXCEPT ![p] = state], task' = [task EXCEPT ![p] = purpose],
           purpose \in {task[p], High, Low, "trip"} \/ (purpose = "recheck" /\ p \in Desktop),
           \/ state \notin {"granted", "sleeping", "sending", "clear"}
           \/ pc[p] = "clear" /\ state = "sending"
           \/ pc[p] = "granted" /\ state = "sleeping"
           \/ pc[p] = "sleeping" /\ state = "sending" /\ p \notin Desktop
    PROVE  PInv'
<1>1. pc \in [Procs -> States] /\ task \in [Procs -> Tasks]
  BY DEF IInv, TypeInv, TypeOK, States
<1>a. \A q \in Procs : pc'[q] = IF q = p THEN state ELSE pc[q]
  BY <1>1
<1>b. \A q \in Procs : task'[q] = IF q = p THEN purpose ELSE task[q]
  BY <1>1
<1>3. OnlyDesktopRechecks'
  BY <1>a, <1>b DEF PInv, OnlyDesktopRechecks, High, Low
<1>4. PythonSendsOnce'
  BY <1>a DEF PInv, OnlyDesktopRechecks, PythonSendsOnce, Cooling
<1>5. DesktopSendsCleared'
  BY <1>a DEF PInv, DesktopSendsCleared, Cooling
<1> QED
  BY <1>3, <1>4, <1>5 DEF PInv

\* What goes out is counted against the pause it goes out in.
LEMMA SendingCounts ==
    ASSUME IInv, PInv, NEW p \in Procs, Sends(p), UNCHANGED <<now, file, robbed, tripped>>,
           NEW state \in {"idle", "locking"}, NEW purpose \in {High, "trip", task[p]},
           pc' = [pc EXCEPT ![p] = state], task' = [task EXCEPT ![p] = purpose]
    PROVE  PInv'
<1>1. /\ pc \in [Procs -> States] /\ task \in [Procs -> Tasks]
      /\ now \in Nat /\ tripped \in Nat /\ paused \in [Procs -> Nat]
  BY DEF IInv, TypeInv, TypeOK, States
<1>a. \A q \in Procs : pc'[q] = IF q = p THEN state ELSE pc[q]
  BY <1>1
<1>b. \A q \in Procs : task'[q] = IF q = p THEN purpose ELSE task[q]
  BY <1>1
<1>c. \A q \in Procs : paused'[q] = IF q = p /\ InPause THEN paused[q] + 1 ELSE paused[q]
  BY <1>1 DEF Sends
<1>3. OnlyDesktopRechecks'
  BY <1>a, <1>b DEF PInv, OnlyDesktopRechecks, High
<1>4. PythonSendsOnce'
  BY <1>1, <1>a, <1>c DEF PInv, PythonSendsOnce, Cooling, InPause, Sends
<1>5. DesktopSendsCleared'
  <2>1. robbed \/ p \notin Desktop \/ ~ InPause
    BY <1>1 DEF PInv, DesktopSendsCleared, InPause, Sends
  <2>2. \A q \in Procs \cap Desktop : ~ robbed =>
           /\ paused'[q] = paused[q]
           /\ pc'[q] \in {"clear", "sending"} => pc[q] \in {"clear", "sending"}
    BY <1>a, <1>c, <2>1
  <2> QED
    BY <2>2 DEF PInv, DesktopSendsCleared, Cooling
<1> QED
  BY <1>3, <1>4, <1>5 DEF PInv

LEMMA PInvStep == IInv /\ PInv /\ [Next]_vars => PInv'
<1> SUFFICES ASSUME IInv, PInv, [Next]_vars PROVE PInv'
  OBVIOUS
<1>t. /\ pc \in [Procs -> States] /\ task \in [Procs -> Tasks] /\ now \in Nat
      /\ tripped \in Nat /\ snap \in [Procs -> Budget] /\ file \in Budget
      /\ \A p \in Procs : task = [task EXCEPT ![p] = task[p]]
  BY DEF IInv, TypeInv, TypeOK, States
<1> USE DEF lock, counts, pause
<1>1. ASSUME NEW p \in Procs, NEW level \in Levels, Ask(p, level) PROVE PInv'
  BY <1>1, NobodyClears DEF Ask, WaitFor, Become, Levels
<1>2. ASSUME NEW p \in Procs, TakeLock(p) \/ GiveUpOnHolder(p) \/ ReadFile(p) \/ Refuse(p)
      PROVE  PInv'
  BY <1>t, <1>2, NobodyClears DEF TakeLock, GiveUpOnHolder, ReadFile, Refuse, Become
<1>3. ASSUME NEW p \in Procs, BreakLock(p) PROVE PInv'
  BY <1>t, <1>3, NobodyClears DEF BreakLock, RemoveLock, Become
<1>4. ASSUME NEW p \in Procs, Book(p) PROVE PInv'
  <2>1. /\ pc' = [pc EXCEPT ![p] = "granted"] /\ ~ Cooling(snap[p])
        /\ UNCHANGED <<now, task, robbed, tripped, paused>>
        /\ file' = WithSlot(snap[p], task[p], SlotFor(snap[p], task[p]))
    BY <1>4 DEF Book, Become
  <2>2. file'.cooldownUntil = snap[p].cooldownUntil
    BY <1>t, <2>1 DEF WithSlot, Budget
  <2>3. ~ Cooling(file)'
    BY <2>1, <2>2 DEF Cooling
  <2> QED
    BY <1>t, <2>1, <2>3 DEF PInv, OnlyDesktopRechecks, PythonSendsOnce, DesktopSendsCleared
<1>5. ASSUME NEW p \in Procs, WriteTrip(p) PROVE PInv'
  <2>1. /\ pc' = [pc EXCEPT ![p] = "done"] /\ UNCHANGED <<now, task, robbed>>
        /\ \/ UNCHANGED <<file, tripped, paused>>
           \/ Cooling(file) /\ UNCHANGED <<tripped, paused>>
           \/ tripped' = now /\ paused' = [q \in Procs |-> 0]
    BY <1>5 DEF WriteTrip, Become
  <2>2. \A q \in Procs : pc'[q] = IF q = p THEN "done" ELSE pc[q]
    BY <1>t, <2>1
  <2>3. OnlyDesktopRechecks'
    BY <2>1, <2>2 DEF PInv, OnlyDesktopRechecks
  <2>4. PythonSendsOnce'
    BY <2>1, <2>2 DEF PInv, PythonSendsOnce, Cooling
  <2>5. DesktopSendsCleared'
    BY <1>t, <2>1, <2>2 DEF PInv, DesktopSendsCleared, Cooling
  <2> QED
    BY <2>3, <2>4, <2>5 DEF PInv
<1>6. ASSUME NEW p \in Procs, Recheck(p) PROVE PInv'
  <2>1. /\ pc' = [pc EXCEPT ![p] = IF Cooling(snap[p]) THEN "done" ELSE "clear"]
        /\ task[p] = "recheck" /\ pc[p] = "deciding"
        /\ UNCHANGED <<now, file, task, robbed, tripped, paused>>
    BY <1>6 DEF Recheck, Become
  <2>2. robbed \/ snap[p] = file
    BY <2>1 DEF IInv, ReadsAreFresh
  <2>3. \A q \in Procs :
          pc'[q] = IF q # p THEN pc[q] ELSE IF Cooling(snap[p]) THEN "done" ELSE "clear"
    BY <1>t, <2>1
  <2>4. OnlyDesktopRechecks' /\ PythonSendsOnce'
    BY <2>1, <2>3 DEF PInv, OnlyDesktopRechecks, PythonSendsOnce, Cooling
  <2>5. DesktopSendsCleared'
    BY <2>1, <2>2, <2>3 DEF PInv, DesktopSendsCleared, Cooling
  <2> QED
    BY <2>4, <2>5 DEF PInv
<1>7. ASSUME NEW p \in Procs, Release(p) PROVE PInv'
  <2>1. pc' = [pc EXCEPT ![p] = Onward(p)]
    BY <1>7 DEF Release, Drop, Become
  <2>2. task' = [task EXCEPT ![p] = IF Onward(p) = "idle" THEN High ELSE task[p]]
    BY <1>7 DEF Release, Drop
  <2>3. UNCHANGED <<now, file, tripped, paused>> /\ (robbed => robbed')
    BY <1>7 DEF Release, RemoveLock
  <2>4. \/ Onward(p) = "idle" \/ Onward(p) = "napping"
        \/ pc[p] = "clear" /\ Onward(p) = "sending"
        \/ pc[p] = "granted" /\ Onward(p) = "sleeping"
    BY DEF Onward
  <2>5. CASE Onward(p) = "idle"
    <3>1. pc' = [pc EXCEPT ![p] = "idle"]
      BY <2>1, <2>5
    <3>2. task' = [task EXCEPT ![p] = High]
      BY <2>2, <2>5
    <3> QED
      BY <2>3, <3>1, <3>2, NobodyClears
  <2>6. CASE Onward(p) # "idle"
    <3>1. task' = [task EXCEPT ![p] = task[p]]
      BY <2>2, <2>6
    <3>2. CASE Onward(p) = "napping"
      <4>1. pc' = [pc EXCEPT ![p] = "napping"]
        BY <2>1, <3>2
      <4> QED
        BY <2>3, <3>1, <4>1, NobodyClears
    <3>3. CASE pc[p] = "clear" /\ Onward(p) = "sending"
      <4>1. pc' = [pc EXCEPT ![p] = "sending"]
        BY <2>1, <3>3
      <4> QED
        BY <2>3, <3>1, <3>3, <4>1, NobodyClears
    <3>4. CASE pc[p] = "granted" /\ Onward(p) = "sleeping"
      <4>1. pc' = [pc EXCEPT ![p] = "sleeping"]
        BY <2>1, <3>4
      <4> QED
        BY <2>3, <3>1, <3>4, <4>1, NobodyClears
    <3> QED
      BY <2>4, <2>6, <3>2, <3>3, <3>4
  <2> QED
    BY <2>5, <2>6
<1>8. ASSUME NEW p \in Procs, SlotComes(p) PROVE PInv'
  <2>1. CASE p \in Desktop
    BY <1>8, <2>1, NobodyClears DEF SlotComes, WaitFor, Become
  <2>2. CASE p \notin Desktop
    BY <1>t, <1>8, <2>2, NobodyClears DEF SlotComes, Become
  <2> QED
    BY <2>1, <2>2
<1>9. ASSUME NEW p \in Procs, NapOver(p) PROVE PInv'
  BY <1>9, NobodyClears DEF NapOver, WaitFor, Become
<1>10. ASSUME NEW p \in Procs, SendOk(p) PROVE PInv'
  BY <1>10, SendingCounts DEF SendOk, Drop, Become
<1>11. ASSUME NEW p \in Procs, SendRefused(p) PROVE PInv'
  BY <1>11, SendingCounts DEF SendRefused, WaitFor, Become
<1>12. ASSUME NEW p \in Procs, Crash(p) PROVE PInv'
  BY <1>12, NobodyClears DEF Crash, Drop, Become
<1>13. CASE Tick
  <2>1. /\ now' = now + 1 /\ UNCHANGED <<file, pc, task, robbed, tripped, paused>>
        /\ \A p \in Procs : pc[p] \notin {"clear", "sending"}
    BY <1>13 DEF Tick, Urgent, Critical
  <2>2. Cooling(file)' => Cooling(file)
    BY <1>t, <2>1 DEF Cooling, Budget
  <2> QED
    BY <2>1, <2>2 DEF PInv, OnlyDesktopRechecks, PythonSendsOnce, DesktopSendsCleared
<1>14. CASE UNCHANGED vars
  BY <1>14 DEF vars, PInv, OnlyDesktopRechecks, PythonSendsOnce, DesktopSendsCleared, Cooling
<1> QED
  BY <1>1, <1>2, <1>3, <1>4, <1>5, <1>6, <1>7, <1>8, <1>9, <1>10, <1>11, <1>12, <1>13,
     <1>14 DEF Next, Step

-----------------------------------------------------------------------------
(* The theorems.                                                           *)

LEMMA IInvInit == Init => IInv
<1> SUFFICES ASSUME Init PROVE IInv
  OBVIOUS
<1>1. \A p \in Procs : pc[p] = "idle"
  BY DEF Init
<1>2. HolderAlone /\ ReadsAreFresh
  BY <1>1 DEF HolderAlone, ReadsAreFresh, Critical
<1>3. DOMAIN booked = {}
  BY DEF Init
<1> QED
  BY <1>2, <1>3, TypeInit DEF IInv, PaceCovers, SlotsApart

LEMMA Inductive == Spec => []IInv
<1>1. IInv /\ [Next]_vars => IInv'
  BY TypeStep, HolderStep, FreshStep, PaceStep DEF IInv
<1> QED
  BY IInvInit, <1>1, PTL DEF Spec

(* The budget file, the lock and the requesters of governor.py keep their  *)
(* types, and nothing in them is dated later than now.                     *)
THEOREM TypeCorrect == Spec => []TypeOK
<1>1. IInv => TypeOK
  BY DEF IInv, TypeInv
<1> QED
  BY <1>1, Inductive, PTL

(* _reserve(): any two slots that any requesters were granted are an       *)
(* interval apart, through crashes and take-overs of dead holders' locks,  *)
(* unless the lock of a live holder was removed.                           *)
THEOREM PaceIsKept == Spec => []SlotsApart
<1>1. IInv => SlotsApart
  BY DEF IInv
<1> QED
  BY <1>1, Inductive, PTL

(* trip(): under the same condition no later write shortens or loses a     *)
(* pause, whoever had read the file before it.                             *)
THEOREM PauseIsKept == Spec => PauseSticks
<1>1. Spec => [][robbed' \/ file'.cooldownUntil >= file.cooldownUntil]_vars
  BY Inductive, PauseStep, PTL DEF Spec
<1> QED
  BY <1>1 DEF PauseSticks

(* acquire() and the desktop's second look: in a pause each Python thread  *)
(* sends at most one request, granted before it, and the desktop app none, *)
(* unless the lock of a live holder was removed.                           *)
THEOREM PauseIsNearlyKept == Spec => []PauseHolds
<1>1. Init => PInv
  BY PauseInit
<1>2. IInv /\ PInv /\ [Next]_vars => PInv'
  BY PInvStep
<1>3. PInv => PauseHolds
  BY DEF PInv, PythonSendsOnce, DesktopSendsCleared, PauseHolds
<1> QED
  BY <1>1, <1>2, <1>3, Inductive, PTL DEF Spec

(* _reserve(): the hour up to any slot that any requesters were granted    *)
(* holds no more slots than the ceiling, under the same condition; the     *)
(* hour that is kept in the file is enough to tell.                        *)
THEOREM CeilingHolds == Spec => []HourlyCeiling
<1>1. IInv /\ HInv => HourlyCeiling
  BY HourIsFull
<1> QED
  BY <1>1, HourStart, HourStep, Inductive, PTL DEF Spec

(* _reserve(): a probe that has to yield starts two intervals after every  *)
(* probe before it, under the same condition.                              *)
THEOREM ProbesTakeTurns == Spec => []ProbesAlternate
<1>1. HInv => ProbesAlternate
  BY DEF HInv
<1> QED
  BY <1>1, HourStart, HourStep, Inductive, PTL DEF Spec
=============================================================================

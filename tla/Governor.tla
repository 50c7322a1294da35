------------------------------ MODULE Governor ------------------------------
(***************************************************************************)
(* One request budget to Circle for every process on a machine:            *)
(* circle_leads/scraper/governor.py, the adapter in http_client.py that    *)
(* spends it, and the desktop app's port of both (engine/circle).          *)
(*                                                                         *)
(* The budget is a JSON file guarded by a lock directory.  A requester     *)
(* makes the directory, reads the file, writes it back, removes the        *)
(* directory, sleeps until its slot and sends.  A directory left behind by *)
(* a process that died is taken over, by looking at its age (or at one's   *)
(* own patience) and then, in another system call, removing it.            *)
(*                                                                         *)
(* Time is a counter.  System calls take none: the clock only moves when   *)
(* nobody can take a step that does not sleep, see Tick.                   *)
(***************************************************************************)
EXTENDS Naturals, Sequences, FiniteSets, FiniteSetsExt

CONSTANTS
    Procs,          \* requesters
    NoProc,         \* the owner of a lock nobody holds
    Desktop,        \* those in the desktop app, the others are Python
    Interval,       \* 60_000 / requestsPerMinute
    Ceilings,       \* maxPerHour as the file's limits may set it, 0 for none
    DefaultCeiling, \* DEFAULT_LIMITS
    HourLen,
    Cooldown,       \* cooldownMinutes
    HighActive,     \* HIGH_ACTIVE_MS
    StaleLock,      \* STALE_LOCK_MS
    LockPatience,   \* the deadline in _locked()
    Nap,            \* the longest sleep while Circle cools us down
    IdleUntil,      \* bound: until when time passes although nobody waits
    MaxRequests,    \* bound: requests ever asked for
    MaxTrips,       \* bound: answers that push back
    MaxCrashes      \* bound: processes that die

ASSUME ProcsAssumption == NoProc \notin Procs /\ Desktop \subseteq Procs
ASSUME LimitsAssumption ==
    /\ Interval \in Nat \ {0} /\ Ceilings \subseteq Nat /\ DefaultCeiling \in Nat /\ HourLen \in Nat
    /\ Cooldown \in Nat \ {0} /\ HighActive \in Nat /\ StaleLock \in Nat
    /\ LockPatience \in Nat /\ Nap \in Nat \ {0} /\ IdleUntil \in Nat
    /\ MaxRequests \in Nat /\ MaxTrips \in Nat /\ MaxCrashes \in Nat

VARIABLES
    now,
    file,         \* the budget
    holder,       \* who made the lock directory, NoProc without one
    mtime,        \* when
    pc,           \* what a requester is at
    task,         \* what it wants the lock for
    patience,     \* until when it waits for the lock
    snap,         \* the file as it read it
    wake,         \* until when it sleeps
    booked,       \* every slot ever granted, in order
    robbed,       \* the lock of a live holder has been removed
    tripped,      \* when the pause in force was written
    paused,       \* requests each one has sent since, in the pause
    requests, trips, crashes

lock == <<holder, mtime>>
counts == <<requests, trips, crashes>>
pause == <<tripped, paused>>
vars == <<now, file, holder, mtime, pc, task, patience, snap, wake, booked,
          robbed, tripped, paused, requests, trips, crashes>>

High == "high"
Low == "low"
Levels == {High, Low}
Tasks == Levels \cup {"trip", "recheck"}

Budget == [nextAt : Nat, lowNextAt : Nat, highSeenAt : Nat,
           cooldownUntil : Nat, hour : Seq(Nat), maxPerHour : Nat]

\* No file, or one that holds no object.
NoBudget == [nextAt |-> 0, lowNextAt |-> 0, highSeenAt |-> 0,
             cooldownUntil |-> 0, hour |-> <<>>, maxPerHour |-> DefaultCeiling]

Init ==
    /\ now = HighActive
    /\ \E c \in Ceilings : file = [NoBudget EXCEPT !.maxPerHour = c]
    /\ holder = NoProc /\ mtime = 0
    /\ pc = [p \in Procs |-> "idle"]
    /\ task = [p \in Procs |-> High]
    /\ patience = [p \in Procs |-> 0]
    /\ snap = [p \in Procs |-> NoBudget]
    /\ wake = [p \in Procs |-> 0]
    /\ booked = <<>>
    /\ robbed = FALSE
    /\ tripped = 0
    /\ paused = [p \in Procs |-> 0]
    /\ requests = 0 /\ trips = 0 /\ crashes = 0

Become(p, state) == pc' = [pc EXCEPT ![p] = state]

\* What a requester held in its local variables goes with the call.
Drop(p, state) ==
    /\ Become(p, state)
    /\ task' = [task EXCEPT ![p] = IF state = "idle" THEN High ELSE @]
    /\ snap' = [snap EXCEPT ![p] = NoBudget]

-----------------------------------------------------------------------------
(* The lock.                                                               *)

\* Between making the directory and removing it.
Critical == {"reading", "deciding", "granted", "refused", "clear", "done"}

WaitFor(p, purpose) ==
    /\ Become(p, "locking")
    /\ task' = [task EXCEPT ![p] = purpose]
    /\ patience' = [patience EXCEPT ![p] = now + LockPatience]

\* mkdir() that does not mind an existing directory.
TakeLockAnyway(p) ==
    /\ pc[p] = "locking"
    /\ holder' = p /\ mtime' = now
    /\ Become(p, "reading")
    /\ patience' = [patience EXCEPT ![p] = 0]
    /\ UNCHANGED <<now, file, task, snap, wake, booked, robbed, pause, counts>>

TakeLock(p) ==
    /\ pc[p] = "locking"
    /\ holder = NoProc
    /\ holder' = p /\ mtime' = now
    /\ Become(p, "reading")
    /\ patience' = [patience EXCEPT ![p] = 0]
    /\ UNCHANGED <<now, file, task, snap, wake, booked, robbed, pause, counts>>

\* Nothing but the holder's own rmdir() frees the lock.
NeverAbandoned(p) == FALSE

Abandoned(p) == now > mtime + StaleLock \/ now > patience[p]

GiveUpOnHolder(p) ==
    /\ pc[p] = "locking"
    /\ holder # NoProc
    /\ Abandoned(p)
    /\ Become(p, "breaking")
    /\ UNCHANGED <<now, file, lock, task, patience, snap, wake, booked, robbed,
                   pause, counts>>

\* rmdir() removes the directory that is there now, whoever made it.
RemoveLock(p) ==
    /\ holder' = NoProc
    /\ mtime' = 0
    /\ robbed' = (robbed \/ (holder \notin {NoProc, p} /\ pc[holder] \in Critical))

BreakLock(p) ==
    /\ pc[p] = "breaking"
    /\ RemoveLock(p)
    /\ Become(p, "locking")
    /\ UNCHANGED <<now, file, task, patience, snap, wake, booked, pause, counts>>

-----------------------------------------------------------------------------
(* Under the lock.                                                         *)

ReadFile(p) ==
    /\ pc[p] = "reading"
    /\ snap' = [snap EXCEPT ![p] = file]
    /\ Become(p, "deciding")
    /\ UNCHANGED <<now, file, lock, task, patience, wake, booked, robbed, pause,
                   counts>>

Cooling(s) == s.cooldownUntil > now

\* Slots are appended in order, so what an hour has passed over comes first.
Expired(s) == {i \in DOMAIN s.hour : s.hour[i] + HourLen <= now}
RecentHour(s) == SubSeq(s.hour, Cardinality(Expired(s)) + 1, Len(s.hour))

HighRecent(s) == now < s.highSeenAt + HighActive

ProbeFrom(s, level) ==
    IF level = Low /\ HighRecent(s) THEN {s.lowNextAt} ELSE {}

\* Off by one: the ceiling is noticed one request late.
NoticedLate(s, hour) ==
    IF s.maxPerHour > 0 /\ Len(hour) > s.maxPerHour
    THEN {hour[Len(hour) - s.maxPerHour] + HourLen}
    ELSE {}

HourFrom(s, hour) ==
    IF s.maxPerHour > 0 /\ Len(hour) >= s.maxPerHour
    THEN {hour[Len(hour) - s.maxPerHour + 1] + HourLen}
    ELSE {}

SlotFor(s, level) ==
    Max({now, s.nextAt} \cup ProbeFrom(s, level) \cup HourFrom(s, RecentHour(s)))

\* Probes keep a clock of their own.
OwnClocks(s, level, slot) ==
    [s EXCEPT !.nextAt = IF level = Low THEN @ ELSE slot + Interval,
              !.lowNextAt = IF level = Low THEN slot + 2 * Interval ELSE @,
              !.highSeenAt = IF level = High THEN now ELSE @,
              !.hour = Append(RecentHour(s), slot)]

WithSlot(s, level, slot) ==
    [s EXCEPT !.nextAt = slot + Interval,
              !.lowNextAt = IF level = Low THEN slot + 2 * Interval ELSE @,
              !.highSeenAt = IF level = High THEN now ELSE @,
              !.hour = Append(RecentHour(s), slot)]

\* _reserve() when there is no pause.
Book(p) ==
    /\ pc[p] = "deciding"
    /\ task[p] \in Levels
    /\ ~ Cooling(snap[p])
    /\ LET s == snap[p]
           slot == SlotFor(s, task[p])
       IN  /\ file' = WithSlot(s, task[p], slot)
           /\ wake' = [wake EXCEPT ![p] = slot]
           /\ booked' = Append(booked, [slot |-> slot,
                                        yields |-> now < s.highSeenAt + HighActive,
                                        level |-> task[p]])
    /\ Become(p, "granted")
    /\ UNCHANGED <<now, lock, task, patience, snap, robbed, pause, counts>>

\* _reserve() in a pause: nothing is written.
Refuse(p) ==
    /\ pc[p] = "deciding"
    /\ task[p] \in Levels
    /\ Cooling(snap[p])
    /\ Become(p, "refused")
    /\ UNCHANGED <<now, file, lock, task, patience, snap, wake, booked, robbed,
                   pause, counts>>

\* trip(): the pause is only ever extended.
WriteTrip(p) ==
    /\ pc[p] = "deciding"
    /\ task[p] = "trip"
    /\ IF now + Cooldown > snap[p].cooldownUntil
       THEN /\ file' = [snap[p] EXCEPT !.cooldownUntil = now + Cooldown]
            /\ tripped' = IF Cooling(file) THEN tripped ELSE now
            /\ paused' = IF Cooling(file) THEN paused ELSE [q \in Procs |-> 0]
       ELSE UNCHANGED <<file, tripped, paused>>
    /\ Become(p, "done")
    /\ UNCHANGED <<now, lock, task, patience, snap, wake, booked, robbed, counts>>

\* The desktop app reads coolingDownUntil once more when its slot has come.
Recheck(p) ==
    /\ pc[p] = "deciding"
    /\ task[p] = "recheck"
    /\ Become(p, IF Cooling(snap[p]) THEN "done" ELSE "clear")
    /\ UNCHANGED <<now, file, lock, task, patience, snap, wake, booked, robbed,
                   pause, counts>>

\* Where acquire() and trip() go on once the lock is released.  A desktop
\* request that meets a pause is given up; a Python one sleeps through it, at
\* most Nap at a time.
Onward(p) ==
    CASE pc[p] = "granted" -> "sleeping"
      [] pc[p] = "clear" -> "sending"
      [] pc[p] = "refused" /\ p \notin Desktop -> "napping"
      [] OTHER -> "idle"

Release(p) ==
    /\ pc[p] \in {"granted", "refused", "clear", "done"}
    /\ RemoveLock(p)
    /\ Drop(p, Onward(p))
    /\ wake' = [wake EXCEPT ![p] =
                    IF Onward(p) = "napping"
                    THEN Max({now + 1, Min({snap[p].cooldownUntil, now + Nap})})
                    ELSE @]
    /\ UNCHANGED <<now, file, patience, booked, pause, counts>>

-----------------------------------------------------------------------------
(* acquire(), the request, and its answer.                                 *)

Ask(p, level) ==
    /\ pc[p] = "idle"
    /\ requests < MaxRequests
    /\ requests' = requests + 1
    /\ WaitFor(p, level)
    /\ UNCHANGED <<now, file, lock, snap, wake, booked, robbed, pause, trips,
                   crashes>>

SlotComes(p) ==
    /\ pc[p] = "sleeping"
    /\ wake[p] <= now
    /\ wake' = [wake EXCEPT ![p] = 0]
    /\ IF p \in Desktop
       THEN WaitFor(p, "recheck")
       ELSE Become(p, "sending") /\ UNCHANGED <<task, patience>>
    /\ UNCHANGED <<now, file, lock, snap, booked, robbed, pause, counts>>

NapOver(p) ==
    /\ pc[p] = "napping"
    /\ wake[p] <= now
    /\ wake' = [wake EXCEPT ![p] = 0]
    /\ WaitFor(p, task[p])
    /\ UNCHANGED <<now, file, lock, snap, booked, robbed, pause, counts>>

\* The pause does not bind what goes out at the very moment it is written.
InPause == Cooling(file) /\ now > tripped

Sends(p) ==
    /\ pc[p] = "sending"
    /\ paused' = [paused EXCEPT ![p] = IF InPause THEN @ + 1 ELSE @]

SendOk(p) ==
    /\ Sends(p)
    /\ Drop(p, "idle")
    /\ UNCHANGED <<now, file, lock, patience, wake, booked, robbed, tripped,
                   counts>>

\* Circle, and for Python the canary too, push back.
SendRefused(p) ==
    /\ trips < MaxTrips
    /\ trips' = trips + 1
    /\ Sends(p)
    /\ WaitFor(p, "trip")
    /\ UNCHANGED <<now, file, lock, snap, wake, booked, robbed, tripped, requests,
                   crashes>>

\* The process dies and is started again; the lock stays behind.
Crash(p) ==
    /\ pc[p] # "idle"
    /\ crashes < MaxCrashes
    /\ crashes' = crashes + 1
    /\ Drop(p, "idle")
    /\ patience' = [patience EXCEPT ![p] = 0]
    /\ wake' = [wake EXCEPT ![p] = 0]
    /\ UNCHANGED <<now, file, lock, booked, robbed, pause, requests, trips>>

-----------------------------------------------------------------------------
(* Time.                                                                   *)

Asleep(p) == pc[p] \in {"sleeping", "napping"}

\* A step that does not sleep is there to be taken.
Urgent(p) ==
    \/ pc[p] \in Critical \cup {"breaking", "sending"}
    \/ (pc[p] = "locking" /\ (holder = NoProc \/ Abandoned(p)))

NeedsTime(p) ==
    \/ pc[p] = "locking" /\ now <= patience[p]
    \/ Asleep(p) /\ wake[p] > now

Tick ==
    /\ \A p \in Procs : ~ Urgent(p)
    /\ (now < IdleUntil \/ \E p \in Procs : NeedsTime(p))
    /\ now' = now + 1
    /\ UNCHANGED <<file, lock, pc, task, patience, snap, wake, booked, robbed,
                   pause, counts>>

Step(p) ==
    \/ TakeLock(p) \/ GiveUpOnHolder(p) \/ BreakLock(p)
    \/ ReadFile(p) \/ Book(p) \/ Refuse(p) \/ WriteTrip(p) \/ Recheck(p)
    \/ Release(p)
    \/ SlotComes(p) \/ NapOver(p) \/ SendOk(p) \/ SendRefused(p)

Next ==
    \/ \E p \in Procs :
          \/ \E level \in Levels : Ask(p, level)
          \/ Step(p)
          \/ Crash(p)
    \/ Tick

Spec == Init /\ [][Next]_vars

(***************************************************************************)
(* A process that is not asleep goes on, a sleep ends, and a request is    *)
(* answered or times out.  The lock itself is not fair: a waiter may lose  *)
(* every race for it, which only a bounded number of requests rules out.   *)
(***************************************************************************)
FairSpec == Spec /\ WF_vars(Tick) /\ \A p \in Procs : WF_vars(Step(p))

-----------------------------------------------------------------------------
(* The budget, the lock and the requesters have their types; nothing   *)
(* is dated later than now.                                                *)
TypeOK ==
    /\ now \in Nat
    /\ mtime \in Nat /\ mtime <= now
    /\ file \in Budget /\ file.highSeenAt <= now
    /\ holder \in Procs \cup {NoProc}
    /\ pc \in [Procs -> Critical \cup
                 {"idle", "locking", "breaking", "sleeping", "napping", "sending"}]
    /\ task \in [Procs -> Tasks]
    /\ patience \in [Procs -> Nat]
    /\ snap \in [Procs -> Budget]
    /\ wake \in [Procs -> Nat]
    /\ booked \in Seq([slot : Nat, yields : BOOLEAN, level : Levels])
    /\ robbed \in BOOLEAN
    /\ tripped \in Nat /\ tripped <= now
    /\ paused \in [Procs -> Nat]
    /\ requests \in 0 .. MaxRequests
    /\ trips \in 0 .. MaxTrips
    /\ crashes \in 0 .. MaxCrashes

(* governor.py, "nextAt -- the earliest start of the next request, so the  *)
(* pace is shared": two granted slots are an interval apart, whoever asked *)
(* and whoever died holding the lock, unless a live holder's lock was      *)
(* taken.                                                                  *)
SlotsApart ==
    robbed \/ \A i, j \in DOMAIN booked :
                 i < j => booked[j].slot >= booked[i].slot + Interval

(* The same without the exception.                                         *)
PaceIsShared ==
    \A i, j \in DOMAIN booked :
        i < j => booked[j].slot >= booked[i].slot + Interval

(* governor.py, "hour -- start times in the last hour, for the hourly      *)
(* ceiling": the hour up to any granted slot holds no more than it allows. *)
HourlyCeiling ==
    (~ robbed /\ file.maxPerHour > 0) =>
        \A j \in DOMAIN booked :
            Cardinality({i \in 1 .. j : booked[i].slot + HourLen > booked[j].slot})
                <= file.maxPerHour

(* governor.py, low requests "only get every other slot while a high       *)
(* priority job is active": a probe that has to yield starts at least two  *)
(* intervals after every probe before it.                                  *)
ProbesAlternate ==
    robbed \/ \A i, j \in DOMAIN booked :
                 (i < j /\ {booked[i].level, booked[j].level} = {Low} /\ booked[j].yields)
                    => booked[j].slot >= booked[i].slot + 2 * Interval

(* A pause once written is never shortened or overwritten by a process     *)
(* that had read the file before it.                                       *)
PauseSticks == [][robbed' \/ file'.cooldownUntil >= file.cooldownUntil]_vars

(* What is sent in a pause was granted before it: nothing by the desktop   *)
(* app, which looks again when its slot has come, and one request by each  *)
(* Python thread, which does not.                                          *)
PauseHolds ==
    robbed \/ \A p \in Procs : paused[p] <= (IF p \in Desktop THEN 0 ELSE 1)

(* governor.py, "cooldownUntil -- set by whoever sees Circle push back;    *)
(* everyone pauses": nobody sends in a pause.                              *)
EveryonePauses == \A p \in Procs : paused[p] = 0

(* governor.py, "A wedged lock must not stop the whole machine's traffic"  *)
(* and "never an error": every acquire() returns or is refused, although   *)
(* a process died with the lock.                                           *)
EveryRequestEnds == \A p \in Procs : ~<>[](pc[p] # "idle")
=============================================================================

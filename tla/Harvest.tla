------------------------------ MODULE Harvest -------------------------------
(***************************************************************************)
(* The scheduled harvest: when the worker starts one                       *)
(* (circle_leads/cli/main.py: worker_cmd, storage/settings_store.py), and  *)
(* which communities it then asks (circle_leads/harvest.py: harvest,       *)
(* _community_hosts, _recheck_hours, _mark_synced).                        *)
(*                                                                         *)
(* One worker runs harvests one after the other, scheduled or asked for    *)
(* with a job, and can be killed at any step.  A harvest takes the first   *)
(* Limit communities in the order of their last read, passes over those it *)
(* asked recently and stamps every one it asks.  Time is in ticks; what    *)
(* one read fetches is the subject of PublicRead.                          *)
(***************************************************************************)
EXTENDS Naturals, FiniteSets, SequencesExt

CONSTANTS
    Communities,
    Limit,        \* max_communities
    Retry,        \* RETRY_AFTER_INTERRUPT_MINUTES
    Interval,     \* of the harvest schedule
    SearchEvery,  \* of the discovery schedule
    Base,         \* min_recheck_hours
    Quiet,        \* QUIET_RECHECK_HOURS
    Closed,       \* CLOSED_RECHECK_HOURS
    MaxSlow,      \* bound: ticks that one harvest takes
    MaxTrouble,   \* bound: kills, requests for a run, and reads that fail in passing
    MaxChanges    \* bound: changes of what a community answers

ASSUME HarvestAssumption ==
    /\ IsFiniteSet(Communities) /\ Limit \in Nat \ {0}
    /\ Retry \in Nat \ {0} /\ Interval \in Nat /\ Retry <= Interval /\ SearchEvery \in Nat
    /\ Base \in Nat /\ Quiet \in Nat /\ Closed \in Nat /\ Base <= Quiet /\ Quiet <= Closed
    /\ MaxSlow \in Nat /\ MaxTrouble \in Nat /\ MaxChanges \in Nat

\* A community is locked when it refuses its space list or every space.
Sites == {"open", "locked", "gone"}
Classes == <<"watched", "fit", "other">>
Never == Closed + Interval + SearchEvery + 1

VARIABLES
    class,     \* Community.watching, icp_flag
    lively,    \* a post of the last ACTIVE_DAYS is stored
    site,      \* what the public interface of a community answers
    order,     \* the known communities, the longest unread first
    age,       \* ticks since Community.last_synced_at
    outcome,   \* Community.read_outcome
    started,   \* ticks since harvest_last_run
    finished,  \* harvest_last_finish is not older than harvest_last_run
    searched,  \* ticks since harvest_last_search
    job,       \* a harvest waits in the job queue
    doing,     \* "idle", "search", "list" or "read"
    hosts,     \* the communities this harvest has still to visit
    byJob, searching,  \* who asked for this harvest; whether it searches
    slow,      \* ticks this harvest has taken
    trouble, changes

world == <<class, lively, site>>
rows == <<order, age, outcome>>
marks == <<started, finished, searched>>
current == <<doing, hosts, byJob, searching, slow>>
harvestVars == <<world, rows, marks, job, current, trouble, changes>>

Known == ToSet(order)

HarvestInit ==
    /\ class \in [Communities -> ToSet(Classes)]
    /\ lively \in [Communities -> BOOLEAN]
    /\ site \in [Communities -> Sites]
    /\ order \in {SetToSeq(K) : K \in SUBSET Communities}
    /\ age = [c \in Communities |-> Never]
    /\ outcome = [c \in Communities |-> "none"]
    /\ started = Never /\ finished = FALSE /\ searched = Never /\ job = FALSE
    /\ doing = "idle" /\ hosts = <<>> /\ byJob = FALSE /\ searching = FALSE /\ slow = 0
    /\ trouble = 0 /\ changes = 0

-----------------------------------------------------------------------------
(* When a harvest starts.                                                  *)

IsHarvestDue ==
    \/ started = Never \/ started >= Interval
    \/ ~finished /\ started >= Retry

IsDiscoveryDue == searched = Never \/ searched >= SearchEvery

Starts(asked) ==
    /\ doing' = (IF IsDiscoveryDue THEN "search" ELSE "list")
    /\ searching' = IsDiscoveryDue
    /\ byJob' = asked /\ slow' = 0 /\ hosts' = <<>>
    /\ UNCHANGED <<world, rows, searched, job, trouble, changes>>

\* The schedule is looked at when the queue is empty.
BeginScheduled ==
    /\ doing = "idle" /\ ~job /\ IsHarvestDue
    /\ started' = 0 /\ finished' = FALSE
    /\ Starts(FALSE)

BeginJob ==
    /\ doing = "idle" /\ job
    /\ UNCHANGED <<started, finished>>
    /\ Starts(TRUE)

\* The "Run now" of the dashboard.
AskForHarvest ==
    /\ ~job /\ trouble < MaxTrouble
    /\ job' = TRUE /\ trouble' = trouble + 1
    /\ UNCHANGED <<world, rows, marks, current, changes>>

\* The external pinger finds the harvest due too: it records the start, and
\* leaves the run to the queue, which holds one such job at a time.
TickPing ==
    /\ IsHarvestDue
    /\ started' = 0 /\ finished' = FALSE /\ job' = TRUE
    /\ UNCHANGED <<world, rows, searched, current, trouble, changes>>

-----------------------------------------------------------------------------
(* What it does.                                                           *)

\* Whatever the searches find that is new has never been read.
Search ==
    /\ doing = "search" /\ doing' = "list"
    /\ \E found \in SUBSET (Communities \ Known) : order' = SetToSeq(found) \o order
    /\ UNCHANGED <<world, age, outcome, marks, job, hosts, byJob, searching, slow, trouble, changes>>

OfClass(k) == SelectSeq(order, LAMBDA c : class[c] = k)
Ranked == OfClass(Classes[1]) \o OfClass(Classes[2]) \o OfClass(Classes[3])

CommunityHosts ==
    /\ doing = "list" /\ doing' = "read"
    /\ hosts' = SubSeq(Ranked, 1, IF Limit < Len(order) THEN Limit ELSE Len(order))
    /\ UNCHANGED <<world, rows, marks, job, byJob, searching, slow, trouble, changes>>

Larger(a, b) == IF a > b THEN a ELSE b

RecheckHours(c) ==
    CASE class[c] = "watched" -> Base
      [] outcome[c] \in {"private", "gone"} -> Larger(Base, Closed)
      [] outcome[c] = "public" /\ ~lively[c] -> Larger(Base, Quiet)
      [] OTHER -> Base

LeftAlone(c) == age[c] # Never /\ age[c] < RecheckHours(c)

Outcome(answer) ==
    CASE answer = "open" -> "public"
      [] answer = "locked" -> "private"
      [] answer = "gone" -> "gone"
      [] OTHER -> "error"

\* Mutant: only what was read goes to the back of the queue.
MarkReadOnly(c, o) ==
    /\ age' = [age EXCEPT ![c] = 0]
    /\ outcome' = [outcome EXCEPT ![c] = o]
    /\ order' = IF o = "public" THEN Append(SelectSeq(order, LAMBDA d : d # c), c) ELSE order

MarkSynced(c, o) ==
    /\ age' = [age EXCEPT ![c] = 0]
    /\ outcome' = [outcome EXCEPT ![c] = o]
    /\ order' = Append(SelectSeq(order, LAMBDA d : d # c), c)

Visit ==
    LET c == Head(hosts) IN
    /\ doing = "read" /\ hosts # <<>> /\ hosts' = Tail(hosts)
    /\ \/ LeftAlone(c) /\ UNCHANGED <<rows, trouble>>
       \/ ~LeftAlone(c) /\ MarkSynced(c, Outcome(site[c])) /\ UNCHANGED trouble
       \/ ~LeftAlone(c) /\ trouble < MaxTrouble /\ trouble' = trouble + 1
          /\ \/ MarkSynced(c, Outcome("error"))
             \/ UNCHANGED rows  \* an exception: on to the next, with no stamp
    /\ UNCHANGED <<world, marks, job, doing, byJob, searching, slow, changes>>

FinishHarvest ==
    /\ doing = "read" /\ hosts = <<>>
    /\ searched' = IF searching THEN 0 ELSE searched
    /\ finished' = TRUE
    /\ job' = (IF byJob THEN FALSE ELSE job)
    /\ doing' = "idle" /\ byJob' = FALSE /\ searching' = FALSE /\ slow' = 0
    /\ UNCHANGED <<world, rows, started, hosts, trouble, changes>>

\* A stop request, a reboot or an error: the harvest ends where it is.  The job
\* of a killed worker is claimed again, that of a failed harvest is complete.
Killed ==
    /\ doing # "idle" /\ trouble < MaxTrouble /\ trouble' = trouble + 1
    /\ job' \in {job, job /\ ~byJob}
    /\ doing' = "idle" /\ hosts' = <<>> /\ byJob' = FALSE /\ searching' = FALSE /\ slow' = 0
    /\ UNCHANGED <<world, rows, marks, changes>>

SiteChanges ==
    /\ changes < MaxChanges /\ changes' = changes + 1
    /\ \E c \in Communities, a \in Sites : a # site[c] /\ site' = [site EXCEPT ![c] = a]
    /\ UNCHANGED <<class, lively, rows, marks, job, current, trouble>>

\* A tick is longer than the worker's minute: an idle worker misses none.
Older(t, most) == IF t = Never THEN Never ELSE IF t < most THEN t + 1 ELSE most

Tick ==
    /\ IF doing = "idle" THEN ~job /\ ~IsHarvestDue /\ UNCHANGED slow
       ELSE slow < MaxSlow /\ slow' = slow + 1
    /\ age' = [c \in Communities |-> Older(age[c], Closed)]
    /\ started' = Older(started, Interval)
    /\ searched' = Older(searched, SearchEvery)
    /\ UNCHANGED <<world, order, outcome, finished, job, doing, hosts, byJob, searching, trouble, changes>>

-----------------------------------------------------------------------------
Harvester == BeginScheduled \/ BeginJob \/ Search \/ CommunityHosts \/ Visit \/ FinishHarvest
HarvestNext == Harvester \/ AskForHarvest \/ TickPing \/ Killed \/ SiteChanges \/ Tick

\* The worker goes on, and so does the clock.
HarvestFairness == WF_harvestVars(Harvester) /\ WF_harvestVars(Tick)
HarvestSpec == HarvestInit /\ [][HarvestNext]_harvestVars /\ HarvestFairness

-----------------------------------------------------------------------------
HarvestTypeOK ==
    /\ site \in [Communities -> Sites] /\ age \in [Communities -> (0 .. Closed) \cup {Never}]
    /\ outcome \in [Communities -> {"none", "public", "private", "gone", "error"}]
    /\ Cardinality(Known) = Len(order) /\ ToSet(hosts) \subseteq Known
    /\ started \in (0 .. Interval) \cup {Never}
    /\ searched \in (0 .. SearchEvery) \cup {Never}
    /\ doing \in {"idle", "search", "list", "read"} /\ slow \in 0 .. MaxSlow

Ahead(c) ==
    LET Better == IF class[c] = "watched" THEN {}
                  ELSE IF class[c] = "fit" THEN {"watched"} ELSE {"watched", "fit"}
    IN {d \in Known : class[d] \in Better}

Asks(c) == doing = "read" /\ hosts # <<>> /\ Head(hosts) = c /\ ~LeftAlone(c)

\* The head of the list rotates: a known community is asked again and again as
\* long as those of a better class leave it a place in the run, however many of
\* its own class there are and whatever they answer (_community_hosts: "so the
\* head rotates instead of setting").
HeadRotates ==
    \A c \in Communities : []<>Asks(c) \/ <>[](c \notin Known \/ Cardinality(Ahead(c)) >= Limit)
=============================================================================

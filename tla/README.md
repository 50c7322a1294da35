# A TLA+ model of Warmr Circle

The program reads Circle communities (private ones with a member's session,
public ones without a login), decides which posts are buyer demand, keeps the
leads in Postgres and delivers them to the client's portal. It runs as several
processes on several machines that share one database, one file and a few HTTP
services. Nearly everything that is hard about it happens between two steps of
different processes, and that is what the modules here are about.

Contents: [the system](#the-system), [modules](#modules-and-the-code-they-model),
[runs](#what-the-runs-check), [bounds](#bounds), [fairness](#fairness),
[proofs](#what-is-proved), [only model-checked](#what-is-only-model-checked),
[where code and comments disagree](#where-the-code-and-its-comments-disagree),
[other limits seen](#other-limits-of-the-code-the-models-show),
[not modelled](#not-modelled), [plan](#plan), [running](#running).

## The system

### Processes and what they share

| process | code | writes |
| --- | --- | --- |
| dashboard (serverless, many requests at once) | `circle_leads/web/` | job rows, sessions, connection rows, settings, reviews |
| worker (one or more, restarted by systemd) | `circle_leads/cli/main.py` `worker_cmd` | job rows, communities, posts, leads |
| watcher (threads, one check per thread) | `circle_leads/watch/poller.py` | watch rows, posts, leads |
| recovery and maintenance lanes | `cli/main.py`, `storage/runtime.py` | retries, resyncs, drains |
| join bot | `circle_leads/join/` | sessions, join outcomes |
| local connector | `circle_leads/connector/` | over HTTP: connection rows, posts |
| desktop app | `desktop/src/engine/` | its own SQLite; the shared request budget |

They share the Postgres tables (READ COMMITTED transactions, short ones, mostly
without row locks), the request budget file on one machine, and three services:
Circle, the client's portal and a language model.

### Components

| component | state it keeps | operations | what makes it right |
| --- | --- | --- | --- |
| job queue | `scan_jobs` rows | enqueue, claim, complete, stale requeue | a job is run once, ends, and is not queued twice |
| lead delivery | `leads.external_synced_at`, `vini_status`, author ids | drain, push, retire, release, record answers | a row says of the portal what is true; every acceptable lead goes out |
| feed watcher: reading | `watch_states.last_post_id`, `recent_ids`, `etag` | check, seed, triage, finish | nothing new is passed over, the archive is left alone |
| feed watcher: modes | `watch_states` modes, tiers, due times | resync, park, choose a reader, back off | what can be read is read again and again, by the reader that can; a pause is heard |
| member scan | `replay_sessions`, `circle_connections` | paste, check, clear, remove, scan, harvest pass | what a re-read leaves out has been read |
| request governor | budget file, lock directory | acquire, trip, cool down | one pace for all processes; a dead holder stops nobody |
| worker and lanes | settings stamps, heartbeat | schedule, run, retry | a stage is neither skipped for ever nor run in a crash loop |
| harvest | `communities.last_synced_at`, the harvest's stamps | choose communities, read one, stamp it | every community gets its turn; what a stamp covers was filed |
| discovery and enrichment | names, descriptions, `icp_*`, `join_type*`, a cursor | find, describe, judge, classify, repoint | a row is judged on its own words, an opening is noticed, one row per address |
| readers | watermarks, the ingest's run, the Dynamite session | page, retry, stop, refresh a token | a mark moves only past what was kept; no token is stranded |
| classification and triage | `posts`, `leads`, decision records | store, judge, retry, dedupe, retire, purge | every text gets a verdict, every verdict its lead, every repost its original |
| community intake | portal ids and verdicts on communities | push, refuse, resend | a refusal is not repeated, an acceptance not forgotten |
| join bot | join outcomes, attempt log, the visit's page | walk a visit, wait for a code, log, persist | credentials and codes go where they belong, an outcome is true, every candidate has its turn |
| connector | pairing tokens, connection rows | pair, sync, upload, report | each sync is reported; no community is starved |
| remote browser | one browser thread and its queue | start, stop, navigate, fetch | who takes the browser thread takes one that serves |
| community intake, notifications, settings, dashboard views, desktop stages, desktop shell, extension, tooling | see `PROJECT.json` | | |

How they call each other: the dashboard enqueues and never reads Circle; the
worker claims one job at a time and, when the queue is empty, runs what is due;
every reader hands posts to triage, which stores a lead and pushes it; drains
push again what stayed behind; every HTTP request to Circle asks the governor
first; a session stored by the dashboard, the extension or the join bot turns a
community's scan and its watcher on.

### What is hard

- *Two processes on a row.* Transactions read, go out to a service for up to 30
  s, and write, without locks. The ORM writes only columns that differ from what
  it loaded.
- *Crashes.* Every process is killed at any time (deploys, the memory limit) and
  restarted: between a claim and its end, between the portal's answer and its
  record, inside the file lock, between triage and the watermark.
- *Things outside that move.* Members publish, delete, pin and release drafts
  while a walk is between two pages; Circle accepts and refuses a session at will.
- *History kept in few words.* A watermark, an ETag, a stamp and a count stand
  for what was read. Each is written at the end of something long and read by
  the start of something else.
- *Cursors over lists that move.* Batches of the harvest, of enrichment, of the
  judge and of the join bot take the first few of a list that others add to,
  reorder and leave; the wrong order starves what comes last.
- *Answers that do not arrive.* A call may fail after it acted: an upload, a
  rotated token, a claim, a join that Circle has let in.
- *Limits.* 15 minutes of staleness, 25 leads a drain, 5 pages a walk, 7 days
  of overlap, 5 s of patience with a lock and 10 s before it is stale, 25 retries a minute.

`PROJECT.json` lists each hazard at its line, with the properties that cover it.
Two of the queue are limits and not hazards a property could rule out: attempts
are counted and never limited (`job_queue.py:70`), and priorities are strict, so
that jobs of a higher one can starve the rest (`job_queue.py:56`).

## Modules and the code they model

### JobQueue, JobLedger, UpkeepProofs, MCJobQueue

`storage/job_queue.py` with its callers. One function per column of `scan_jobs`.
`EnqueueLook`/`EnqueueInsert` are the two statements of `enqueue()`;
`ClaimSelect`, `ClaimWon`, `ClaimLost` are `claim_next()`: the stale requeue and
the selection, then the conditional UPDATE with its row count. What an open claim
has put back (`reset`) is locked and invisible to others until it commits.
`Complete` is `complete()`, `Crash` the process's end. Time is the age of a claim,
and `ran` how long each worker has been at its job: nothing keeps a job from
outlasting the limit after which its row is taken for stale. `born` is history:
how many rows there were when the request that made a row looked for its twin.

`JobLedger` is the abstract promise, of leases: a job waits, is taken by a worker
when nobody holds it in time, and once ended never waits again; a holder that has
overrun (`late`) may still end it, or end it anew. `ImplementsLedger` maps the rows
and loops to it.

### LeadDelivery, LeadDeliveryProofs, MCLeadDelivery

`export/vini_ingest.py` with `retire_lead()`, `_release_author_leads()` and the
adoption of author ids in `storage/database.py`. `Store`, `Retire` and `LearnId`
are what a judgement does to a row. `PushPending`, `Drain`, `RetryFailed` and
`PushForced` are the four callers of a push; they load rows (`seen`) and open a
request. `Post`, `PostUnanswered` and `PostUntold` are the portal (external): it
refuses some leads, holds some, answers "duplicate" for what it has, may store a
batch whose answer is lost, and may answer 2xx with no entry for an item, which
the code stamps as accepted. A push whose rows are all deleted by then, or have no
payload, asks nothing (`Nothing`); one of a lead whose post has no author row is
sent under the byline it has, but no drain loads it (`Unsynced`). `Record` writes
the answers against what was loaded, and `RecordRolledBack` is the transaction
that fails because a row was deleted.

### WatchFeed, WatcherProofs

`watch/poller.py`: `check_community()`, `_take_new()`, `_finish()`. The feed is
external: pinned posts and a timeline whose pages move while a walk is under
way. `FetchNotModified`, `FetchPage` and `WalkEnds` are one request of the walk,
`Seeding` the first check, `TriageOne` one transaction of triage, `FinishOk` the
marks, `CheckFails` every way a check stops without them. `hidden` and `left`
are history: the posts the community itself moved out of the walk's way, and
those a burst beyond `max_pages` leaves to the harvest. A post goes out of the way
when a page's worth lands on top between two pages, when one above it is deleted
under the walk, when the page above it ends the walk because late drafts are all
it holds (`Swallowed`), or when it is a late draft itself.

### Governor, GovernorProofs, MCGovernor

`scraper/governor.py` with the adapter in `scraper/http_client.py`, and the
desktop's port of both. One action per system call on the lock directory and
the file, since two processes in two languages meet there: `TakeLock`,
`GiveUpOnHolder` then `BreakLock` (the age is read, then the directory removed),
`ReadFile`, `Book` or `Refuse`, `RemoveLock`. `WithSlot` is the arithmetic of
`_reserve()`; `WriteTrip` is `trip()`; `Recheck` and `NapOver` are the desktop's
second look at the pause. `robbed` records that a live holder's lock was removed.

### MemberScan, ReadingProofs, MCMemberScan

One private community: `scanning.py`, the connection endpoints of `web/app.py`,
`web/replay_store.py`. A paste is four transactions (`StoreSession`,
`ConnectHost`, `ApplyCheck`, `QueueRead`), the join bot's capture the first two;
a removal is two (`RemoveRow`, `RemoveSession`). A scan loads the cookies
(`LoadCookies`), derives its window from the row (`FindWindow`, `RescanSince`),
reads one space after another (`ReadSpace`, `SkipSpace`) and writes the row at
the end (`SaveScan`), after success or any exception. It runs as a job or in a
harvest pass (`TakeJob`, `StartPass`). A space is read newest first, `ScanPages`
pages of it at most, and fewer when a later page fails, which the reader takes for
the end of the list. `missed`, `passedOver` and `beyond` are history: the spaces a
failed scan did not get to, those counted as read unanswered, and the posts in the
window that no page brought.

### LeadVerdicts, ConnectProofs, MCLeadVerdicts

`upsert_post()` to `purge_community()` of `storage/database.py`, triage
(`triage/pipeline.py`), retries (`classify_pending()` of `pipeline.py`) and the
durable decision of `classifier/decisions.py`. Judging a post is one transaction
with a model call in it, which `task` holds open:

| code | action |
| --- | --- |
| a reader stores a post and judges it | `ReadNew`, then `Conclude` |
| a reader meets an unjudged post again | `Recapture`, then `Conclude`, without a lock |
| the whole text of a preview; an edited post of the ingest | `FindOlder`, `FlushUpgrade` then `Conclude`; `FindOlder`, `FlushEdit` |
| the recovery lane; the classify command | `Retry`; `Classify`; both lock the row, then `Conclude` |
| the verdict, the lead, the demotion | `Conclude`: `Record` with `File` or `Retire` |
| a rollback, a backoff's end, a push, a purge | `Abort`, `RetryDue`, `Send`, `Purge` |

What a transaction loaded matters, because only columns that differ from it are
written: `ClearedDone` and `ClearedRetry` are the columns an UPDATE leaves alone
in a row someone else has changed. The thread context is part of the text, and a
text is stored under one key. A reader that judges a known post is never given
the row's lock here, though updating its URL takes it in some cases: that only
adds interleavings. Nothing under `src/` writes the review status that lets a
demotion pass a lead by, so it is left out. `overtaken` (a text changed under an
open judgement) and `buried` (a repost whose original was demoted unsent) are
history.

### WatchRows, WatcherProofs, MCWatchFeed

The other half of `watch/poller.py`: which communities are asked, with what and
how soon again. `EnsureWatchRows` is the half-hourly resync, `WatchMemberNow` what
a stored session does at once, `Draw` the batch the loop copies, `CheckCommunity`
the choice between home feed and spaces (`ReadHome`, `ReadSpaces`, `LearnSpaces`),
`Finish` the row after the answer: mode, tier, errors, parking, wait. A request
that fails (`Fails`) while the spaces are learnt only passes a space over: when all
of them fail, that none opens is remembered for six hours. Exact seconds
are kinds of waiting; the threads of a batch are asked one after the other.
`MCWatchFeed` runs it beside WatchFeed.

### Harvest, PublicRead, ReadingProofs, MCHarvest

`Harvest` is when the worker runs a harvest (`BeginScheduled`, `BeginJob`,
`TickPing`, `Search`) and which communities it then asks: `CommunityHosts` is
the order by class and age cut at `Limit`, `RecheckHours` who is left alone,
`Visit` the question and its stamp, `Killed` the end of the process. `PublicRead`
is one community's read: `Since` the watermark, `ReadPage`, `SpaceRefuses` and
`PageFails` the pages of its spaces, `Triage`, `Stamp`. A post there is the instant
it was published, and pages shift under the reader.

### OfficialIngest, Dynamite, ReadingProofs, WatcherProofs, MCSources

`OfficialIngest` is `pipeline.py` `ingest_community()` on the client of
`scraper/pagination.py`: approved spaces, comments and chat rooms, each request
of which may be retried, refused, given up or over the budget of the run. The
column that holds its watermark is also the harvest's stamp: `OtherReaderStamps`
is `harvest._mark_synced()`, which moves it with nothing of the API kept.
`Dynamite` is `scraper/dynamite.py` `run_scheduled()` and the Firebase session, by
any number of readers, since nothing keeps `dynamite-read` from running beside the
pass. A token is its number in the order Google issued them, and the one a refresh
was asked with is spent once Google rotates it, whether or not the answer arrives.
`lost` and `sealedBack` are history: spent tokens whose successor went with its
answer, a failed save or a kill, and those a reader that had loaded them before
sealed back into the setting. `MCSources` runs the four
readers that keep a window or a session: MemberScan, PublicRead, these two.

### Enrichment, JoinTypes, UpkeepProofs, MCUpkeep

Two stages of the unattended upkeep. `Enrichment`: `PersistFind` (a bare row),
`EnrichPending` (a batch by id that starts over at the end), `ListPending`, `ReadRow`
and `JudgeRow` (never judged first, then what the rules once turned down; a row is read
in one transaction and its verdict written in another). `FilterRelevant` is a command of
its own: a person may run it while a pass has its batch listed, and the batch is judged
without a new look at the flag (`touched`, history). `JoinTypes`: the four writers of
`join_type` (`CheckNext`, `HarvestAsks`, `EnrichAsks`, `ManualCheck`) with what an
indefinite answer may overwrite, the recheck terms of `reach.py`, and the move of a row
whose custom domain is dead to its Circle host. A look whose requests fail in passing
is stored as such on the Circle host, but behind a custom domain it may be stored as
an answer that is never asked again. `MCUpkeep` runs them beside the job queue.

## What the runs check

The passing runs are sums: one specification whose behaviours are each of one
part, while the variables of the others rest at a single value. A part is checked as
it would be alone, and its fairness is owed where it runs.

| run | module | parts | shows |
| --- | --- | --- | --- |
| `queue` | MCUpkeep | JobQueue; Enrichment; JoinTypes | no job has two runners but where one has outlasted the limit, no duplicates but from requests that overlap, every job ends, the queue implements the ledger; no pass demotes a row in the join queue but one a person put there while it was listed, every row is judged on its own words, an opening is noticed, no two rows share an address |
| `governor` | MCJoin | Governor; JoinWalk; JoinBatch | pace, hourly ceiling and pause hold unless a live holder was robbed, every request ends; credentials stay on the host, codes are fresh, the memberships Circle told of are true; the cap holds, rows name members, every candidate is visited |
| `scan` | MCSources | MemberScan; PublicRead; OfficialIngest; Dynamite | what a re-read leaves out was read or is below the pages a read gets, no session without its row; a stamp moves only past what was filed; what the mark of the API leaves out was kept, came in under the run or was there when another reader stamped; a stored token is one Google takes, unless the answer that replaced it was lost or another reader sealed it back |
| `verdicts` | MCConnect | LeadVerdicts; RemoteBrowser; Connector | verdict, lead and text of a post agree whoever judges, reposts stay under live originals, retries end; no browser thread is told to end while it can be taken; each community of a paired machine gets its turn |
| `feed` | MCWatchFeed | WatchFeed; WatchRows | everything at or below the watermark is accounted for, the archive is not triaged, every later post is read or left to the harvest or hidden; a pause is heard, members stay fast, what can be read is read again and again |
| `delivery` | MCHarvest | LeadDelivery; Harvest | what a row says of the portal is true but for an answer without its item, an answer is hidden only by a push that overlaps the one that got it, every lead the portal takes goes out; the head of the list of communities rotates |
| `queue_long_job` | MCJobQueue | JobQueue, jobs longer than the limit | a live worker's job is run twice (finding) |
| `delivery_retired` | MCLeadDelivery | LeadDelivery, 1 lead | the only record of a published lead is deleted (finding) |
| `governor_pause` | MCGovernor | Governor | a Python thread sends in the pause (finding) |
| `scan_failed` | MCMemberScan | MemberScan | a failed scan is taken for a complete one after a paste (finding) |
| `harvest_new_posts` | PublicRead | itself | a post published while its community is read is read by no later harvest (finding) |
| `connector_report` | Connector | itself | a sync through the browser ends without a report (finding) |

`CHECK_DEADLOCK FALSE` stands where the bounds let a part stop (every lead
delivered, the clock at its end, a visit over, all calls made); `queue` and `feed`
check deadlock.

Each property of a passing run has a mutant in `PROJECT.json`: a plausible bug
in one definition with which TLC finds the property violated. The mutated forms
stand in the modules, before the definition they stand in for, and are used by
nothing else.

## Bounds

- *Jobs:* two rows, of one key and one priority, two workers and two callers whose
  requests may overlap are what a double run, a duplicate and a claim race need. One
  crash lets a row come back. A job runs for two ticks at most against a limit of one,
  so it may overrun or not; ages are capped just above, so the clock has no horizon.
- *Leads:* two pushers of one lead that needs an id, or one pusher of two leads: the
  one that needs an id behind one that is refused, or behind a company's that is parked
  and has no author row, in batches of two. One fault is one lost answer, one answer
  without an item or one crash; which of them, and when, is free. More pushers of more
  leads are left to the proofs.
- *Feed:* a walk of two pages of three; the feed of the run holds six posts at most,
  as many as a walk reads, so a burst beyond `max_pages` is not in the run and is left
  to `WatermarkIsHonest`. So are pins that fill a page: the run has one above pages of
  three. One deletion pulls a page up by one, one draft comes in below. One fault is a
  failed check and its repetition. RecentKept is below the page size times the pages,
  so the list drops ids.
- *Watch rows:* one community, since rows do not touch each other but through the
  batch. Four events are a pause, a session, a change of the community and its
  way back; ParkAfter 2 lets a row be parked and come back; one passing failure.
- *Governor:* one process of each language; with StaleLock 2 and LockPatience 1
  the order of the code's 10 s and 5 s is kept. An hour of three ticks holds
  more than a ceiling of two. Time stops at IdleUntil only when nobody waits.
- *Scan:* two spaces let a scan fail between them and a paste fits everywhere; no
  two sessions are ever compared, so one stands for all. One tick after
  `Overlap + 1` lets a scan end an instant after it began, with a post and a
  second read after it; longer histories, and lists longer than the pages of a read,
  are left to `ReadsMissNothing`. What the limit does, a later page that fails does
  here: the read stops early. Scans
  last at most MaxScan: hours, against an overlap of a week.
- *Verdicts:* two judges are a reader and a retry on one post, or on a repost and
  its original. A row is not used again after a purge, so two rows are any two of
  the three posts, each of its own kind: the preview grows, the ingested one is
  edited, the repost is like both until they do. Two faults are an error and the
  failure of its retry, a lost process, or an invalid answer.
- *Upkeep:* two rows and batches of one make each cursor go round; one mishap is a
  site that is down, an LLM that fails or a killed pass; two communities and one
  Circle host are two domains of one community.
- *Joining:* a visit keeps the code's own bounds (3 rounds, 2 codes and 4 passes) but
  for the logins it hops through, 2 for 4. Batches: two communities, one candidate a
  batch and a cap of two let one of them block the other; two troubles are a lost
  browser and a killed batch. Several accounts are left to the proof.
- *Readers:* pages of one post, two pages of depth after three, one upset, three
  instants: a post that arrives, one that shifts a page, a page that fails, and a
  second read. The API has a space and a chat room, one retry, four requests and
  two odd answers or stamps of the harvest. Dynamite has the pass and a person beside
  it, one room and three tokens: one pasted, one rotated under a read, and its
  successor or one pasted meanwhile.
- *Harvest:* two communities for one place in the run, recheck terms of one, two
  and three ticks, one slow run, one kill or failure, one change.
- *Connecting:* one machine with two communities of two spaces, one failure, one
  click. Two request threads, two browser threads and three calls: a start, a
  stop and a late third.

## Fairness

- *Queue:* the poll loop is endless and every statement ends; strong fairness
  for the winning claim only, because a claim may abort again and again without
  the database being down for ever. Callers and crashes are not fair.
- *Delivery:* a request has a timeout and its answers are then written; drains
  recur after every batch of the watcher and after every harvest, hence strong
  fairness of `Drain`, which is enabled again and again. Judging is not fair.
- *Feed:* the poll loop is endless, requests time out and triage ends (`Watcher`
  weakly fair). The community owes nothing.
- *Governor:* a process that is not asleep goes on, sleeps end, requests time
  out. The race for the lock is not fair; only the bound on requests rules out
  losing it for ever.
- *Scan, public read, API, Dynamite, remote browser:* safety only.
- *Watch rows:* the poll loop is endless (`RowsWatcher`), the resync comes due every
  half hour, waits end, remembered spaces expire. People, sessions and the
  communities owe nothing.
- *Harvest:* the worker's loop goes on (`Harvester`) and so does the clock; kills,
  pings and requests are not fair.
- *Upkeep:* the maintenance stages come due again and again and each batch ends
  (`Maintenance`, `Checker`); neither people nor harvests owe a row anything.
- *Joining:* a batch goes on, midnight comes, and the timer starts batches for ever.
  A start is only possible below the cap, so it is strongly fair: each midnight
  makes it possible again. A visit goes on, since each wait in it has a limit.
- *Connector:* the loop is endless and its calls time out (`Loop`). The dashboard's
  clicks and Circle are not fair.
- *Verdicts:* a model call has a timeout, so an open judgement ends (`Proceed`);
  backoffs pass. The recovery lane runs every minute and takes 25 of the posts
  that have waited longest, so a post that is due again and again is taken
  (strong fairness of its `Retry`, by whichever process). Reading, classifying
  by hand and purging are not fair. Errors are bounded: no fairness ends a
  model that fails for ever.

## What is proved

By TLAPS, for every value of the constants. A proof module stands beside one
component or beside several that do the same kind of work. `ListLemmas` holds what
they share and says nothing of a component: least and greatest members, sets put in
order, pages of a list, a post put on top of one and one taken out:

| module | theorem | assumes | says |
| --- | --- | --- | --- |
| UpkeepProofs | `TypeCorrect` | bounds are naturals | types of the queue |
| | `DoubleRunsComeLate` | the same; jobs of any length | `[]DoubleRunsAreLate` |
| | `FinishedStaysFinished` | the same | `VerdictsStand`: what is finished stays finished, with its verdict unless the row was claimed anew |
| | `TwinsHaveOverlapped` | any callers | `[]TwinsOverlapped` |
| | `QueueImplementsLedger` | jobs of any length | the queue implements `JobLedger` |
| | `QueueIsKept` | a batch takes at least one row | `QueueKeepsItsRows` |
| | `AddressesStayApart` | any communities and domains | `[]OneRowPerAddress` |
| LeadDeliveryProofs | `TypeCorrect`, `RowsAlwaysTellTheTruth` | kinds of leads are disjoint as stated | types, `[]RowsTellTheTruth` |
| | `AnswersAreKept` | any pushers | `AnswerKept` |
| GovernorProofs | `TypeCorrect`, `PaceIsKept`, `PauseIsKept` | limits are naturals | types, `[]SlotsApart`, `PauseSticks` |
| | `PauseIsNearlyKept` | the same | `[]PauseHolds`: in a pause the desktop app sends nothing, a Python thread at most once |
| | `CeilingHolds`, `ProbesTakeTurns` | the same | `[]HourlyCeiling`, `[]ProbesAlternate` |
| ReadingProofs | `ScanTypeCorrect`, `ReadsMissNothing`, `SessionsAreListed` | `ScansAreShort` | types of the member scan, `[]WindowIsCovered`, `[]SessionIsListed` |
| | `BacklogIsFiled` | a community lists a space, and finitely many | `StampedIsRead` |
| | `MarkedIsKept` | finitely many spaces and rooms; none is both | `MarkMeansKept` |
| WatcherProofs | `RowsTypeCorrect`, `PausesAreHeard`, `FastMembers` | limits are positive | types of the watch rows, `[]PauseIsHeard`, `MembersStayFast` |
| | `TokensAreKept` | any readers and limits | `[]TokenNotStranded` |
| | `FeedTypeCorrect` | bounds are naturals | types of the feed watcher |
| | `WatermarkIsHonest` | `FeedNeverEmpty` | `[]WatermarkCovers` |
| | `ArchiveIsLeft` | the same, `ArchiveInOrder` | `[]ArchiveLeftAlone` |
| ConnectProofs | `TypeCorrect`, `VerdictsHaveLeads`, `NothingForgotten` | previews and ingested texts are apart | types, `[]LeadsMatchVerdicts`, `[]NoTextForgotten` |
| | `RepostsAreKept`, `RepostsAreNotPromoted` | the same | `[]RepostsHaveOriginals`, `RepostsStayFiled` |
| | `WorkersServe` | any callers and threads | `[]WorkerServes` |
| JoinProofs | `MembersAreNamed`, `DailyCapHolds` | any accounts, caps and lists | `[]RowsNameMembers`, `[]CapHolds` |
| | `CredentialsAreSafe`, `CodesStayFresh` | any limits | `[]CredentialsStayHome`, `[]CodesAreFresh` |
| | `VisitsTellTheTruth` | the same | `[]OutcomesAreTrue` |

The theorems are of each module's own specification; the runs check the same
properties of the same actions in their sums. Stated by theorems only:
`VerdictsStand`, `PauseHolds`, `ProbesAlternate`, `RepostsStayFiled` and the types.

The arguments, each an inductive invariant in named parts:

- *Queue.* Two runners need a row that is taken from a live worker. A worker that is
  in time finds its row exactly as old as its run, or ended by one that was not
  (`HandsHeld`), so it is not stale, and open claims put back stale rows only
  (`ResetsStale`). A row claimed once has had one worker and ended with it
  (`ClaimsCount`): hence the verdicts that stand. What a caller found no twin of has
  none among the rows it could see (`AsksFresh`), so a twin was inserted since.
- *Enrichment.* An unattended pass first judges rows nobody has judged, which are
  not in the join queue; so a row of its list is there only if the pass put it there,
  on words the rules accept, or a person did meanwhile (`Earned`, `NothingToLose`).
- *Addresses.* `OneRowPerAddress` is inductive: a move looks for the address first
  and is one transaction (`MovesApart`).
- *Delivery.* `RowsTellTheTruth` speaks of rows; what will be written to them is
  in the hands of processes. So the invariant vouches for the answers not yet
  written too (`ItemsVouched`), in a form that no step of the portal undoes
  ("published" is final; a refused lead is never taken). An answer is hidden only
  by a push that read the row before it was written: what a push has read is what
  the row says, but for the rows another one has answered meanwhile (`Fresh`).
- *Governor.* Unless a live holder was robbed, who is inside the lock is alone
  (`HolderAlone`), what it read is still the file's content (`ReadsAreFresh`),
  and every granted slot is behind `nextAt` (`PaceCovers`). The hour in the file is
  the tail of all slots granted, the rest of which is over (`HourIsBooked`), so
  refusing when it is full puts an hour between a slot and the one `maxPerHour`
  before it (`HourApart`), of which the ceiling is a count. The probes have a clock of
  their own (`ProbesCovered`). What goes out in a pause needs one more (`PInv`): a
  Python thread on its way to send has not sent in this pause, and grants none in it,
  so it sends once (`PythonSendsOnce`); a desktop thread that may send looked at the
  file in this very instant (`DesktopSendsCleared`), since the clock waits for whoever
  need not sleep.
- *Scan.* The window of a re-read comes from stamps that a scan writes at its
  end about what it found at its start. The invariant carries the scan's
  progress: its window was covered when it was taken (`ScanIsCovered`), what it
  read is read up to its beginning (`GotIsRead`), and the stamps would cover all
  but what the last failed scan missed, if a check made them count
  (`StampsAreCovered`). With scans no longer than the overlap, the new stamp
  less the overlap lies before the beginning. What no page brought is named in
  `beyond` as the read of a space ends.
- *Public read.* Every post a read was to bring in is stored or still before the
  reader: in a space to come, or deeper in this one than the pages read (`Ahead`,
  `NothingSkipped`). A post that arrives pushes the others down, never up; and since a
  list is newest first (`Falling`), the first post that is not newer than the watermark
  ends the space with nothing wanted below it. A removed post does pull the others
  up, and the read is then no longer called clean.
- *API ingest.* The same, with two kinds of walk: the pages of a space shift like those
  above; the cursor of a room is a message and goes down with it (`CursorStands`).
  What a run should keep stands in its place (`DueStands`) and is kept or still to
  come (`NothingLost`); whatever ends a run early does not call it complete. What the
  harvest's stamp passes is named when it does (`over`), and the run under way goes on
  from the mark it began with.
- *Watch rows.* After a pause a community may be in the batch that was drawn before it,
  so it can be asked once; then it is out of the batch, and the next draw leaves it out
  (`AskedOnce`). A drawn row exists (`DrawnRowsExist`), so every write to a row
  starts from one.
- *Feed.* The mark is written once, from what the whole walk found, so the invariant
  follows the walk. Posts published since are on top, each once, newest first but for
  late drafts (`OrderInv`). A post the walk has not met is still in front of it, or
  newer than all it found (`WalkInv`): then the mark stays below it. What could end the
  walk too soon is a page made of posts met before. Either those met are no further
  down than the posts put on top since the last page have pushed them, fewer than a
  page (`Tight`), or so many came that all not met is above all met and named in
  `hidden` when it is overtaken (`Loose`). So the bottom post of a page without news
  would be news, unless all below it is marked or hidden. For the archive: its posts
  stay in order below the others (`ArchiveOrder`), and the first page shows one as new
  as any (`ArchiveMarked`).
- *Dynamite.* What a reader has still to save is new: not spent, not in the setting
  and in nobody else's hands (`FreshIsNew`), since tokens are numbered as they are issued
  (`TokensNumbered`). So a token gets into the setting good or as one that is named:
  by a reader that had loaded it before it was spent (`sealedBack`).
- *Verdicts.* The three safety properties and the types, with what they rest on:
  a link goes with its lead (`LinksNeedLeads`), so a purge or a demotion that
  counts the reposts finds every link; a row that is still to be inserted has not
  been touched (`FreeRowsAreFresh`); a stored row and an open judgement have a text
  (`StoredHaveText`, `BusyHavePosts`). A filing links downward to a live lead
  (`OriginalFacts`) and makes no other lead less live; a demotion that would leave
  links behind keeps the lead, and buries the reposts if it was never sent.
- *Remote browser.* A thread gets the sentinel from who took it off `_worker` under the
  lock (`RetiredIsTakenOff`), and what is queued for a thread not made yet is nothing
  (`UnmadeAreEmpty`).
- *Join batches.* A row is written two steps after the visit, from what the batch
  holds. `VisitorsAreInside` says that an account whose batch holds a member's outcome is
  inside that community; nobody is ever taken off the list. For the cap, the pages
  opened are those logged, those lost with a batch, and the visit under way
  (`PagesLogged`), and a batch never counts fewer than the log has (`CountsPages`), so it
  stops in time; midnight empties the log and not the batch's count.
- *Visits.* Every key goes in behind the look at the host (`TypedAtHome`). The code that
  is typed is younger than every one mailed before it was asked for (`CodesNumbered`),
  so it is the last and is entered once. The profile step is come to by who was told of
  the membership and is a member, or by the address of a page (`FinishersAreMembers`).

Hypotheses that are facts about the deployment, not about the code: `FeedNeverEmpty`
(the first check meets a post; one that meets none leaves no mark, and the next takes
what came since for archive) and `ArchiveInOrder` (the archive is listed newest first,
below fewer pins than a page holds). They stand in the theorems that use them and are
no assumptions of the modules. `ScansAreShort` (a scan takes less than a week) is an
assumption of MemberScan. The others only give the constants their types. Where the
code breaks what a comment promises, the property names the case in which it does
(`Overdue`, `born`, `late`, `untold`, `beyond`, `over`, `lost`, `sealedBack`, `touched`)
and claims the promise for every other.

## What is only model-checked

Liveness: `EveryJobEnds`, `TextIsJudged`, `OpeningsAreNoticed`, `EveryRequestEnds`,
`EveryCandidateVisited`, `EveryLeadGoesOut`, `HeadRotates`, `EveryPostRead`,
`ReadableIsRead`, `RetriesEnd`, `HostsGetTheirTurn`: the prover has no ENABLED and
so no fairness. Every safety invariant a run checks is stated by a theorem. The
refutations are TLC's too: each is a behaviour of a small instance.

Properties of the form `~<>[](...)` say that what should end does not last for
ever. No property says what a sync that reports "connected" has read: the browser's
raises before its report, and the HTTP twin, which no command calls, reads five pages
of a space and takes a later page that fails for its end.

## Where the code and its comments disagree

Each is a run that TLC finds violated; `PROJECT.json` quotes the lines.

1. *A long job is run twice* (`queue_long_job`): the stale requeue does not know
   whether the worker is alive, and harvests last longer than 15 minutes.
2. *The only record of a published lead can be deleted* (`delivery_retired`):
   learning an author's id clears the stamp `retire_lead()` goes by.
3. *Not everyone pauses* (`governor_pause`): a Python thread that waits for its
   slot does not look at the pause again.
4. *A failed scan does not start over* (`scan_failed`): a scan that failed after
   its first space leaves a count and a stamp that a later check makes valid.
5. *A harvest misses what is published under it* (`harvest_new_posts`): the
   community is stamped when it is done (`harvest.py:663`), and the next read
   asks for what is newer than the stamp, though known communities are said to be
   re-read "for *new* posts" (`harvest.py:297`).
6. *A sync through the browser is never reported* (`connector_report`): a call with the
   wrong argument (`connector/runner.py:172`) raises at the first space, though the
   state is to be reported "at each step".

## Other limits of the code the models show

- Two overlapping `enqueue()` calls insert the job twice (`TwinsOverlapped` names them).
- With two pushers, a late timeout overwrites the other's "accepted" with
  "error" (`late`); the next push mends it with the portal's "duplicate".
- A 2xx answer that has no entry for a lead, or no body, counts as "accepted"
  (`untold`, `vini_ingest.py:448`): such a row says what the portal never did.
- A lead whose post has no author row is loaded by no drain (`vini_ingest.py:616`); it
  goes out only by the read that found it, a retry or a person. When an author's id is
  learnt while a push of the lead is open, that push stamps it again; when the row is
  demoted, nothing is taken back (`missed`).
- 25 leads the portal refuses for good fill every drain, because a drain takes
  the lowest ids first (`vini_ingest.py:623`); EveryLeadGoesOut is checked with
  fewer refused leads than the batch holds.
- A draft that is released with an id below the watermark is skipped for good:
  `recent_ids` cannot save what the watermark already skips (`hidden`).
- The first post of a community whose feed was empty at the first check is taken
  for its archive. With as many pinned posts as a page holds, the seed's watermark
  is the pins' and the second check triages the archive (ArchiveLeftAlone is
  checked with fewer pins). A walk ends early when a page's worth of posts lands
  on top between two pages, and on a page of late drafts, above posts not read yet.
- After a crash inside the governor's lock, two waiters can remove each other's
  lock: the patience (5 s) is shorter than the staleness (10 s). `SlotsApart` has
  the exception; `PaceIsShared` is the strict form, which TLC refutes.
- A paste during a running scan of the same community gets no read of its own,
  and the scan's verdict on the old cookie replaces the new one's.
- A space that refuses the session or answers nothing counts as read
  (`passedOver`), and its older posts are not looked at again. So do the posts below
  five pages, or below a page that failed (`beyond`): the next window starts above them.
- A scan that is running puts back the row of a community removed meanwhile.
- An ingested text that is edited while the old one is being judged is not
  classified again (`overtaken`): the edit writes `classified = False` over the
  False it loaded, so nothing is written (`database.py:684`). Without the
  exception TLC refutes NoTextForgotten.
- A lead that is demoted before it was sent hides the reposts filed under it
  (`buried`): nothing re-judges them.
- Two near-identical posts judged at the same time are both originals, and so is
  one whose original failed and is retried later. `find_near_duplicate()` looks at
  the first near post only, even if that one's lead is dead.
- A purge fails as a whole on Postgres when a lead that stays is filed under one
  it deletes; the tests run on SQLite without foreign keys.
- *Watch rows.* A new session of a community that is read openly waits for the
  resync, up to half an hour; a member's parked row is tried at every resync; the
  spaces remembered for an old session are not forgotten with a new one, for 6 h. A
  space whose request fails while the spaces are learnt is left out for as long, and when
  all fail, none is asked.
- *Harvest.* A failed first read is stamped like a good one; a later page that
  fails is taken for the end of the space, and so is a pinned old post. Better
  classes that fill `Limit` leave the rest unread (HeadRotates has the exception).
  An interrupted harvest repeats its metered search, and the ping and the worker can
  both find a harvest due. Comments on posts that were read are not read again.
- *API ingest.* The watermark is the clock at the end of the run, where it should be
  the one at its beginning; a space that is approved later starts from it. Retries
  may exceed the budget of a run, a walk cut by `max_pages` is stamped, and an
  HTTP error of the first token request is not caught. The harvest stamps the same
  column (`harvest.py:663`), so what the API has not brought by then is left to a full
  run (`over`).
- *Dynamite.* A session pasted during a read is overwritten by the rotated or the
  sealed one. A token is stranded when Google rotated it and the answer is lost or
  cannot be read, when the save fails (`dynamite.py:302`) or the process dies before it
  (`lost`), and when a second reader seals the spent one back (`sealedBack`). Beyond 25
  rooms, and 8 messages of a room, nothing is read. A run is stamped before it reads.
- *Enrichment.* A row without a text that was judged without an LLM, and one an LLM
  decided on its name alone, are not judged again. A pass can demote a row
  `filter-relevant` flagged after the pass had listed it (`touched`).
- *Join types.* A harvest that was answered at another address records the answer and
  leaves the address (`harvest.py:437`). A TLS or DNS failure in passing behind a dead
  custom domain can be stored as a final answer (`join_type.py:310`), and is not asked
  again.
- *Join visits.* The address of a new member's profile is taken for a membership without
  a word of Circle's API, in an open community too; "approval pending" is what the page
  says; a failed call to the API leaves the other-account check out.
- *Connector.* Two machines that claim one code overwrite each other's token; a
  claim whose answer is lost burns its code; a connection that was removed comes
  back with the report in flight; an error between two reports leaves the old
  state; a post with a time makes the upload raise, since a datetime is not JSON. The
  HTTP twin takes a session Circle answers with a 5xx for an expired one.
- *Remote browser* (its routes are no longer mounted). A stop that races a start
  leaves a Chromium without owner; a closure queued after the sentinel is never run
  and its caller waits out 120 s; a call that timed out is run all the same; after a
  failed launch nothing starts until a stop; a page that does not load leaves the
  state at "starting".

## Not modelled

*Whole components.* Text rules, prompts and scoring have no state; what their failure
does is in LeadVerdicts and Enrichment. The community intake export does for
communities what lead delivery does for leads, with the same portal; it is left for
later. Notifications, the activity log, the schema check and settings are best-effort
or start-up code. The desktop engine runs stages of the same kind over a database
of its own; of it the shared request budget is in Governor. Windows, forms, the
extension, development scripts and unit files are I/O.

*Within the modelled components.* What pages contain and how text is normalised;
search engines and directories; views and login of the dashboard; the join bot's
driver on the Mac (ego); the payload of a lead and the author-identity repair's
matching; `configure()` changing the budget's limits in use and the fallback for an
unusable budget file; the `time_budget` of a scan (no caller gives one); comments of
the member scan; the `purge` command outside LeadVerdicts, where it takes the mark a
reader goes by along with the posts; a person's `enrich` beside the pass; heartbeats and
the memory watchdog; the threads of one watch batch, which are asked one after the
other. Each component's note in `PROJECT.json` says what.

## Plan

Done: JobQueue with JobLedger, LeadDelivery, WatchFeed, Governor, MemberScan and
LeadVerdicts first; then WatchRows, Harvest, PublicRead, OfficialIngest, Dynamite,
Enrichment, JoinTypes, JoinWalk, JoinBatch, Connector and RemoteBrowser. Next:

1. The community intake, with LeadDelivery's portal; refinement of both into an
   outbox that promises "published at least once, recorded truly".
2. The composition of JoinBatch and WatchRows: a captured session is read.
3. The desktop engine's stages.

## Running

    tlc -workers 2 -config JobQueue.cfg MCUpkeep
    tlapm UpkeepProofs.tla

Every run takes less than five minutes with two workers, and so does every proof
module. `PROJECT.json` names the module of each configuration.

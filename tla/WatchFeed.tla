----------------------------- MODULE WatchFeed ------------------------------
(***************************************************************************)
(* How the watcher reads one community's feed and moves its watermark      *)
(* (circle_leads/watch/poller.py: check_community, _take_new, _finish).    *)
(*                                                                         *)
(* A check asks for page after page while members go on publishing, hands  *)
(* what is new to triage one post at a time, each in its own transaction,  *)
(* and only then writes the watermark.  Anything between can fail, and the *)
(* process can be restarted.                                               *)
(*                                                                         *)
(* The feed is external: pinned posts first, then the others, the latest   *)
(* published first.  An id is given out when a post is drafted, so a draft *)
(* released late carries an id below newer ones.                           *)
(***************************************************************************)
EXTENDS Naturals, Sequences, FiniteSets, FiniteSetsExt, SequencesExt

CONSTANTS
    MaxId,        \* bound: ids Circle ever gives out
    MaxDrafts,    \* bound: posts that are drafted before they are published
    MaxDeletes,   \* bound: posts that are deleted again
    MaxFaults,    \* bound: failed requests, failed triages, restarts
    PinnedFeed,   \* the pinned posts, in feed order
    OldFeed,      \* the other posts published before the first check
    PerPage,      \* WatchTuning.per_page
    MaxPages,     \* WatchTuning.max_pages
    RecentKept    \* RECENT_IDS_KEPT

Ids == 1 .. MaxId

ASSUME FeedAssumption ==
    /\ PinnedFeed \in Seq(Ids) /\ OldFeed \in Seq(Ids)
    /\ Range(PinnedFeed) \cap Range(OldFeed) = {}
ASSUME TuningAssumption ==
    /\ PerPage \in Nat \ {0} /\ MaxPages \in Nat \ {0} /\ RecentKept \in Nat
    /\ MaxId \in Nat /\ MaxDrafts \in Nat /\ MaxDeletes \in Nat /\ MaxFaults \in Nat

VARIABLES
    timeline,     \* unpinned posts, the latest published first
    nextId,       \* the id Circle gives out next
    drafts,       \* drafted, not yet published
    drafted,      \* how many ever were
    deletes,
    watermark,    \* WatchState.last_post_id, 0 for NULL
    recent,       \* WatchState.recent_ids
    etag,         \* WatchState.etag: the first page it stands for
    phase,        \* "idle", "fetching", "triaging"
    page,         \* the page asked for next
    fresh,        \* records found new in this check
    seenNow,      \* every id this check has met
    newEtag,      \* the first page as this check got it
    triaged,      \* posts handed to triage and stored
    polled,       \* a check has succeeded
    old,          \* what the feed held at the first successful check
    beyond,       \* new posts below the last page of this check
    left,         \* posts a burst left to the harvest
    hidden,       \* posts the community itself moved out of the walk's way
    moved,        \* posts put on top since the walk's last page
    faults

circle == <<timeline, nextId, drafts, drafted, deletes>>
row == <<watermark, recent, etag>>
check == <<phase, page, fresh, seenNow, newEtag, beyond>>
history == <<triaged, polled, old, left>>
moves == <<hidden, moved>>
vars == <<timeline, nextId, drafts, drafted, deletes, watermark, recent, etag, phase,
          page, fresh, seenNow, newEtag, triaged, polled, old, beyond, left,
          hidden, moved, faults>>

Feed == PinnedFeed \o timeline
Pinned == Range(PinnedFeed)
InFeed == Range(Feed)

Newest(S) == Max(S \cup {0})

PageOf(s, p) == SubSeq(s, (p - 1) * PerPage + 1, Min({p * PerPage, Len(s)}))
HasNext(p) == p * PerPage < Len(Feed)

\* Not a page: no tag stored.
NoPage == <<0>>

Init ==
    /\ timeline = OldFeed
    /\ nextId = Newest(Range(OldFeed) \cup Pinned) + 1
    /\ drafts = {} /\ drafted = 0 /\ deletes = 0
    /\ watermark = 0 /\ recent = <<>> /\ etag = NoPage
    /\ phase = "idle" /\ page = 1 /\ fresh = {} /\ seenNow = {}
    /\ newEtag = NoPage /\ beyond = {}
    /\ triaged = {} /\ polled = FALSE /\ old = {} /\ left = {}
    /\ hidden = {} /\ moved = 0
    /\ faults = 0

-----------------------------------------------------------------------------
(* The community.  A walk in progress loses sight of a post for one of     *)
(* three reasons of the community's own: PerPage posts land on top of it   *)
(* between two pages, so the next page holds nothing new; one above it is  *)
(* deleted, so it slides onto a page already read; or the page above it is *)
(* made of late drafts, which are not news.  "hidden" remembers those, and *)
(* the late drafts themselves.                                             *)

Walking == phase = "fetching" /\ page > 1
Unread == Range(timeline) \ seenNow

PutOnTop(i) ==
    /\ timeline' = <<i>> \o timeline
    /\ moved' = IF Walking THEN moved + 1 ELSE moved

HideIf(overtaken, more) ==
    hidden' = hidden \cup more \cup (IF overtaken THEN Unread ELSE {})

Publish ==
    /\ nextId \in Ids
    /\ nextId' = nextId + 1
    /\ PutOnTop(nextId)
    /\ HideIf(moved' >= PerPage, {})
    /\ UNCHANGED <<drafts, drafted, deletes, row, check, history, faults>>

Draft ==
    /\ nextId \in Ids
    /\ drafted < MaxDrafts
    /\ drafted' = drafted + 1
    /\ nextId' = nextId + 1
    /\ drafts' = drafts \cup {nextId}
    /\ UNCHANGED <<timeline, deletes, row, check, history, moves, faults>>

\* Late if a post drafted or published after it came first.
Release(d) ==
    /\ PutOnTop(d)
    /\ HideIf(moved' >= PerPage, IF d + 1 < nextId THEN {d} ELSE {})
    /\ drafts' = drafts \ {d}
    /\ UNCHANGED <<nextId, drafted, deletes, row, check, history, faults>>

Delete(k) ==
    /\ deletes < MaxDeletes
    /\ deletes' = deletes + 1
    /\ timeline' = RemoveAt(timeline, k)
    /\ HideIf(Walking, {})
    /\ UNCHANGED <<nextId, drafts, drafted, moved, row, check, history, faults>>

-----------------------------------------------------------------------------
(* Mutants: forms of the definitions below that a bug would give them.     *)

\* The list of recent ids decides alone.
UnseenOnly(i) == i \notin Range(recent)
\* The feed is taken for unmodified if it starts with the same post.
SameTop == page = 1 /\ etag # NoPage /\ etag # <<>> /\ Feed # <<>> /\ etag[1] = Feed[1]

-----------------------------------------------------------------------------
(* One check.                                                              *)

\* Nothing stored yet means this community has never been polled.
Seeding == watermark = 0 /\ recent = <<>>

IsNew(i) == i \notin Range(recent) /\ i > watermark

LastKept(s) ==
    IF Len(s) > RecentKept THEN SubSeq(s, Len(s) - RecentKept + 1, Len(s)) ELSE s

\* fresh.sort(): oldest first.
Ascending(S) ==
    CHOOSE s \in SetToSeqs(S) : \A i, j \in DOMAIN s : i < j => s[i] < s[j]

\* _finish() after a successful read that met the ids of a sequence.
MoveMarks(ids) ==
    /\ watermark' = Newest({watermark} \cup Range(ids))
    /\ recent' = LastKept(recent \o ids)

Forget ==
    /\ phase' = "idle" /\ page' = 1 /\ fresh' = {} /\ seenNow' = {}
    /\ newEtag' = NoPage /\ beyond' = {} /\ moved' = 0

\* due_states(): the row is read once, before the first request.
StartCheck ==
    /\ phase = "idle"
    /\ phase' = "fetching"
    /\ UNCHANGED <<circle, row, page, fresh, seenNow, newEtag, beyond, history,
                   moves, faults>>

\* 304 needs the first page the stored tag stands for; a page whose posts are
\* the same can still come with a new body (likes, comments).
Unchanged == page = 1 /\ etag # NoPage /\ etag = PageOf(Feed, 1)

FetchNotModified ==
    /\ phase = "fetching"
    /\ Unchanged
    /\ Forget
    /\ UNCHANGED <<circle, row, history, hidden, faults>>

News(recs) == {i \in Range(recs) \ seenNow : IsNew(i)}

\* The walk ends on an empty page, while seeding, on a page without news
\* unless it is the first and entirely pinned, and on the last page.
WalkEnds(recs) ==
    \/ recs = <<>>
    \/ Seeding
    \/ News(recs) = {} /\ ~ (page = 1 /\ Range(recs) \subseteq Pinned)
    \/ ~ HasNext(page)

\* Posts below a page without news that are newer than one on it.
Below(p) == {Feed[k] : k \in p * PerPage + 1 .. Len(Feed)}
Swallowed(recs) == {i \in Below(page) \ seenNow : \E r \in Range(recs) \ Pinned : r < i}

FetchPage ==
    /\ phase = "fetching"
    /\ LET recs == PageOf(Feed, page)
       IN  /\ fresh' = IF Seeding THEN {} ELSE fresh \cup News(recs)
           /\ seenNow' = seenNow \cup Range(recs)
           /\ newEtag' = IF page = 1 THEN recs ELSE newEtag
           /\ IF WalkEnds(recs) \/ page = MaxPages
              THEN phase' = "triaging" /\ page' = page
              ELSE phase' = phase /\ page' = page + 1
           /\ beyond' = IF WalkEnds(recs) \/ page < MaxPages THEN {}
                        ELSE {i \in InFeed \ seenNow' :
                                IsNew(i) /\ i < Newest(seenNow')}
           /\ hidden' = IF News(recs) = {} THEN hidden \cup Swallowed(recs) ELSE hidden
    /\ moved' = 0
    /\ old' = IF polled THEN old ELSE InFeed
    /\ UNCHANGED <<circle, row, triaged, polled, left, faults>>

\* The watermark is written although the check failed.
CheckFailsAhead ==
    /\ phase # "idle"
    /\ faults < MaxFaults
    /\ faults' = faults + 1
    /\ MoveMarks(Ascending(fresh))
    /\ Forget
    /\ UNCHANGED <<circle, etag, history, hidden>>

\* A request fails, triage raises or the process dies: no mark is written.
CheckFails ==
    /\ phase # "idle"
    /\ faults < MaxFaults
    /\ faults' = faults + 1
    /\ Forget
    /\ UNCHANGED <<circle, row, history, hidden>>

\* triage_records(), oldest first, one transaction per post.
TriageOne ==
    /\ phase = "triaging"
    /\ fresh \ triaged # {}
    /\ triaged' = triaged \cup {Min(fresh \ triaged)}
    /\ UNCHANGED <<circle, row, check, polled, old, left, moves, faults>>

\* The row is written when every new post is stored.  A check that only seeds has
\* met one page, the one newEtag stands for.
FinishOk ==
    /\ phase = "triaging"
    /\ fresh \subseteq triaged
    /\ MoveMarks(IF Seeding THEN newEtag ELSE Ascending(fresh))
    /\ etag' = newEtag
    /\ polled' = TRUE
    /\ left' = left \cup beyond
    /\ Forget
    /\ UNCHANGED <<circle, triaged, old, hidden, faults>>

-----------------------------------------------------------------------------
Community ==
    \/ Publish
    \/ Draft
    \/ \E d \in drafts : Release(d)
    \/ \E k \in DOMAIN timeline : Delete(k)

Watcher ==
    StartCheck \/ FetchNotModified \/ FetchPage \/ TriageOne \/ FinishOk

Next == Community \/ Watcher \/ CheckFails

Spec == Init /\ [][Next]_vars

(***************************************************************************)
(* The poll loop never ends, every request has a timeout and triage ends:  *)
(* a check that can go on goes on.  The community owes nothing.            *)
(***************************************************************************)
FairSpec == Spec /\ WF_vars(Watcher)

-----------------------------------------------------------------------------
(* The row, the feed and the check in progress have their types, and the   *)
(* list of recent ids stays within its limit.                              *)
TypeOK ==
    /\ timeline \in Seq(Ids) /\ nextId \in 1 .. MaxId + 1
    /\ drafts \subseteq Ids /\ drafted \in 0 .. MaxDrafts
    /\ deletes \in 0 .. MaxDeletes
    /\ watermark \in 0 .. MaxId /\ recent \in Seq(Ids)
    /\ Len(recent) <= RecentKept
    /\ etag \in Seq(0 .. MaxId) /\ newEtag \in Seq(0 .. MaxId)
    /\ phase \in {"idle", "fetching", "triaging"} /\ page \in 1 .. MaxPages
    /\ fresh \subseteq seenNow /\ seenNow \subseteq Ids
    /\ triaged \subseteq Ids /\ old \subseteq Ids /\ left \subseteq Ids
    /\ beyond \subseteq Ids /\ hidden \subseteq Ids /\ moved \in Nat
    /\ polled \in BOOLEAN /\ faults \in 0 .. MaxFaults

Accounted == old \cup triaged \cup left

(* check_community() and _finish(), "It does not move the watermark on a   *)
(* failure": whatever is in the feed at or below the watermark was there   *)
(* before the first check, has been triaged, or belongs to a burst longer  *)
(* than the walk, which the harvest reads; only the community's own moves, *)
(* named in "hidden", can slip a post past it.  Pages move under the walk, *)
(* checks fail and processes die between triage and _finish().             *)
WatermarkCovers ==
    polled => {i \in InFeed : i <= watermark} \subseteq Accounted \cup hidden

(* check_community(), "the first pass only writes the watermark; triaging  *)
(* page one here would re-classify old posts": what the feed held at the   *)
(* first check is never triaged by the watcher, unless a late draft or a   *)
(* move had put an earlier post above it.                                  *)
ArchiveLeftAlone ==
    polled => \A i \in triaged \cap old : \E h \in hidden : h < i

(* Every post published after the first check is triaged, left to the      *)
(* harvest by a burst, hidden by the community's own moves, or deleted,    *)
(* whatever fails on the way.                                              *)
EveryPostRead ==
    \A i \in Ids :
        ~<>[](polled /\ i \in InFeed \ (old \cup triaged \cup left \cup hidden))
=============================================================================

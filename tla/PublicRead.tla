----------------------------- MODULE PublicRead -----------------------------
(***************************************************************************)
(* What one read of a public community fetches and files, from one harvest *)
(* to the next (circle_leads/harvest.py: the watermark and the space loop  *)
(* of harvest; scraper/public_reader.py: PublicReader).                    *)
(*                                                                         *)
(* A post is the instant it was published: a space lists its posts newest  *)
(* first and publishes at most one an instant.  The site goes on while it  *)
(* is read, so a page shifts under the reader; a failed page ends the      *)
(* space, a closed space is passed over.                                   *)
(***************************************************************************)
EXTENDS Naturals, FiniteSets, SequencesExt

CONSTANTS
    PublicSpaces,  \* the spaces listed of the community: with none, nothing is read
    PerPage,       \* posts of a page
    FirstPages, LaterPages, \* max(max_pages, 10) and max_pages
    Recency,       \* recency_days, in instants
    AgeCap,        \* max_post_age_days, in instants; 0 for none
    LastInstant,   \* bound of the clock
    MaxUpsets      \* bound: failed pages, spaces that open or close, posts removed, kills

ASSUME PublicReadAssumption ==
    /\ IsFiniteSet(PublicSpaces) /\ PublicSpaces # {}
    /\ PerPage \in Nat \ {0} /\ FirstPages \in Nat \ {0} /\ LaterPages \in Nat \ {0}
    /\ LaterPages <= FirstPages /\ Recency \in Nat \ {0} /\ AgeCap \in Nat
    /\ LastInstant \in Nat /\ MaxUpsets \in Nat

VARIABLES
    instant,   \* the clock
    feed,      \* the posts of a space, newest first
    open,      \* the spaces anyone may read
    synced,    \* Community.last_synced_at; 0 for never
    filed,     \* the posts triage has taken, as <<space, post>>
    reading,   \* "rest", "space", "triage" or "stamp"
    since,     \* the watermark of this read; 0 for everything
    pages,     \* how deep it may go
    targets,   \* the spaces still to be read
    page,      \* the page of the first of them that comes next
    records, publicSpaces, \* what was read so far, and from how many spaces
    began,     \* history: when this read began
    wanted,    \* history: the posts it should file, as they stood then
    clean,     \* history: nothing went wrong under it
    allClean,  \* history: nothing ever did
    upsets

siteVars == <<instant, feed, open>>
readVars == <<reading, since, pages, targets, page, records, publicSpaces>>
publicVars == <<siteVars, synced, filed, readVars, began, wanted, clean, allClean, upsets>>

PublicInit ==
    /\ instant = 1 /\ feed = [s \in PublicSpaces |-> <<>>] /\ open \in SUBSET PublicSpaces
    /\ synced = 0 /\ filed = {} /\ reading = "rest" /\ since = 0 /\ pages = FirstPages
    /\ targets = <<>> /\ page = 1 /\ records = {} /\ publicSpaces = 0
    /\ began = 0 /\ wanted = {} /\ clean = TRUE /\ allClean = TRUE /\ upsets = 0

-----------------------------------------------------------------------------
(* The site.                                                               *)

\* No post shares the instant of a stamp.
PostPublished(s) ==
    /\ instant > synced /\ instant \notin ToSet(feed[s])
    /\ feed' = [feed EXCEPT ![s] = <<instant>> \o @]
    /\ UNCHANGED <<instant, open, synced, filed, readVars, began, wanted, clean, allClean, upsets>>

ClockTicks ==
    /\ instant < LastInstant /\ instant' = instant + 1
    /\ UNCHANGED <<feed, open, synced, filed, readVars, began, wanted, clean, allClean, upsets>>

Upset == upsets < MaxUpsets /\ upsets' = upsets + 1 /\ clean' = FALSE /\ allClean' = FALSE

\* A post is taken down, and those below it move up a place.
PostRemoved(s) ==
    /\ Upset /\ \E k \in DOMAIN feed[s] : feed' = [feed EXCEPT ![s] = RemoveAt(@, k)]
    /\ UNCHANGED <<instant, open, synced, filed, readVars, began, wanted>>

SpaceOpensOrCloses(s) ==
    /\ Upset /\ open' = IF s \in open THEN open \ {s} ELSE open \cup {s}
    /\ UNCHANGED <<instant, feed, synced, filed, readVars, began, wanted>>

-----------------------------------------------------------------------------
(* A read.                                                                 *)

Later(a, b) == IF a > b THEN a ELSE b
Back(n) == IF instant > n THEN instant - n ELSE 0

\* Mutant: the recency window bounds a first read too.
SinceAlwaysRecent == Later(Later(synced, Back(Recency)), IF AgeCap = 0 THEN 0 ELSE Back(AgeCap))

\* Everything on a first read; then what is newer than the last read and the
\* recency window; and never what is older than the age cap.
Since ==
    Later(IF synced = 0 THEN 0 ELSE Later(synced, Back(Recency)),
          IF AgeCap = 0 THEN 0 ELSE Back(AgeCap))

\* The posts of the open spaces a read has to bring in: no older than the age
\* cap and, where the community was read before, newer than that read.
Wanted ==
    {w \in UNION {{s} \X ToSet(feed[s]) : s \in open} :
       /\ AgeCap = 0 \/ w[2] + AgeCap > instant
       /\ synced # 0 => w[2] > synced /\ w[2] + Recency > instant}

ReadBegins ==
    /\ reading = "rest" /\ reading' = "space"
    /\ since' = Since /\ pages' = IF synced = 0 THEN FirstPages ELSE LaterPages
    /\ targets' \in SetToSeqs(PublicSpaces) /\ page' = 1
    /\ records' = {} /\ publicSpaces' = 0
    /\ began' = instant /\ wanted' = Wanted /\ clean' = TRUE
    /\ UNCHANGED <<siteVars, synced, filed, allClean, upsets>>

\* read_space, one page: the posts newer than since, up to the first that is
\* not; there the space ends, as it does with its last page or the page limit.
PageOf(s, k) ==
    LET end == IF k * PerPage < Len(feed[s]) THEN k * PerPage ELSE Len(feed[s])
    IN SubSeq(feed[s], (k - 1) * PerPage + 1, end)
Fresh(batch) == {t \in ToSet(batch) : t > since}

NextSpace(n) ==
    /\ targets' = Tail(targets) /\ page' = 1 /\ publicSpaces' = publicSpaces + n
    /\ reading' = (IF Len(targets) > 1 THEN "space"
                   ELSE IF publicSpaces + n > 0 THEN "triage" ELSE "stamp")

ReadPage ==
    /\ reading = "space" /\ Head(targets) \in open
    /\ LET s == Head(targets)  batch == PageOf(s, page) IN
       /\ records' = records \cup ({s} \X Fresh(batch))
       /\ IF \/ Fresh(batch) # ToSet(batch) \/ batch = <<>>
             \/ page * PerPage >= Len(feed[s]) \/ page = pages
          THEN NextSpace(1)
          ELSE page' = page + 1 /\ UNCHANGED <<reading, targets, publicSpaces>>
    /\ UNCHANGED <<siteVars, synced, filed, since, pages, began, wanted, clean, allClean, upsets>>

\* 401 or 403, on whatever page: the space is private, what it gave is dropped.
SpaceRefuses ==
    /\ reading = "space" /\ Head(targets) \notin open /\ NextSpace(0)
    /\ records' = {r \in records : r[1] # Head(targets)}
    /\ UNCHANGED <<siteVars, synced, filed, since, pages, began, wanted, clean, allClean, upsets>>

\* Any other answer, or none: what was read is taken for all there is; an
\* exception on the way loses the space, counted by then or not.
PageFails ==
    /\ reading = "space" /\ Upset
    /\ \/ NextSpace(1) /\ UNCHANGED records
       \/ (\E n \in {0, 1} : NextSpace(n)) /\ records' = {r \in records : r[1] # Head(targets)}
    /\ UNCHANGED <<siteVars, synced, filed, since, pages, began, wanted>>

Triage ==
    /\ reading = "triage" /\ reading' = "stamp" /\ filed' = filed \cup records
    /\ UNCHANGED <<siteVars, synced, since, pages, targets, page, records, publicSpaces,
                   began, wanted, clean, allClean, upsets>>

\* _mark_synced: with the time it is now, not when the read began.
Stamp ==
    /\ reading = "stamp" /\ reading' = "rest" /\ synced' = instant
    /\ UNCHANGED <<siteVars, filed, since, pages, targets, page, records, publicSpaces,
                   began, wanted, clean, allClean, upsets>>

\* The harvest is killed, or an exception leaves it: nothing is stamped.
ReadAborted ==
    /\ reading # "rest" /\ reading' = "rest" /\ Upset /\ targets' = <<>> /\ page' = 1
    /\ UNCHANGED <<siteVars, synced, filed, since, pages, records, publicSpaces, began, wanted>>

ReadNext ==
    \/ ReadBegins \/ ReadPage \/ SpaceRefuses \/ PageFails \/ Triage \/ Stamp \/ ReadAborted
PublicNext ==
    \/ ReadNext \/ ClockTicks
    \/ \E s \in PublicSpaces : PostPublished(s) \/ PostRemoved(s) \/ SpaceOpensOrCloses(s)

PublicSpec == PublicInit /\ [][PublicNext]_publicVars

-----------------------------------------------------------------------------
(* Properties.                                                             *)

\* The pages go deep enough for what a space holds now.
DeepEnough == \A s \in PublicSpaces : Len(feed[s]) <= pages * PerPage

\* Before a community is stamped as read, each post a read with no trouble was
\* to bring in is filed: the whole backlog the first time, later what is new,
\* although posts arrive and shift the pages while it reads.  The stamp is what
\* keeps the next read from looking at them again (harvest.py 374-383).
StampedIsRead ==
    [][(reading = "stamp" /\ reading' = "rest" /\ clean' /\ DeepEnough)
       => wanted \subseteq filed]_publicVars

\* "Known communities are re-read every run for *new* posts" (harvest.py:297):
\* where no read ever had trouble, a read brings in whatever the reads before
\* it did not.
NewPostsAreRead ==
    [][(reading = "stamp" /\ reading' = "rest" /\ allClean' /\ DeepEnough)
       => \A s \in open : \A t \in ToSet(feed[s]) :
            (t < began /\ t + Recency > began /\ (AgeCap = 0 \/ t + AgeCap > began))
            => <<s, t>> \in filed]_publicVars
=============================================================================

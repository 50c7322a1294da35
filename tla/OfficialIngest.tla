--------------------------- MODULE OfficialIngest ---------------------------
(***************************************************************************)
(* One approved community read through Circle's own API, run after run     *)
(* (circle_leads/pipeline.py: ingest_community, _collect, _store;          *)
(* scraper/pagination.py: CircleClient._request, paginate,                 *)
(* paginate_chat_messages; scraper/posts_scraper.py, comments_scraper.py,  *)
(* chat_scraper.py, community_scraper.py).                                 *)
(*                                                                         *)
(* A run walks the approved spaces page by page, each new post's comments, *)
(* and the approved chat rooms by cursor.  Every request may be retried,   *)
(* refused or given up, and counts against the budget of the run; any of   *)
(* those ends the run as FAILED.  A message is the instant it was posted.  *)
(*                                                                         *)
(* The watermark of the community has other writers: a public harvest and  *)
(* a scan with a session stamp the same column when they have read the     *)
(* community their own way, at any moment (harvest.py: _mark_synced;       *)
(* scanning.py: scan_host).                                                *)
(***************************************************************************)
EXTENDS Naturals, FiniteSets, SequencesExt

CONSTANTS
    ApiSpaces, ApiRooms,  \* the spaces and the group chats there are
    Approved,      \* allowed_space_ids and allowed_chat_room_uuids
    Member,        \* the route is headless_member
    PageSize,      \* per_page, and batch of a chat room
    PageLimit,     \* max_pages; 0 for none
    BatchLimit,    \* max_batches of a chat room
    MaxRetries,
    Budget,        \* request_budget
    LastTick,      \* bound of the clock
    MaxAnswers     \* bound: answers other than 200

ASSUME OfficialIngestAssumption ==
    /\ IsFiniteSet(ApiSpaces) /\ IsFiniteSet(ApiRooms) /\ ApiSpaces \cap ApiRooms = {}
    /\ Approved \subseteq ApiSpaces \cup ApiRooms /\ Member \in BOOLEAN
    /\ PageSize \in Nat \ {0} /\ PageLimit \in Nat /\ BatchLimit \in Nat \ {0}
    /\ MaxRetries \in Nat /\ Budget \in Nat
    /\ LastTick \in Nat /\ MaxAnswers \in Nat

Places == ApiSpaces \cup ApiRooms

VARIABLES
    tick,       \* the clock
    messages,   \* of a place, newest first
    mark,       \* Community.last_synced_at; 0 for never
    kept,       \* Post rows, as <<place, message>>
    heard,      \* the posts whose comments were fetched
    run,        \* ScrapeRun.state: "none", "scraping", "complete" or "failed"
    step,       \* "rest", "list", "posts", "comments", "rooms" or "finish"
    floor,      \* the watermark of the run
    places,     \* the approved places still to be walked
    pageNo, cursor, \* where the walk of the first of them is
    talks,      \* its posts whose comments are still to be fetched
    attempt, used,  \* of the request, of the quota
    due,        \* history: the messages this run should keep, as they stood
    over,       \* history: what the watermark went over, for the two reasons below
    odd         \* answers other than 200 so far

walkVars == <<step, floor, places, pageNo, cursor, talks, attempt, used>>
officialVars == <<tick, messages, mark, kept, heard, run, walkVars, due, over, odd>>

OfficialInit ==
    /\ tick = 1 /\ messages = [p \in Places |-> <<>>] /\ mark = 0 /\ kept = {} /\ heard = {}
    /\ run = "none" /\ step = "rest" /\ floor = 0 /\ places = <<>> /\ pageNo = 1 /\ cursor = 0
    /\ talks = {} /\ attempt = 0 /\ used = 0 /\ due = {} /\ over = {} /\ odd = 0

MessagePosted(p) ==
    /\ tick > mark /\ tick \notin ToSet(messages[p])
    /\ messages' = [messages EXCEPT ![p] = <<tick>> \o @]
    /\ UNCHANGED <<tick, mark, kept, heard, run, walkVars, due, over, odd>>

TimePasses ==
    /\ tick < LastTick /\ tick' = tick + 1
    /\ UNCHANGED <<messages, mark, kept, heard, run, walkVars, due, over, odd>>

-----------------------------------------------------------------------------
(* A run.                                                                  *)

\* The spaces in the order Circle lists them, then, for a member, the rooms;
\* what the operator did not name is left out.
Order ==
    SetToSeq(ApiSpaces \cap Approved) \o (IF Member THEN SetToSeq(ApiRooms \cap Approved) ELSE <<>>)

\* What stands in the approved places.
Standing == UNION {{p} \X ToSet(messages[p]) : p \in ToSet(Order)}

IngestBegins(incremental) ==
    /\ step = "rest" /\ step' = "list" /\ run' = "scraping"
    /\ floor' = (IF incremental THEN mark ELSE 0) /\ used' = 0 /\ attempt' = 0
    /\ due' = {d \in Standing : d[2] > floor'}
    /\ UNCHANGED <<tick, messages, mark, kept, heard, places, pageNo, cursor, talks, over, odd>>

\* _request: the budget is looked at once, before the first attempt.
Asks == step \notin {"rest", "finish"} /\ (attempt > 0 \/ used < Budget)

Answered == used' = used + 1 /\ attempt' = 0 /\ UNCHANGED odd

Fails ==
    /\ step' = "finish" /\ run' = "failed" /\ attempt' = 0 /\ talks' = {}
    /\ UNCHANGED <<tick, messages, mark, kept, heard, floor, places, pageNo, cursor, due, over>>

OutOfBudget ==
    /\ step \notin {"rest", "finish"} /\ attempt = 0 /\ used >= Budget
    /\ Fails /\ UNCHANGED <<used, odd>>

Odd == Asks /\ odd < MaxAnswers /\ odd' = odd + 1

\* 429 and 5xx are tried again after a pause, and counted; so is a broken
\* connection, and not counted.  The last attempt fails the run.
Retries ==
    /\ Odd /\ used' \in {used, used + 1}
    /\ IF attempt < MaxRetries
       THEN /\ attempt' = attempt + 1
            /\ UNCHANGED <<tick, messages, mark, kept, heard, run, step, floor, places, pageNo,
                           cursor, talks, due, over>>
       ELSE Fails

\* What follows the last page, or the last comments, of a place.
LeavePlace ==
    /\ places' = Tail(places)
    /\ IF places' = <<>> THEN step' = "finish" /\ run' = "complete"
       ELSE step' = "posts" /\ UNCHANGED run

\* headers: a member token that ran out is minted again, and where that is
\* refused the approval was withdrawn under the run.
MintFails == Member /\ Odd /\ Fails /\ UNCHANGED used

\* 401 and 403 stop the run, and so does any other refusal, but for comments
\* that are not found.
Refused ==
    /\ Odd /\ used' = used + 1
    /\ \/ Fails
       \/ /\ step = "comments" /\ attempt' = 0
          /\ talks' = talks \ {CHOOSE t \in talks : TRUE}
          /\ IF talks' = {} THEN LeavePlace ELSE UNCHANGED <<step, places, run>>
          /\ UNCHANGED <<tick, messages, mark, kept, heard, floor, pageNo, cursor, due, over>>

\* The lists of the spaces; the rooms are listed when their turn comes.
ListPlaces ==
    /\ step = "list" /\ Asks /\ Answered
    /\ places' = Order /\ pageNo' = 1 /\ cursor' = 0
    /\ IF places' = <<>>
       THEN step' = "finish" /\ run' = "complete"
       ELSE step' = "posts" /\ UNCHANGED run
    /\ UNCHANGED <<tick, messages, mark, kept, heard, floor, talks, due, over>>

Here == Head(places)

\* How many messages of the place the walk has behind it: whole pages of a
\* space; of a room, what is not older than the cursor.
Behind ==
    IF Here \in ApiSpaces THEN (pageNo - 1) * PageSize
    ELSE IF cursor = 0 THEN 0
    ELSE CHOOSE i \in DOMAIN messages[Here] : messages[Here][i] = cursor

\* One page of a space, or the next older batch of a room.
Batch ==
    LET here == messages[Here]  first == Behind + 1  last == Behind + PageSize IN
    SubSeq(here, first, IF last < Len(here) THEN last ELSE Len(here))

\* The walk stops at the first message that is not newer than the watermark,
\* with the last page, and at the page limit.
Above(batch) == {t \in ToSet(batch) : t > floor}

WalkEnds(batch) ==
    \/ Above(batch) # ToSet(batch)
    \/ Here \in ApiSpaces /\ (pageNo * PageSize >= Len(messages[Here]) \/ pageNo = PageLimit)
    \/ Here \in ApiRooms /\ (Len(batch) < PageSize \/ pageNo = BatchLimit)

\* _store: a row per message, however often it is seen.
Store(records) == kept' = kept \cup records

\* Each record is stored as it comes; the comments of a space follow
\* its last page.
FetchPage ==
    /\ step = "posts" /\ places # <<>> /\ Asks /\ Answered
    /\ Store({Here} \X Above(Batch))
    /\ talks' = IF Here \in ApiSpaces THEN talks \cup Above(Batch) ELSE {}
    /\ IF WalkEnds(Batch)
       THEN /\ pageNo' = 1 /\ cursor' = 0
            /\ IF talks' = {} THEN LeavePlace
               ELSE step' = "comments" /\ UNCHANGED <<places, run>>
       ELSE /\ pageNo' = pageNo + 1 /\ cursor' = Last(Batch)
            /\ UNCHANGED <<step, places, run>>
    /\ UNCHANGED <<tick, messages, mark, heard, floor, due, over>>

FetchComments ==
    /\ step = "comments" /\ Asks /\ Answered
    /\ LET t == CHOOSE t \in talks : TRUE IN
       talks' = talks \ {t} /\ heard' = heard \cup {<<Here, t>>}
    /\ IF talks' = {} THEN LeavePlace ELSE UNCHANGED <<step, places, run>>
    /\ UNCHANGED <<tick, messages, mark, kept, floor, pageNo, cursor, due, over>>

\* What came in while the run was under way.
Late == {d \in Standing : d[2] > floor} \ due

\* Mutant: the community is stamped however the run ended.
FinishAnyway ==
    /\ step = "finish" /\ step' = "rest" /\ mark' = tick /\ over' = over \cup Late
    /\ places' = <<>>
    /\ UNCHANGED <<tick, messages, kept, heard, run, floor, pageNo, cursor, talks, attempt,
                   used, due, odd>>

\* The run row is closed whatever happened; the watermark moves, to the time it
\* is now, only for a COMPLETE run.
FinishRun ==
    /\ step = "finish" /\ step' = "rest" /\ places' = <<>>
    /\ IF run = "complete" THEN mark' = tick /\ over' = over \cup Late
       ELSE UNCHANGED <<mark, over>>
    /\ UNCHANGED <<tick, messages, kept, heard, run, floor, pageNo, cursor, talks, attempt,
                   used, due, odd>>

\* A harvest, or a scan with a session, has read the community its own way:
\* nothing of the API is stored, and the watermark is the time it is now.
OtherReaderStamps ==
    /\ mark' = tick /\ mark' # mark /\ over' = over \cup (Standing \ kept)
    /\ UNCHANGED <<tick, messages, kept, heard, run, walkVars, due, odd>>

\* The process ends: the run row stays as it is, "scraping".
IngestKilled ==
    /\ step # "rest" /\ step' = "rest" /\ places' = <<>> /\ talks' = {} /\ attempt' = 0
    /\ UNCHANGED <<tick, messages, mark, kept, heard, run, floor, pageNo, cursor, used, due,
                   over, odd>>

IngestNext ==
    \/ \E incremental \in BOOLEAN : IngestBegins(incremental)
    \/ OutOfBudget \/ MintFails \/ Retries \/ Refused
    \/ ListPlaces \/ FetchPage \/ FetchComments \/ FinishRun \/ IngestKilled
OfficialNext ==
    IngestNext \/ OtherReaderStamps \/ TimePasses \/ \E p \in Places : MessagePosted(p)

OfficialSpec == OfficialInit /\ [][OfficialNext]_officialVars

-----------------------------------------------------------------------------
(* Properties.                                                             *)

\* The page limits are deep enough for what a place holds now.
WithinLimit ==
    \A p \in Places :
      Len(messages[p]) <= PageSize * (IF p \in ApiRooms THEN BatchLimit
                                      ELSE IF PageLimit = 0 THEN Len(messages[p]) ELSE PageLimit)

\* Over any number of runs, each message of an approved place that is not newer
\* than the community's watermark is stored: a run that was refused, ran out of
\* its budget, gave a request up or was killed leaves the watermark where it was,
\* and the next run makes up for it (ingest_community, pipeline.py 250-285).
\* Two kinds of messages the watermark does go over, and only a full run reads
\* them again: what came in while a run was under way that then completed, and
\* what had not been stored when another reader of the community stamped it.
MarkMeansKept ==
    WithinLimit => \A d \in Standing : d[2] <= mark => d \in kept \cup over

=============================================================================

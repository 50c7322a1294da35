----------------------------- MODULE MemberScan -----------------------------
(***************************************************************************)
(* One private community: the member's session, the connection row, and    *)
(* the worker's reads with them (circle_leads/scanning.py, the connection  *)
(* endpoints of circle_leads/web/app.py, circle_leads/web/replay_store.py, *)
(* the job loop of circle_leads/cli/main.py).                              *)
(*                                                                         *)
(* The dashboard and the join bot store a session in several transactions; *)
(* the worker reads the session, then the connection row, then one space   *)
(* after another, and writes the row at the end.  Every step can fall      *)
(* between two steps of another process.                                   *)
(*                                                                         *)
(* Posts are told apart by their space and the time they were published.   *)
(* A read takes the newest pages of a space and stops at max_pages, or     *)
(* before a page that gives no JSON, as if the space ended there.  The age *)
(* cap, comments and classification are left out.  The parameter           *)
(* time_budget is never given by a caller, so no scan is partial.          *)
(***************************************************************************)
EXTENDS Integers, FiniteSets

CONSTANTS
    Cookies,      \* session cookies people can come by
    Spaces,       \* the community's spaces
    Keepers,      \* processes that store sessions
    Overlap,      \* RESCAN_OVERLAP
    MaxScan,      \* how long a scan can take
    ScanPages,    \* max_pages
    ScanPageSize, \* posts on a page, the 20 of list_posts()
    MaxTime,      \* bound: the clock
    MaxPosts,     \* bound: posts published while the model runs
    MaxStores,    \* bound: sessions pasted or captured
    MaxEvents,    \* bound: other clicks in the dashboard, and worker restarts
    NoCookie, NoRow, Never

ASSUME ScanAssumption ==
    /\ Overlap \in Nat /\ MaxScan \in Nat /\ MaxTime \in Nat
    /\ ScanPages \in Nat /\ ScanPageSize \in Nat
    /\ MaxPosts \in Nat /\ MaxStores \in Nat /\ MaxEvents \in Nat
    /\ NoCookie \notin Cookies /\ Never \notin Int

\* A scan is over long before the overlap is used up (hours against a week).
ASSUME ScansAreShort == MaxScan <= Overlap

VARIABLES
    now,
    posts,        \* what has been published (external)
    session,      \* ReplaySession.encrypted_cookies
    conn,         \* the CircleConnection row
    job,          \* the host's scan job
    worker,       \* scan_cookie_host() in the worker's loop
    keeper,       \* session storing in progress, per process
    removal,      \* remove_connection() between its two transactions
    read,         \* posts that were read and triaged
    counts,       \* what the bounds count
    missed,       \* history: spaces the last failed scan did not get to
    passedOver,   \* history: spaces counted as read without an answer
    beyond        \* history: posts below the last page a read got to

data == <<posts, read>>
history == <<missed, passedOver, beyond>>
vars == <<now, session, conn, job, worker, keeper, removal, counts,
          data, history>>

\* "error" stands for session_expired and access_denied too: nothing here tells
\* them apart.
States == {"not_connected", "connected", "error"}
Times == Nat
Posts == [space : Spaces, at : Times]
Windows == Int \cup {Never}

NewRow == [state |-> "not_connected", readable |-> FALSE, lastSync |-> Never,
           paused |-> FALSE]

Rows == [state : States, readable : BOOLEAN, lastSync : Times \cup {Never},
         paused : BOOLEAN]

ASSUME RowAssumption == NoRow \notin Rows

Resting == [pc |-> "idle", task |-> "pass", cookie |-> NoCookie,
            since |-> Never, got |-> {}, left |-> {},
            found |-> FALSE, began |-> 0]

NotStoring == [pc |-> "idle", cookie |-> NoCookie, check |-> "none"]

\* A community not known yet, or one connected before.
Init ==
    /\ now = Overlap + 1
    /\ posts = [space : Spaces, at : {0}]
    /\ \/ session = NoCookie /\ conn = NoRow
       \/ session \in Cookies /\ conn = NewRow
    /\ job = "none"
    /\ worker = Resting
    /\ keeper = [p \in Keepers |-> NotStoring]
    /\ removal = "idle"
    /\ read = {}
    /\ counts = [posts |-> 0, stores |-> 0, events |-> 0]
    /\ missed = {} /\ passedOver = {} /\ beyond = {}

Spend(what, limit) ==
    /\ counts[what] < limit
    /\ counts' = [counts EXCEPT ![what] = @ + 1]

-----------------------------------------------------------------------------
(* The world (external): time and members who post.  Circle may accept or  *)
(* refuse a cookie at any request.                                         *)

Scanning == worker.pc \notin {"idle", "starting"}

\* A scan that takes longer than MaxScan is not waited for.
Tick ==
    /\ now < MaxTime
    /\ Scanning => now - worker.began < MaxScan
    /\ now' = now + 1
    /\ UNCHANGED <<session, conn, job, worker, keeper, removal, counts,
                   data, history>>

Publish(s) ==
    /\ Spend("posts", MaxPosts)
    /\ [space |-> s, at |-> now] \notin posts
    /\ posts' = posts \cup {[space |-> s, at |-> now]}
    /\ UNCHANGED <<now, session, conn, job, worker, keeper, removal,
                   read, history>>

-----------------------------------------------------------------------------
(* Storing a session: the dashboard's paste, and the join bot, which       *)
(* stores what it captured without a check.                                *)

\* enqueue(): an active scan of the host stands for the new one.
EnqueueScan == job' = IF job = "none" THEN "queued" ELSE job

\* verify_session(), less the answer "rejected", after which nothing is written.
\* "unverified" stands for a 403 to the dashboard's address too, "no_spaces" for
\* an open profile too.
Checks == {"valid", "unverified", "no_spaces", "none"}

StoringStep(p, pc) == keeper' = [keeper EXCEPT ![p].pc = pc]

\* verify_session() and store_session(); "none" for the bot, which does not ask.
StoreSession(p, c, check) ==
    /\ keeper[p].pc = "idle"
    /\ Spend("stores", MaxStores)
    /\ session' = c
    /\ keeper' = [keeper EXCEPT ![p] = [pc |-> "stored", cookie |-> c, check |-> check]]
    /\ UNCHANGED <<now, conn, job, worker, removal, data, history>>

\* Mutant: the row is made only for a session Circle answered for.
ConnectIfAnswered(p) ==
    /\ keeper[p].pc = "stored"
    /\ conn' = IF conn = NoRow /\ keeper[p].check = "valid" THEN NewRow ELSE conn
    /\ keeper' = [keeper EXCEPT ![p] = NotStoring]
    /\ UNCHANGED <<now, session, job, worker, removal, counts, data, history>>

\* connect_host(): the row is added when there is none.
ConnectHost(p) ==
    /\ keeper[p].pc = "stored"
    /\ conn' = IF conn = NoRow THEN NewRow ELSE conn
    /\ IF keeper[p].check = "none"
       THEN keeper' = [keeper EXCEPT ![p] = NotStoring]
       ELSE StoringStep(p, "connected")
    /\ UNCHANGED <<now, session, job, worker, removal, counts, data, history>>

CheckState(verdict) ==
    CASE verdict = "valid" -> "connected"
      [] verdict = "unverified" -> "not_connected"
      [] OTHER -> "error"

\* The stamps of the last read stay as they are.
ApplyCheck(p) ==
    /\ keeper[p].pc = "connected"
    /\ IF conn = NoRow THEN UNCHANGED <<conn, passedOver>>
       ELSE /\ conn' = [conn EXCEPT !.state = CheckState(keeper[p].check)]
            /\ passedOver' = IF keeper[p].check = "valid"
                             THEN passedOver \cup missed ELSE passedOver
    /\ StoringStep(p, "applied")
    /\ UNCHANGED <<now, session, job, worker, removal, counts, data,
                   missed, beyond>>

QueueRead(p) ==
    /\ keeper[p].pc = "applied"
    /\ IF keeper[p].check \in {"valid", "unverified"} THEN EnqueueScan
       ELSE job' = job
    /\ keeper' = [keeper EXCEPT ![p] = NotStoring]
    /\ UNCHANGED <<now, session, conn, worker, removal, counts, data, history>>

-----------------------------------------------------------------------------
(* The other clicks.                                                       *)

Click == Spend("events", MaxEvents)

ScanNow ==
    /\ session # NoCookie
    /\ Click
    /\ EnqueueScan
    /\ UNCHANGED <<now, session, conn, worker, keeper, removal, data, history>>

\* cookie_hosts_vip_first() has this host in its list.
Listed == session # NoCookie /\ conn # NoRow /\ ~ conn.paused

\* set_connection_priority() wants a row, add_connection() makes one.
SetPriority(paused) ==
    /\ Click
    /\ conn' = [(IF conn = NoRow THEN NewRow ELSE conn) EXCEPT !.paused = paused]
    /\ UNCHANGED <<now, session, job, worker, keeper, removal, data, history>>

ClearSession ==
    /\ session # NoCookie
    /\ Click
    /\ session' = NoCookie
    /\ UNCHANGED <<now, conn, job, worker, keeper, removal, data, history>>

\* The row first, then the credential, each in a transaction of its own.
RemoveRow ==
    /\ removal = "idle" /\ conn # NoRow
    /\ Click
    /\ conn' = NoRow
    /\ removal' = "half"
    /\ UNCHANGED <<now, session, job, worker, keeper, data, history>>

RemoveSession ==
    /\ removal = "half"
    /\ session' = NoCookie
    /\ removal' = "idle"
    /\ UNCHANGED <<now, conn, job, worker, keeper, counts, data, history>>

-----------------------------------------------------------------------------
(* The worker: one job at a time, or a scheduled harvest.                  *)

\* Mutant: a re-read starts where the last one ended.
SinceLastSync ==
    IF conn = NoRow THEN Never
    ELSE IF conn.state # "connected" \/ ~ conn.readable THEN Never ELSE conn.lastSync

\* _rescan_since(): the last successful read, less the overlap.
RescanSince ==
    IF conn = NoRow THEN Never
    ELSE IF conn.lastSync = Never \/ conn.state # "connected" \/ ~ conn.readable
         THEN Never
         ELSE conn.lastSync - Overlap

\* A queued job, or one whose worker died and that went stale since.
TakeJob ==
    /\ worker.pc = "idle"
    /\ job # "none"
    /\ job' = "running"
    /\ worker' = [Resting EXCEPT !.task = "scan", !.pc = "starting"]
    /\ UNCHANGED <<now, session, conn, keeper, removal, counts, data, history>>

\* A harvest or a scan_all job: the list of hosts is made once, and other
\* hosts' scans come before this one.
StartPass ==
    /\ worker.pc = "idle"
    /\ Listed
    /\ worker' = [Resting EXCEPT !.task = "pass", !.pc = "starting"]
    /\ UNCHANGED <<now, session, conn, job, keeper, removal, counts, data,
                   history>>

LoadCookies ==
    /\ worker.pc = "starting"
    /\ worker' = [worker EXCEPT !.pc = "windowing", !.cookie = session,
                                !.began = now]
    /\ UNCHANGED <<now, session, conn, job, keeper, removal, counts, data,
                   history>>

\* _rescan_since(), and then the list of spaces, which SaveScan may not find.
FindWindow ==
    /\ worker.pc = "windowing"
    /\ worker' = [worker EXCEPT !.pc = "reading", !.since = RescanSince,
                                !.left = Spaces]
    /\ UNCHANGED <<now, session, conn, job, keeper, removal, counts, data, history>>

InWindow(s) ==
    {p \in posts : p.space = s /\ (worker.since = Never \/ p.at >= worker.since)}

Newest(S, n) == {p \in S : Cardinality({q \in S : q.at > p.at}) < n}

\* Posts of a space as the window shows them, read and triaged: max_pages of
\* them, or fewer where a later page fails.
ReadSpace(s) ==
    /\ worker.pc = "reading" /\ s \in worker.left
    /\ worker.cookie # NoCookie
    /\ \E pages \in 1 .. ScanPages :
         read' = read \cup Newest(InWindow(s), pages * ScanPageSize)
    /\ beyond' = (beyond \cup InWindow(s)) \ read'
    /\ worker' = [worker EXCEPT !.left = @ \ {s}, !.got = @ \cup {s},
                                !.found = @ \/ InWindow(s) # {}]
    /\ passedOver' = IF worker.since = Never THEN passedOver \ {s} ELSE passedOver
    /\ UNCHANGED <<now, session, conn, job, keeper, removal, posts, counts,
                   missed>>

\* The space refuses the session, or gives no JSON: the loop goes on.
SkipSpace(s) ==
    /\ worker.pc = "reading" /\ s \in worker.left
    /\ worker' = [worker EXCEPT !.left = @ \ {s}]
    /\ UNCHANGED <<now, session, conn, job, keeper, removal, counts, data,
                   history>>

\* Every space was tried, or none was listed (a stranger, no JSON); or a 401 to
\* the list, a challenge or any exception in reading or triage ended the scan.
Ended(state) ==
    \/ state = "connected" /\ (worker.left = {} \/ worker.left = Spaces)
    \/ state = "error" /\ worker.left # {}

\* The count of a read with a start, for which an age cap is enough, keeps to
\* the larger one.
StillReadable(old, state, capped) ==
    worker.found \/ (old.readable /\ state = "connected"
                       /\ (capped \/ worker.since # Never))

\* A space is counted before its posts are triaged, which may fail.
CountedInVain ==
    worker.cookie # NoCookie /\ \E s \in worker.left : InWindow(s) # {}

SaveScan(state, capped, counted) ==
    /\ worker.pc = "reading"
    /\ Ended(state)
    /\ counted => state = "error" /\ CountedInVain
    /\ LET old == IF conn = NoRow THEN NewRow ELSE conn
       IN  conn' = [old EXCEPT !.state = state, !.lastSync = now,
                               !.readable = counted \/ StillReadable(old, state, capped)]
    /\ job' = IF worker.task = "scan" THEN "none" ELSE job
    /\ worker' = Resting
    /\ missed' = IF state = "connected" THEN {} ELSE Spaces \ worker.got
    /\ passedOver' = IF state = "connected" THEN passedOver \cup (Spaces \ worker.got)
                     ELSE passedOver
    /\ UNCHANGED <<now, session, keeper, removal, counts, data, beyond>>

\* The process is killed; its job stays "running" until it is taken again.
WorkerDies ==
    /\ worker.pc # "idle"
    /\ Spend("events", MaxEvents)
    /\ worker' = Resting
    /\ UNCHANGED <<now, session, conn, job, keeper, removal, data, history>>

-----------------------------------------------------------------------------
Storing(p) == ConnectHost(p) \/ ApplyCheck(p) \/ QueueRead(p)

Working ==
    \/ TakeJob \/ StartPass \/ LoadCookies
    \/ FindWindow
    \/ \E s \in Spaces : ReadSpace(s) \/ SkipSpace(s)
    \/ \E state \in {"connected", "error"}, capped, counted \in BOOLEAN :
           SaveScan(state, capped, counted)

Clicking ==
    \/ ScanNow \/ ClearSession \/ RemoveRow
    \/ \E paused \in BOOLEAN : SetPriority(paused)

World ==
    \/ Tick
    \/ \E s \in Spaces : Publish(s)

Next ==
    \/ \E p \in Keepers : Storing(p)
    \/ \E p \in Keepers, c \in Cookies, check \in Checks : StoreSession(p, c, check)
    \/ Clicking \/ RemoveSession \/ Working \/ WorkerDies \/ World

Spec == Init /\ [][Next]_vars

-----------------------------------------------------------------------------
(* Every row and every process has its type.                               *)
TypeOK ==
    /\ now \in Times
    /\ posts \subseteq Posts /\ read \subseteq Posts
    /\ session \in Cookies \cup {NoCookie}
    /\ conn \in Rows \cup {NoRow}
    /\ job \in {"none", "queued", "running"}
    /\ worker \in [pc : {"idle", "starting", "windowing", "reading"},
                   task : {"scan", "pass"},
                   cookie : Cookies \cup {NoCookie},
                   since : Windows,
                   got : SUBSET Spaces, left : SUBSET Spaces, found : BOOLEAN,
                   began : Times]
    /\ keeper \in [Keepers -> [pc : {"idle", "stored", "connected", "applied"},
                               cookie : Cookies \cup {NoCookie},
                               check : Checks]]
    /\ removal \in {"idle", "half"}
    /\ counts \in [{"posts", "stores", "events"} -> Nat]
    /\ missed \subseteq Spaces /\ passedOver \subseteq Spaces
    /\ beyond \subseteq Posts

\* Everything older than the start of a window was read, or lay below the pages
\* of a read, in the spaces that are not excused.
Covered(since, excused) ==
    since # Never =>
        \A p \in posts : p.at < since /\ p.space \notin excused => p \in read \cup beyond

(* RESCAN_OVERLAP and _rescan_since(): what a re-read leaves out has been  *)
(* read, whatever was stored, removed or published while scans ran and     *)
(* wherever they failed; except in the spaces a successful scan got no     *)
(* answer from, and those a new session's check put behind it, and posts   *)
(* below the last page a read got to, which no re-read comes back for.     *)
WindowIsCovered == Covered(RescanSince, passedOver)

(* _rescan_since(): "None -- read everything -- before the first scan, and *)
(* after a failed, partial or empty one".                                  *)
FailedReadStartsOver == missed # {} => RescanSince = Never

(* connect_host(): "Both scan_cookie_host() and cookie_hosts_vip_first()   *)
(* key off a CircleConnection row existing", and remove_connection():      *)
(* "removing a community should not leave its credential behind".  A       *)
(* session never stays without its row once the requests are through.      *)
SessionIsListed ==
    (removal = "idle" /\ \A p \in Keepers : keeper[p].pc = "idle")
        => (session # NoCookie => conn # NoRow)
=============================================================================

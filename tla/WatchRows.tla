----------------------------- MODULE WatchRows ------------------------------
(***************************************************************************)
(* Which communities the watcher asks, with what, and how soon again       *)
(* (circle_leads/watch/poller.py: ensure_watch_rows, watch_member_now,     *)
(* check_community, _check_member_spaces, _finish, _run_watch_loop).       *)
(*                                                                         *)
(* A row says how a feed is read: "anon", "cookie" (with the stored        *)
(* session) or "off" (once a day).  Four parties write it or what it       *)
(* depends on: the watcher, which works from rows it copied when it drew   *)
(* its batch; the half-hourly resync; whoever stores a session; and the    *)
(* join bot.  What a check finds new is the subject of WatchFeed.          *)
(***************************************************************************)
EXTENDS Naturals, FiniteSetsExt

CONSTANTS
    Communities,  \* on Circle, at a known address, not left alone for being paid
    ParkAfter,    \* PARK_AFTER: permanent failures in a row before a row is parked
    MaxTrouble,   \* bound: requests that fail for a passing reason
    MaxEvents     \* bound: changes made by people, the bot and the communities

ASSUME RowsAssumption ==
    /\ ParkAfter \in Nat \ {0} /\ MaxTrouble \in Nat /\ MaxEvents \in Nat

\* What a stored session opens: the home feed, only some spaces, a list of
\* spaces none of which opens, or nothing any more.
Sessions == {"home", "spaces", "shut", "dead"}
Sites == {"open", "closed", "gone", "moved"}
Waits == {"due", "fast", "slow", "twice_slow", "backoff", "day"}
Reads == {"ok", "not_modified"}
Permanent == {"moved"}

Rows == [mode: {"anon", "cookie", "off"}, tier: {"fast", "slow"},
         errors: 0 .. ParkAfter, wait: Waits]
NoRow == [mode |-> "none"]
Idle == [community |-> "none", answer |-> "none"]

VARIABLES
    wanted,    \* watched, relevant or a fit
    joined,    \* Community.join_status is "joined"
    paused,    \* CircleConnection.priority is "paused"
    session,   \* what the stored session opens, "none" without one
    arriving,  \* joined or stored, the watch row not told yet
    site,      \* what the community answers a visitor
    state,       \* WatchState
    spaces,    \* _member_spaces: "unknown", "some" of them open or "none" does
    step,      \* of the loop: "top", "draw", "batch", "finish"
    batch,     \* the modes of the rows drawn, by community
    asking,     \* the check in progress and the answer it got
    syncDue,   \* RESYNC_EVERY_S have gone by
    late,      \* history: checks that asked a community since it was paused
    trouble, events

people == <<wanted, joined, paused, session, arriving, site>>
loop == <<step, batch, asking>>
rowsVars == <<wanted, joined, paused, session, arriving, site, state, spaces, step, batch,
          asking, syncDue, late, trouble, events>>

Nobody(v) == [c \in Communities |-> v]

RowsInit ==
    /\ wanted \in [Communities -> BOOLEAN] /\ site \in [Communities -> Sites]
    /\ joined = Nobody(FALSE) /\ paused = Nobody(FALSE) /\ arriving = Nobody(FALSE)
    /\ session = Nobody("none") /\ state = Nobody(NoRow) /\ spaces = Nobody("unknown")
    /\ step = "top" /\ batch = <<>> /\ asking = Idle /\ syncDue = TRUE
    /\ late = Nobody(0) /\ trouble = 0 /\ events = 0

Member(c) == joined[c] \/ session[c] # "none"
ReadingEnabled(c) == ~paused[c]
Worth(c) == ReadingEnabled(c) /\ (wanted[c] \/ Member(c))

-----------------------------------------------------------------------------
(* People, the join bot and the communities.                               *)

Happens == events < MaxEvents /\ events' = events + 1
RestOfPeople == UNCHANGED <<state, spaces, loop, syncDue, trouble>>

\* Discovery finds a community or judges it a fit.
Judge(c) ==
    /\ Happens /\ ~wanted[c]
    /\ wanted' = [wanted EXCEPT ![c] = TRUE]
    /\ UNCHANGED <<joined, paused, session, arriving, site, late>> /\ RestOfPeople

\* joiner._persist_outcome, before it calls watch_member_now.
Join(c) ==
    /\ Happens /\ ~joined[c]
    /\ joined' = [joined EXCEPT ![c] = TRUE]
    /\ arriving' = [arriving EXCEPT ![c] = TRUE]
    /\ UNCHANGED <<wanted, paused, session, site, late>> /\ RestOfPeople

StoreSession(c) ==
    /\ Happens
    /\ \E s \in Sessions \ {session[c]} : session' = [session EXCEPT ![c] = s]
    /\ arriving' = [arriving EXCEPT ![c] = TRUE]
    /\ UNCHANGED <<wanted, joined, paused, site, late>> /\ RestOfPeople

\* The dashboard clears a session, or removes the connection with its pause.
DeleteSession(c) ==
    /\ Happens /\ session[c] # "none"
    /\ session' = [session EXCEPT ![c] = "none"]
    /\ \/ UNCHANGED <<paused, late>>
       \/ paused' = [paused EXCEPT ![c] = FALSE] /\ late' = [late EXCEPT ![c] = 0]
    /\ UNCHANGED <<wanted, joined, arriving, site>> /\ RestOfPeople

Pause(c) ==
    /\ Happens
    /\ paused' = [paused EXCEPT ![c] = ~@]
    /\ late' = [late EXCEPT ![c] = 0]
    /\ UNCHANGED <<wanted, joined, session, arriving, site>> /\ RestOfPeople

\* The community changes hands, closes or opens; a session dies with it or not.
SiteChanges(c) ==
    /\ Happens
    /\ \/ \E a \in Sites \ {site[c]} : site' = [site EXCEPT ![c] = a] /\ UNCHANGED session
       \/ session[c] \notin {"none", "dead"}
          /\ session' = [session EXCEPT ![c] = "dead"] /\ UNCHANGED site
    /\ UNCHANGED <<wanted, joined, paused, arriving, late>> /\ RestOfPeople

FreshRow(tier) == [mode |-> "anon", tier |-> tier, errors |-> 0, wait |-> "due"]

\* The row a new membership leaves behind.
Welcomed(c) ==
    LET r == IF state[c] = NoRow THEN FreshRow("fast") ELSE state[c] IN
    [mode |-> IF r.mode # "off" THEN r.mode
              ELSE IF session[c] # "none" THEN "cookie" ELSE "anon",
     tier |-> "fast", errors |-> 0, wait |-> "due"]

WatchMemberNow(c) ==
    /\ arriving[c]
    /\ arriving' = [arriving EXCEPT ![c] = FALSE]
    /\ wanted' = [wanted EXCEPT ![c] = TRUE]
    /\ state' = [state EXCEPT ![c] = Welcomed(c)]
    /\ UNCHANGED <<joined, paused, session, site, spaces, loop, syncDue, late, trouble, events>>

\* _watch_now swallows an error: the session must not be lost with it.
WatchMemberFails(c) ==
    /\ arriving[c] /\ Happens
    /\ arriving' = [arriving EXCEPT ![c] = FALSE]
    /\ UNCHANGED <<wanted, joined, paused, session, site, late>> /\ RestOfPeople

-----------------------------------------------------------------------------
(* Time.                                                                   *)

ComesDue(c) ==
    /\ state[c] # NoRow /\ state[c].wait # "due"
    /\ state' = [state EXCEPT ![c].wait = "due"]
    /\ UNCHANGED <<people, spaces, loop, syncDue, late, trouble, events>>

ResyncComesDue ==
    /\ ~syncDue /\ syncDue' = TRUE
    /\ UNCHANGED <<people, state, spaces, loop, late, trouble, events>>

\* MEMBER_SPACES_TTL_S.
SpacesExpire(c) ==
    /\ spaces[c] # "unknown"
    /\ spaces' = [spaces EXCEPT ![c] = "unknown"]
    /\ UNCHANGED <<people, state, loop, syncDue, late, trouble, events>>

-----------------------------------------------------------------------------
(* The resync.                                                             *)

\* Mutant: a row switched off stays off until somebody stores a session again.
EnsuredStaysOff(c, tier) ==
    LET known == IF state[c] = NoRow /\ Worth(c)
                   THEN FreshRow(IF Member(c) THEN "fast" ELSE tier) ELSE state[c]
        kept == IF known = NoRow \/ ~Member(c) THEN known
                ELSE IF paused[c] THEN [known EXCEPT !.mode = "off"]
                ELSE [known EXCEPT !.tier = "fast"]
    IN IF kept.mode = "cookie" /\ session[c] = "none"
         THEN [kept EXCEPT !.mode = "anon"] ELSE kept

\* "tier" is the tier its recent posts earn a new row.
Ensured(c, tier) ==
    LET known == IF state[c] = NoRow /\ Worth(c)
                   THEN FreshRow(IF Member(c) THEN "fast" ELSE tier) ELSE state[c]
        kept == IF known = NoRow \/ ~Member(c) THEN known
                ELSE IF paused[c] THEN [known EXCEPT !.mode = "off"]
                ELSE IF known.mode = "off" /\ session[c] # "none"
                  THEN [known EXCEPT !.tier = "fast", !.mode = "cookie", !.wait = "due"]
                ELSE [known EXCEPT !.tier = "fast"]
    IN IF kept.mode = "cookie" /\ session[c] = "none"
         THEN [kept EXCEPT !.mode = "anon"] ELSE kept

EnsureWatchRows ==
    \E tiers \in [Communities -> {"fast", "slow"}] :
        state' = [c \in Communities |-> Ensured(c, tiers[c])]

TopOfLoop ==
    /\ step = "top" /\ step' = "draw"
    /\ IF syncDue THEN EnsureWatchRows ELSE UNCHANGED state
    /\ syncDue' = FALSE
    /\ UNCHANGED <<people, spaces, batch, asking, late, trouble, events>>

-----------------------------------------------------------------------------
(* A batch: the rows due now, copied, then asked one by one.               *)

\* Mutant: the pause is left to whoever reads.
DueEvenPaused == {c \in Communities : state[c] # NoRow /\ state[c].wait = "due"}

DueStates == {c \in Communities : state[c] # NoRow /\ state[c].wait = "due" /\ ReadingEnabled(c)}

Draw ==
    /\ step = "draw"
    /\ batch' = [c \in DueStates |-> state[c].mode]
    /\ step' = IF DueStates = {} THEN "top" ELSE "batch"
    /\ UNCHANGED <<people, state, spaces, asking, syncDue, late, trouble, events>>

\* What the home feed answers a request with these cookies.
HomeFeed(c, cookies) ==
    CASE site[c] = "open" -> "ok"
      [] site[c] = "gone" -> "notfound"
      [] site[c] = "moved" -> "moved"
      [] OTHER -> IF cookies = "home" THEN "ok" ELSE "unauthorized"

Answered(c, answer, belief) ==
    /\ asking' = [community |-> c, answer |-> answer]
    /\ spaces' = [spaces EXCEPT ![c] = belief]

\* _learn_member_spaces, and what the first check reads on the way.
LearnSpaces(c, cookies) ==
    CASE cookies = "dead" -> Answered(c, "unauthorized", "unknown")
      [] cookies = "shut" -> Answered(c, "unauthorized", "none")
      [] OTHER -> Answered(c, "ok", "some")

\* _check_member_spaces with spaces known: an answer that is not a page makes
\* it learn afresh next time.
ReadSpaces(c, cookies) ==
    IF site[c] \in {"gone", "moved"} THEN Answered(c, HomeFeed(c, cookies), "unknown")
    ELSE IF cookies \in {"home", "spaces"} THEN Answered(c, "ok", "some")
    ELSE Answered(c, "unauthorized", "unknown")

ReadHome(c, cookies) ==
    LET answer == HomeFeed(c, cookies) IN
    IF answer = "unauthorized" /\ cookies # "none"
      THEN LearnSpaces(c, cookies) ELSE Answered(c, answer, spaces[c])

\* A request fails for a passing reason.  Reading known spaces, a page that
\* answers an error also unlearns them.  Learning them, a space that fails is
\* passed over: with all of them failing, none is what is remembered.
Fails(c, cookies) ==
    \/ \E answer \in {"ratelimited", "error"} : Answered(c, answer, spaces[c])
    \/ cookies # "none" /\ spaces[c] = "some" /\ Answered(c, "error", "unknown")
    \/ /\ cookies \notin {"none", "dead"} /\ spaces[c] = "unknown"
       /\ HomeFeed(c, cookies) = "unauthorized" /\ Answered(c, "unauthorized", "none")

\* Nothing is asked with a session that is gone or that opens no space.
CheckCommunity(c) ==
    LET cookies == IF batch[c] = "cookie" THEN session[c] ELSE "none"
        asks == batch[c] = "cookie" => session[c] # "none" /\ spaces[c] # "none"
    IN
    /\ step = "batch" /\ c \in DOMAIN batch
    /\ step' = "finish"
    /\ late' = IF asks /\ paused[c] THEN [late EXCEPT ![c] = @ + 1] ELSE late
    /\ \/ /\ IF ~asks THEN Answered(c, "unauthorized", spaces[c])
             ELSE IF cookies # "none" /\ spaces[c] # "unknown" THEN ReadSpaces(c, cookies)
             ELSE ReadHome(c, cookies)
          /\ UNCHANGED trouble
       \/ /\ asks /\ trouble < MaxTrouble /\ trouble' = trouble + 1
          /\ Fails(c, cookies)
    /\ UNCHANGED <<people, state, batch, syncDue, events>>

NextDelay(tier, answer) ==
    CASE answer \in Reads -> tier
      [] answer = "notfound" -> "day"
      [] answer = "unauthorized" -> "twice_slow"
      [] OTHER -> "backoff"

NewMode(c, mode, answer, errors) ==
    CASE answer = "unauthorized" /\ mode = "anon" ->
             IF session[c] # "none" THEN "cookie" ELSE "off"
      [] answer = "notfound" -> "off"
      [] answer \in Permanent /\ errors >= ParkAfter -> "off"
      [] answer \in Reads /\ mode = "off" -> "anon"
      [] OTHER -> mode

\* Mutant: a quiet community is a quiet community.
QuietIsSlow(c, tier, answer, news, quiet) ==
    IF news THEN "fast" ELSE IF answer \in Reads /\ quiet THEN "slow" ELSE tier

\* news: the check found posts; quiet: none have come for quiet_days.
NewTier(c, tier, answer, news, quiet) ==
    IF news THEN "fast"
    ELSE IF answer \in Reads /\ quiet /\ ~Member(c) THEN "slow" ELSE tier

Finish ==
    LET c == asking.community
        answer == asking.answer
        errors == IF answer \in Reads THEN 0 ELSE Min({state[c].errors + 1, ParkAfter})
        mode == NewMode(c, state[c].mode, answer, errors)
    IN
    /\ step = "finish"
    /\ \E news \in {answer = "ok", FALSE}, quiet \in BOOLEAN :
           LET tier == NewTier(c, state[c].tier, answer, news, quiet) IN
           state' = [state EXCEPT ![c] =
               [mode |-> mode, tier |-> tier, errors |-> errors,
                wait |-> IF mode = "off" THEN "day" ELSE NextDelay(tier, answer)]]
    /\ batch' = [d \in DOMAIN batch \ {c} |-> batch[d]]
    /\ step' = IF DOMAIN batch = {c} THEN "top" ELSE "batch"
    /\ asking' = Idle
    /\ UNCHANGED <<people, spaces, syncDue, late, trouble, events>>

\* The service is restarted: memory is gone, and the first pass syncs.
Restart ==
    /\ Happens
    /\ spaces' = Nobody("unknown") /\ step' = "top" /\ batch' = <<>> /\ asking' = Idle
    /\ syncDue' = TRUE
    /\ UNCHANGED <<people, state, late, trouble>>

-----------------------------------------------------------------------------
World(c) ==
    \/ Judge(c) \/ Join(c) \/ StoreSession(c) \/ DeleteSession(c) \/ Pause(c)
    \/ SiteChanges(c) \/ WatchMemberNow(c) \/ WatchMemberFails(c)
RowsWatcher == TopOfLoop \/ Draw \/ (\E c \in Communities : CheckCommunity(c)) \/ Finish

RowsNext ==
    \/ \E c \in Communities : World(c) \/ ComesDue(c) \/ SpacesExpire(c)
    \/ ResyncComesDue \/ RowsWatcher \/ Restart

\* The loop goes on, and the clock with it; nobody has to do anything else.
RowsFairness ==
    /\ WF_rowsVars(RowsWatcher) /\ WF_rowsVars(ResyncComesDue)
    /\ \A c \in Communities : WF_rowsVars(ComesDue(c)) /\ WF_rowsVars(SpacesExpire(c))

RowsSpec == RowsInit /\ [][RowsNext]_rowsVars /\ RowsFairness

-----------------------------------------------------------------------------
RowsTypeOK ==
    /\ wanted \in [Communities -> BOOLEAN] /\ joined \in [Communities -> BOOLEAN]
    /\ paused \in [Communities -> BOOLEAN] /\ arriving \in [Communities -> BOOLEAN]
    /\ session \in [Communities -> Sessions \cup {"none"}]
    /\ site \in [Communities -> Sites]
    /\ state \in [Communities -> Rows \cup {NoRow}]
    /\ spaces \in [Communities -> {"unknown", "some", "none"}]
    /\ step \in {"top", "draw", "batch", "finish"}
    /\ DOMAIN batch \subseteq Communities
    /\ step = "finish" => asking.community \in DOMAIN batch
    /\ syncDue \in BOOLEAN /\ late \in [Communities -> Nat]
    /\ trouble \in 0 .. MaxTrouble /\ events \in 0 .. MaxEvents

\* An operator pause reaches the watcher: a paused community is asked at most
\* once more, by the batch that was drawn before the pause (reach.py:
\* reading_enabled, "An operator pause applies to every scheduled reader").
PauseIsHeard == \A c \in Communities : late[c] <= 1

\* A community we belong to stays on the fast tier, whatever its history and
\* whenever it became one: membership is looked up when a check is written
\* back, not when the batch was drawn (_finish, _is_member).
MembersStayFast ==
    [][\A c \in Communities :
           state[c] # NoRow /\ Member(c) /\ state[c].tier = "fast" => state'[c].tier = "fast"]_rowsVars

ReadNow(c) == step = "finish" /\ asking.community = c /\ asking.answer \in Reads
Reachable(c) ==
    /\ Worth(c)
    /\ \/ site[c] = "open"
       \/ site[c] = "closed" /\ session[c] \in {"home", "spaces"}

\* A community that can be read, openly or with the session we hold, is read
\* again and again, whatever happened to it before: parked, paused, read with
\* a session that died, its spaces wrongly remembered, the watcher restarted.
ReadableIsRead ==
    \A c \in Communities : <>[]Reachable(c) => []<>ReadNow(c)
=============================================================================

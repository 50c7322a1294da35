-------------------------- MODULE WatcherProofs ---------------------------
(***************************************************************************)
(* Proofs about what the server reads on a clock: the rows of the feed     *)
(* watcher, the session of the Dynamite reader, and the walk and the       *)
(* watermark of one feed, for any number of communities, any feed and any  *)
(* limits.                                                                 *)
(***************************************************************************)
EXTENDS WatchFeed, WatchRows, Dynamite, ListLemmas

-----------------------------------------------------------------------------
(* The rows of the watcher: membership and the pause.                      *)

LEMMA MinOfTwo ==
    ASSUME NEW a \in Nat, NEW b \in Nat
    PROVE  Min({a, b}) \in {a, b} /\ Min({a, b}) <= a /\ Min({a, b}) <= b
<1>1. \E x \in {a, b} : \A y \in {a, b} : x <= y
  <2>1. CASE a <= b
    BY <2>1
  <2>2. CASE b <= a
    BY <2>2
  <2> QED
    BY <2>1, <2>2
<1>2. \A y \in {a, b} : Min({a, b}) <= y /\ Min({a, b}) \in {a, b}
  BY <1>1, Zenon DEF Min
<1> QED
  BY <1>2

\* A row that was drawn exists: rows are never removed.
DrawnRowsExist == \A c \in DOMAIN batch : state[c] \in Rows

RowsInv == RowsTypeOK /\ DrawnRowsExist

LEMMA RowsStart == RowsInit => RowsInv
<1> SUFFICES ASSUME RowsInit PROVE RowsInv
  OBVIOUS
<1>1. RowsTypeOK
  BY RowsAssumption DEF RowsInit, RowsTypeOK, Nobody
<1>2. DrawnRowsExist
  BY DEF RowsInit, DrawnRowsExist
<1> QED
  BY <1>1, <1>2 DEF RowsInv

\* What a row is replaced with is a row.
LEMMA RowChanges ==
    ASSUME NEW r \in Rows, NEW m \in {"anon", "cookie", "off"}, NEW w \in Waits
    PROVE  /\ [r EXCEPT !.mode = m] \in Rows /\ [r EXCEPT !.mode = m].tier = r.tier
           /\ [r EXCEPT !.tier = "fast"] \in Rows /\ [r EXCEPT !.tier = "fast"].tier = "fast"
           /\ [r EXCEPT !.wait = w] \in Rows /\ [r EXCEPT !.wait = w].tier = r.tier
           /\ [r EXCEPT !.tier = "fast", !.mode = m, !.wait = w] \in Rows
           /\ [r EXCEPT !.tier = "fast", !.mode = m, !.wait = w].tier = "fast"
  BY DEF Rows

LEMMA FreshIsRow ==
    ASSUME NEW t \in {"fast", "slow"}
    PROVE  FreshRow(t) \in Rows /\ FreshRow(t).tier = t
  BY RowsAssumption DEF FreshRow, Rows, Waits

LEMMA NoRowIsNone == NoRow \notin Rows
<1>1. \A r \in Rows : r.mode # "none"
  BY DEF Rows
<1> QED
  BY <1>1 DEF NoRow

\* The resync makes rows and keeps them, and takes no member off the fast tier.
LEMMA EnsuredRow ==
    ASSUME NEW c, NEW t \in {"fast", "slow"}, state[c] \in Rows \cup {NoRow}
    PROVE  /\ Ensured(c, t) \in Rows \cup {NoRow}
           /\ state[c] \in Rows => Ensured(c, t) \in Rows
           /\ state[c] \in Rows /\ Member(c) /\ state[c].tier = "fast" => Ensured(c, t).tier = "fast"
<1> DEFINE known == IF state[c] = NoRow /\ Worth(c)
                      THEN FreshRow(IF Member(c) THEN "fast" ELSE t) ELSE state[c]
           kept == IF known = NoRow \/ ~Member(c) THEN known
                   ELSE IF paused[c] THEN [known EXCEPT !.mode = "off"]
                   ELSE IF known.mode = "off" /\ session[c] # "none"
                     THEN [known EXCEPT !.tier = "fast", !.mode = "cookie", !.wait = "due"]
                   ELSE [known EXCEPT !.tier = "fast"]
<1>1. /\ known \in Rows \cup {NoRow} /\ (state[c] \in Rows => known = state[c])
  BY FreshIsRow, NoRowIsNone
<1> HIDE DEF known
<1>2. /\ kept \in Rows \cup {NoRow} /\ (known \in Rows => kept \in Rows)
      /\ known \in Rows /\ known.tier = "fast" => kept.tier = "fast"
  <2>1. CASE known = NoRow
    BY <2>1, NoRowIsNone
  <2>2. CASE known \in Rows
    BY ZenonT(60), <2>2, RowChanges, NoRowIsNone DEF Waits
  <2> QED
    BY <1>1, <2>1, <2>2
<1> HIDE DEF kept
<1>3. Ensured(c, t) = IF kept.mode = "cookie" /\ session[c] = "none"
                      THEN [kept EXCEPT !.mode = "anon"] ELSE kept
  BY DEF Ensured, kept, known
<1>4. CASE kept = NoRow
  BY <1>1, <1>2, <1>3, <1>4, NoRowIsNone DEF NoRow
<1>5. CASE kept \in Rows
  <2>1. Ensured(c, t) \in Rows /\ Ensured(c, t).tier = kept.tier
    <3>1. [kept EXCEPT !.mode = "anon"] \in Rows /\ [kept EXCEPT !.mode = "anon"].tier = kept.tier
      BY <1>5 DEF Rows
    <3> QED
      BY <1>3, <1>5, <3>1, Zenon
  <2> QED
    BY <1>1, <1>2, <2>1
<1> QED
  BY <1>2, <1>4, <1>5

\* So does the write after a check, whose mode is one of the three.
LEMMA ModeAfter ==
    ASSUME NEW c, NEW mode \in {"anon", "cookie", "off"}, NEW answer, NEW errors
    PROVE  NewMode(c, mode, answer, errors) \in {"anon", "cookie", "off"}
  BY DEF NewMode

LEMMA DelayAfter ==
    ASSUME NEW tier \in {"fast", "slow"}, NEW answer
    PROVE  NextDelay(tier, answer) \in Waits
  BY DEF NextDelay, Waits

\* A check concerns its community alone.
LEMMA CheckAsks ==
    ASSUME NEW c \in Communities, CheckCommunity(c), spaces \in [Communities -> {"unknown", "some", "none"}]
    PROVE  /\ asking'.community = c /\ step = "batch" /\ step' = "finish" /\ c \in DOMAIN batch
           /\ late' \in {late, [late EXCEPT ![c] = @ + 1]} /\ (~paused[c] => late' = late)
           /\ spaces' \in [Communities -> {"unknown", "some", "none"}]
           /\ trouble' \in {trouble, trouble + 1} /\ (trouble' = trouble \/ trouble < MaxTrouble)
           /\ UNCHANGED <<people, state, batch, syncDue, events>>
<1>1. ASSUME NEW answer, NEW belief \in {"unknown", "some", "none"}, Answered(c, answer, belief)
      PROVE  /\ asking'.community = c /\ spaces' \in [Communities -> {"unknown", "some", "none"}]
  BY <1>1 DEF Answered
<1>2. ASSUME NEW cookies, ReadSpaces(c, cookies) \/ ReadHome(c, cookies) \/ Fails(c, cookies)
      PROVE  /\ asking'.community = c /\ spaces' \in [Communities -> {"unknown", "some", "none"}]
  BY <1>1, <1>2 DEF ReadSpaces, ReadHome, LearnSpaces, Fails
<1>3. /\ asking'.community = c /\ spaces' \in [Communities -> {"unknown", "some", "none"}]
  BY <1>1, <1>2 DEF CheckCommunity
<1> QED
  BY <1>3 DEF CheckCommunity

\* A pause that changes starts the count of that community again.
CountsAfresh(c) ==
    \/ UNCHANGED <<late, paused>>
    \/ /\ late' = [late EXCEPT ![c] = 0]
       /\ \A d \in Communities \ {c} : paused'[d] = paused[d]

\* What a step outside the watcher's loop leaves of the rows and the loop.
LEMMA PeopleKeep ==
    ASSUME RowsInv, NEW c \in Communities,
           \/ Judge(c) \/ Join(c) \/ StoreSession(c) \/ DeleteSession(c) \/ Pause(c)
           \/ SiteChanges(c) \/ WatchMemberFails(c)
    PROVE  /\ RowsInv' /\ UNCHANGED <<state, loop>>
           /\ CountsAfresh(c)
<1> USE DEF RowsInv, RowsTypeOK, Happens, RestOfPeople, loop
<1>1. UNCHANGED <<state, spaces, loop, syncDue, trouble>>
  BY DEF Judge, Join, StoreSession, DeleteSession, Pause, SiteChanges, WatchMemberFails
<1>2. events' \in 0 .. MaxEvents
  BY RowsAssumption DEF Judge, Join, StoreSession, DeleteSession, Pause, SiteChanges, WatchMemberFails
<1>3. /\ wanted' \in [Communities -> BOOLEAN] /\ joined' \in [Communities -> BOOLEAN]
      /\ arriving' \in [Communities -> BOOLEAN]
  BY DEF Judge, Join, StoreSession, DeleteSession, Pause, SiteChanges, WatchMemberFails
<1>4. /\ paused' \in [Communities -> BOOLEAN] /\ late' \in [Communities -> Nat]
      /\ CountsAfresh(c)
  <2>1. CASE UNCHANGED <<late, paused>>
    BY <2>1 DEF CountsAfresh
  <2>2. ASSUME NEW b \in BOOLEAN, late' = [late EXCEPT ![c] = 0], paused' = [paused EXCEPT ![c] = b]
        PROVE  /\ paused' \in [Communities -> BOOLEAN] /\ late' \in [Communities -> Nat]
               /\ CountsAfresh(c)
    BY <2>2 DEF CountsAfresh
  <2>3. (~paused[c]) \in BOOLEAN
    OBVIOUS
  <2>4. CASE Pause(c)
    BY <2>2, <2>3, <2>4, Zenon DEF Pause
  <2>5. CASE DeleteSession(c)
    BY <2>1, <2>2, <2>5 DEF DeleteSession
  <2> QED
    BY <2>1, <2>4, <2>5 DEF Judge, Join, StoreSession, SiteChanges, WatchMemberFails
<1>5. session' \in [Communities -> Sessions \cup {"none"}] /\ site' \in [Communities -> Sites]
  BY DEF Judge, Join, StoreSession, DeleteSession, Pause, SiteChanges, WatchMemberFails, Sessions
<1> QED
  BY <1>1, <1>2, <1>3, <1>4, <1>5 DEF DrawnRowsExist

LEMMA WelcomeKeeps ==
    ASSUME RowsInv, NEW c \in Communities, WatchMemberNow(c)
    PROVE  /\ RowsInv' /\ state'[c].tier = "fast" /\ UNCHANGED loop
           /\ \A d \in Communities \ {c} : state'[d] = state[d]
<1> USE DEF RowsInv, RowsTypeOK
<1>1. Welcomed(c) \in Rows /\ Welcomed(c).tier = "fast"
  <2> DEFINE r == IF state[c] = NoRow THEN FreshRow("fast") ELSE state[c]
  <2>1. r \in Rows
    BY FreshIsRow
  <2>2. r.mode \in {"anon", "cookie", "off"}
    BY <2>1 DEF Rows
  <2> HIDE DEF r
  <2>3. Welcomed(c) = [mode |-> IF r.mode # "off" THEN r.mode
                                ELSE IF session[c] # "none" THEN "cookie" ELSE "anon",
                       tier |-> "fast", errors |-> 0, wait |-> "due"]
    BY DEF Welcomed, r
  <2> QED
    BY <2>2, <2>3, RowsAssumption DEF Rows, Waits
<1>2. /\ state' \in [Communities -> Rows \cup {NoRow}] /\ state'[c] = Welcomed(c)
      /\ \A d \in Communities \ {c} : state'[d] = state[d]
  BY <1>1 DEF WatchMemberNow
<1>3. /\ wanted' \in [Communities -> BOOLEAN] /\ arriving' \in [Communities -> BOOLEAN]
      /\ UNCHANGED <<joined, paused, session, site, spaces, loop, syncDue, late, trouble, events>>
  BY DEF WatchMemberNow
<1>4. RowsTypeOK'
  BY <1>2, <1>3 DEF loop
<1>5. DrawnRowsExist'
  BY <1>1, <1>2, <1>3 DEF DrawnRowsExist, loop
<1> QED
  BY <1>1, <1>2, <1>3, <1>4, <1>5

\* The clocks make rows due and forget spaces.
LEMMA ClocksKeep ==
    ASSUME RowsInv, NEW c \in Communities, ComesDue(c) \/ SpacesExpire(c) \/ ResyncComesDue
    PROVE  /\ RowsInv' /\ UNCHANGED <<loop, people, late>>
           /\ \A d \in Communities : state[d] # NoRow => state'[d].tier = state[d].tier
<1> USE DEF RowsInv, RowsTypeOK, loop, people
<1>1. UNCHANGED <<loop, people, late, trouble, events>>
  BY DEF ComesDue, SpacesExpire, ResyncComesDue
<1>2. /\ state' \in [Communities -> Rows \cup {NoRow}]
      /\ \A d \in Communities : /\ state[d] # NoRow => state'[d].tier = state[d].tier
                                /\ state[d] \in Rows => state'[d] \in Rows
  <2>1. CASE ComesDue(c)
    <3>1. state[c] \in Rows /\ state' = [state EXCEPT ![c] = [state[c] EXCEPT !.wait = "due"]]
      BY <2>1 DEF ComesDue
    <3>2. [state[c] EXCEPT !.wait = "due"] \in Rows
          /\ [state[c] EXCEPT !.wait = "due"].tier = state[c].tier
      BY <3>1, RowChanges DEF Waits
    <3> QED
      BY <3>1, <3>2
  <2>2. CASE UNCHANGED state
    BY <2>2
  <2> QED
    BY <2>1, <2>2 DEF SpacesExpire, ResyncComesDue
<1>3. spaces' \in [Communities -> {"unknown", "some", "none"}] /\ syncDue' \in BOOLEAN
  BY DEF ComesDue, SpacesExpire, ResyncComesDue
<1>4. RowsTypeOK'
  BY <1>1, <1>2, <1>3
<1>5. DrawnRowsExist'
  BY <1>1, <1>2 DEF DrawnRowsExist
<1> QED
  BY <1>1, <1>2, <1>4, <1>5

LEMMA TopKeeps ==
    ASSUME RowsInv, TopOfLoop
    PROVE  /\ RowsInv' /\ UNCHANGED <<people, batch, asking, late>> /\ step' = "draw"
           /\ \A d \in Communities :
                state[d] # NoRow /\ Member(d) /\ state[d].tier = "fast" => state'[d].tier = "fast"
<1> USE DEF RowsInv, RowsTypeOK, loop, people
<1>1. UNCHANGED <<people, spaces, batch, asking, late, trouble, events>> /\ step' = "draw" /\ syncDue' = FALSE
  BY DEF TopOfLoop
<1>2. /\ state' \in [Communities -> Rows \cup {NoRow}]
      /\ \A d \in Communities :
           /\ state[d] \in Rows => state'[d] \in Rows
           /\ state[d] # NoRow /\ Member(d) /\ state[d].tier = "fast" => state'[d].tier = "fast"
  <2>1. CASE UNCHANGED state
    BY <2>1
  <2>2. CASE EnsureWatchRows
    <3>1. PICK tiers \in [Communities -> {"fast", "slow"}] :
            state' = [c \in Communities |-> Ensured(c, tiers[c])]
      BY <2>2 DEF EnsureWatchRows
    <3>2. ASSUME NEW d \in Communities
          PROVE  /\ state'[d] = Ensured(d, tiers[d]) /\ tiers[d] \in {"fast", "slow"}
                 /\ state[d] \in Rows \cup {NoRow}
      BY <3>1
    <3>3. ASSUME NEW d \in Communities
          PROVE  /\ Ensured(d, tiers[d]) \in Rows \cup {NoRow}
                 /\ state[d] \in Rows => Ensured(d, tiers[d]) \in Rows
                 /\ state[d] \in Rows /\ Member(d) /\ state[d].tier = "fast"
                      => Ensured(d, tiers[d]).tier = "fast"
      BY <3>2, EnsuredRow
    <3> QED
      BY <3>1, <3>2, <3>3
  <2> QED
    BY <2>1, <2>2 DEF TopOfLoop
<1>3. RowsTypeOK'
  BY <1>1, <1>2
<1>4. DrawnRowsExist'
  BY <1>1, <1>2 DEF DrawnRowsExist
<1> QED
  BY <1>1, <1>2, <1>3, <1>4

LEMMA DrawKeeps ==
    ASSUME RowsInv, Draw
    PROVE  /\ RowsInv' /\ UNCHANGED <<people, state, late>> /\ step' # "finish"
           /\ \A c \in DOMAIN batch' : ~paused[c]
<1> USE DEF RowsInv, RowsTypeOK, loop, people
<1>1. UNCHANGED <<people, state, spaces, asking, syncDue, late, trouble, events>>
  BY DEF Draw
<1>2. /\ step' \in {"top", "batch"} /\ DOMAIN batch' = DueStates /\ DueStates \subseteq Communities
      /\ \A c \in DueStates : state[c] \in Rows /\ ~paused[c]
  BY DEF Draw, DueStates, ReadingEnabled
<1>3. RowsTypeOK'
  BY <1>1, <1>2
<1>4. DrawnRowsExist'
  BY <1>1, <1>2 DEF DrawnRowsExist
<1> QED
  BY <1>1, <1>2, <1>3, <1>4

LEMMA CheckKeeps ==
    ASSUME RowsInv, NEW c \in Communities, CheckCommunity(c)
    PROVE  /\ RowsInv' /\ UNCHANGED <<people, state, batch>>
           /\ asking'.community = c /\ step = "batch" /\ step' = "finish" /\ c \in DOMAIN batch
           /\ late' \in {late, [late EXCEPT ![c] = @ + 1]} /\ (~paused[c] => late' = late)
<1> USE DEF RowsInv, RowsTypeOK, people
<1>1. /\ asking'.community = c /\ step = "batch" /\ step' = "finish" /\ c \in DOMAIN batch
      /\ late' \in {late, [late EXCEPT ![c] = @ + 1]} /\ (~paused[c] => late' = late)
      /\ spaces' \in [Communities -> {"unknown", "some", "none"}]
      /\ trouble' \in {trouble, trouble + 1} /\ (trouble' = trouble \/ trouble < MaxTrouble)
      /\ UNCHANGED <<people, state, batch, syncDue, events>>
  BY CheckAsks
<1>2. trouble' \in 0 .. MaxTrouble /\ late' \in [Communities -> Nat]
  BY <1>1, RowsAssumption
<1>3. RowsTypeOK'
  BY <1>1, <1>2
<1> QED
  BY <1>1, <1>3 DEF DrawnRowsExist

LEMMA FinishKeeps ==
    ASSUME RowsInv, Finish
    PROVE  /\ RowsInv' /\ UNCHANGED <<people, late>> /\ step' # "finish"
           /\ asking.community \in Communities /\ step = "finish"
           /\ DOMAIN batch' = DOMAIN batch \ {asking.community}
           /\ \A d \in Communities :
                state[d] # NoRow /\ Member(d) /\ state[d].tier = "fast" => state'[d].tier = "fast"
<1> USE DEF RowsInv, RowsTypeOK, loop, people
<1> DEFINE c == asking.community
           answer == asking.answer
           errors == IF answer \in Reads THEN 0 ELSE Min({state[c].errors + 1, ParkAfter})
           mode == NewMode(c, state[c].mode, answer, errors)
<1>1. /\ step = "finish" /\ c \in DOMAIN batch /\ c \in Communities /\ state[c] \in Rows
      /\ step' \in {"top", "batch"}
      /\ DOMAIN batch' = DOMAIN batch \ {c}
      /\ UNCHANGED <<people, spaces, syncDue, late, trouble, events>>
  BY DEF Finish, DrawnRowsExist
<1>2. /\ state[c].mode \in {"anon", "cookie", "off"} /\ state[c].tier \in {"fast", "slow"}
      /\ state[c].errors \in 0 .. ParkAfter
  BY <1>1 DEF Rows
<1>3. errors \in 0 .. ParkAfter
  <2>1. state[c].errors + 1 \in Nat /\ ParkAfter \in Nat
    BY <1>2, RowsAssumption
  <2>2. Min({state[c].errors + 1, ParkAfter}) \in 0 .. ParkAfter
    BY <2>1, MinOfTwo
  <2> QED
    BY <2>2, RowsAssumption
<1> HIDE DEF errors
<1>4. mode \in {"anon", "cookie", "off"}
  BY <1>2, ModeAfter
<1>5. PICK news \in {answer = "ok", FALSE}, quiet \in BOOLEAN :
        state' = [state EXCEPT ![c] =
            [mode |-> mode, tier |-> NewTier(c, state[c].tier, answer, news, quiet),
             errors |-> errors,
             wait |-> IF mode = "off" THEN "day"
                      ELSE NextDelay(NewTier(c, state[c].tier, answer, news, quiet), answer)]]
  BY Zenon DEF Finish, errors
<1> HIDE DEF mode
<1> DEFINE tier == NewTier(c, state[c].tier, answer, news, quiet)
           wait == IF mode = "off" THEN "day" ELSE NextDelay(tier, answer)
           r == [mode |-> mode, tier |-> tier, errors |-> errors, wait |-> wait]
<1>6. tier \in {"fast", "slow"} /\ (Member(c) /\ state[c].tier = "fast" => tier = "fast")
  BY <1>2 DEF NewTier
<1> HIDE DEF tier
<1>7. wait \in Waits
  BY <1>6, DelayAfter DEF Waits
<1> HIDE DEF wait
<1>8. r \in Rows /\ r.tier = tier
  BY <1>3, <1>4, <1>6, <1>7 DEF Rows
<1>9. state' = [state EXCEPT ![c] = r]
  BY <1>5 DEF tier, wait
<1> HIDE DEF r, c
<1>10. /\ state' \in [Communities -> Rows \cup {NoRow}] /\ state'[c] = r
       /\ \A d \in Communities \ {c} : state'[d] = state[d]
  BY <1>1, <1>8, <1>9
<1>11. RowsTypeOK'
  BY <1>1, <1>10
<1>12. DrawnRowsExist'
  BY <1>1, <1>8, <1>10 DEF DrawnRowsExist
<1>13. ASSUME NEW d \in Communities, Member(d), state[d].tier = "fast"
       PROVE  state'[d].tier = "fast"
  BY <1>6, <1>8, <1>10, <1>13
<1> QED
  BY <1>1, <1>11, <1>12, <1>13 DEF c

LEMMA RestartKeeps ==
    ASSUME RowsInv, Restart
    PROVE  RowsInv' /\ UNCHANGED <<people, state, late>> /\ step' = "top" /\ DOMAIN batch' = {}
<1> USE DEF RowsInv, RowsTypeOK, people
<1>1. /\ step' = "top" /\ DOMAIN batch' = {} /\ syncDue' = TRUE
      /\ UNCHANGED <<people, state, late, trouble>>
  BY DEF Restart
<1>2. events' \in 0 .. MaxEvents /\ spaces' \in [Communities -> {"unknown", "some", "none"}]
  BY RowsAssumption DEF Restart, Happens, Nobody
<1> QED
  BY <1>1, <1>2 DEF DrawnRowsExist

LEMMA RowsKeep == RowsInv /\ [RowsNext]_rowsVars => RowsInv'
<1> SUFFICES ASSUME RowsInv, [RowsNext]_rowsVars PROVE RowsInv'
  OBVIOUS
<1>1. CASE UNCHANGED rowsVars
  BY <1>1 DEF RowsInv, RowsTypeOK, DrawnRowsExist, rowsVars
<1>2. ASSUME NEW c \in Communities, World(c) PROVE RowsInv'
  BY <1>2, PeopleKeep, WelcomeKeeps DEF World
<1>3. ASSUME NEW c \in Communities, ComesDue(c) \/ SpacesExpire(c) PROVE RowsInv'
  BY <1>3, ClocksKeep
<1>4. CASE ResyncComesDue
  BY <1>4 DEF ResyncComesDue, RowsInv, RowsTypeOK, DrawnRowsExist, people, loop
<1>5. CASE RowsWatcher
  BY <1>5, TopKeeps, DrawKeeps, CheckKeeps, FinishKeeps DEF RowsWatcher
<1> QED
  BY <1>1, <1>2, <1>3, <1>4, <1>5, RestartKeeps DEF RowsNext

\* Whatever resyncs, checks, welcomes and restarts write, a WatchState row keeps
\* its types, and the answer being written back is of a row that was drawn.
THEOREM RowsTypeCorrect == RowsSpec => []RowsTypeOK
<1>1. RowsInv => RowsTypeOK
  BY DEF RowsInv
<1> QED
  BY <1>1, RowsStart, RowsKeep, PTL DEF RowsSpec

\* A community that has been asked since its pause is no longer in the batch,
\* or is the one whose answer is about to be written; the next batch leaves it out.
AskedOnce ==
    \A c \in Communities :
        /\ late[c] <= 1
        /\ ~paused[c] => late[c] = 0
        /\ late[c] = 1 => c \notin DOMAIN batch \/ (step = "finish" /\ asking.community = c)

LEMMA PauseStays == RowsInv /\ AskedOnce /\ [RowsNext]_rowsVars => AskedOnce'
<1> SUFFICES ASSUME RowsInv, AskedOnce, [RowsNext]_rowsVars PROVE AskedOnce'
  OBVIOUS
<1> USE DEF AskedOnce
<1>t. late \in [Communities -> Nat] /\ paused \in [Communities -> BOOLEAN]
  BY DEF RowsInv, RowsTypeOK
<1>1. CASE UNCHANGED <<paused, late, batch, step, asking>>
  BY <1>1
<1>2. ASSUME NEW c \in Communities, World(c) PROVE AskedOnce'
  <2>1. CASE WatchMemberNow(c)
    BY <1>1, <2>1 DEF WatchMemberNow, loop
  <2>2. (UNCHANGED loop /\ CountsAfresh(c)) \/ WatchMemberNow(c)
    BY <1>2, PeopleKeep DEF World
  <2> QED
    BY <1>1, <1>t, <2>1, <2>2 DEF CountsAfresh, loop
<1>3. ASSUME NEW c \in Communities, ComesDue(c) \/ SpacesExpire(c) \/ ResyncComesDue PROVE AskedOnce'
  BY <1>1, <1>3, ClocksKeep DEF people, loop
<1>4. CASE ResyncComesDue
  BY <1>1, <1>4 DEF ResyncComesDue, people, loop
<1>5. CASE TopOfLoop
  <2>1. step # "finish" /\ UNCHANGED <<paused, late, batch>>
    BY <1>5, TopKeeps DEF people, TopOfLoop
  <2> QED
    BY <2>1
<1>6. CASE Draw
  <2>1. UNCHANGED <<paused, late>> /\ \A c \in DOMAIN batch' : ~paused[c]
    BY <1>6, DrawKeeps DEF people
  <2> QED
    BY <2>1
<1>7. ASSUME NEW c \in Communities, CheckCommunity(c) PROVE AskedOnce'
  <2>1. /\ UNCHANGED <<paused, batch>> /\ asking'.community = c /\ step = "batch" /\ step' = "finish"
        /\ c \in DOMAIN batch
        /\ late' \in {late, [late EXCEPT ![c] = @ + 1]} /\ (~paused[c] => late' = late)
    BY <1>7, CheckKeeps DEF people
  <2>2. late[c] = 0
    BY <1>t, <2>1
  <2>3. ASSUME NEW d \in Communities, d # c PROVE late'[d] = late[d]
    BY <1>t, <2>1, <2>3
  <2>4. late'[c] \in {0, 1} /\ (~paused[c] => late'[c] = 0)
    BY <1>t, <2>1, <2>2
  <2> QED
    BY <1>t, <2>1, <2>3, <2>4
<1>8. CASE Finish
  <2>1. /\ UNCHANGED <<paused, late>> /\ step' # "finish" /\ step = "finish"
        /\ DOMAIN batch' = DOMAIN batch \ {asking.community}
    BY <1>8, FinishKeeps DEF people
  <2> QED
    BY <2>1
<1>9. CASE Restart
  <2>1. UNCHANGED <<paused, late>> /\ DOMAIN batch' = {}
    BY <1>9, RestartKeeps DEF people
  <2> QED
    BY <2>1
<1>10. CASE UNCHANGED rowsVars
  BY <1>1, <1>10 DEF rowsVars
<1> QED
  BY <1>2, <1>3, <1>4, <1>5, <1>6, <1>7, <1>8, <1>9, <1>10 DEF RowsNext, RowsWatcher

\* Whenever the pause falls, between draw, check and write-back, a paused
\* community is asked at most once more (reading_enabled, due_states).
THEOREM PausesAreHeard == RowsSpec => []PauseIsHeard
<1>1. RowsInit => AskedOnce
  BY DEF RowsInit, AskedOnce, Nobody
<1>2. AskedOnce => PauseIsHeard
  BY DEF AskedOnce, PauseIsHeard
<1> QED
  BY <1>1, <1>2, RowsStart, RowsKeep, PauseStays, PTL DEF RowsSpec

\* A community we belong to stays on the fast tier, through resyncs, welcomes
\* and write-backs (_finish, ensure_watch_rows, watch_member_now).
THEOREM FastMembers == RowsSpec => MembersStayFast
<1> DEFINE Stays == \A c \in Communities :
               state[c] # NoRow /\ Member(c) /\ state[c].tier = "fast" => state'[c].tier = "fast"
<1>1. ASSUME RowsInv, [RowsNext]_rowsVars PROVE Stays
  <2>1. CASE UNCHANGED state
    BY <2>1
  <2>2. ASSUME NEW c \in Communities, World(c) PROVE Stays
    BY <1>1, <2>1, <2>2, PeopleKeep, WelcomeKeeps DEF World
  <2>3. ASSUME NEW c \in Communities, ComesDue(c) \/ SpacesExpire(c) PROVE Stays
    BY <1>1, <2>3, ClocksKeep
  <2>4. CASE RowsWatcher
    <3>1. CASE TopOfLoop
      BY <1>1, <3>1, TopKeeps
    <3>2. CASE Finish
      BY <1>1, <3>2, FinishKeeps
    <3> QED
      BY <1>1, <2>1, <2>4, <3>1, <3>2, DrawKeeps, CheckKeeps DEF RowsWatcher
  <2>5. UNCHANGED rowsVars \/ ResyncComesDue \/ Restart => UNCHANGED state
    BY DEF rowsVars, ResyncComesDue, Restart
  <2> QED
    BY <1>1, <2>1, <2>2, <2>3, <2>4, <2>5 DEF RowsNext
<1>2. RowsInv /\ [RowsNext]_rowsVars => [Stays]_rowsVars
  BY <1>1
<1>3. RowsSpec => [][Stays]_rowsVars
  BY <1>2, RowsStart, RowsKeep, PTL DEF RowsSpec
<1> QED
  BY <1>3 DEF MembersStayFast

-----------------------------------------------------------------------------
(* The refresh token of the Dynamite session.                              *)

Places == {"rest", "seal", "sealing", "due", "refresh", "save", "rooms", "messages", "triage",
           "finish"}

\* Tokens are numbered as they are issued, and only issued ones are spent.
TokensNumbered ==
    /\ issued \in Nat /\ token \in 0 .. issued /\ spent \subseteq 0 .. issued
    /\ dyn \in [Readers -> Places]
    /\ held \in [Readers -> 0 .. issued] /\ granted \in [Readers -> 0 .. issued]

\* A token that has to be saved is nobody else's yet, so nobody can spend it.
NobodyElseHas(r) ==
    /\ granted[r] \notin spent \cup {token, 0}
    /\ \A q \in Readers : held[q] # granted[r]
    /\ \A q \in Readers \ {r} : dyn[q] = "save" => granted[q] # granted[r]
FreshIsNew == \A r \in Readers : dyn[r] = "save" => NobodyElseHas(r)

SessionInv == TokensNumbered /\ FreshIsNew /\ TokenNotStranded

LEMMA TokensStart == DynamiteInit => SessionInv
<1> SUFFICES ASSUME DynamiteInit PROVE SessionInv
  OBVIOUS
<1> QED
  BY DEF DynamiteInit, SessionInv, TokensNumbered, FreshIsNew, TokenNotStranded, Places

\* A reader goes on or leaves, and no token is issued, spent or stored; one that
\* had a token to save has lost it.
LEMMA TokensAlone ==
    ASSUME SessionInv, NEW r \in Readers, NEW place \in Places \ {"save"},
           dyn' = [dyn EXCEPT ![r] = place],
           UNCHANGED <<token, issued, spent, sealedBack>>,
           held' = held \/ held' = [held EXCEPT ![r] = 0]
                        \/ (held' = [held EXCEPT ![r] = token] /\ dyn[r] # "save"),
           granted' = granted \/ granted' = [granted EXCEPT ![r] = 0],
           lost \subseteq lost',
           dyn[r] = "save" => held[r] \in lost'
    PROVE  SessionInv'
<1> USE DEF SessionInv, TokensNumbered
<1>1. TokensNumbered'
  OBVIOUS
<1>2. ASSUME NEW q \in Readers, dyn'[q] = "save" PROVE NobodyElseHas(q)'
  <2>1. q # r /\ dyn[q] = "save" /\ granted'[q] = granted[q] /\ NobodyElseHas(q)
    BY <1>2 DEF FreshIsNew
  <2>2. \A o \in Readers : held'[o] # granted[q]
    BY <2>1 DEF NobodyElseHas
  <2>3. \A o \in Readers \ {q} : dyn'[o] = "save" => granted'[o] # granted[q]
    BY <2>1 DEF NobodyElseHas
  <2> QED
    BY <2>1, <2>2, <2>3 DEF NobodyElseHas
<1>3. TokenNotStranded'
  <2> SUFFICES ASSUME token \in spent, token \notin lost' \cup sealedBack
               PROVE  \E q \in Readers : dyn'[q] = "save" /\ held'[q] = token
    BY DEF TokenNotStranded
  <2>1. PICK q \in Readers : dyn[q] = "save" /\ held[q] = token
    BY DEF TokenNotStranded
  <2>2. q # r
    BY <2>1
  <2> QED
    BY <2>1, <2>2
<1> QED
  BY <1>1, <1>2, <1>3 DEF FreshIsNew

\* Google rotates: what it issues is new to all, what it is asked with is spent.
LEMMA RotationKeeps ==
    ASSUME SessionInv, NEW r \in Readers, dyn[r] = "refresh", held[r] \notin spent,
           issued' = issued + 1, spent' = spent \cup {held[r]},
           UNCHANGED <<token, sealedBack>>,
           \/ /\ dyn' = [dyn EXCEPT ![r] = "save"] /\ granted' = [granted EXCEPT ![r] = issued']
              /\ UNCHANGED <<held, lost>>
           \/ /\ dyn' = [dyn EXCEPT ![r] = "rest"] /\ granted' = [granted EXCEPT ![r] = 0]
              /\ held' = [held EXCEPT ![r] = 0] /\ lost' = lost \cup {held[r]}
    PROVE  SessionInv'
<1> USE DEF SessionInv, TokensNumbered
<1>1. TokensNumbered'
  <2>1. issued' \in Nat /\ 0 .. issued \subseteq 0 .. issued' /\ issued' \in 0 .. issued'
    OBVIOUS
  <2>2. held[r] \in 0 .. issued /\ 0 \in 0 .. issued
    OBVIOUS
  <2>3. dyn' \in [Readers -> Places]
    BY DEF Places
  <2>4. /\ held' \in [Readers -> 0 .. issued']
        /\ granted' \in [Readers -> 0 .. issued']
    BY <2>1, <2>2
  <2> QED
    BY <2>1, <2>2, <2>3, <2>4
<1>2. ASSUME NEW q \in Readers, dyn'[q] = "save" PROVE NobodyElseHas(q)'
  <2>1. CASE q = r
    <3>1. /\ granted'[q] = issued + 1 /\ held' = held /\ issued + 1 \notin spent \cup {token, 0, held[r]}
          /\ dyn' = [dyn EXCEPT ![r] = "save"] /\ granted' = [granted EXCEPT ![r] = issued + 1]
      BY <1>2, <2>1
    <3>2. \A o \in Readers : held[o] # issued + 1 /\ granted[o] # issued + 1
      OBVIOUS
    <3> QED
      BY <2>1, <3>1, <3>2 DEF NobodyElseHas
  <2>2. CASE q # r
    <3>1. dyn[q] = "save" /\ granted'[q] = granted[q] /\ NobodyElseHas(q)
      BY <1>2, <2>2 DEF FreshIsNew
    <3>2. \A o \in Readers : held'[o] # granted[q]
      BY <3>1 DEF NobodyElseHas
    <3>3. \A o \in Readers \ {q} : dyn'[o] = "save" => granted'[o] # granted[q]
      BY <3>1 DEF NobodyElseHas
    <3>4. granted[q] \notin spent' \cup {token, 0}
      BY <3>1 DEF NobodyElseHas
    <3> QED
      BY <3>1, <3>2, <3>3, <3>4 DEF NobodyElseHas
  <2> QED
    BY <2>1, <2>2
<1>3. TokenNotStranded'
  <2> SUFFICES ASSUME token \in spent', token \notin lost' \cup sealedBack
               PROVE  \E q \in Readers : dyn'[q] = "save" /\ held'[q] = token
    BY DEF TokenNotStranded
  <2>1. CASE token = held[r]
    BY <2>1
  <2>2. CASE token \in spent
    <3>1. PICK q \in Readers : dyn[q] = "save" /\ held[q] = token
      BY <2>2 DEF TokenNotStranded
    <3> QED
      BY <3>1
  <2> QED
    BY <2>1, <2>2
<1> QED
  BY <1>1, <1>2, <1>3 DEF FreshIsNew

LEMMA TokensStep == SessionInv /\ [DynamiteNext]_dynamiteVars => SessionInv'
<1> SUFFICES ASSUME SessionInv, [DynamiteNext]_dynamiteVars PROVE SessionInv'
  OBVIOUS
<1> USE DEF sessionVars, strandVars, Places
<1>1. CASE SaveSession
  <2>1. /\ issued' = issued + 1 /\ token' = issued' /\ UNCHANGED <<spent, dyn, held, granted>>
    BY <1>1 DEF SaveSession, dynVars
  <2>2. TokensNumbered' /\ token' \notin spent'
    BY <2>1 DEF SessionInv, TokensNumbered
  <2>3. ASSUME NEW r \in Readers, dyn'[r] = "save" PROVE NobodyElseHas(r)'
    <3>1. NobodyElseHas(r) /\ granted[r] # issued + 1
      BY <2>1, <2>3 DEF SessionInv, FreshIsNew, TokensNumbered
    <3> QED
      BY <2>1, <3>1 DEF NobodyElseHas
  <2> QED
    BY <2>2, <2>3 DEF SessionInv, FreshIsNew, TokenNotStranded
<1>2. ASSUME NEW r \in Readers, LoadSession(r) PROVE SessionInv'
  BY <1>2, TokensAlone DEF LoadSession, Turns
<1>3. ASSUME NEW r \in Readers, Seal(r) PROVE SessionInv'
  <2>1. /\ dyn[r] = "sealing" /\ dyn' = [dyn EXCEPT ![r] = "due"] /\ token' = held[r]
        /\ sealedBack' = sealedBack \cup ({held[r]} \cap spent)
        /\ UNCHANGED <<spent, issued, held, granted, lost>>
    BY <1>3 DEF Seal, Turns
  <2>2. TokensNumbered'
    BY <2>1 DEF SessionInv, TokensNumbered
  <2>3. ASSUME NEW q \in Readers, dyn'[q] = "save" PROVE NobodyElseHas(q)'
    <3>1. NobodyElseHas(q)
      BY <2>1, <2>3 DEF SessionInv, FreshIsNew, TokensNumbered
    <3>2. \A o \in Readers : dyn'[o] = "save" => dyn[o] = "save"
      BY <2>1 DEF SessionInv, TokensNumbered
    <3> QED
      BY <2>1, <3>1, <3>2 DEF NobodyElseHas
  <2> QED
    BY <2>1, <2>2, <2>3 DEF SessionInv, FreshIsNew, TokenNotStranded
<1>4. ASSUME NEW r \in Readers, RefreshAnswers(r) PROVE SessionInv'
  BY <1>4, TokensAlone, RotationKeeps DEF RefreshAnswers, Rotates, Turns
<1>5. ASSUME NEW r \in Readers, AnswerLost(r) PROVE SessionInv'
  BY <1>5, RotationKeeps DEF AnswerLost, Rotates, Raises, Leaves
<1>6. ASSUME NEW r \in Readers, SaveRotated(r) PROVE SessionInv'
  <2>1. /\ dyn[r] = "save" /\ dyn' = [dyn EXCEPT ![r] = "rooms"] /\ token' = granted[r]
        /\ UNCHANGED <<spent, issued, held, granted>>
    BY <1>6 DEF SaveRotated, Turns
  <2>2. TokensNumbered'
    BY <2>1 DEF SessionInv, TokensNumbered
  <2>3. NobodyElseHas(r)
    BY <2>1 DEF SessionInv, FreshIsNew
  <2>4. ASSUME NEW q \in Readers, dyn'[q] = "save" PROVE NobodyElseHas(q)'
    <3>1. q # r /\ dyn[q] = "save" /\ NobodyElseHas(q)
      BY <2>1, <2>4 DEF SessionInv, FreshIsNew, TokensNumbered
    <3>2. \A o \in Readers : dyn'[o] = "save" => dyn[o] = "save"
      BY <2>1 DEF SessionInv, TokensNumbered
    <3>3. granted[q] # granted[r]
      BY <2>3, <3>1 DEF NobodyElseHas
    <3> QED
      BY <2>1, <3>1, <3>2, <3>3 DEF NobodyElseHas
  <2> QED
    BY <2>1, <2>2, <2>3, <2>4 DEF SessionInv, FreshIsNew, TokenNotStranded, NobodyElseHas
<1>7. ASSUME NEW r \in Readers,
             FindPlain(r) \/ ListRooms(r) \/ ReadRoom(r) \/ TriageRooms(r)
               \/ \E force \in BOOLEAN : Starts(r, force)
      PROVE  SessionInv'
  BY <1>7, TokensAlone
  DEF FindPlain, ListRooms, ReadRoom, TriageRooms, Starts, Turns, Leaves
<1>8. ASSUME NEW r \in Readers,
             RefreshFails(r) \/ ReadFails(r) \/ SaveFails(r) \/ RecordFinish(r) \/ ReaderKilled(r)
      PROVE  SessionInv'
  BY <1>8, TokensAlone
  DEF RefreshFails, ReadFails, SaveFails, RecordFinish, ReaderKilled, Raises, Leaves
<1>9. CASE DynamiteTick \/ UNCHANGED dynamiteVars
  BY <1>9 DEF DynamiteTick, dynVars, dynamiteVars, SessionInv, TokensNumbered, FreshIsNew,
              NobodyElseHas, TokenNotStranded
<1> QED
  BY <1>1, <1>2, <1>3, <1>4, <1>5, <1>6, <1>7, <1>8, <1>9 DEF DynamiteNext, DynamiteRead

\* However reads of Dynamite Circle end, by however many readers, and whatever is
\* pasted or sealed meanwhile, the stored refresh token is one Google still takes
\* (run_scheduled, refresh_access), unless the one that replaces it is about to
\* be saved or was lost before, or another reader sealed it back.
THEOREM TokensAreKept == DynamiteSpec => []TokenNotStranded
<1>1. SessionInv => TokenNotStranded
  BY DEF SessionInv
<1> QED
  BY <1>1, TokensStart, TokensStep, PTL DEF DynamiteSpec

-----------------------------------------------------------------------------
(* The feed of the watcher.  WatermarkCovers is not inductive: the mark is  *)
(* written at the end of a check from what the check found, so what counts  *)
(* is what a walk has met, what is still in front of it, and how far the    *)
(* posts put on top since its last page have pushed what it met back into   *)
(* its way.  Two facts about the feed are named where a theorem needs them: *)
(* FeedNeverEmpty and ArchiveInOrder.                                       *)

Pins == Len(PinnedFeed)

\* The first id that is given out after the model begins.
FirstId == Newest(Range(OldFeed) \cup Pinned) + 1
Young(i) == i >= FirstId

\* Posts of the feed in front of page p.
Ahead(p) == (p - 1) * PerPage

Excused == Accounted \cup hidden
Missing(k) == Young(timeline[k]) /\ timeline[k] \notin seenNow \cup Excused
Met(k) == Young(timeline[k]) /\ timeline[k] \in seenNow
MetYoung == \E i \in seenNow : Young(i)

\* Ids that were published, or that the row remembers, come from the counter,
\* and are no drafts.
IdsInv ==
    /\ FirstId <= nextId
    /\ \A x \in Range(timeline) \cup seenNow \cup {watermark} : x < nextId /\ x \notin drafts
    /\ drafts \subseteq FirstId .. (nextId - 1)

\* The posts published since are on top, each once, and newest first but for
\* the late drafts.
OrderInv ==
    /\ \A a, b \in DOMAIN timeline :
         a < b /\ Young(timeline[b]) => Young(timeline[a]) /\ timeline[a] # timeline[b]
    /\ \A a, b \in DOMAIN timeline :
         a < b /\ Young(timeline[a]) /\ timeline[a] \notin hidden => timeline[b] < timeline[a]

ArchiveIn(S) == \A i \in InFeed : Young(i) \/ i \in S

RowInv ==
    /\ \A i \in Range(recent) : i <= watermark
    /\ ~ polled => watermark = 0 /\ recent = <<>> /\ fresh = {} /\ page = 1
    /\ polled => 0 < watermark /\ ArchiveIn(old)
    /\ Len(OldFeed) <= Len(timeline) + deletes

\* What the first check stands for while it is not finished.
SeedInv ==
    /\ newEtag # <<>> /\ Range(newEtag) \subseteq seenNow /\ newEtag \in Seq(Ids)
    /\ ArchiveIn(old)
    /\ \A i \in InFeed : i \in old \cup hidden \/ \A j \in seenNow : j < i

CheckInv ==
    /\ phase = "idle" => page = 1
    /\ phase = "idle" \/ (phase = "fetching" /\ page = 1) => seenNow = {} /\ moved = 0
    /\ polled => \A i \in seenNow : i \in fresh \/ i <= watermark
    /\ \A i \in fresh : watermark < i
    /\ ~ polled /\ phase = "triaging" => SeedInv

\* A post the walk has not met is still to come, or newer than all it found;
\* once it met a new post it is past the pinned ones.
ComesOrNewer(k) == Ahead(page) < Pins + k \/ \A f \in fresh : f < timeline[k]
WalkInv ==
    phase = "fetching" /\ polled =>
        /\ \A k \in DOMAIN timeline : Missing(k) => ComesOrNewer(k)
        /\ MetYoung => Pins < Ahead(page)

\* The posts met are on the pages read, as far down as others pushed them: the next
\* page cannot be made of them alone.
Tight ==
    /\ moved < PerPage \/ ~ MetYoung
    /\ \A a \in DOMAIN timeline : Met(a) => Pins + a <= Ahead(page) + moved

\* Or what was not met is above all that was, and on no page to come but the next.
OnTopOnly(b) ==
    /\ \A a \in DOMAIN timeline : Met(a) => b < a
    /\ Pins + b <= Ahead(page) + moved /\ Pins + b <= Ahead(page) + PerPage
Loose == MetYoung /\ \A b \in DOMAIN timeline : Missing(b) => OnTopOnly(b)

PushInv == phase = "fetching" /\ polled => Tight \/ Loose

\* What the check has yet to tell of is found, left to the harvest, or newer than
\* all it found.
FoundInv ==
    phase = "triaging" /\ polled =>
        \A i \in InFeed : i \in Excused \cup fresh \cup beyond \/ \A f \in fresh : f < i

\* The first check meets a post: the feed has a pinned one, or too many to be
\* deleted before it.  A check that meets none leaves no mark, so the next one
\* seeds again and takes what was published between for archive.
FeedNeverEmpty == PinnedFeed # <<>> \/ MaxDeletes < Len(OldFeed)

-----------------------------------------------------------------------------
(* Pages and marks.                                                        *)

LEMMA NewestIs ==
    ASSUME NEW T, T \subseteq 0 .. MaxId
    PROVE  /\ Newest(T) \in 0 .. MaxId /\ Newest(T) \in T \cup {0}
           /\ \A x \in T : x <= Newest(T)
<1> DEFINE U == T \cup {0}
<1>1. U \subseteq 0 .. MaxId /\ U # {} /\ MaxId \in Nat
  BY TuningAssumption
<1>2. Max(U) \in U /\ \A y \in U : Max(U) >= y
  <2> HIDE DEF U
  <2> QED
    BY <1>1, MaxIsGreatest
<1>3. Newest(T) = Max(U)
  BY DEF Newest
<1>4. T \subseteq U /\ (\A x \in U : x \in T \cup {0})
  OBVIOUS
<1> HIDE DEF U
<1> DEFINE m == Max(U)
<1>5. m \in U /\ \A y \in U : m >= y
  BY <1>2
<1> HIDE DEF m
<1>6. m \in 0 .. MaxId /\ m \in T \cup {0} /\ \A x \in T : x <= m
  BY <1>1, <1>4, <1>5
<1> QED
  BY <1>3, <1>6 DEF m

LEMMA FirstIdIs ==
    /\ FirstId \in Nat /\ 0 < FirstId /\ FirstId <= MaxId + 1
    /\ \A i \in Range(OldFeed) \cup Pinned : i \in Ids /\ ~ Young(i)
<1>1. Range(OldFeed) \subseteq Ids /\ Pinned \subseteq Ids
  BY FeedAssumption DEF Range, Pinned
<1>2. MaxId \in Nat /\ Range(OldFeed) \cup Pinned \subseteq 0 .. MaxId
  <2>1. MaxId \in Nat
    BY TuningAssumption
  <2>2. Range(OldFeed) \cup Pinned \subseteq Ids
    BY <1>1
  <2>3. Ids \subseteq 0 .. MaxId
    BY <2>1 DEF Ids
  <2> QED
    BY <2>1, <2>2, <2>3
<1>3. /\ Newest(Range(OldFeed) \cup Pinned) \in 0 .. MaxId
      /\ \A x \in Range(OldFeed) \cup Pinned : x <= Newest(Range(OldFeed) \cup Pinned)
  BY <1>2, NewestIs
<1> QED
  BY <1>1, <1>2, <1>3 DEF FirstId, Young, Ids

LEMMA Paging ==
    ASSUME NEW p \in Nat \ {0}
    PROVE  /\ Ahead(p) \in Nat /\ Ahead(p + 1) = Ahead(p) + PerPage /\ Ahead(1) = 0
           /\ p * PerPage = Ahead(p) + PerPage /\ PerPage \in Nat /\ 0 < PerPage
           /\ Ahead(p) + PerPage \in Nat
<1>1. PerPage \in Nat \ {0}
  BY TuningAssumption
<1>2. p - 1 \in Nat /\ p = (p - 1) + 1
  OBVIOUS
<1>3. \A n \in Nat : n * PerPage \in Nat /\ (n + 1) * PerPage = n * PerPage + PerPage
  BY <1>1
<1>4. Ahead(p) \in Nat /\ p * PerPage = Ahead(p) + PerPage
  BY <1>2, <1>3 DEF Ahead
<1>5. (p + 1) - 1 = p
  OBVIOUS
<1>6. Ahead(p + 1) = Ahead(p) + PerPage
  BY <1>4, <1>5 DEF Ahead
<1>7. Ahead(1) = 0
  BY <1>1 DEF Ahead
<1> QED
  BY <1>1, <1>4, <1>6, <1>7

LEMMA MinTwo ==
    ASSUME NEW a \in Nat, NEW b \in Nat
    PROVE  Min({a, b}) = IF a < b THEN a ELSE b
<1>1. {a, b} \subseteq Nat /\ {a, b} # {}
  OBVIOUS
<1>2. Min({a, b}) \in {a, b} /\ \A y \in {a, b} : Min({a, b}) <= y
  BY <1>1, MinIsLeast
<1> DEFINE m == Min({a, b})
<1>3. (m = a \/ m = b) /\ m <= a /\ m <= b
  BY <1>2
<1> HIDE DEF m
<1> QED
  BY <1>3 DEF m

\* Where the posts of the feed are.
LEMMA FeedIs ==
    ASSUME timeline \in Seq(Ids)
    PROVE  /\ Feed \in Seq(Ids) /\ Pins \in Nat /\ Len(timeline) \in Nat
           /\ DOMAIN timeline = 1 .. Len(timeline) /\ Len(Feed) = Pins + Len(timeline)
           /\ \A k \in DOMAIN timeline : Pins + k \in DOMAIN Feed /\ Feed[Pins + k] = timeline[k]
           /\ \A j \in DOMAIN Feed :
                IF j <= Pins THEN j \in DOMAIN PinnedFeed /\ Feed[j] = PinnedFeed[j]
                ELSE j - Pins \in DOMAIN timeline /\ Feed[j] = timeline[j - Pins]
           /\ \A j \in DOMAIN PinnedFeed : j <= Pins /\ j \in DOMAIN Feed /\ Feed[j] = PinnedFeed[j]
           /\ InFeed = Pinned \cup Range(timeline) /\ InFeed \subseteq Ids
           /\ \A k \in DOMAIN timeline : timeline[k] \in Range(timeline)
           /\ \A i \in Range(timeline) : \E k \in DOMAIN timeline : timeline[k] = i
<1>1. PinnedFeed \in Seq(Ids)
  BY FeedAssumption
<1>2. /\ Feed \in Seq(Ids) /\ Pins \in Nat /\ Len(timeline) \in Nat
      /\ DOMAIN timeline = 1 .. Len(timeline) /\ Len(Feed) = Pins + Len(timeline)
  BY <1>1 DEF Feed, Pins
<1>3. \A k \in DOMAIN timeline : Pins + k \in DOMAIN Feed /\ Feed[Pins + k] = timeline[k]
  BY <1>1 DEF Feed, Pins
<1>4. \A j \in DOMAIN Feed :
                IF j <= Pins THEN j \in DOMAIN PinnedFeed /\ Feed[j] = PinnedFeed[j]
                ELSE j - Pins \in DOMAIN timeline /\ Feed[j] = timeline[j - Pins]
  BY <1>1 DEF Feed, Pins
<1>5. \A j \in DOMAIN PinnedFeed : j <= Pins /\ j \in DOMAIN Feed /\ Feed[j] = PinnedFeed[j]
  BY <1>1 DEF Feed, Pins
<1>6. \A i \in InFeed : i \in Pinned \cup Range(timeline)
  BY <1>4 DEF InFeed, Pinned, Range
<1>7. \A i \in Pinned \cup Range(timeline) : i \in InFeed
  BY <1>3, <1>5 DEF InFeed, Pinned, Range
<1>8. InFeed \subseteq Ids
  BY <1>2 DEF InFeed, Range
<1>9. /\ \A k \in DOMAIN timeline : timeline[k] \in Range(timeline)
      /\ \A i \in Range(timeline) : \E k \in DOMAIN timeline : timeline[k] = i
  BY DEF Range
<1>10. InFeed = Pinned \cup Range(timeline)
  BY <1>6, <1>7
<1> QED
  BY <1>2, <1>3, <1>4, <1>5, <1>8, <1>9, <1>10

LEMMA FeedHolds ==
    ASSUME NEW q \in Seq(Ids) PROVE Range(PinnedFeed \o q) = Pinned \cup Range(q)
<1>1. PinnedFeed \in Seq(Ids)
  BY FeedAssumption
<1> DEFINE p == PinnedFeed \o q
           n == Len(PinnedFeed)
<1>5. \A j \in DOMAIN p :
        IF j <= n THEN j \in DOMAIN PinnedFeed /\ p[j] = PinnedFeed[j]
        ELSE j - n \in DOMAIN q /\ p[j] = q[j - n]
  BY <1>1
<1>6. \A j \in DOMAIN PinnedFeed : j \in DOMAIN p /\ p[j] = PinnedFeed[j]
  BY <1>1
<1>7. \A k \in DOMAIN q : n + k \in DOMAIN p /\ p[n + k] = q[k]
  BY <1>1
<1> HIDE DEF p, n
<1>2. ASSUME NEW x \in Range(p) PROVE x \in Pinned \cup Range(q)
  <2>1. PICK j \in DOMAIN p : p[j] = x
    BY DEF Range
  <2>2. CASE j <= n
    BY <1>5, <2>1, <2>2 DEF Pinned, Range
  <2>3. CASE ~ (j <= n)
    <3>1. j - n \in DOMAIN q /\ q[j - n] = x
      BY <1>5, <2>1, <2>3
    <3> QED
      BY <3>1 DEF Range
  <2> QED
    BY <2>2, <2>3
<1>3. ASSUME NEW x \in Range(q) PROVE x \in Range(p)
  <2>1. PICK k \in DOMAIN q : q[k] = x
    BY DEF Range
  <2> QED
    BY <1>7, <2>1 DEF Range
<1>4. Pinned \subseteq Range(p)
  BY <1>6 DEF Pinned, Range
<1> QED
  BY <1>2, <1>3, <1>4 DEF p

\* A post of the timeline stands on a page.
OnPage(p, k) == Ahead(p) < Pins + k /\ Pins + k <= Ahead(p) + PerPage

LEMMA PageIs ==
    ASSUME timeline \in Seq(Ids), NEW p \in Nat \ {0}, NEW recs, recs = PageOf(Feed, p)
    PROVE  /\ recs \in Seq(Ids) /\ Range(recs) \subseteq InFeed /\ Range(recs) \subseteq Ids
           /\ \A k \in DOMAIN timeline : OnPage(p, k) => timeline[k] \in Range(recs)
           /\ \A r \in Range(recs) : \/ r \in Pinned
                                     \/ \E k \in DOMAIN timeline : timeline[k] = r /\ OnPage(p, k)
           /\ \A j \in DOMAIN PinnedFeed :
                Ahead(p) < j /\ j <= Ahead(p) + PerPage => PinnedFeed[j] \in Range(recs)
           /\ recs = <<>> => Pins + Len(timeline) <= Ahead(p)
           /\ ~ HasNext(p) => Pins + Len(timeline) <= Ahead(p) + PerPage
           /\ \A k \in DOMAIN timeline :
                Ahead(p) + PerPage < Pins + k => timeline[k] \in Below(p)
<1> DEFINE b == Ahead(p)
           e == Ahead(p) + PerPage
           n == Len(Feed)
<1>1. b \in Nat /\ e \in Nat /\ b < e /\ p * PerPage = e /\ n \in Nat
  <2>1. /\ Ahead(p) \in Nat /\ p * PerPage = Ahead(p) + PerPage /\ PerPage \in Nat
        /\ 0 < PerPage /\ Ahead(p) + PerPage \in Nat
    BY Paging
  <2>2. Len(Feed) \in Nat
    BY FeedIs
  <2> QED
    BY <2>1, <2>2
<1>2. PageOf(Feed, p) = SubSeq(Feed, b + 1, Min({p * PerPage, Len(Feed)}))
  BY DEF PageOf, Ahead
<1> HIDE DEF b, e
<1>3. Min({p * PerPage, Len(Feed)}) = IF e < n THEN e ELSE n
  BY <1>1, MinTwo
<1>4. recs = Piece(Feed, b, e)
  BY <1>2, <1>3 DEF Piece
<1>5. /\ Feed \in Seq(Ids) /\ Pins \in Nat /\ Len(timeline) \in Nat
      /\ DOMAIN timeline = 1 .. Len(timeline) /\ Len(Feed) = Pins + Len(timeline)
      /\ InFeed = Pinned \cup Range(timeline) /\ InFeed \subseteq Ids
  BY FeedIs
<1>6. /\ \A i \in DOMAIN Feed : b < i /\ i <= e => Feed[i] \in ToSet(recs)
      /\ \A t \in ToSet(recs) : \E j \in DOMAIN Feed : b < j /\ j <= e /\ Feed[j] = t
      /\ recs = <<>> => Len(Feed) <= b
  <2>1. /\ \A i \in DOMAIN Feed : b < i /\ i <= e => Feed[i] \in ToSet(Piece(Feed, b, e))
        /\ \A t \in ToSet(Piece(Feed, b, e)) :
             \E j \in DOMAIN Feed : b < j /\ j <= e /\ Feed[j] = t
        /\ Piece(Feed, b, e) = <<>> => Len(Feed) <= b
    BY ZenonT(60), <1>1, <1>5, PageHolds
  <2> QED
    BY <1>4, <2>1
<1>7. ToSet(recs) = Range(recs)
  BY DEF ToSet, Range
<1>8. Feed \in [1 .. Len(Feed) -> Ids] /\ Len(Feed) \in Nat
  BY <1>5
<1>9. recs \in Seq(Ids)
  <2>1. \A i \in Int : recs = SubSeq(Feed, b + 1, i) /\ i <= Len(Feed) => recs \in Seq(Ids)
    BY <1>1, <1>5
  <2>2. IF e < n THEN e <= n /\ e \in Int ELSE n \in Int
    BY <1>1
  <2> QED
    BY <1>1, <1>4, <2>1, <2>2 DEF Piece
<1>10. Range(recs) \subseteq InFeed
  BY <1>6, <1>7 DEF InFeed, Range
<1>11. \A k \in DOMAIN timeline : OnPage(p, k) => timeline[k] \in Range(recs)
  BY <1>6, <1>7, FeedIs DEF OnPage, b, e
<1>12. ASSUME NEW r \in Range(recs), r \notin Pinned
       PROVE  \E k \in DOMAIN timeline : timeline[k] = r /\ OnPage(p, k)
  <2>1. PICK j \in DOMAIN Feed : b < j /\ j <= e /\ Feed[j] = r
    BY <1>6, <1>7
  <2>2. ~ (j <= Pins)
    BY <1>12, <2>1, FeedIs DEF Pinned, Range
  <2>3. j - Pins \in DOMAIN timeline /\ timeline[j - Pins] = r
    BY <2>1, <2>2, FeedIs
  <2>4. j \in Nat /\ Pins + (j - Pins) = j
    BY <1>5, <2>1
  <2> QED
    BY <2>1, <2>3, <2>4 DEF OnPage, b, e
<1>13. \A j \in DOMAIN PinnedFeed : b < j /\ j <= e => PinnedFeed[j] \in Range(recs)
  BY <1>6, <1>7, FeedIs
<1>14. recs = <<>> => Pins + Len(timeline) <= b
  BY <1>5, <1>6
<1>15. ~ HasNext(p) => Pins + Len(timeline) <= e
  BY <1>1, <1>5 DEF HasNext
<1>16. ASSUME NEW k \in DOMAIN timeline, e < Pins + k PROVE timeline[k] \in Below(p)
  <2>1. Pins + k \in DOMAIN Feed /\ Feed[Pins + k] = timeline[k]
    BY FeedIs
  <2>2. Pins + k \in p * PerPage + 1 .. Len(Feed)
    BY <1>1, <1>5, <1>16, <2>1
  <2> QED
    BY <2>1, <2>2 DEF Below
<1>17. Range(recs) \subseteq Ids
  BY <1>5, <1>10
<1> QED
  BY <1>9, <1>10, <1>11, <1>12, <1>13, <1>14, <1>15, <1>16, <1>17 DEF b, e

\* The list of the ids found in a check has those ids and no other.
LEMMA AscendingIs ==
    ASSUME NEW S, S \subseteq Ids
    PROVE  Ascending(S) \in Seq(Ids) /\ Range(Ascending(S)) = S
<1>1. S \subseteq Nat /\ IsFiniteSet(S)
  <2>1. MaxId \in Nat
    BY TuningAssumption
  <2>2. IsFiniteSet(1 .. MaxId) /\ S \subseteq 1 .. MaxId
    BY <2>1, FS_Interval DEF Ids
  <2>3. IsFiniteSet(S)
    BY <2>2, FS_Subset
  <2> QED
    BY <2>2, <2>3
<1>2. Ascending(S) = InIncreasingOrder(S)
  BY DEF Ascending, InIncreasingOrder, Increasing
<1>3. Ascending(S) \in Seq(S) /\ \A x \in S : x \in ToSet(Ascending(S))
  BY <1>1, <1>2, AscendingLists
<1>4. Ascending(S) \in Seq(Ids)
  BY <1>3, SeqOfMore
<1>5. Range(Ascending(S)) \subseteq S
  BY <1>3 DEF Range
<1> QED
  BY <1>3, <1>4, <1>5 DEF ToSet, Range

\* What the row remembers after a check that met some ids.
LEMMA LastKeptIs ==
    ASSUME NEW s \in Seq(Ids)
    PROVE  /\ LastKept(s) \in Seq(Ids) /\ Len(LastKept(s)) <= RecentKept
           /\ Range(LastKept(s)) \subseteq Range(s)
<1>1. RecentKept \in Nat /\ Len(s) \in Nat
  BY TuningAssumption
<1>2. CASE Len(s) > RecentKept
  <2> DEFINE b == Len(s) - RecentKept
             t == SubSeq(s, b + 1, Len(s))
  <2>2. t \in Seq(Ids) /\ Len(t) = RecentKept /\ \A i \in DOMAIN t : b + i \in DOMAIN s /\ t[i] = s[b + i]
    BY <1>1, <1>2
  <2>3. LastKept(s) = t
    BY <1>2 DEF LastKept
  <2> HIDE DEF t
  <2>4. Range(t) \subseteq Range(s)
    BY <2>2 DEF Range
  <2> QED
    BY <1>1, <2>2, <2>3, <2>4
<1>3. CASE ~ (Len(s) > RecentKept)
  BY <1>1, <1>3 DEF LastKept
<1> QED
  BY <1>2, <1>3

LEMMA MarksMoved ==
    ASSUME watermark \in 0 .. MaxId, recent \in Seq(Ids), NEW s \in Seq(Ids), MoveMarks(s)
    PROVE  /\ watermark' \in 0 .. MaxId /\ watermark' \in {watermark} \cup Range(s)
           /\ watermark <= watermark' /\ \A i \in Range(s) : i <= watermark'
           /\ recent' \in Seq(Ids) /\ Len(recent') <= RecentKept
           /\ Range(recent') \subseteq Range(recent) \cup Range(s)
<1>1. MaxId \in Nat
  BY TuningAssumption
<1>2. Range(s) \subseteq Ids
  BY DEF Range
<1> DEFINE T == {watermark} \cup Range(s)
<1>3. T \subseteq 0 .. MaxId
  BY <1>1, <1>2 DEF Ids
<1>4. watermark' = Newest(T)
  BY DEF MoveMarks
<1>6. watermark \in T /\ Range(s) \subseteq T
  OBVIOUS
<1> HIDE DEF T
<1>5. watermark' \in 0 .. MaxId /\ watermark' \in T \cup {0} /\ \A x \in T : x <= watermark'
  BY <1>3, <1>4, NewestIs
<1>7. watermark' \in T
  <2>1. watermark' = 0 => watermark = 0
    BY <1>1, <1>5, <1>6
  <2> QED
    BY <1>5, <1>6, <2>1
<1>8. recent \o s \in Seq(Ids) /\ Range(recent \o s) \subseteq Range(recent) \cup Range(s)
  BY DEF Range
<1>9. recent' = LastKept(recent \o s)
  BY DEF MoveMarks
<1> QED
  BY <1>5, <1>6, <1>7, <1>8, <1>9, LastKeptIs DEF T

-----------------------------------------------------------------------------
(* Types.                                                                  *)

LEMMA Bounds ==
    /\ MaxId \in Nat /\ MaxDrafts \in Nat /\ MaxDeletes \in Nat /\ MaxFaults \in Nat
    /\ MaxPages \in Nat \ {0} /\ PerPage \in Nat \ {0} /\ RecentKept \in Nat
    /\ Ids \subseteq 0 .. MaxId /\ Ids \subseteq Nat \ {0}
<1>1. /\ MaxId \in Nat /\ MaxDrafts \in Nat /\ MaxDeletes \in Nat /\ MaxFaults \in Nat
      /\ MaxPages \in Nat \ {0} /\ PerPage \in Nat \ {0} /\ RecentKept \in Nat
  BY TuningAssumption
<1> QED
  BY <1>1 DEF Ids

LEMMA TagIs == NoPage \in Seq(0 .. MaxId) /\ \A q \in Seq(Ids) : q \in Seq(0 .. MaxId)
<1>1. 0 \in 0 .. MaxId
  BY Bounds
<1>2. \A S : \A x \in S : <<x>> \in Seq(S)
  OBVIOUS
<1>3. <<0>> \in Seq(0 .. MaxId)
  BY <1>1, <1>2
<1>4. Ids \subseteq 0 .. MaxId
  BY Bounds
<1> QED
  BY <1>3, <1>4, SeqOfMore DEF NoPage

\* Past its first page a check has the tag of that page.
PageIsTagged == phase = "triaging" \/ 1 < page => newEtag \in Seq(Ids)

Typed == TypeOK /\ PageIsTagged

LEMMA FeedTypeStart == Init => Typed
<1> SUFFICES ASSUME Init PROVE Typed
  OBVIOUS
<1>1. OldFeed \in Seq(Ids)
  BY FeedAssumption
<1>2. nextId \in 1 .. (MaxId + 1)
  BY FirstIdIs, Bounds DEF Init, FirstId
<1>3. /\ NoPage \in Seq(0 .. MaxId) /\ <<>> \in Seq(Ids) /\ Len(<<>>) <= RecentKept
      /\ 1 \in 1 .. MaxPages /\ 0 \in 0 .. MaxId /\ 0 \in 0 .. MaxDrafts
      /\ 0 \in 0 .. MaxDeletes /\ 0 \in 0 .. MaxFaults
  BY TagIs, Bounds
<1>4. TypeOK
  BY <1>1, <1>2, <1>3 DEF Init, TypeOK
<1> QED
  BY <1>4 DEF Typed, PageIsTagged, Init

CommunityTyped ==
    /\ timeline \in Seq(Ids) /\ nextId \in 1 .. MaxId + 1
    /\ drafts \subseteq Ids /\ drafted \in 0 .. MaxDrafts
    /\ deletes \in 0 .. MaxDeletes
    /\ hidden \subseteq Ids /\ moved \in Nat

LEMMA PuttingOnTop ==
    ASSUME TypeOK, NEW i \in Ids, PutOnTop(i)
    PROVE  /\ timeline' \in Seq(Ids) /\ moved' \in Nat /\ Len(timeline') = Len(timeline) + 1
           /\ timeline'[1] = i /\ DOMAIN timeline \subseteq Nat /\ DOMAIN timeline' \subseteq Nat \ {0}
           /\ \A k \in DOMAIN timeline : k + 1 \in DOMAIN timeline' /\ timeline'[k + 1] = timeline[k]
           /\ \A k \in DOMAIN timeline' :
                k # 1 => k - 1 \in DOMAIN timeline /\ timeline'[k] = timeline[k - 1]
           /\ Range(timeline') = Range(timeline) \cup {i}
<1>1. timeline \in Seq(Ids) /\ timeline' = <<i>> \o timeline
  BY DEF TypeOK, PutOnTop
<1>2. /\ timeline' \in Seq(Ids) /\ Len(timeline') = Len(timeline) + 1
      /\ timeline'[1] = i /\ DOMAIN timeline \subseteq Nat /\ DOMAIN timeline' \subseteq Nat \ {0}
      /\ \A k \in DOMAIN timeline : k + 1 \in DOMAIN timeline' /\ timeline'[k + 1] = timeline[k]
      /\ \A k \in DOMAIN timeline' :
           k # 1 => k - 1 \in DOMAIN timeline /\ timeline'[k] = timeline[k - 1]
  BY <1>1, OnTop
<1>3. moved' \in Nat
  BY DEF TypeOK, PutOnTop
<1>4. 1 \in DOMAIN timeline'
  BY <1>1
<1>5. \A x \in Range(timeline') : x \in Range(timeline) \cup {i}
  BY <1>2 DEF Range
<1>6. \A x \in Range(timeline) \cup {i} : x \in Range(timeline')
  BY <1>2, <1>4 DEF Range
<1> QED
  BY <1>2, <1>3, <1>5, <1>6

LEMMA HidingType ==
    ASSUME TypeOK, NEW o \in BOOLEAN, NEW m, m \subseteq Ids, HideIf(o, m)
    PROVE  hidden' \subseteq Ids /\ hidden \subseteq hidden' /\ m \subseteq hidden'
           /\ (o => Unread \subseteq hidden')
<1>1. Unread \subseteq Ids
  BY DEF TypeOK, Unread, Range
<1> QED
  BY <1>1 DEF TypeOK, HideIf

LEMMA CommunityType == ASSUME Typed, Community PROVE Typed'
<1>1. ASSUME CommunityTyped', UNCHANGED <<row, check, history, faults>> PROVE Typed'
  BY <1>1 DEF Typed, PageIsTagged, TypeOK, CommunityTyped, row, check, history
<1>0. TypeOK
  BY DEF Typed
<1>2. (moved' >= PerPage) \in BOOLEAN /\ {} \subseteq Ids
  OBVIOUS
<1>3. CASE Publish
  <2>1. nextId \in Ids /\ nextId' = nextId + 1 /\ PutOnTop(nextId) /\ HideIf(moved' >= PerPage, {})
    BY <1>3 DEF Publish
  <2>2. timeline' \in Seq(Ids) /\ moved' \in Nat
    BY <1>0, <2>1, PuttingOnTop
  <2>3. hidden' \subseteq Ids
    BY <1>2, <2>1, <1>0, HidingType
  <2>4. nextId' \in 1 .. MaxId + 1
    BY <1>0, <2>1, Bounds DEF Ids
  <2> QED
    BY <1>0, <1>1, <1>3, <2>2, <2>3, <2>4 DEF Publish, TypeOK, CommunityTyped
<1>4. CASE Draft
  <2>1. nextId \in Ids /\ nextId' = nextId + 1 /\ drafted < MaxDrafts /\ drafted' = drafted + 1
    BY <1>4 DEF Draft
  <2>2. nextId' \in 1 .. MaxId + 1 /\ drafted' \in 0 .. MaxDrafts
    BY <1>0, <2>1, Bounds DEF Ids, TypeOK
  <2> QED
    BY <1>0, <1>1, <1>4, <2>1, <2>2 DEF Draft, TypeOK, CommunityTyped, moves
<1>5. ASSUME NEW d \in drafts, Release(d) PROVE Typed'
  <2>1. d \in Ids /\ PutOnTop(d) /\ HideIf(moved' >= PerPage, IF d + 1 < nextId THEN {d} ELSE {})
    BY <1>5 DEF Release, Typed, TypeOK
  <2>2. timeline' \in Seq(Ids) /\ moved' \in Nat
    BY <1>0, <2>1, PuttingOnTop
  <2>3. (IF d + 1 < nextId THEN {d} ELSE {}) \subseteq Ids
    BY <2>1
  <2>4. hidden' \subseteq Ids
    BY <1>2, <2>1, <2>3, <1>0, HidingType
  <2> QED
    BY <1>0, <1>1, <1>5, <2>2, <2>4 DEF Release, TypeOK, CommunityTyped
<1>6. ASSUME NEW k \in DOMAIN timeline, Delete(k) PROVE Typed'
  <2>1. timeline' = RemoveAt(timeline, k) /\ HideIf(Walking, {}) /\ deletes < MaxDeletes
        /\ deletes' = deletes + 1
    BY <1>6 DEF Delete
  <2>2. timeline' \in Seq(Ids)
    BY <1>0, <2>1, TakenOut DEF TypeOK
  <2>3. hidden' \subseteq Ids
    <3>1. Walking \in BOOLEAN
      BY DEF Walking
    <3> QED
      BY <1>2, <2>1, <3>1, <1>0, HidingType
  <2>4. deletes' \in 0 .. MaxDeletes
    BY <1>0, <2>1, Bounds DEF TypeOK
  <2> QED
    BY <1>0, <1>1, <1>6, <2>2, <2>3, <2>4 DEF Delete, TypeOK, CommunityTyped
<1> QED
  BY <1>3, <1>4, <1>5, <1>6 DEF Community

LEMMA WatcherType == ASSUME Typed, Watcher \/ CheckFails PROVE Typed'
<1>0. TypeOK /\ PageIsTagged
  BY DEF Typed
<1>1. CASE StartCheck
  BY <1>0, <1>1 DEF StartCheck, Typed, PageIsTagged, TypeOK, circle, row, history, moves
<1>2. ASSUME Forget, UNCHANGED <<circle, row, history, hidden>>, faults' \in 0 .. MaxFaults
      PROVE  Typed'
  <2>1. NoPage \in Seq(0 .. MaxId) /\ 1 \in 1 .. MaxPages
    BY TagIs, Bounds
  <2> QED
    BY <1>0, <1>2, <2>1 DEF Forget, Typed, PageIsTagged, TypeOK, circle, row, history
<1>3. CASE FetchNotModified
  BY <1>0, <1>2, <1>3 DEF FetchNotModified, TypeOK
<1>4. CASE CheckFails
  <2>1. faults' \in 0 .. MaxFaults
    BY <1>0, <1>4, Bounds DEF CheckFails, TypeOK
  <2> QED
    BY <1>2, <1>4, <2>1 DEF CheckFails
<1>5. CASE TriageOne
  <2>1. fresh \ triaged \subseteq Nat /\ fresh \ triaged # {}
    BY <1>0, <1>5, Bounds DEF TriageOne, TypeOK
  <2>2. Min(fresh \ triaged) \in fresh
    BY <2>1, MinIsLeast
  <2> QED
    BY <1>0, <1>5, <2>2 DEF TriageOne, Typed, PageIsTagged, TypeOK, circle, row, check, moves
<1>6. CASE FinishOk
  <2>1. PICK s : MoveMarks(s) /\ s = IF Seeding THEN newEtag ELSE Ascending(fresh)
    BY <1>6 DEF FinishOk
  <2>2. newEtag \in Seq(Ids) /\ Ascending(fresh) \in Seq(Ids)
    <3>1. fresh \subseteq Ids
      BY <1>0 DEF TypeOK
    <3> QED
      BY <1>0, <1>6, <3>1, AscendingIs DEF FinishOk, PageIsTagged
  <2>3. s \in Seq(Ids)
    BY <2>1, <2>2
  <2>4. watermark' \in 0 .. MaxId /\ recent' \in Seq(Ids) /\ Len(recent') <= RecentKept
    BY <1>0, <2>1, <2>3, MarksMoved DEF TypeOK
  <2>5. NoPage \in Seq(0 .. MaxId) /\ 1 \in 1 .. MaxPages
    BY TagIs, Bounds
  <2> QED
    BY <1>0, <1>6, <2>4, <2>5 DEF FinishOk, Forget, Typed, PageIsTagged, TypeOK, circle
<1>7. CASE FetchPage
  <2> DEFINE recs == PageOf(Feed, page)
  <2>1. timeline \in Seq(Ids) /\ page \in Nat \ {0}
    BY <1>0, Bounds DEF TypeOK
  <2>2. recs \in Seq(Ids) /\ Range(recs) \subseteq Ids
    BY <2>1, PageIs
  <2>3. InFeed \subseteq Ids /\ Feed \in Seq(Ids)
    BY <2>1, FeedIs
  <2>4. News(recs) \subseteq Range(recs)
    BY DEF News
  <2> HIDE DEF recs
  <2>5. fresh' \subseteq seenNow' /\ seenNow' \subseteq Ids
    BY <1>0, <1>7, <2>2, <2>4 DEF FetchPage, recs, TypeOK
  <2>6. newEtag' \in Seq(0 .. MaxId)
    BY <1>0, <1>7, <2>2, TagIs DEF FetchPage, recs, TypeOK
  <2>7. phase' \in {"idle", "fetching", "triaging"} /\ page' \in 1 .. MaxPages
    <3>1. page \in 1 .. MaxPages /\ (page = MaxPages \/ page + 1 \in 1 .. MaxPages)
      BY <1>0, Bounds DEF TypeOK
    <3> QED
      BY <1>0, <1>7, <3>1 DEF FetchPage, recs, TypeOK
  <2>8. beyond' \subseteq Ids
    BY <1>7, <2>3 DEF FetchPage, recs
  <2>9. hidden' \subseteq Ids
    <3>1. Below(page) \subseteq Ids
      <4>1. \A k \in page * PerPage + 1 .. Len(Feed) : k \in DOMAIN Feed
        <5>1. page * PerPage \in Nat
          BY <2>1, Paging
        <5> QED
          BY <2>3, <5>1
      <4> QED
        BY <2>3, <4>1 DEF Below
    <3>2. Swallowed(recs) \subseteq Ids
      BY <3>1 DEF Swallowed
    <3> QED
      BY <1>0, <1>7, <3>2 DEF FetchPage, recs, TypeOK
  <2>10. old' \subseteq Ids
    BY <1>0, <1>7, <2>3 DEF FetchPage, TypeOK
  <2>11. TypeOK'
    BY <1>0, <1>7, <2>5, <2>6, <2>7, <2>8, <2>9, <2>10 DEF FetchPage, TypeOK, circle, row
  <2>12. newEtag' \in Seq(Ids)
    <3>1. page = 1 \/ 1 < page
      BY <2>1
    <3> QED
      BY <1>0, <1>7, <2>2, <3>1 DEF FetchPage, recs, PageIsTagged
  <2> QED
    BY <2>11, <2>12 DEF Typed, PageIsTagged
<1> QED
  BY <1>1, <1>3, <1>4, <1>5, <1>6, <1>7 DEF Watcher

LEMMA FeedTypeKeeps == Typed /\ [Next]_vars => Typed'
<1>1. ASSUME Typed, UNCHANGED vars PROVE Typed'
  BY <1>1 DEF Typed, PageIsTagged, TypeOK, vars
<1> QED
  BY <1>1, CommunityType, WatcherType DEF Next

\* The row, the feed and the check in progress have their types, and the list of
\* recent ids stays within its limit (_finish).
THEOREM FeedTypeCorrect == Spec => []TypeOK
<1>1. Typed => TypeOK
  BY DEF Typed
<1> QED
  BY <1>1, FeedTypeStart, FeedTypeKeeps, PTL DEF Spec

-----------------------------------------------------------------------------
(* What is at or below the watermark is accounted for.                     *)

FeedInv ==
    /\ Typed /\ IdsInv /\ OrderInv /\ RowInv /\ CheckInv /\ WalkInv /\ PushInv
    /\ FoundInv /\ WatermarkCovers

LEMMA IdsCount == \A x \in Ids : x \in Nat /\ 0 < x /\ x \in 0 .. MaxId
<1>1. MaxId \in Nat
  BY TuningAssumption
<1> QED
  BY <1>1 DEF Ids

LEMMA TypesGive ==
    ASSUME Typed
    PROVE  /\ timeline \in Seq(Ids) /\ nextId \in Nat /\ watermark \in Nat /\ moved \in Nat
           /\ page \in Nat \ {0} /\ fresh \subseteq seenNow /\ seenNow \subseteq Ids
           /\ fresh \subseteq Ids /\ deletes \in 0 .. MaxDeletes /\ polled \in BOOLEAN
           /\ phase \in {"idle", "fetching", "triaging"} /\ drafts \subseteq Ids
           /\ Range(timeline) \subseteq Ids /\ DOMAIN timeline \subseteq Nat \ {0}
           /\ recent \in Seq(Ids) /\ Len(timeline) \in Nat /\ watermark \in 0 .. MaxId
<1>1. TypeOK /\ timeline \in Seq(Ids)
  BY DEF Typed, TypeOK
<1>2. Range(timeline) \subseteq Ids /\ DOMAIN timeline \subseteq Nat \ {0} /\ Len(timeline) \in Nat
  BY <1>1 DEF Range
<1>3. MaxId \in Nat /\ MaxPages \in Nat
  BY Bounds
<1> QED
  BY <1>1, <1>2, <1>3 DEF TypeOK

\* A post that is put on top of the feed, newer than every other unless it is hidden.
LEMMA OnTopKeeps ==
    ASSUME FeedInv, Typed', NEW i \in Ids, FirstId <= i, i \notin Range(timeline) \cup seenNow,
           PutOnTop(i), nextId <= nextId', i < nextId', i \notin drafts', drafts' \subseteq drafts,
           drafts' \subseteq FirstId .. (nextId' - 1), hidden \subseteq hidden',
           i \notin hidden' => \A x \in Range(timeline) \cup seenNow \cup {watermark} : x < i,
           moved' >= PerPage => Unread \subseteq hidden',
           UNCHANGED <<deletes, row, check, history>>
    PROVE  FeedInv'
<1>1. Typed /\ TypeOK /\ IdsInv /\ OrderInv /\ RowInv /\ CheckInv /\ WalkInv /\ PushInv
      /\ FoundInv /\ WatermarkCovers
  BY DEF FeedInv, Typed
<1>2. /\ timeline' \in Seq(Ids) /\ moved' \in Nat /\ Len(timeline') = Len(timeline) + 1
      /\ timeline'[1] = i /\ DOMAIN timeline \subseteq Nat /\ DOMAIN timeline' \subseteq Nat \ {0}
      /\ \A k \in DOMAIN timeline : k + 1 \in DOMAIN timeline' /\ timeline'[k + 1] = timeline[k]
      /\ \A k \in DOMAIN timeline' :
           k # 1 => k - 1 \in DOMAIN timeline /\ timeline'[k] = timeline[k - 1]
      /\ Range(timeline') = Range(timeline) \cup {i}
  BY <1>1, PuttingOnTop
<1>3. /\ timeline \in Seq(Ids) /\ nextId \in Nat /\ watermark \in Nat /\ moved \in Nat
      /\ page \in Nat \ {0} /\ fresh \subseteq seenNow /\ seenNow \subseteq Ids
      /\ deletes \in 0 .. MaxDeletes /\ Len(timeline) \in Nat /\ i \in Nat /\ nextId' \in Nat
      /\ polled \in BOOLEAN /\ Range(timeline) \subseteq Ids
  <2>1. i \in Nat /\ nextId' \in Nat
    BY Bounds DEF Typed, TypeOK
  <2> QED
    BY <1>1, <2>1, TypesGive
<1>4. /\ UNCHANGED <<deletes, watermark, recent, etag, phase, page, fresh, seenNow, newEtag,
                     beyond, triaged, polled, old, left>>
      /\ FirstId' = FirstId /\ Pins' = Pins /\ Pinned' = Pinned
  BY DEF row, check, history, FirstId, Pins, Pinned
<1>5. InFeed = Pinned \cup Range(timeline) /\ InFeed' = Pinned \cup Range(timeline) \cup {i}
  <2>1. InFeed = Pinned \cup Range(timeline)
    BY <1>3, FeedIs
  <2>2. InFeed' = Pinned \cup Range(timeline')
    BY <1>2, FeedHolds DEF InFeed, Feed
  <2> QED
    BY <1>2, <1>4, <2>1, <2>2
<1>6. IdsInv'
  <2>1. \A x \in Range(timeline) \cup seenNow \cup {watermark} : x \in Nat
    BY <1>3, Bounds
  <2>2. FirstId \in Nat
    BY FirstIdIs
  <2>3. \A x \in Range(timeline) \cup seenNow \cup {watermark} : x < nextId' /\ x \notin drafts'
    BY <1>1, <1>3, <2>1 DEF IdsInv
  <2>4. \A x \in Range(timeline') \cup seenNow' \cup {watermark'} : x < nextId' /\ x \notin drafts'
    BY <1>2, <1>4, <2>3
  <2>5. FirstId' <= nextId' /\ drafts' \subseteq FirstId' .. (nextId' - 1)
    <3>1. FirstId <= nextId
      BY <1>1 DEF IdsInv
    <3>2. FirstId <= nextId'
      BY <1>3, <2>2, <3>1
    <3> QED
      BY <1>4, <3>2
  <2> QED
    BY <2>4, <2>5 DEF IdsInv
<1>7. Young(i) /\ \A x : Young(x)' <=> Young(x)
  BY <1>4 DEF Young
<1>8. OrderInv'
  <2>1. ASSUME NEW a \in DOMAIN timeline', NEW b \in DOMAIN timeline', a < b
        PROVE  /\ Young(timeline'[b]) => Young(timeline'[a]) /\ timeline'[a] # timeline'[b]
               /\ Young(timeline'[a]) /\ timeline'[a] \notin hidden' => timeline'[b] < timeline'[a]
    <3>1. b # 1 /\ b - 1 \in DOMAIN timeline /\ timeline'[b] = timeline[b - 1]
          /\ timeline[b - 1] \in Range(timeline)
      BY <1>2, <2>1 DEF Range
    <3>2. CASE a = 1
      BY <1>2, <1>7, <3>1, <3>2
    <3>3. CASE a # 1
      <4>1. a - 1 \in DOMAIN timeline /\ timeline'[a] = timeline[a - 1] /\ a - 1 < b - 1
        BY <1>2, <2>1, <3>3
      <4> QED
        BY <1>1, <3>1, <4>1 DEF OrderInv
    <3> QED
      BY <3>2, <3>3
  <2> QED
    BY <1>4, <1>7, <2>1 DEF OrderInv
<1>9. ASSUME NEW S, ArchiveIn(S) PROVE ArchiveIn(S)'
  BY <1>5, <1>7, <1>9 DEF ArchiveIn
<1>10. RowInv'
  <2>1. ArchiveIn(old) => ArchiveIn(old)'
    BY <1>4, <1>5, <1>7 DEF ArchiveIn
  <2>2. Len(OldFeed) <= Len(timeline') + deletes
    <3>1. OldFeed \in Seq(Ids) /\ deletes \in Nat
      BY <1>3, FeedAssumption, Bounds
    <3>2. Len(OldFeed) \in Nat
      BY <3>1
    <3> QED
      BY <1>1, <1>2, <1>3, <3>1, <3>2 DEF RowInv
  <2> QED
    BY <1>1, <1>4, <2>1, <2>2 DEF RowInv
<1>11. CheckInv'
  <2>1. phase = "idle" \/ (phase = "fetching" /\ page = 1) => moved' = moved
    BY <1>3 DEF PutOnTop, Walking
  <2>2. SeedInv => SeedInv'
    BY <1>4, <1>5, <1>7 DEF SeedInv, ArchiveIn
  <2> QED
    BY <1>1, <1>4, <2>1, <2>2 DEF CheckInv
<1>12. ASSUME NEW k \in DOMAIN timeline', Missing(k)'
       PROVE  \/ k = 1
              \/ k - 1 \in DOMAIN timeline /\ Missing(k - 1) /\ ~ (moved' >= PerPage)
  <2>1. SUFFICES ASSUME k # 1
                 PROVE  k - 1 \in DOMAIN timeline /\ Missing(k - 1) /\ ~ (moved' >= PerPage)
    OBVIOUS
  <2>2. k - 1 \in DOMAIN timeline /\ timeline'[k] = timeline[k - 1]
    BY <1>2, <2>1
  <2>3. timeline[k - 1] \notin seenNow \cup Accounted \cup hidden' /\ Young(timeline[k - 1])
    BY <1>4, <1>7, <1>12, <2>2 DEF Missing, Excused, Accounted
  <2>4. Missing(k - 1)
    BY <2>3 DEF Missing, Excused
  <2>5. timeline[k - 1] \in Unread
    BY <2>2, <2>3 DEF Unread, Range
  <2> QED
    BY <2>2, <2>3, <2>4, <2>5
<1>13. ASSUME NEW a \in DOMAIN timeline', Met(a)'
       PROVE  a # 1 /\ a - 1 \in DOMAIN timeline /\ Met(a - 1)
  <2>1. timeline'[a] \in seenNow /\ Young(timeline'[a])
    BY <1>4, <1>7, <1>13 DEF Met
  <2>2. a # 1
    BY <1>2, <2>1
  <2> QED
    BY <1>2, <2>1, <2>2 DEF Met
<1>14. (MetYoung' <=> MetYoung) /\ Ahead(page)' = Ahead(page)
  BY <1>4, <1>7 DEF MetYoung, Ahead
<1>15. Ahead(page) \in Nat /\ Pins \in Nat /\ PerPage \in Nat /\ 0 < PerPage
  BY <1>3, Paging, FeedIs
<1>16. WalkInv'
  <2>1. SUFFICES ASSUME phase = "fetching", polled
                 PROVE  /\ \A k \in DOMAIN timeline' : Missing(k)' => ComesOrNewer(k)'
                        /\ MetYoung' => Pins' < Ahead(page)'
    BY <1>4 DEF WalkInv
  <2>2. ASSUME NEW k \in DOMAIN timeline', Missing(k)'
        PROVE  Ahead(page) < Pins + k \/ \A f \in fresh : f < timeline'[k]
    <3>1. CASE k = 1
      <4>1. i \notin hidden'
        BY <1>2, <2>2, <3>1 DEF Missing, Excused
      <4> QED
        BY <1>2, <1>3, <3>1, <4>1
    <3>2. CASE k # 1
      <4>1. k - 1 \in DOMAIN timeline /\ Missing(k - 1)
        BY <1>12, <2>2, <3>2
      <4>2. ComesOrNewer(k - 1)
        BY <1>1, <2>1, <4>1 DEF WalkInv
      <4>3. timeline'[k] = timeline[k - 1] /\ k \in Nat
        BY <1>2, <3>2
      <4>4. CASE Ahead(page) < Pins + (k - 1)
        BY <1>15, <4>3, <4>4
      <4> QED
        BY <4>2, <4>3, <4>4 DEF ComesOrNewer
    <3> QED
      BY <3>1, <3>2
  <2> QED
    BY <1>1, <1>4, <1>14, <2>1, <2>2 DEF WalkInv, ComesOrNewer
<1>17. PushInv'
  <2>1. SUFFICES ASSUME phase = "fetching", polled PROVE Tight' \/ Loose'
    BY <1>4 DEF PushInv
  <2>2. MetYoung => Pins < Ahead(page)
    BY <1>1, <2>1 DEF WalkInv
  <2>3. page = 1 => ~ MetYoung
    BY <1>1, <2>1 DEF CheckInv, MetYoung
  <2>4. MetYoung => moved' = moved + 1
    BY <1>3, <2>1, <2>3 DEF PutOnTop, Walking
  <2>5. CASE ~ MetYoung
    <3>1. \A a \in DOMAIN timeline' : ~ Met(a)'
      BY <1>13, <2>5 DEF Met, MetYoung
    <3> QED
      BY <1>14, <2>5, <3>1 DEF Tight
  <2>6. CASE MetYoung /\ moved' >= PerPage
    <3>1. ASSUME NEW b \in DOMAIN timeline', Missing(b)' PROVE OnTopOnly(b)'
      <4>1. b = 1
        BY <1>12, <2>6, <3>1
      <4>2. \A a \in DOMAIN timeline' : Met(a)' => b < a
        BY <1>2, <1>13, <4>1
      <4>3. Pins + b <= Ahead(page) + moved' /\ Pins + b <= Ahead(page) + PerPage
        BY <1>2, <1>15, <2>2, <2>6, <4>1
      <4> QED
        BY <1>4, <1>14, <4>2, <4>3 DEF OnTopOnly
    <3> QED
      BY <1>14, <2>6, <3>1 DEF Loose
  <2>7. CASE MetYoung /\ ~ (moved' >= PerPage) /\ Tight
    <3>1. ASSUME NEW a \in DOMAIN timeline', Met(a)' PROVE Pins + a <= Ahead(page) + moved'
      <4>1. a - 1 \in DOMAIN timeline /\ Met(a - 1)
        BY <1>13, <3>1
      <4>2. Pins + (a - 1) <= Ahead(page) + moved
        BY <2>7, <4>1 DEF Tight
      <4> QED
        BY <1>2, <1>3, <1>15, <2>4, <2>7, <4>2
    <3>2. moved' < PerPage
      BY <1>2, <1>15, <2>7
    <3> QED
      BY <1>4, <1>14, <3>1, <3>2 DEF Tight
  <2>8. CASE MetYoung /\ ~ (moved' >= PerPage) /\ Loose
    <3>1. moved' < PerPage
      BY <1>2, <1>15, <2>8
    <3>2. ASSUME NEW b \in DOMAIN timeline', Missing(b)' PROVE OnTopOnly(b)'
      <4>1. CASE b = 1
        <5>1. \A a \in DOMAIN timeline' : Met(a)' => b < a
          BY <1>2, <1>13, <4>1
        <5>2. Pins + b <= Ahead(page) + moved' /\ Pins + b <= Ahead(page) + PerPage
          BY <1>2, <1>15, <2>2, <2>8, <4>1
        <5> QED
          BY <1>4, <1>14, <5>1, <5>2 DEF OnTopOnly
      <4>2. CASE b # 1
        <5>1. b - 1 \in DOMAIN timeline /\ Missing(b - 1)
          BY <1>12, <3>2, <4>2
        <5>2. OnTopOnly(b - 1)
          BY <2>8, <5>1 DEF Loose
        <5>3. ASSUME NEW a \in DOMAIN timeline', Met(a)' PROVE b < a
          <6>1. a - 1 \in DOMAIN timeline /\ Met(a - 1)
            BY <1>13, <5>3
          <6>2. b - 1 < a - 1
            BY <5>2, <6>1 DEF OnTopOnly
          <6> QED
            BY <1>2, <6>2
        <5>4. Pins + (b - 1) <= Ahead(page) + moved
          BY <5>2 DEF OnTopOnly
        <5>5. Pins + b <= Ahead(page) + moved' /\ Pins + b <= Ahead(page) + PerPage
          BY SMTT(30), <1>2, <1>3, <1>15, <2>4, <2>8, <3>1, <5>4
        <5> QED
          BY <1>4, <1>14, <5>3, <5>5 DEF OnTopOnly
      <4> QED
        BY <4>1, <4>2
    <3> QED
      BY <1>14, <2>8, <3>2 DEF Loose
  <2> QED
    BY <1>1, <2>1, <2>5, <2>6, <2>7, <2>8 DEF PushInv
<1>18. FoundInv'
  <2>1. SUFFICES ASSUME phase = "triaging", polled, NEW x \in InFeed'
                 PROVE  x \in Accounted \cup hidden' \cup fresh \cup beyond \/ \A f \in fresh : f < x
    BY <1>4 DEF FoundInv, Excused, Accounted
  <2>2. CASE x = i
    BY <1>3, <2>2
  <2>3. CASE x # i
    <3>1. x \in InFeed
      BY <1>5, <2>1, <2>3
    <3> QED
      BY <1>1, <2>1, <3>1 DEF FoundInv, Excused
  <2> QED
    BY <2>2, <2>3
<1>19. WatermarkCovers'
  <2>1. SUFFICES ASSUME polled, NEW x \in InFeed', x <= watermark
                 PROVE  x \in Accounted \cup hidden'
    BY <1>4 DEF WatermarkCovers, Accounted
  <2>2. CASE x = i
    BY <1>3, <2>1, <2>2
  <2>3. CASE x # i
    <3>1. x \in InFeed
      BY <1>5, <2>1, <2>3
    <3> QED
      BY <1>1, <2>1, <3>1 DEF WatermarkCovers
  <2> QED
    BY <2>2, <2>3
<1> QED
  BY <1>6, <1>8, <1>10, <1>11, <1>16, <1>17, <1>18, <1>19 DEF FeedInv

LEMMA PublishKeeps == ASSUME FeedInv, Publish, Typed' PROVE FeedInv'
<1>1. Typed /\ TypeOK /\ IdsInv
  BY DEF FeedInv, Typed
<1>2. /\ nextId \in Ids /\ nextId' = nextId + 1 /\ PutOnTop(nextId)
      /\ HideIf(moved' >= PerPage, {}) /\ drafts' = drafts
      /\ UNCHANGED <<deletes, row, check, history>>
  BY DEF Publish
<1>3. hidden \subseteq hidden' /\ (moved' >= PerPage => Unread \subseteq hidden')
  <2>1. (moved' >= PerPage) \in BOOLEAN /\ {} \subseteq Ids
    OBVIOUS
  <2> QED
    BY <1>1, <1>2, <2>1, HidingType
<1>4. nextId \in Nat /\ FirstId \in Nat
  BY <1>1, TypesGive, FirstIdIs
<1>5. FirstId <= nextId /\ nextId <= nextId' /\ nextId < nextId'
  BY <1>1, <1>2, <1>4 DEF IdsInv
<1>6. \A x \in Range(timeline) \cup seenNow \cup {watermark} : x < nextId
  BY <1>1 DEF IdsInv
<1>7. nextId \notin Range(timeline) \cup seenNow
  BY <1>4, <1>6
<1>8. drafts' \subseteq FirstId .. (nextId' - 1) /\ nextId \notin drafts'
  BY <1>1, <1>2, <1>4 DEF IdsInv
<1> QED
  BY <1>2, <1>3, <1>5, <1>6, <1>7, <1>8, OnTopKeeps

LEMMA ReleaseKeeps == ASSUME FeedInv, NEW d \in drafts, Release(d), Typed' PROVE FeedInv'
<1>1. Typed /\ TypeOK /\ IdsInv
  BY DEF FeedInv, Typed
<1> DEFINE m == IF d + 1 < nextId THEN {d} ELSE {}
<1>2. /\ nextId' = nextId /\ PutOnTop(d) /\ HideIf(moved' >= PerPage, m)
      /\ drafts' = drafts \ {d} /\ UNCHANGED <<deletes, row, check, history>>
  BY DEF Release
<1>3. d \in Ids /\ d \in Nat /\ nextId \in Nat /\ FirstId \in Nat /\ watermark \in Nat
  <2>1. d \in Ids
    BY <1>1 DEF TypeOK
  <2> QED
    BY <1>1, <2>1, Bounds, TypesGive, FirstIdIs
<1>4. m \subseteq Ids /\ (moved' >= PerPage) \in BOOLEAN
  BY <1>3
<1>5. FirstId <= d /\ d < nextId
  BY <1>1, <1>3 DEF IdsInv
<1>6. d + 1 < nextId \/ d + 1 = nextId
  BY <1>3, <1>5
<1> HIDE DEF m
<1>7. hidden \subseteq hidden' /\ m \subseteq hidden' /\ (moved' >= PerPage => Unread \subseteq hidden')
  BY <1>1, <1>2, <1>4, HidingType
<1>8. \A x \in Range(timeline) \cup seenNow \cup {watermark} : x < nextId /\ x # d /\ x \in Nat
  <2>1. Range(timeline) \cup seenNow \subseteq Ids /\ Ids \subseteq Nat
    BY <1>1, TypesGive, Bounds
  <2> QED
    BY <1>1, <1>3, <2>1 DEF IdsInv
<1>9. d \notin hidden' => \A x \in Range(timeline) \cup seenNow \cup {watermark} : x < d
  BY <1>3, <1>6, <1>7, <1>8 DEF m
<1>10. drafts' \subseteq FirstId .. (nextId' - 1) /\ d \notin drafts' /\ drafts' \subseteq drafts
  BY <1>1, <1>2 DEF IdsInv
<1>11. d \notin Range(timeline) \cup seenNow
  BY <1>8
<1>12. nextId <= nextId' /\ d < nextId'
  BY <1>2, <1>3, <1>5
<1> QED
  BY <1>2, <1>3, <1>5, <1>7, <1>9, <1>10, <1>11, <1>12, OnTopKeeps

\* The row, the check and the feed stand as they are.
LEMMA NothingMovesHere ==
    ASSUME FeedInv, UNCHANGED <<timeline, deletes, row, check, history, moves>>, IdsInv', Typed'
    PROVE  FeedInv'
<1>1. /\ UNCHANGED <<timeline, deletes, watermark, recent, etag, phase, page, fresh, seenNow,
                     newEtag, beyond, triaged, polled, old, left, hidden, moved>>
      /\ FirstId' = FirstId /\ Pins' = Pins /\ Pinned' = Pinned /\ InFeed' = InFeed
  BY DEF row, check, history, moves, FirstId, Pins, Pinned, InFeed, Feed
<1>2. Accounted' = Accounted /\ Excused' = Excused /\ (MetYoung' <=> MetYoung)
      /\ Ahead(page)' = Ahead(page)
  BY <1>1 DEF Accounted, Excused, MetYoung, Young, Ahead
<1>3. OrderInv' /\ RowInv' /\ CheckInv'
  BY <1>1 DEF FeedInv, OrderInv, RowInv, CheckInv, SeedInv, ArchiveIn, Young
<1>4. WalkInv' /\ PushInv'
  BY <1>1, <1>2 DEF FeedInv, WalkInv, PushInv, Tight, Loose, OnTopOnly, ComesOrNewer, Missing, Met,
     Young
<1>5. FoundInv' /\ WatermarkCovers'
  BY <1>1, <1>2 DEF FeedInv, FoundInv, WatermarkCovers
<1> QED
  BY <1>3, <1>4, <1>5 DEF FeedInv

LEMMA DraftKeeps == ASSUME FeedInv, Draft, Typed' PROVE FeedInv'
<1>1. Typed /\ TypeOK /\ IdsInv
  BY DEF FeedInv, Typed
<1>2. /\ nextId' = nextId + 1 /\ drafts' = drafts \cup {nextId}
      /\ UNCHANGED <<timeline, deletes, row, check, history, moves>>
  BY DEF Draft
<1>3. nextId \in Nat /\ FirstId \in Nat /\ FirstId' = FirstId
  BY <1>1, TypesGive, FirstIdIs DEF FirstId, Pinned
<1>4. UNCHANGED <<timeline, seenNow, watermark>>
  BY <1>2 DEF row, check
<1>5. \A x \in Range(timeline) \cup seenNow \cup {watermark} : x < nextId + 1 /\ x # nextId
  <2>1. Range(timeline) \cup seenNow \subseteq Ids /\ Ids \subseteq Nat /\ watermark \in Nat
    BY <1>1, TypesGive, Bounds
  <2>2. \A x \in Range(timeline) \cup seenNow \cup {watermark} : x \in Nat /\ x < nextId
    BY <1>1, <2>1 DEF IdsInv
  <2>3. \A x \in Nat : x < nextId => x < nextId + 1 /\ x # nextId
    BY <1>3
  <2> QED
    BY <2>2, <2>3
<1>6. FirstId <= nextId + 1 /\ drafts \cup {nextId} \subseteq FirstId .. ((nextId + 1) - 1)
  BY <1>1, <1>3 DEF IdsInv
<1>7. IdsInv'
  BY <1>1, <1>2, <1>3, <1>4, <1>5, <1>6 DEF IdsInv
<1> QED
  BY <1>2, <1>7, NothingMovesHere

LEMMA DeleteKeeps == ASSUME FeedInv, NEW k \in DOMAIN timeline, Delete(k), Typed' PROVE FeedInv'
<1>1. Typed /\ TypeOK /\ IdsInv /\ OrderInv /\ RowInv /\ CheckInv /\ WalkInv /\ PushInv
      /\ FoundInv /\ WatermarkCovers
  BY DEF FeedInv, Typed
<1>2. /\ timeline' = RemoveAt(timeline, k) /\ deletes' = deletes + 1 /\ HideIf(Walking, {})
      /\ UNCHANGED <<nextId, drafts, drafted, moved, row, check, history>>
  BY DEF Delete
<1>3. /\ timeline \in Seq(Ids) /\ nextId \in Nat /\ watermark \in Nat /\ moved \in Nat
      /\ page \in Nat \ {0} /\ fresh \subseteq seenNow /\ seenNow \subseteq Ids
      /\ deletes \in 0 .. MaxDeletes /\ Len(timeline) \in Nat /\ Range(timeline) \subseteq Ids
      /\ phase \in {"idle", "fetching", "triaging"}
  BY <1>1, TypesGive
<1>4. /\ timeline' \in Seq(Ids) /\ Len(timeline') = Len(timeline) - 1
      /\ DOMAIN timeline' \subseteq Nat \ {0}
      /\ \A i \in DOMAIN timeline' :
           PlaceBefore(k, i) \in DOMAIN timeline /\ timeline'[i] = timeline[PlaceBefore(k, i)]
      /\ \A i, j \in DOMAIN timeline' : i < j => PlaceBefore(k, i) < PlaceBefore(k, j)
  BY <1>2, <1>3, TakenOut
<1>5. /\ UNCHANGED <<watermark, recent, etag, phase, page, fresh, seenNow, newEtag,
                     beyond, triaged, polled, old, left, moved, drafts, nextId>>
      /\ FirstId' = FirstId /\ Pins' = Pins /\ Pinned' = Pinned
  BY <1>2 DEF row, check, history, FirstId, Pins, Pinned
<1>6. Range(timeline') \subseteq Range(timeline)
  BY <1>4 DEF Range
<1>7. InFeed' \subseteq InFeed
  <2>1. InFeed = Pinned \cup Range(timeline)
    BY <1>3, FeedIs
  <2>2. InFeed' = Pinned \cup Range(timeline')
    BY <1>4, FeedHolds DEF InFeed, Feed
  <2> QED
    BY <1>6, <2>1, <2>2
<1>8. hidden \subseteq hidden' /\ (Walking => Unread \subseteq hidden')
  <2>1. Walking \in BOOLEAN /\ {} \subseteq Ids
    BY DEF Walking
  <2> QED
    BY <1>1, <1>2, <2>1, HidingType
<1>9. \A x : Young(x)' <=> Young(x)
  BY <1>5 DEF Young
<1>10. IdsInv'
  BY <1>1, <1>5, <1>6 DEF IdsInv
<1>11. OrderInv'
  <2>1. ASSUME NEW a \in DOMAIN timeline', NEW b \in DOMAIN timeline', a < b
        PROVE  /\ Young(timeline'[b]) => Young(timeline'[a]) /\ timeline'[a] # timeline'[b]
               /\ Young(timeline'[a]) /\ timeline'[a] \notin hidden' => timeline'[b] < timeline'[a]
    <3>1. /\ PlaceBefore(k, a) \in DOMAIN timeline /\ PlaceBefore(k, b) \in DOMAIN timeline
          /\ PlaceBefore(k, a) < PlaceBefore(k, b)
          /\ timeline'[a] = timeline[PlaceBefore(k, a)] /\ timeline'[b] = timeline[PlaceBefore(k, b)]
      BY <1>4, <2>1
    <3> QED
      BY <1>1, <1>8, <3>1 DEF OrderInv
  <2> QED
    BY <1>9, <2>1 DEF OrderInv
<1>12. RowInv'
  <2>1. ArchiveIn(old) => ArchiveIn(old)'
    BY <1>5, <1>7, <1>9 DEF ArchiveIn
  <2>2. Len(OldFeed) <= Len(timeline') + deletes'
    <3>1. OldFeed \in Seq(Ids) /\ deletes \in Nat
      BY <1>3, FeedAssumption, Bounds
    <3>2. Len(OldFeed) \in Nat
      BY <3>1
    <3>3. Len(OldFeed) <= Len(timeline) + deletes
      BY <1>1 DEF RowInv
    <3> QED
      BY <1>2, <1>3, <1>4, <3>1, <3>2, <3>3
  <2> QED
    BY <1>1, <1>5, <2>1, <2>2 DEF RowInv
<1>13. CheckInv'
  <2>1. SeedInv => SeedInv'
    BY <1>5, <1>7, <1>8, <1>9 DEF SeedInv, ArchiveIn
  <2> QED
    BY <1>1, <1>5, <2>1 DEF CheckInv
<1>14. (MetYoung' <=> MetYoung) /\ Ahead(page)' = Ahead(page)
  BY <1>5, <1>9 DEF MetYoung, Ahead
<1>15. ASSUME Walking, NEW b \in DOMAIN timeline', Missing(b)' PROVE FALSE
  <2>1. timeline'[b] \in Range(timeline) /\ timeline'[b] \notin seenNow \cup hidden'
    BY <1>5, <1>6, <1>15 DEF Missing, Excused, Range
  <2> QED
    BY <1>8, <1>15, <2>1 DEF Unread
<1>16. ASSUME ~ Walking, phase = "fetching" PROVE seenNow = {} /\ Ahead(page) = 0 /\ ~ MetYoung
  <2>1. page = 1
    BY <1>3, <1>16 DEF Walking
  <2>2. seenNow = {}
    BY <1>1, <1>16, <2>1 DEF CheckInv
  <2> QED
    BY <2>1, <2>2, Paging DEF MetYoung
<1>17. Pins \in Nat
  BY <1>3, FeedIs
<1>18. WalkInv'
  <2>1. SUFFICES ASSUME phase = "fetching", polled
                 PROVE  /\ \A b \in DOMAIN timeline' : Missing(b)' => ComesOrNewer(b)'
                        /\ MetYoung' => Pins' < Ahead(page)'
    BY <1>5 DEF WalkInv
  <2>2. ASSUME NEW b \in DOMAIN timeline', Missing(b)', ~ Walking PROVE Ahead(page) < Pins + b
    BY <1>4, <1>16, <1>17, <2>1, <2>2
  <2> QED
    BY <1>1, <1>5, <1>14, <1>15, <2>1, <2>2 DEF WalkInv, ComesOrNewer
<1>19. PushInv'
  <2>1. SUFFICES ASSUME phase = "fetching", polled PROVE Tight' \/ Loose'
    BY <1>5 DEF PushInv
  <2>2. CASE ~ MetYoung
    <3>1. \A a \in DOMAIN timeline' : ~ Met(a)'
      BY <1>5, <1>9, <2>2 DEF Met, MetYoung
    <3> QED
      BY <1>14, <2>2, <3>1 DEF Tight
  <2>3. CASE MetYoung
    <3>1. Walking
      BY <1>16, <2>1, <2>3
    <3> QED
      BY <1>14, <1>15, <2>3, <3>1 DEF Loose
  <2> QED
    BY <2>2, <2>3
<1>20. FoundInv' /\ WatermarkCovers'
  BY <1>1, <1>5, <1>7, <1>8 DEF FoundInv, WatermarkCovers, Excused, Accounted
<1> QED
  BY <1>10, <1>11, <1>12, <1>13, <1>18, <1>19, <1>20 DEF FeedInv

\* A check begins at the first page, with nothing met.
LEMMA StartKeeps == ASSUME FeedInv, StartCheck, Typed' PROVE FeedInv'
<1>1. Typed /\ IdsInv /\ OrderInv /\ RowInv /\ CheckInv /\ WatermarkCovers
  BY DEF FeedInv
<1>2. /\ UNCHANGED <<timeline, nextId, drafts, deletes, watermark, recent, etag, page, fresh,
                     seenNow, newEtag, beyond, triaged, polled, old, left, hidden, moved>>
      /\ phase = "idle" /\ phase' = "fetching"
      /\ FirstId' = FirstId /\ Pins' = Pins /\ Pinned' = Pinned /\ InFeed' = InFeed
  BY DEF StartCheck, circle, row, history, moves, FirstId, Pins, Pinned, InFeed, Feed
<1>3. page = 1 /\ seenNow = {} /\ moved = 0
  BY <1>1, <1>2 DEF CheckInv
<1>4. IdsInv' /\ OrderInv' /\ RowInv' /\ WatermarkCovers'
  BY <1>1, <1>2 DEF IdsInv, OrderInv, RowInv, ArchiveIn, WatermarkCovers, Accounted, Young
<1>5. CheckInv'
  BY <1>1, <1>2, <1>3 DEF CheckInv
<1>6. ~ MetYoung' /\ \A k \in DOMAIN timeline : ~ Met(k)'
  BY <1>2, <1>3 DEF MetYoung, Met
<1>7. \A k \in DOMAIN timeline : Ahead(page) < Pins + k
  <2>1. timeline \in Seq(Ids) /\ DOMAIN timeline \subseteq Nat \ {0}
    BY <1>1, TypesGive
  <2>2. Pins \in Nat
    BY <2>1, FeedIs
  <2>3. Ahead(1) = 0
    BY Paging
  <2> QED
    BY <1>3, <2>1, <2>2, <2>3
<1>8. WalkInv' /\ PushInv' /\ FoundInv'
  <2>1. Ahead(page)' = Ahead(page)
    BY <1>2 DEF Ahead
  <2>2. WalkInv'
    BY <1>2, <1>6, <1>7, <2>1 DEF WalkInv, ComesOrNewer
  <2>3. PushInv'
    BY <1>2, <1>6 DEF PushInv, Tight
  <2> QED
    BY <1>2, <2>2, <2>3 DEF FoundInv
<1> QED
  BY <1>4, <1>5, <1>8 DEF FeedInv

\* A check that is given up leaves the row as it was.
LEMMA GivingUpKeeps ==
    ASSUME FeedInv, Forget, UNCHANGED <<circle, row, history, hidden>>, Typed' PROVE FeedInv'
<1>1. Typed /\ IdsInv /\ OrderInv /\ RowInv /\ CheckInv /\ WatermarkCovers
  BY DEF FeedInv
<1>2. /\ UNCHANGED <<timeline, nextId, drafts, deletes, watermark, recent, etag,
                     triaged, polled, old, left, hidden>>
      /\ phase' = "idle" /\ page' = 1 /\ fresh' = {} /\ seenNow' = {} /\ moved' = 0
      /\ FirstId' = FirstId /\ Pinned' = Pinned /\ InFeed' = InFeed
  BY DEF Forget, circle, row, history, FirstId, Pinned, InFeed, Feed
<1>3. IdsInv' /\ OrderInv' /\ RowInv' /\ WatermarkCovers'
  BY <1>1, <1>2 DEF IdsInv, OrderInv, RowInv, ArchiveIn, WatermarkCovers, Accounted, Young
<1>4. CheckInv'
  BY <1>1, <1>2 DEF CheckInv
<1>5. WalkInv' /\ PushInv' /\ FoundInv'
  BY <1>2 DEF WalkInv, PushInv, FoundInv
<1> QED
  BY <1>3, <1>4, <1>5 DEF FeedInv

\* One more post is triaged.
LEMMA TriageKeeps == ASSUME FeedInv, TriageOne, Typed' PROVE FeedInv'
<1>1. Typed /\ IdsInv /\ OrderInv /\ RowInv /\ CheckInv /\ FoundInv /\ WatermarkCovers
  BY DEF FeedInv
<1>2. /\ UNCHANGED <<timeline, nextId, drafts, deletes, watermark, recent, etag, phase, page,
                     fresh, seenNow, newEtag, beyond, polled, old, left, hidden, moved>>
      /\ phase = "triaging" /\ triaged \subseteq triaged'
      /\ FirstId' = FirstId /\ Pinned' = Pinned /\ InFeed' = InFeed
  BY DEF TriageOne, circle, row, check, moves, FirstId, Pinned, InFeed, Feed
<1>3. IdsInv' /\ OrderInv' /\ RowInv' /\ CheckInv'
  BY <1>1, <1>2 DEF IdsInv, OrderInv, RowInv, CheckInv, SeedInv, ArchiveIn, Young
<1>4. Excused \subseteq Excused' /\ Accounted \subseteq Accounted'
  BY <1>2 DEF Excused, Accounted
<1>5. WalkInv' /\ PushInv'
  BY <1>2 DEF WalkInv, PushInv
<1>6. FoundInv' /\ WatermarkCovers'
  BY <1>1, <1>2, <1>4 DEF FoundInv, WatermarkCovers
<1> QED
  BY <1>3, <1>5, <1>6 DEF FeedInv

\* What the row is written from: ids this check has met.
LEMMA FinishMarks ==
    ASSUME FeedInv, FinishOk
    PROVE  /\ watermark <= watermark'
           /\ watermark' \in Ids /\ watermark' \in seenNow \cup {watermark}
           /\ \A i \in Range(recent') : i <= watermark'
           /\ ArchiveIn(old)
           /\ polled => watermark' \in fresh \cup {watermark}
           /\ ~ polled => \A i \in Range(newEtag) : i <= watermark'
<1>1. Typed /\ TypeOK /\ PageIsTagged /\ RowInv /\ CheckInv /\ phase = "triaging"
  BY DEF FeedInv, Typed, FinishOk
<1> DEFINE s == IF Seeding THEN newEtag ELSE Ascending(fresh)
<1>2. MoveMarks(s)
  BY DEF FinishOk
<1>3. /\ fresh \subseteq Ids /\ fresh \subseteq seenNow /\ seenNow \subseteq Ids
      /\ recent \in Seq(Ids) /\ watermark \in 0 .. MaxId /\ watermark \in Nat
      /\ polled \in BOOLEAN
  BY <1>1, TypesGive
<1>4. Ascending(fresh) \in Seq(Ids) /\ Range(Ascending(fresh)) = fresh
  BY <1>3, AscendingIs
<1>5. newEtag \in Seq(Ids)
  BY <1>1 DEF PageIsTagged
<1>6. CASE polled
  <2>1. ~ Seeding /\ 0 < watermark /\ ArchiveIn(old)
    BY <1>1, <1>3, <1>6 DEF RowInv, Seeding
  <2>2. MoveMarks(Ascending(fresh))
    BY <1>2, <2>1
  <2>3. /\ watermark' \in 0 .. MaxId /\ watermark' \in {watermark} \cup fresh
        /\ watermark <= watermark' /\ \A i \in fresh : i <= watermark'
        /\ Range(recent') \subseteq Range(recent) \cup fresh
    BY <1>3, <1>4, <2>2, MarksMoved
  <2>4. watermark' \in Ids
    BY <1>3, <2>1, <2>3, Bounds DEF Ids
  <2>5. \A i \in Range(recent') : i <= watermark'
    <3>1. Range(recent) \subseteq Ids
      BY <1>3 DEF Range
    <3>2. \A i \in Range(recent) : i <= watermark /\ i \in Nat
      BY <1>1, <3>1, IdsCount DEF RowInv
    <3>3. watermark' \in Nat
      BY <2>4, IdsCount
    <3>4. \A i \in Range(recent) : i <= watermark'
      BY <1>3, <2>3, <3>2, <3>3
    <3> QED
      BY <2>3, <3>4
  <2>6. watermark' \in seenNow \cup {watermark}
    BY <1>3, <2>3
  <2> QED
    BY <1>6, <2>1, <2>3, <2>4, <2>5, <2>6
<1>7. CASE ~ polled
  <2>1. Seeding /\ watermark = 0 /\ recent = <<>> /\ SeedInv
    BY <1>1, <1>7 DEF RowInv, CheckInv, Seeding
  <2>2. MoveMarks(newEtag)
    BY <1>2, <2>1
  <2>3. /\ watermark' \in 0 .. MaxId /\ watermark' \in {watermark} \cup Range(newEtag)
        /\ watermark <= watermark' /\ \A i \in Range(newEtag) : i <= watermark'
        /\ Range(recent') \subseteq Range(recent) \cup Range(newEtag)
    BY <1>3, <1>5, <2>2, MarksMoved
  <2>4. PICK x : x \in Range(newEtag)
    <3>1. newEtag # <<>>
      BY <2>1 DEF SeedInv
    <3>2. 1 \in DOMAIN newEtag
      BY <1>5, <3>1
    <3> QED
      BY <3>2 DEF Range
  <2>5. Range(newEtag) \subseteq seenNow
    BY <2>1 DEF SeedInv
  <2>6. x \in Nat /\ 0 < x /\ x <= watermark'
    <3>1. x \in Ids
      BY <1>3, <2>4, <2>5
    <3> QED
      BY <2>3, <2>4, <3>1, IdsCount
  <2>7. watermark' \in Ids
    BY <2>3, <2>6, Bounds DEF Ids
  <2>8. Range(recent) = {}
    BY <2>1 DEF Range
  <2>9. ArchiveIn(old)
    BY <2>1 DEF SeedInv
  <2> QED
    BY <1>7, <2>3, <2>5, <2>7, <2>8, <2>9
<1> QED
  BY <1>3, <1>6, <1>7

\* The row is written: the new watermark is a post that was triaged, or the old one.
LEMMA WritingKeeps == ASSUME FeedInv, FinishOk, Typed' PROVE FeedInv'
<1>1. Typed /\ IdsInv /\ OrderInv /\ RowInv /\ CheckInv /\ FoundInv /\ WatermarkCovers
  BY DEF FeedInv
<1>2. /\ UNCHANGED <<timeline, nextId, drafts, deletes, triaged, old, hidden>>
      /\ phase = "triaging" /\ fresh \subseteq triaged
      /\ phase' = "idle" /\ page' = 1 /\ fresh' = {} /\ seenNow' = {} /\ moved' = 0
      /\ polled' = TRUE /\ left' = left \cup beyond
      /\ FirstId' = FirstId /\ Pinned' = Pinned /\ InFeed' = InFeed
  BY DEF FinishOk, Forget, circle, FirstId, Pinned, InFeed, Feed
<1>3. /\ watermark <= watermark'
      /\ watermark' \in Ids /\ watermark' \in seenNow \cup {watermark}
      /\ \A i \in Range(recent') : i <= watermark'
      /\ ArchiveIn(old)
      /\ polled => watermark' \in fresh \cup {watermark}
  BY FinishMarks
<1>4. /\ watermark \in Nat /\ watermark' \in Nat /\ 0 < watermark' /\ timeline \in Seq(Ids)
      /\ seenNow \subseteq Nat /\ fresh \subseteq Nat /\ polled \in BOOLEAN
  <2>1. /\ watermark \in Nat /\ timeline \in Seq(Ids) /\ seenNow \subseteq Ids
        /\ fresh \subseteq Ids /\ polled \in BOOLEAN
    BY <1>1, TypesGive
  <2>2. watermark' \in Nat /\ 0 < watermark'
    BY <1>3, IdsCount
  <2>3. Ids \subseteq Nat
    BY IdsCount
  <2> QED
    BY <2>1, <2>2, <2>3
<1>5. IdsInv'
  BY <1>1, <1>2, <1>3 DEF IdsInv
<1>6. OrderInv'
  BY <1>1, <1>2 DEF OrderInv, Young
<1>7. RowInv'
  <2>1. ArchiveIn(old)'
    BY <1>2, <1>3 DEF ArchiveIn, Young
  <2>2. deletes' = deletes /\ Len(OldFeed) <= Len(timeline) + deletes
    BY <1>1, <1>2 DEF RowInv
  <2> QED
    BY <1>2, <1>3, <1>4, <2>1, <2>2 DEF RowInv
<1>8. CheckInv' /\ WalkInv' /\ PushInv' /\ FoundInv'
  BY <1>2 DEF CheckInv, WalkInv, PushInv, FoundInv
<1>9. WatermarkCovers'
  <2>1. SUFFICES ASSUME NEW i \in InFeed, i <= watermark'
                 PROVE  i \in Accounted' \cup hidden
    BY <1>2 DEF WatermarkCovers
  <2>2. Excused \cup fresh \cup beyond \subseteq Accounted' \cup hidden
    BY <1>2 DEF Excused, Accounted
  <2>3. i \in Nat /\ 0 < i
    <3>1. i \in Ids
      BY <1>4, <2>1, FeedIs
    <3> QED
      BY <3>1, IdsCount
  <2>4. CASE polled
    <3>1. CASE i \in Excused \cup fresh \cup beyond
      BY <2>2, <3>1
    <3>2. CASE i \notin Excused \cup fresh \cup beyond
      <4>1. \A f \in fresh : f < i
        BY <1>1, <1>2, <2>4, <3>2 DEF FoundInv
      <4>2. watermark' = watermark
        BY <1>3, <1>4, <2>1, <2>3, <2>4, <4>1
      <4>3. i \in Excused
        BY <1>1, <2>1, <2>4, <4>2 DEF WatermarkCovers, Excused
      <4> QED
        BY <2>2, <4>3
    <3> QED
      BY <3>1, <3>2
  <2>5. CASE ~ polled
    <3>1. watermark = 0 /\ SeedInv
      BY <1>1, <1>2, <2>5 DEF RowInv, CheckInv
    <3>2. watermark' \in seenNow
      BY <1>3, <1>4, <3>1
    <3>3. ~ (watermark' < i)
      BY <1>4, <2>1, <2>3
    <3>4. i \in old \cup hidden
      BY <3>1, <3>2, <3>3 DEF SeedInv
    <3> QED
      BY <2>2, <3>4 DEF Excused, Accounted
  <2> QED
    BY <1>4, <2>4, <2>5
<1> QED
  BY <1>5, <1>6, <1>7, <1>8, <1>9 DEF FeedInv

-----------------------------------------------------------------------------
(* One page of the walk.                                                   *)

\* What reading a page changes.
LEMMA PageRead ==
    ASSUME FetchPage, NEW recs, recs = PageOf(Feed, page)
    PROVE  /\ UNCHANGED <<timeline, nextId, drafts, deletes, watermark, recent, triaged, polled, left>>
           /\ phase = "fetching" /\ moved' = 0
           /\ fresh' = (IF Seeding THEN {} ELSE fresh \cup News(recs))
           /\ seenNow' = seenNow \cup Range(recs)
           /\ newEtag' = (IF page = 1 THEN recs ELSE newEtag)
           /\ old' = (IF polled THEN old ELSE InFeed)
           /\ WalkEnds(recs) \/ page = MaxPages => phase' = "triaging" /\ page' = page
           /\ ~ WalkEnds(recs) /\ page # MaxPages => phase' = "fetching" /\ page' = page + 1
           /\ hidden \subseteq hidden' /\ (News(recs) = {} => Swallowed(recs) \subseteq hidden')
           /\ FirstId' = FirstId /\ Pins' = Pins /\ Pinned' = Pinned /\ InFeed' = InFeed
           /\ \A x : Young(x)' <=> Young(x)
<1>1. /\ phase = "fetching" /\ moved' = 0
      /\ UNCHANGED <<circle, row, triaged, polled, left>>
      /\ fresh' = (IF Seeding THEN {} ELSE fresh \cup News(recs))
      /\ seenNow' = seenNow \cup Range(recs)
      /\ newEtag' = (IF page = 1 THEN recs ELSE newEtag)
      /\ old' = (IF polled THEN old ELSE InFeed)
      /\ hidden' = (IF News(recs) = {} THEN hidden \cup Swallowed(recs) ELSE hidden)
  BY DEF FetchPage
<1>2. /\ WalkEnds(recs) \/ page = MaxPages => phase' = "triaging" /\ page' = page
      /\ ~ WalkEnds(recs) /\ page # MaxPages => phase' = "fetching" /\ page' = page + 1
  BY <1>1 DEF FetchPage
<1>3. /\ FirstId' = FirstId /\ Pins' = Pins /\ Pinned' = Pinned /\ InFeed' = InFeed
      /\ UNCHANGED <<timeline, nextId, drafts, deletes, watermark, recent>>
  BY <1>1 DEF circle, row, FirstId, Pins, Pinned, InFeed, Feed
<1>4. \A x : Young(x)' <=> Young(x)
  BY <1>3 DEF Young
<1> QED
  BY <1>1, <1>2, <1>3, <1>4

LEMMA PinnedAreOld == \A i \in Pinned : i \in Ids /\ ~ Young(i) /\ i < FirstId
<1>1. \A i \in Pinned : i \in Ids /\ ~ Young(i)
  BY FirstIdIs
<1>2. FirstId \in Nat
  BY FirstIdIs
<1> QED
  BY <1>1, <1>2, IdsCount DEF Young

\* A post the walk did not meet, on a page it has read, is newer than what it finds
\* further down.
LEMMA StaysNewer ==
    ASSUME FeedInv, FetchPage, polled, NEW k \in DOMAIN timeline, Missing(k),
           ~ (Ahead(page) < Pins + k)
    PROVE  \A f \in fresh' : f < timeline[k]
<1> DEFINE recs == PageOf(Feed, page)
<1>1. Typed /\ OrderInv /\ RowInv /\ WalkInv
  BY DEF FeedInv
<1>2. /\ phase = "fetching" /\ fresh' \subseteq fresh \cup News(recs)
  <2>1. phase = "fetching" /\ fresh' = (IF Seeding THEN {} ELSE fresh \cup News(recs))
    BY PageRead
  <2> QED
    BY <2>1
<1>3. timeline \in Seq(Ids) /\ page \in Nat \ {0} /\ DOMAIN timeline \subseteq Nat \ {0}
  BY <1>1, TypesGive
<1>4. Ahead(page) \in Nat /\ Pins \in Nat
  BY <1>3, Paging, FeedIs
<1>5. \A f \in fresh : f < timeline[k]
  BY <1>1, <1>2 DEF WalkInv, ComesOrNewer
<1>6. ASSUME NEW f \in Range(recs) PROVE f < timeline[k]
  <2>1. f \in Pinned \/ \E j \in DOMAIN timeline : timeline[j] = f /\ OnPage(page, j)
    BY <1>3, PageIs
  <2>2. CASE f \in Pinned
    <3>1. f \in Nat /\ f < FirstId /\ FirstId \in Nat
      BY <2>2, PinnedAreOld, FirstIdIs, IdsCount
    <3>2. timeline[k] \in Nat /\ FirstId <= timeline[k]
      <4>1. timeline[k] \in Ids
        BY <1>3
      <4> QED
        BY <3>1, <4>1, IdsCount DEF Missing, Young
    <3> QED
      BY <3>1, <3>2
  <2>3. ASSUME NEW j \in DOMAIN timeline, timeline[j] = f, OnPage(page, j) PROVE f < timeline[k]
    <3>1. k < j
      BY <1>3, <1>4, <2>3 DEF OnPage
    <3> QED
      BY <1>1, <2>3, <3>1 DEF OrderInv, Missing, Excused
  <2> QED
    BY <2>1, <2>2, <2>3
<1> HIDE DEF recs
<1>7. News(recs) \subseteq Range(recs)
  BY DEF News
<1> QED
  BY <1>2, <1>5, <1>6, <1>7

\* A post that is missing after a page was missing before it, and not on the page.
LEMMA StillMissing ==
    ASSUME FeedInv, FetchPage, polled, NEW k \in DOMAIN timeline, Missing(k)'
    PROVE  /\ Missing(k) /\ k \in DOMAIN timeline'
           /\ Pins + k <= Ahead(page) \/ Ahead(page) + PerPage < Pins + k
<1> DEFINE recs == PageOf(Feed, page)
<1>1. Typed
  BY DEF FeedInv
<1>2. timeline \in Seq(Ids) /\ page \in Nat \ {0} /\ DOMAIN timeline \subseteq Nat \ {0}
  BY <1>1, TypesGive
<1>3. Ahead(page) \in Nat /\ Pins \in Nat /\ PerPage \in Nat
  BY <1>2, Paging, FeedIs
<1>4. \A i \in DOMAIN timeline : OnPage(page, i) => timeline[i] \in Range(recs)
  BY <1>2, PageIs
<1>5. /\ UNCHANGED <<timeline, triaged, polled, left>>
      /\ seenNow' = seenNow \cup Range(recs)
      /\ old' = (IF polled THEN old ELSE InFeed)
      /\ hidden \subseteq hidden' /\ \A x : Young(x)' <=> Young(x)
  BY PageRead
<1> HIDE DEF recs
<1>6. old' = old
  BY <1>5
<1>7. Accounted' = Accounted /\ Excused \subseteq Excused'
  BY <1>5, <1>6 DEF Accounted, Excused
<1>8. Missing(k) /\ timeline[k] \notin Range(recs)
  BY <1>5, <1>7 DEF Missing
<1>9. ~ OnPage(page, k)
  BY <1>4, <1>8
<1> QED
  BY <1>2, <1>3, <1>5, <1>8, <1>9 DEF OnPage

\* A new post met by this page or before it, at its one place.
LEMMA MetWhere ==
    ASSUME FeedInv, FetchPage, NEW a \in DOMAIN timeline, Met(a)' PROVE Met(a) \/ OnPage(page, a)
<1> DEFINE recs == PageOf(Feed, page)
<1>1. Typed /\ OrderInv
  BY DEF FeedInv
<1>2. timeline \in Seq(Ids) /\ page \in Nat \ {0} /\ DOMAIN timeline \subseteq Nat \ {0}
  BY <1>1, TypesGive
<1>3. \A r \in Range(recs) : \/ r \in Pinned
                             \/ \E k \in DOMAIN timeline : timeline[k] = r /\ OnPage(page, k)
  BY <1>2, PageIs
<1>4. timeline' = timeline /\ seenNow' = seenNow \cup Range(recs) /\ \A x : Young(x)' <=> Young(x)
  BY PageRead
<1> HIDE DEF recs
<1>5. Young(timeline[a]) /\ timeline[a] \in seenNow \cup Range(recs)
  BY <1>4 DEF Met
<1>6. CASE timeline[a] \in seenNow
  BY <1>5, <1>6 DEF Met
<1>7. CASE timeline[a] \in Range(recs)
  <2>1. timeline[a] \notin Pinned
    BY <1>5, PinnedAreOld
  <2>2. PICK j \in DOMAIN timeline : timeline[j] = timeline[a] /\ OnPage(page, j)
    BY <1>3, <1>7, <2>1
  <2>3. j = a
    BY <1>1, <1>2, <1>5, <2>2 DEF OrderInv
  <2> QED
    BY <2>2, <2>3
<1> QED
  BY <1>5, <1>6, <1>7

\* Reading a page leaves the parts of the invariant that are not about the walk.
LEMMA PageKeepsRest ==
    ASSUME FeedNeverEmpty, FeedInv, FetchPage, Typed'
    PROVE  IdsInv' /\ OrderInv' /\ RowInv' /\ CheckInv' /\ WatermarkCovers'
<1> DEFINE recs == PageOf(Feed, page)
<1>1. Typed /\ IdsInv /\ OrderInv /\ RowInv /\ CheckInv /\ WatermarkCovers
  BY DEF FeedInv
<1>2. /\ timeline \in Seq(Ids) /\ page \in Nat \ {0} /\ DOMAIN timeline \subseteq Nat \ {0}
      /\ seenNow \subseteq Ids /\ fresh \subseteq seenNow /\ watermark \in Nat /\ polled \in BOOLEAN
      /\ nextId \in Nat /\ Range(timeline) \subseteq Ids /\ deletes \in 0 .. MaxDeletes
      /\ Len(timeline) \in Nat /\ recent \in Seq(Ids)
  BY <1>1, TypesGive
<1>3. /\ recs \in Seq(Ids) /\ Range(recs) \subseteq InFeed /\ Range(recs) \subseteq Ids
      /\ (recs = <<>> => Pins + Len(timeline) <= Ahead(page))
      /\ InFeed = Pinned \cup Range(timeline)
  BY <1>2, PageIs, FeedIs
<1>4. /\ UNCHANGED <<timeline, nextId, drafts, deletes, watermark, recent, triaged, polled, left>>
      /\ phase = "fetching" /\ moved' = 0
      /\ fresh' = (IF Seeding THEN {} ELSE fresh \cup News(recs))
      /\ seenNow' = seenNow \cup Range(recs)
      /\ newEtag' = (IF page = 1 THEN recs ELSE newEtag)
      /\ old' = (IF polled THEN old ELSE InFeed)
      /\ WalkEnds(recs) \/ page = MaxPages => phase' = "triaging" /\ page' = page
      /\ ~ WalkEnds(recs) /\ page # MaxPages => phase' = "fetching" /\ page' = page + 1
      /\ hidden \subseteq hidden'
      /\ FirstId' = FirstId /\ Pinned' = Pinned /\ InFeed' = InFeed
      /\ \A x : Young(x)' <=> Young(x)
  BY PageRead
<1> HIDE DEF recs
<1>5. IdsInv'
  <2>1. \A x \in Pinned : x < nextId /\ x \notin drafts
    <3>1. \A x \in Pinned : x \in Nat /\ x < FirstId
      BY PinnedAreOld, IdsCount
    <3>2. FirstId \in Nat /\ FirstId <= nextId /\ \A d \in drafts : FirstId <= d
      BY <1>1, FirstIdIs DEF IdsInv
    <3> QED
      BY <1>2, <3>1, <3>2
  <2>2. \A x \in Range(timeline) \cup seenNow \cup Range(recs) \cup {watermark} :
          x < nextId /\ x \notin drafts
    BY <1>1, <1>3, <2>1 DEF IdsInv
  <2> QED
    BY <1>1, <1>4, <2>2 DEF IdsInv
<1>6. OrderInv'
  BY <1>1, <1>4 DEF OrderInv
<1>7. ~ polled => Seeding /\ WalkEnds(recs) /\ page = 1 /\ fresh' = {} /\ fresh = {}
  <2>1. ~ polled => watermark = 0 /\ recent = <<>> /\ page = 1 /\ fresh = {}
    BY <1>1 DEF RowInv
  <2> QED
    BY <1>4, <2>1 DEF Seeding, WalkEnds
<1>8. RowInv'
  <2>1. polled => ArchiveIn(old)'
    BY <1>1, <1>4 DEF RowInv, ArchiveIn
  <2>2. ~ polled => page' = 1
    BY <1>4, <1>7
  <2> QED
    BY <1>1, <1>4, <1>7, <2>1, <2>2 DEF RowInv
<1>9. ~ polled => SeedInv'
  <2>1. SUFFICES ASSUME ~ polled PROVE SeedInv'
    OBVIOUS
  <2>2. page = 1 /\ newEtag' = recs /\ old' = InFeed
    BY <1>4, <1>7, <2>1
  <2>3. recs # <<>>
    <3>1. SUFFICES ASSUME recs = <<>> PROVE FALSE
      OBVIOUS
    <3>2. Pins + Len(timeline) <= 0
      BY <1>2, <1>3, <2>2, <3>1, Paging
    <3>3. Pins \in Nat /\ OldFeed \in Seq(Ids) /\ deletes <= MaxDeletes /\ MaxDeletes \in Nat
          /\ deletes \in Nat
      BY <1>2, FeedIs, FeedAssumption, Bounds
    <3>4. Len(OldFeed) <= Len(timeline) + deletes /\ Len(OldFeed) \in Nat
      BY <1>1, <3>3 DEF RowInv
    <3>5. PinnedFeed # <<>> => 0 < Pins
      BY FeedAssumption DEF Pins
    <3> QED
      BY <1>2, <3>2, <3>3, <3>4, <3>5 DEF FeedNeverEmpty
  <2>4. \A i \in InFeed' : i \in old'
    BY <1>4, <2>2
  <2> QED
    BY <1>3, <1>4, <2>2, <2>3, <2>4 DEF SeedInv, ArchiveIn
<1>10. CheckInv'
  <2>1. \A i \in Range(recent) : i <= watermark
    BY <1>1 DEF RowInv
  <2>2. ~ (phase' = "idle" \/ (phase' = "fetching" /\ page' = 1))
    BY <1>2, <1>4
  <2>3. polled => \A i \in seenNow' : i \in fresh' \/ i <= watermark
    <3>1. SUFFICES ASSUME polled, NEW i \in seenNow \cup Range(recs), ~ (i <= watermark)
                   PROVE  i \in fresh'
      BY <1>4
    <3>2. ~ Seeding
      BY <1>1, <1>2, <3>1 DEF RowInv, Seeding
    <3>3. CASE i \in seenNow
      BY <1>1, <1>4, <3>1, <3>2, <3>3 DEF CheckInv
    <3>4. CASE i \notin seenNow
      <4>1. i \in Nat
        BY <1>3, <3>1, <3>4, IdsCount
      <4>2. IsNew(i)
        BY <1>2, <2>1, <3>1, <4>1 DEF IsNew
      <4> QED
        BY <1>4, <3>1, <3>2, <3>4, <4>2 DEF News
    <3> QED
      BY <3>3, <3>4
  <2>4. \A i \in fresh' : watermark < i
    <3>1. \A i \in News(recs) : i > watermark /\ i \in Ids
      BY <1>3 DEF News, IsNew
    <3>2. \A i \in News(recs) : watermark < i
      BY <1>2, <3>1, IdsCount
    <3> QED
      BY <1>1, <1>4, <3>2 DEF CheckInv
  <2>5. phase' # "idle"
    BY <1>4
  <2> QED
    BY <1>4, <1>9, <2>2, <2>3, <2>4, <2>5 DEF CheckInv
<1>11. WatermarkCovers'
  BY <1>1, <1>4 DEF WatermarkCovers, Accounted
<1> QED
  BY <1>5, <1>6, <1>8, <1>10, <1>11

\* Going on to the next page.
LEMMA PageKeepsWalk == ASSUME FeedInv, FetchPage, Typed' PROVE WalkInv' /\ PushInv'
<1> DEFINE recs == PageOf(Feed, page)
           b == Ahead(page)
           e == Ahead(page) + PerPage
<1>1. Typed /\ WalkInv /\ PushInv
  BY DEF FeedInv
<1>2. timeline \in Seq(Ids) /\ page \in Nat \ {0} /\ DOMAIN timeline \subseteq Nat \ {0} /\ moved \in Nat
  BY <1>1, TypesGive
<1>3. b \in Nat /\ e \in Nat /\ b < e /\ Pins \in Nat /\ PerPage \in Nat /\ 0 < PerPage
      /\ Ahead(page + 1) = e
  <2>1. /\ Ahead(page) \in Nat /\ PerPage \in Nat /\ 0 < PerPage
        /\ Ahead(page + 1) = Ahead(page) + PerPage /\ Pins \in Nat
    BY <1>2, Paging, FeedIs
  <2> QED
    BY <2>1
<1>4. /\ UNCHANGED <<timeline, polled>> /\ phase = "fetching" /\ moved' = 0
      /\ WalkEnds(recs) \/ page = MaxPages => phase' = "triaging" /\ page' = page
      /\ ~ WalkEnds(recs) /\ page # MaxPages => phase' = "fetching" /\ page' = page + 1
      /\ Pins' = Pins /\ seenNow' = seenNow \cup Range(recs)
      /\ \A x : Young(x)' <=> Young(x)
  BY PageRead
<1>5. \A r \in Range(recs) : \/ r \in Pinned
                             \/ \E k \in DOMAIN timeline : timeline[k] = r /\ OnPage(page, k)
  BY <1>2, PageIs
<1> HIDE DEF recs
<1> SUFFICES ASSUME phase' = "fetching", polled PROVE WalkInv' /\ PushInv'
  BY <1>4 DEF WalkInv, PushInv
<1>6. page' = page + 1 /\ Ahead(page)' = e
  <2>1. page' = page + 1
    BY <1>4
  <2>2. Ahead(page)' = Ahead(page')
    BY DEF Ahead
  <2> QED
    BY <1>3, <2>1, <2>2
<1>7. ASSUME NEW k \in DOMAIN timeline, Missing(k)'
      PROVE  Missing(k) /\ (Pins + k <= b \/ e < Pins + k)
  BY <1>7, StillMissing
<1>8. ASSUME NEW a \in DOMAIN timeline, Met(a)' PROVE Met(a) \/ (b < Pins + a /\ Pins + a <= e)
  BY <1>8, MetWhere DEF OnPage
<1> HIDE DEF b, e
<1>9. ASSUME NEW k \in DOMAIN timeline, Missing(k)'
      PROVE  e < Pins + k \/ \A f \in fresh' : f < timeline[k]
  <2>1. Missing(k) /\ (Pins + k <= b \/ e < Pins + k)
    BY <1>7, <1>9
  <2>2. CASE Pins + k <= b
    <3>1. ~ (Ahead(page) < Pins + k)
      BY <1>2, <1>3, <2>2 DEF b
    <3> QED
      BY <2>1, <3>1, StaysNewer
  <2> QED
    BY <2>1, <2>2
<1>10. MetYoung' => Pins < e
  <2>1. MetYoung => Pins < b
    BY <1>1, <1>4 DEF WalkInv, b
  <2>2. ASSUME NEW r \in Range(recs), Young(r) PROVE Pins < e
    <3>1. r \notin Pinned
      BY <2>2, PinnedAreOld
    <3>2. PICK k \in DOMAIN timeline : OnPage(page, k)
      BY <1>5, <3>1
    <3>3. Pins + k <= e /\ k \in Nat /\ 0 < k
      BY <1>2, <3>2 DEF OnPage, e
    <3> QED
      BY <1>3, <3>3
  <2>3. MetYoung' => MetYoung \/ \E r \in Range(recs) : Young(r)
    BY <1>4 DEF MetYoung
  <2> QED
    BY <1>3, <2>1, <2>2, <2>3
<1>11. WalkInv'
  BY <1>4, <1>6, <1>9, <1>10 DEF WalkInv, ComesOrNewer
<1>12. PushInv'
  <2>1. Tight \/ Loose
    BY <1>1, <1>4 DEF PushInv
  <2>2. CASE Tight
    <3>1. ASSUME NEW a \in DOMAIN timeline, Met(a)' PROVE Pins + a <= e + 0
      <4>1. CASE Met(a)
        <5>1. moved < PerPage
          BY <2>2, <4>1 DEF Tight, Met, MetYoung
        <5>2. Pins + a <= b + moved
          BY <2>2, <4>1 DEF Tight, b
        <5>3. b + PerPage = e
          BY DEF b, e
        <5> QED
          BY <1>2, <1>3, <5>1, <5>2, <5>3
      <4>2. CASE Pins + a <= e
        BY <1>3, <4>2
      <4> QED
        BY <1>8, <3>1, <4>1, <4>2
    <3> QED
      BY <1>3, <1>4, <1>6, <3>1 DEF Tight, PushInv
  <2>3. CASE Loose
    <3>1. MetYoung'
      BY <1>4, <2>3 DEF Loose, MetYoung
    <3>2. ASSUME NEW k \in DOMAIN timeline, Missing(k)' PROVE OnTopOnly(k)'
      <4>1. OnTopOnly(k)
        BY <1>7, <2>3, <3>2 DEF Loose
      <4>2. Pins + k <= b
        <5>1. Pins + k <= e
          BY <4>1 DEF OnTopOnly, e
        <5>2. Pins + k <= b \/ e < Pins + k
          BY <1>7, <3>2
        <5> QED
          BY <1>2, <1>3, <5>1, <5>2
      <4>3. ASSUME NEW a \in DOMAIN timeline, Met(a)' PROVE k < a
        <5>1. CASE Met(a)
          BY <4>1, <5>1 DEF OnTopOnly
        <5>2. CASE b < Pins + a
          BY <1>2, <1>3, <4>2, <5>2
        <5> QED
          BY <1>8, <4>3, <5>1, <5>2
      <4>4. Pins + k <= e + 0 /\ Pins + k <= e + PerPage
        BY <1>2, <1>3, <4>2
      <4> QED
        BY <1>4, <1>6, <4>3, <4>4 DEF OnTopOnly
    <3> QED
      BY <1>4, <3>1, <3>2 DEF Loose, PushInv
  <2> QED
    BY <2>1, <2>2, <2>3
<1> QED
  BY <1>11, <1>12

\* Ending the walk on a page without news: what is further down is no news either.
LEMMA NothingBelow ==
    ASSUME FeedInv, FetchPage, polled, NEW k \in DOMAIN timeline, Missing(k)',
           ~ (timeline[k] <= watermark), News(PageOf(Feed, page)) = {},
           Ahead(page) + PerPage < Pins + k
    PROVE  \A f \in fresh : f < timeline[k]
<1> DEFINE recs == PageOf(Feed, page)
           j == (Ahead(page) + PerPage) - Pins
<1>1. Typed /\ OrderInv /\ RowInv /\ CheckInv /\ WalkInv /\ PushInv
  BY DEF FeedInv
<1>2. /\ timeline \in Seq(Ids) /\ page \in Nat \ {0} /\ DOMAIN timeline \subseteq Nat \ {0}
      /\ moved \in Nat /\ seenNow \subseteq Ids /\ fresh \subseteq seenNow /\ watermark \in Nat
      /\ Len(timeline) \in Nat
  BY <1>1, TypesGive
<1>3. /\ Ahead(page) \in Nat /\ Pins \in Nat /\ PerPage \in Nat /\ 0 < PerPage
      /\ DOMAIN timeline = 1 .. Len(timeline)
  BY <1>2, Paging, FeedIs
<1>4. /\ phase = "fetching" /\ timeline' = timeline /\ seenNow' = seenNow \cup Range(recs)
      /\ Swallowed(recs) \subseteq hidden' /\ \A x : Young(x)' <=> Young(x)
  BY PageRead
<1>5. /\ timeline[k] \in Below(page)
      /\ \A i \in DOMAIN timeline : OnPage(page, i) => timeline[i] \in Range(recs)
  BY <1>2, PageIs
<1>6. Missing(k)
  BY StillMissing
<1>7. timeline[k] \notin seenNow' /\ timeline[k] \notin hidden' /\ Young(timeline[k])
  BY <1>4 DEF Missing, Excused
<1>8. News(recs) = {}
  OBVIOUS
<1> HIDE DEF recs
<1>9. \A r \in Range(recs) \ Pinned : ~ (r < timeline[k])
  BY <1>4, <1>5, <1>7 DEF Swallowed
<1>10. FirstId \in Nat /\ timeline[k] \in Nat /\ FirstId <= timeline[k]
  <2>1. timeline[k] \in Ids
    BY <1>2
  <2> QED
    BY <1>7, <2>1, FirstIdIs, IdsCount DEF Young
<1>11. CASE ~ MetYoung
  <2>1. ASSUME NEW f \in fresh PROVE f < timeline[k]
    <3>1. f \in seenNow /\ f \in Nat
      BY <1>2, <2>1, IdsCount
    <3>2. ~ (f >= FirstId)
      BY <1>11, <3>1 DEF MetYoung, Young
    <3> QED
      BY <1>10, <3>1, <3>2
  <2> QED
    BY <2>1
<1>12. CASE MetYoung
  <2>1. Pins < Ahead(page)
    BY <1>1, <1>4, <1>12 DEF WalkInv
  <2>2. j \in DOMAIN timeline /\ j < k /\ Pins + j = Ahead(page) + PerPage
    BY <1>2, <1>3, <2>1
  <2> HIDE DEF j
  <2>3. OnPage(page, j)
    BY <1>3, <2>2 DEF OnPage
  <2>4. timeline[j] \in Range(recs)
    BY <1>5, <2>2, <2>3
  <2>5. Young(timeline[j])
    BY <1>1, <1>7, <2>2 DEF OrderInv
  <2>6. timeline[j] \notin Pinned
    BY <2>5, PinnedAreOld
  <2>7. timeline[j] \in Nat /\ timeline[k] <= timeline[j]
    <3>1. timeline[j] \in Ids
      BY <1>2, <2>2
    <3>2. ~ (timeline[j] < timeline[k])
      BY <1>9, <2>4, <2>6
    <3> QED
      BY <1>10, <3>1, <3>2, IdsCount
  <2>8. timeline[j] > watermark
    BY <1>2, <1>10, <2>7
  <2>9. timeline[j] \notin Range(recent)
    BY <1>1, <1>2, <2>7, <2>8 DEF RowInv
  <2>10. timeline[j] \in seenNow
    BY <1>8, <2>4, <2>8, <2>9 DEF News, IsNew
  <2>11. Met(j)
    BY <2>5, <2>10 DEF Met
  <2>12. CASE Tight
    <3>1. moved < PerPage /\ Pins + j <= Ahead(page) + moved
      BY <1>12, <2>2, <2>11, <2>12 DEF Tight
    <3> QED
      BY <1>2, <1>3, <2>2, <3>1
  <2>13. CASE Loose
    <3>1. k < j
      BY <1>6, <2>2, <2>11, <2>13 DEF Loose, OnTopOnly
    <3> QED
      BY <1>2, <2>2, <3>1
  <2> QED
    BY <1>1, <1>4, <2>12, <2>13 DEF PushInv
<1> QED
  BY <1>11, <1>12

\* Ending the walk: what it has not found is accounted for, left below the last page,
\* or newer than all it found.
LEMMA PageKeepsFound ==
    ASSUME FeedInv, FetchPage, Typed', CheckInv' PROVE FoundInv'
<1> DEFINE recs == PageOf(Feed, page)
<1>1. Typed /\ RowInv /\ WalkInv /\ WatermarkCovers
  BY DEF FeedInv
<1>2. /\ timeline \in Seq(Ids) /\ page \in Nat \ {0} /\ DOMAIN timeline \subseteq Nat \ {0}
      /\ watermark \in Nat /\ Len(timeline) \in Nat /\ recent \in Seq(Ids)
      /\ polled \in BOOLEAN
  BY <1>1, TypesGive
<1>3. /\ Ahead(page) \in Nat /\ Pins \in Nat /\ PerPage \in Nat /\ 0 < PerPage
      /\ DOMAIN timeline = 1 .. Len(timeline) /\ InFeed = Pinned \cup Range(timeline)
      /\ \A i \in Range(timeline) : \E k \in DOMAIN timeline : timeline[k] = i
      /\ Range(timeline) \subseteq Ids
  <2>1. Range(timeline) \subseteq Ids
    BY <1>1, TypesGive
  <2> QED
    BY <1>2, <2>1, Paging, FeedIs
<1>4. /\ UNCHANGED <<timeline, watermark, recent, triaged, polled, left>>
      /\ fresh' = (IF Seeding THEN {} ELSE fresh \cup News(recs))
      /\ seenNow' = seenNow \cup Range(recs)
      /\ old' = (IF polled THEN old ELSE InFeed)
      /\ WalkEnds(recs) \/ page = MaxPages => phase' = "triaging" /\ page' = page
      /\ ~ WalkEnds(recs) /\ page # MaxPages => phase' = "fetching" /\ page' = page + 1
      /\ hidden \subseteq hidden' /\ InFeed' = InFeed
      /\ \A x : Young(x)' <=> Young(x)
  BY PageRead
<1>5. /\ recs = <<>> => Pins + Len(timeline) <= Ahead(page)
      /\ ~ HasNext(page) => Pins + Len(timeline) <= Ahead(page) + PerPage
  BY <1>2, PageIs
<1>6. ~ WalkEnds(recs) /\ page = MaxPages =>
        beyond' = {i \in InFeed \ seenNow' : IsNew(i) /\ i < Newest(seenNow')}
  BY Bounds DEF FetchPage
<1>14. News(recs) = News(PageOf(Feed, page))
  OBVIOUS
<1> HIDE DEF recs
<1> SUFFICES ASSUME phase' = "triaging", polled, NEW i \in InFeed,
                    i \notin Excused' \cup fresh' \cup beyond'
             PROVE  \A f \in fresh' : f < i
  BY <1>4 DEF FoundInv
<1>7. old' = old /\ Accounted' = Accounted /\ Excused \subseteq Excused'
  <2>1. old' = old
    BY <1>4
  <2>2. Accounted' = Accounted
    BY <1>4, <2>1 DEF Accounted
  <2> QED
    BY <1>4, <2>1, <2>2 DEF Excused
<1>8. ~ (i <= watermark)
  BY <1>1, <1>7 DEF WatermarkCovers, Excused
<1>9. Young(i) /\ i \notin Pinned
  <2>1. Young(i)
    BY <1>1, <1>7 DEF RowInv, ArchiveIn, Excused, Accounted
  <2> QED
    BY <2>1, PinnedAreOld
<1>10. PICK k \in DOMAIN timeline : timeline[k] = i
  BY <1>3, <1>9
<1>11. i \notin seenNow' /\ i \in Nat
  <2>1. i \notin seenNow'
    BY <1>4, <1>8 DEF CheckInv
  <2>2. i \in Ids
    BY <1>2, <1>10
  <2> QED
    BY <2>1, <2>2, IdsCount
<1>12. Missing(k)'
  BY <1>4, <1>9, <1>10, <1>11 DEF Missing
<1>13. Missing(k) /\ (Pins + k <= Ahead(page) \/ Ahead(page) + PerPage < Pins + k)
  BY <1>12, StillMissing
<1>15. CASE Pins + k <= Ahead(page)
  <2>1. ~ (Ahead(page) < Pins + k)
    BY <1>2, <1>3, <1>15
  <2> QED
    BY <1>10, <1>13, <2>1, StaysNewer
<1>16. CASE Ahead(page) + PerPage < Pins + k
  <2>1. recs # <<>> /\ HasNext(page)
    BY <1>2, <1>3, <1>5, <1>16
  <2>2. ~ Seeding
    BY <1>1, <1>2 DEF Seeding, RowInv
  <2>3. CASE WalkEnds(recs)
    <3>1. News(recs) = {}
      BY <2>1, <2>2, <2>3 DEF WalkEnds
    <3>2. fresh' = fresh
      BY <1>4, <2>2, <3>1
    <3> QED
      BY <1>8, <1>10, <1>12, <1>14, <1>16, <3>1, <3>2, NothingBelow
  <2>4. CASE ~ WalkEnds(recs)
    <3>1. page = MaxPages
      BY <1>4, <2>4
    <3>2. IsNew(i)
      BY <1>1, <1>2, <1>8, <1>11 DEF IsNew, RowInv
    <3>3. ~ (i < Newest(seenNow'))
      BY <1>6, <1>11, <2>4, <3>1, <3>2
    <3>4. seenNow' \subseteq Ids /\ fresh' \subseteq seenNow'
      BY DEF Typed, TypeOK
    <3>5. Newest(seenNow') \in 0 .. MaxId /\ \A x \in seenNow' : x <= Newest(seenNow')
      <4>1. Ids \subseteq 0 .. MaxId
        BY Bounds
      <4>2. seenNow' \subseteq 0 .. MaxId
        BY <3>4, <4>1
      <4> QED
        BY <4>2, NewestIs
    <3>6. Newest(seenNow') \in Nat /\ Newest(seenNow') <= i
      BY <1>11, <3>3, <3>5
    <3>7. ASSUME NEW f \in fresh' PROVE f < i
      <4>1. f \in seenNow' /\ f \in Nat /\ f # i
        BY <1>11, <3>4, <3>7, IdsCount
      <4>2. f <= Newest(seenNow')
        BY <3>5, <4>1
      <4> QED
        BY <1>11, <3>6, <4>1, <4>2
    <3> QED
      BY <3>7
  <2> QED
    BY <2>3, <2>4
<1> QED
  BY <1>13, <1>15, <1>16

LEMMA PageKeeps == ASSUME FeedNeverEmpty, FeedInv, FetchPage, Typed' PROVE FeedInv'
<1>1. IdsInv' /\ OrderInv' /\ RowInv' /\ CheckInv' /\ WatermarkCovers'
  BY PageKeepsRest
<1>2. WalkInv' /\ PushInv'
  BY PageKeepsWalk
<1>3. FoundInv'
  BY <1>1, PageKeepsFound
<1> QED
  BY <1>1, <1>2, <1>3 DEF FeedInv

-----------------------------------------------------------------------------
(* The invariant holds at the start and is kept.                           *)

LEMMA FeedStart == Init => FeedInv
<1> SUFFICES ASSUME Init PROVE FeedInv
  OBVIOUS
<1>1. Typed
  BY FeedTypeStart
<1>2. /\ timeline = OldFeed /\ nextId = FirstId /\ drafts = {} /\ deletes = 0 /\ watermark = 0
      /\ recent = <<>> /\ phase = "idle" /\ page = 1 /\ fresh = {} /\ seenNow = {}
      /\ polled = FALSE /\ moved = 0
  BY DEF Init, FirstId
<1>3. FirstId \in Nat /\ 0 < FirstId /\ \A i \in Range(OldFeed) : i \in Ids /\ ~ Young(i)
  BY FirstIdIs
<1>4. IdsInv
  <2>1. \A x \in Range(OldFeed) : x < FirstId
    BY <1>3, IdsCount DEF Young
  <2> QED
    BY <1>2, <1>3, <2>1 DEF IdsInv
<1>5. \A k \in DOMAIN timeline : ~ Young(timeline[k])
  BY <1>2, <1>3 DEF Range
<1>6. OrderInv
  BY <1>5 DEF OrderInv
<1>7. RowInv
  <2>1. Len(OldFeed) \in Nat
    BY FeedAssumption
  <2>2. Range(recent) = {}
    BY <1>2 DEF Range
  <2> QED
    BY <1>2, <2>1, <2>2 DEF RowInv
<1>8. CheckInv /\ WalkInv /\ PushInv /\ FoundInv /\ WatermarkCovers
  BY <1>2 DEF CheckInv, WalkInv, PushInv, FoundInv, WatermarkCovers
<1> QED
  BY <1>1, <1>4, <1>6, <1>7, <1>8 DEF FeedInv

LEMMA FeedKeeps == FeedNeverEmpty /\ FeedInv /\ [Next]_vars => FeedInv'
<1> SUFFICES ASSUME FeedNeverEmpty, FeedInv, [Next]_vars PROVE FeedInv'
  OBVIOUS
<1>1. Typed'
  BY FeedTypeKeeps DEF FeedInv
<1>2. CASE UNCHANGED vars
  <2>1. UNCHANGED <<timeline, deletes, row, check, history, moves>> /\ UNCHANGED <<nextId, drafts>>
    BY <1>2 DEF vars, row, check, history, moves
  <2>2. UNCHANGED <<timeline, seenNow, watermark>> /\ FirstId' = FirstId
    BY <2>1 DEF row, check, FirstId, Pinned
  <2>3. IdsInv'
    BY <2>1, <2>2 DEF FeedInv, IdsInv
  <2> QED
    BY <1>1, <2>1, <2>3, NothingMovesHere
<1>3. CASE Publish
  BY <1>1, <1>3, PublishKeeps
<1>4. CASE Draft
  BY <1>1, <1>4, DraftKeeps
<1>5. ASSUME NEW d \in drafts, Release(d) PROVE FeedInv'
  BY <1>1, <1>5, ReleaseKeeps
<1>6. ASSUME NEW k \in DOMAIN timeline, Delete(k) PROVE FeedInv'
  BY <1>1, <1>6, DeleteKeeps
<1>7. CASE StartCheck
  BY <1>1, <1>7, StartKeeps
<1>8. CASE FetchNotModified
  BY <1>1, <1>8, GivingUpKeeps DEF FetchNotModified
<1>9. CASE CheckFails
  BY <1>1, <1>9, GivingUpKeeps DEF CheckFails
<1>10. CASE FetchPage
  BY <1>1, <1>10, PageKeeps
<1>11. CASE TriageOne
  BY <1>1, <1>11, TriageKeeps
<1>12. CASE FinishOk
  BY <1>1, <1>12, WritingKeeps
<1> QED
  BY <1>2, <1>3, <1>4, <1>5, <1>6, <1>7, <1>8, <1>9, <1>10, <1>11, <1>12 DEF Next, Community, Watcher

\* Whatever the feed holds at or below the watermark was there before the first
\* check, has been triaged, is left to the harvest, or was slipped past the walk by
\* the community itself: for every feed, page size, walk length and tail of recent
\* ids, with pages moving under the walk, checks that fail and processes that die
\* between triage and the mark (check_community, _finish).
THEOREM WatermarkIsHonest ==
    ASSUME FeedNeverEmpty PROVE Spec => []WatermarkCovers
<1>1. FeedInv => WatermarkCovers
  BY DEF FeedInv
<1>2. FeedInv /\ [Next]_vars => FeedInv'
  BY FeedKeeps
<1> QED
  BY <1>1, <1>2, FeedStart, PTL DEF Spec

-----------------------------------------------------------------------------
(* The archive is left alone.                                              *)

\* The first page shows the newest of the archive: it has room for a post that is not
\* pinned, and the archive is listed newest first.
ArchiveInOrder ==
    /\ Pins < PerPage
    /\ \A a, b \in DOMAIN OldFeed : a < b => OldFeed[b] <= OldFeed[a]

Late(i) == \E h \in hidden : h < i

\* The archive stays in order below the posts published since.
ArchiveOrder ==
    \A a, b \in DOMAIN timeline :
        a < b /\ ~ Young(timeline[a]) => timeline[b] <= timeline[a]

\* The first mark covers the archive, but for what a late draft stood above.
ArchiveMarked ==
    /\ polled => \A i \in old : i <= watermark \/ Late(i)
    /\ ~ polled /\ phase = "triaging" =>
         \A i \in old : (\E j \in Range(newEtag) : i <= j) \/ Late(i)
    /\ ~ polled => triaged = {}

ArchiveInv == FeedInv /\ ArchiveOrder /\ ArchiveMarked /\ ArchiveLeftAlone

LEMMA HiddenGrows == ASSUME TypeOK, [Next]_vars PROVE hidden \subseteq hidden'
<1>1. (moved' >= PerPage) \in BOOLEAN /\ Walking \in BOOLEAN /\ {} \subseteq Ids
  BY DEF Walking
<1>2. CASE Publish
  BY <1>1, <1>2, HidingType DEF Publish
<1>3. ASSUME NEW d \in drafts, Release(d) PROVE hidden \subseteq hidden'
  <2>1. (IF d + 1 < nextId THEN {d} ELSE {}) \subseteq Ids
    BY DEF TypeOK
  <2> QED
    BY <1>1, <1>3, <2>1, HidingType DEF Release
<1>4. ASSUME NEW k \in DOMAIN timeline, Delete(k) PROVE hidden \subseteq hidden'
  BY <1>1, <1>4, HidingType DEF Delete
<1>5. CASE FetchPage
  BY <1>5, PageRead
<1>6. CASE Draft \/ StartCheck \/ FetchNotModified \/ TriageOne \/ FinishOk \/ CheckFails
  BY <1>6 DEF Draft, StartCheck, FetchNotModified, TriageOne, FinishOk, CheckFails, moves
<1>7. CASE UNCHANGED vars
  BY <1>7 DEF vars
<1> QED
  BY <1>2, <1>3, <1>4, <1>5, <1>6, <1>7 DEF Next, Community, Watcher

\* A post is put on top of the archive, or one is taken out.
LEMMA ArchiveStaysInOrder == ASSUME FeedInv, ArchiveOrder, Community PROVE ArchiveOrder'
<1>1. TypeOK /\ timeline \in Seq(Ids) /\ IdsInv /\ FirstId' = FirstId
  BY DEF FeedInv, Typed, TypeOK, FirstId, Pinned
<1>2. \A x : Young(x)' <=> Young(x)
  BY <1>1 DEF Young
<1>3. ASSUME NEW i \in Ids, FirstId <= i, PutOnTop(i) PROVE ArchiveOrder'
  <2>1. /\ timeline'[1] = i /\ DOMAIN timeline' \subseteq Nat \ {0} /\ DOMAIN timeline \subseteq Nat
        /\ \A k \in DOMAIN timeline' :
             k # 1 => k - 1 \in DOMAIN timeline /\ timeline'[k] = timeline[k - 1]
    BY <1>1, <1>3, PuttingOnTop
  <2>2. Young(i)
    <3>1. i \in Nat /\ FirstId \in Nat
      BY IdsCount, FirstIdIs
    <3> QED
      BY <1>3, <3>1 DEF Young
  <2>3. ASSUME NEW a \in DOMAIN timeline', NEW b \in DOMAIN timeline', a < b,
               ~ Young(timeline'[a])
        PROVE  timeline'[b] <= timeline'[a]
    <3>1. a # 1 /\ b # 1
      BY <2>1, <2>2, <2>3
    <3>2. /\ a - 1 \in DOMAIN timeline /\ timeline'[a] = timeline[a - 1]
          /\ b - 1 \in DOMAIN timeline /\ timeline'[b] = timeline[b - 1] /\ a - 1 < b - 1
      BY <2>1, <2>3, <3>1
    <3> QED
      BY <2>3, <3>2 DEF ArchiveOrder
  <2> QED
    BY <1>2, <2>3 DEF ArchiveOrder
<1>4. CASE Publish
  <2>1. nextId \in Ids /\ PutOnTop(nextId) /\ FirstId <= nextId
    BY <1>1, <1>4 DEF Publish, IdsInv
  <2> QED
    BY <1>3, <2>1
<1>5. ASSUME NEW d \in drafts, Release(d) PROVE ArchiveOrder'
  <2>1. PutOnTop(d) /\ d \in Ids /\ d \in FirstId .. (nextId - 1)
    BY <1>1, <1>5 DEF Release, TypeOK, IdsInv
  <2>2. FirstId <= d
    BY <2>1
  <2> QED
    BY <1>3, <2>1, <2>2
<1>6. CASE Draft
  BY <1>2, <1>6 DEF Draft, ArchiveOrder
<1>7. ASSUME NEW k \in DOMAIN timeline, Delete(k) PROVE ArchiveOrder'
  <2>1. timeline' = RemoveAt(timeline, k)
    BY <1>7 DEF Delete
  <2>2. /\ \A i \in DOMAIN timeline' :
             PlaceBefore(k, i) \in DOMAIN timeline /\ timeline'[i] = timeline[PlaceBefore(k, i)]
        /\ \A i, j \in DOMAIN timeline' : i < j => PlaceBefore(k, i) < PlaceBefore(k, j)
    BY SMTT(30), <1>1, <2>1, TakenOut
  <2>3. ASSUME NEW a \in DOMAIN timeline', NEW b \in DOMAIN timeline', a < b,
               ~ Young(timeline'[a])
        PROVE  timeline'[b] <= timeline'[a]
    <3>1. /\ PlaceBefore(k, a) \in DOMAIN timeline /\ PlaceBefore(k, b) \in DOMAIN timeline
          /\ PlaceBefore(k, a) < PlaceBefore(k, b)
          /\ timeline'[a] = timeline[PlaceBefore(k, a)] /\ timeline'[b] = timeline[PlaceBefore(k, b)]
      BY <2>2, <2>3
    <3> QED
      BY <2>3, <3>1 DEF ArchiveOrder
  <2> QED
    BY <1>2, <2>3 DEF ArchiveOrder
<1> QED
  BY <1>4, <1>5, <1>6, <1>7 DEF Community

\* The page the first check reads shows a post as new as any of the archive.
LEMMA FirstPageIsNewest ==
    ASSUME ArchiveInOrder, FeedInv, ArchiveOrder, page = 1, NEW i \in InFeed, ~ Late(i)
    PROVE  \E j \in Range(PageOf(Feed, 1)) : i <= j
<1> DEFINE recs == PageOf(Feed, 1)
<1>1. Typed /\ OrderInv
  BY DEF FeedInv
<1>2. /\ timeline \in Seq(Ids) /\ DOMAIN timeline \subseteq Nat \ {0} /\ Range(timeline) \subseteq Ids
      /\ Len(timeline) \in Nat
  BY <1>1, TypesGive
<1>3. /\ \A k \in DOMAIN timeline : OnPage(1, k) => timeline[k] \in Range(recs)
      /\ \A j \in DOMAIN PinnedFeed :
           Ahead(1) < j /\ j <= Ahead(1) + PerPage => PinnedFeed[j] \in Range(recs)
  BY <1>2, PageIs
<1>4. /\ InFeed = Pinned \cup Range(timeline) /\ InFeed \subseteq Ids /\ Pins \in Nat
      /\ DOMAIN timeline = 1 .. Len(timeline)
      /\ \A x \in Range(timeline) : \E k \in DOMAIN timeline : timeline[k] = x
      /\ \A k \in DOMAIN timeline : timeline[k] \in Range(timeline)
  BY <1>2, FeedIs
<1>5. Ahead(1) = 0 /\ PerPage \in Nat /\ Pins < PerPage
  BY Paging DEF ArchiveInOrder
<1>6. i \in Nat
  BY <1>4, IdsCount
<1> HIDE DEF recs
<1>7. CASE i \in Pinned
  <2>1. PICK j \in DOMAIN PinnedFeed : PinnedFeed[j] = i
    BY <1>7 DEF Pinned, Range
  <2>2. 0 < j /\ j <= Pins /\ j \in Nat
    BY <2>1, FeedAssumption DEF Pins
  <2>3. i \in Range(recs)
    BY <1>3, <1>4, <1>5, <2>1, <2>2
  <2> QED
    BY <1>6, <2>3 DEF recs
<1>8. CASE i \in Range(timeline)
  <2>1. PICK k \in DOMAIN timeline : timeline[k] = i
    BY <1>4, <1>8
  <2>2. 1 \in DOMAIN timeline /\ (k = 1 \/ 1 < k)
    BY <1>2, <1>4, <2>1
  <2>3. OnPage(1, 1)
    BY <1>4, <1>5 DEF OnPage
  <2>4. timeline[1] \in Range(recs) /\ timeline[1] \in Nat
    <3>1. timeline[1] \in Ids
      BY <1>2, <2>2
    <3> QED
      BY <1>3, <2>2, <2>3, <3>1, IdsCount
  <2>5. i <= timeline[1]
    <3>1. SUFFICES ASSUME 1 < k PROVE i <= timeline[1]
      BY <1>6, <2>1, <2>2
    <3>2. CASE ~ Young(timeline[1])
      BY <2>1, <2>2, <3>1, <3>2 DEF ArchiveOrder
    <3>3. CASE Young(timeline[1]) /\ timeline[1] \notin hidden
      <4>1. i < timeline[1]
        BY <1>1, <2>1, <2>2, <3>1, <3>3 DEF OrderInv
      <4> QED
        BY <1>6, <2>4, <4>1
    <3>4. CASE timeline[1] \in hidden
      <4>1. ~ (timeline[1] < i)
        BY <3>4 DEF Late
      <4> QED
        BY <1>6, <2>4, <4>1
    <3> QED
      BY <3>2, <3>3, <3>4
  <2> QED
    BY <2>4, <2>5 DEF recs
<1> QED
  BY <1>4, <1>7, <1>8

LEMMA ArchiveKeeps ==
    ASSUME FeedNeverEmpty, ArchiveInOrder, ArchiveInv, [Next]_vars PROVE ArchiveInv'
<1>1. FeedInv'
  BY FeedKeeps DEF ArchiveInv
<1>2. /\ FeedInv /\ Typed /\ TypeOK /\ RowInv /\ CheckInv /\ ArchiveOrder /\ ArchiveMarked
      /\ ArchiveLeftAlone
  BY DEF ArchiveInv, FeedInv, Typed
<1>3. hidden \subseteq hidden' /\ \A i : Late(i) => Late(i)'
  <2>1. hidden \subseteq hidden'
    BY <1>2, HiddenGrows
  <2> QED
    BY <2>1 DEF Late
<1>4. ArchiveLeftAlone <=> (polled => \A i \in triaged \cap old : Late(i))
  BY DEF ArchiveLeftAlone, Late
<1>5. ArchiveLeftAlone' <=> (polled' => \A i \in triaged' \cap old' : Late(i)')
  BY DEF ArchiveLeftAlone, Late
<1>6. ASSUME UNCHANGED timeline PROVE ArchiveOrder'
  <2>1. \A x : Young(x)' <=> Young(x)
    BY DEF Young, FirstId, Pinned
  <2> QED
    BY <1>2, <1>6, <2>1 DEF ArchiveOrder
\* A step that leaves what was read, triaged and marked as it was.
<1>7. ASSUME UNCHANGED <<watermark, triaged, polled, old>>,
             phase' # "triaging" \/ UNCHANGED <<phase, newEtag>>
      PROVE  ArchiveMarked' /\ ArchiveLeftAlone'
  <2>1. ArchiveMarked'
    BY <1>2, <1>3, <1>7 DEF ArchiveMarked
  <2>2. ArchiveLeftAlone'
    BY <1>2, <1>3, <1>4, <1>5, <1>7
  <2> QED
    BY <2>1, <2>2
<1>8. CASE Community
  <2>1. UNCHANGED <<row, check, history>>
    BY <1>8 DEF Community, Publish, Draft, Release, Delete
  <2>2. UNCHANGED <<watermark, triaged, polled, old, phase, newEtag>>
    BY <2>1 DEF row, check, history
  <2> QED
    BY <1>1, <1>2, <1>7, <1>8, <2>2, ArchiveStaysInOrder DEF ArchiveInv
<1>9. CASE StartCheck \/ FetchNotModified \/ CheckFails
  <2>1. UNCHANGED <<circle, row, history>> /\ phase' # "triaging"
    BY <1>9 DEF StartCheck, FetchNotModified, CheckFails, Forget
  <2>2. UNCHANGED <<timeline, watermark, triaged, polled, old>>
    BY <2>1 DEF circle, row, history
  <2> QED
    BY <1>1, <1>6, <1>7, <2>1, <2>2 DEF ArchiveInv
<1>10. CASE UNCHANGED vars
  <2>1. UNCHANGED <<timeline, watermark, triaged, polled, old, phase, newEtag>>
    BY <1>10 DEF vars
  <2> QED
    BY <1>1, <1>6, <1>7, <2>1 DEF ArchiveInv
<1>11. CASE TriageOne
  <2>1. /\ UNCHANGED <<timeline, watermark, polled, old, phase, newEtag>>
        /\ triaged' = triaged \cup {Min(fresh \ triaged)} /\ fresh \ triaged # {}
    BY <1>11 DEF TriageOne, circle, row, check
  <2>2. fresh \subseteq Ids /\ Ids \subseteq Nat /\ watermark \in Nat /\ old \subseteq Ids
    BY <1>2, TypesGive, IdsCount DEF TypeOK
  <2>3. fresh \ triaged \subseteq Nat
    BY <2>2
  <2>4. Min(fresh \ triaged) \in fresh
    BY <2>1, <2>3, MinIsLeast
  <2>5. polled
    BY <1>2, <2>1 DEF RowInv
  <2>6. Min(fresh \ triaged) \in old => Late(Min(fresh \ triaged))
    <3>1. watermark < Min(fresh \ triaged) /\ Min(fresh \ triaged) \in Nat
      BY <1>2, <2>2, <2>4 DEF CheckInv
    <3>2. ~ (Min(fresh \ triaged) <= watermark)
      BY <2>2, <3>1
    <3> QED
      BY <1>2, <2>5, <3>2 DEF ArchiveMarked
  <2>7. ArchiveMarked'
    BY <1>2, <1>3, <2>1, <2>5 DEF ArchiveMarked
  <2>8. ArchiveLeftAlone'
    BY <1>2, <1>3, <1>4, <1>5, <2>1, <2>5, <2>6
  <2> QED
    BY <1>1, <1>6, <2>1, <2>7, <2>8 DEF ArchiveInv
<1>12. CASE FinishOk
  <2>1. UNCHANGED <<timeline, triaged, old>> /\ polled' = TRUE /\ phase = "triaging"
    BY <1>12 DEF FinishOk, circle
  <2>2. /\ watermark <= watermark' /\ watermark' \in Ids
        /\ ~ polled => \A j \in Range(newEtag) : j <= watermark'
    BY <1>2, <1>12, FinishMarks
  <2>3. /\ old \subseteq Ids /\ watermark \in Nat /\ polled \in BOOLEAN
        /\ phase = "triaging" => newEtag \in Seq(Ids)
    BY <1>2, TypesGive DEF TypeOK, Typed, PageIsTagged
  <2>4. watermark' \in Nat /\ \A i \in old : i \in Nat
    BY <2>2, <2>3, IdsCount
  <2>5. Range(newEtag) \subseteq Nat
    <3>1. Range(newEtag) \subseteq Ids
      BY <2>1, <2>3 DEF Range
    <3> QED
      BY <3>1, IdsCount
  <2>6. \A i \in old : i <= watermark' \/ Late(i)
    <3>1. CASE polled
      BY <1>2, <2>2, <2>3, <2>4, <3>1 DEF ArchiveMarked
    <3>2. CASE ~ polled
      BY <1>2, <2>1, <2>2, <2>4, <2>5, <3>2 DEF ArchiveMarked
    <3> QED
      BY <2>3, <3>1, <3>2
  <2>7. ArchiveMarked'
    BY <1>3, <2>1, <2>6 DEF ArchiveMarked
  <2>8. ~ polled => triaged = {}
    BY <1>2 DEF ArchiveMarked
  <2>9. ArchiveLeftAlone'
    BY <1>2, <1>3, <1>4, <1>5, <2>1, <2>3, <2>8
  <2> QED
    BY <1>1, <1>6, <2>1, <2>7, <2>9 DEF ArchiveInv
<1>13. CASE FetchPage
  <2> DEFINE recs == PageOf(Feed, page)
  <2>1. /\ UNCHANGED <<timeline, watermark, triaged, polled>> /\ phase = "fetching"
        /\ newEtag' = (IF page = 1 THEN recs ELSE newEtag)
        /\ old' = (IF polled THEN old ELSE InFeed)
    BY <1>13, PageRead
  <2>2. polled \in BOOLEAN
    BY <1>2, TypesGive
  <2>3. CASE polled
    <3>1. ArchiveMarked'
      BY <1>2, <1>3, <2>1, <2>3 DEF ArchiveMarked
    <3>2. ArchiveLeftAlone'
      BY <1>2, <1>3, <1>4, <1>5, <2>1, <2>3
    <3> QED
      BY <1>1, <1>6, <2>1, <3>1, <3>2 DEF ArchiveInv
  <2>4. CASE ~ polled
    <3>1. page = 1 /\ triaged = {}
      BY <1>2, <2>4 DEF RowInv, ArchiveMarked
    <3>2. newEtag' = PageOf(Feed, 1) /\ old' = InFeed
      BY <2>1, <2>4, <3>1
    <3>3. \A i \in InFeed : (\E j \in Range(PageOf(Feed, 1)) : i <= j) \/ Late(i)
      BY <1>2, <3>1, FirstPageIsNewest
    <3>4. \A i \in old' : (\E j \in Range(newEtag') : i <= j) \/ Late(i)'
      BY <1>3, <3>2, <3>3
    <3>5. ArchiveMarked'
      BY <2>1, <2>4, <3>1, <3>4 DEF ArchiveMarked
    <3>6. ArchiveLeftAlone'
      BY <1>5, <2>1, <2>4
    <3> QED
      BY <1>1, <1>6, <2>1, <3>5, <3>6 DEF ArchiveInv
  <2> QED
    BY <2>2, <2>3, <2>4
<1> QED
  BY <1>8, <1>9, <1>10, <1>11, <1>12, <1>13 DEF Next, Watcher

\* What the feed held at the first check is never triaged by the watcher, unless a
\* late draft or a move of the community had put an earlier post above it: for every
\* archive that is listed newest first and leaves room for a post on its first page
\* (check_community, "the first pass only writes the watermark").
THEOREM ArchiveIsLeft ==
    ASSUME FeedNeverEmpty, ArchiveInOrder PROVE Spec => []ArchiveLeftAlone
<1>1. ArchiveInv => ArchiveLeftAlone
  BY DEF ArchiveInv
<1>2. Init => ArchiveInv
  <2> SUFFICES ASSUME Init PROVE ArchiveInv
    OBVIOUS
  <2>1. FeedInv
    BY FeedStart
  <2>2. timeline = OldFeed /\ polled = FALSE /\ phase = "idle" /\ triaged = {}
    BY DEF Init
  <2>3. ArchiveOrder
    BY <2>2 DEF ArchiveOrder, ArchiveInOrder
  <2> QED
    BY <2>1, <2>2, <2>3 DEF ArchiveInv, ArchiveMarked, ArchiveLeftAlone
<1>3. ArchiveInv /\ [Next]_vars => ArchiveInv'
  BY ArchiveKeeps
<1> QED
  BY <1>1, <1>2, <1>3, PTL DEF Spec

=============================================================================

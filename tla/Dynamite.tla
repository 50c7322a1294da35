------------------------------ MODULE Dynamite ------------------------------
(***************************************************************************)
(* The two-hourly read of Dynamite Circle, and the Firebase session it     *)
(* signs in with (circle_leads/scraper/dynamite.py: save_session,          *)
(* _seal_if_needed, load_session, refresh_access, run_scheduled, _due,     *)
(* _fetch_rooms, _fetch_messages; cli/main.py: the dynamite stage of the   *)
(* maintenance pass, dynamite-session, dynamite-read).                     *)
(*                                                                         *)
(* Nothing keeps dynamite-read from running beside the pass, so there may  *)
(* be several readers.  A refresh token is its number in the order Google  *)
(* issued them.  Google may answer a refresh with a new one, and the one   *)
(* it was asked with is then spent, whether or not the answer arrives.  A  *)
(* person may paste a new session at any moment.                           *)
(***************************************************************************)
EXTENDS Naturals, FiniteSets

CONSTANTS
    Readers,       \* processes that read Dynamite Circle
    RoomLimit,     \* limit: discussions of a read
    Interval,      \* INTERVAL, in ticks
    RetryAfter,    \* RETRY_AFTER_INTERRUPT_MINUTES, in ticks
    MaxTokens      \* bound on the tokens Google issues

ASSUME DynamiteAssumption ==
    /\ RoomLimit \in Nat /\ MaxTokens \in Nat /\ Interval \in Nat /\ RetryAfter \in 1..Interval

VARIABLES
    token, sealed, \* SESSION_KEY: the token (0: nothing), and whether encrypted
    spent,         \* the tokens Google no longer takes
    issued,        \* the tokens it has issued
    sinceRun,      \* ticks since dynamite_last_run; Interval also for longer, or never
    readDone,      \* dynamite_last_finish is not older than dynamite_last_run
    readError,     \* dynamite_last_error was written last
    dyn,           \* per reader: where run_scheduled is
    keyed,         \* per reader: its process has CIRCLE_CRED_KEY
    held, granted,   \* per reader: the token it loaded, and the one Google answered with
    roomsLeft,     \* per reader: discussions listed and not yet read
    lost,          \* history: spent tokens whose successor never got to the setting
    sealedBack     \* history: tokens a reader sealed after another had spent them

sessionVars == <<token, sealed, spent, issued>>
clockVars == <<sinceRun, readDone, readError>>
dynVars == <<dyn, keyed, held, granted, roomsLeft>>
strandVars == <<lost, sealedBack>>
dynamiteVars == <<sessionVars, clockVars, dynVars, strandVars>>

DynamiteInit ==
    /\ token = 0 /\ sealed = FALSE /\ spent = {} /\ issued = 0
    /\ sinceRun = Interval /\ readDone = FALSE /\ readError = FALSE
    /\ dyn = [r \in Readers |-> "rest"] /\ keyed = [r \in Readers |-> FALSE]
    /\ held = [r \in Readers |-> 0] /\ granted = held /\ roomsLeft = held
    /\ lost = {} /\ sealedBack = {}

\* dynamite-session, on a machine with the encryption key or without.
SaveSession ==
    /\ issued < MaxTokens /\ issued' = issued + 1 /\ token' = issued'
    /\ sealed' \in BOOLEAN
    /\ UNCHANGED <<spent, clockVars, dynVars, strandVars>>

DynamiteTick ==
    /\ sinceRun < Interval /\ sinceRun' = sinceRun + 1
    /\ UNCHANGED <<sessionVars, readDone, readError, dynVars, strandVars>>

-----------------------------------------------------------------------------
(* One reader.                                                             *)

Turns(r, from, to) == dyn[r] = from /\ dyn' = [dyn EXCEPT ![r] = to]

\* It is through, and forgets what it had.
Leaves(r) ==
    /\ dyn' = [dyn EXCEPT ![r] = "rest"] /\ keyed' = [keyed EXCEPT ![r] = FALSE]
    /\ held' = [held EXCEPT ![r] = 0] /\ granted' = [granted EXCEPT ![r] = 0]
    /\ roomsLeft' = [roomsLeft EXCEPT ![r] = 0]

\* load_session: an encrypted session is none where there is no key.
LoadSession(r) ==
    /\ token # 0 /\ Turns(r, "rest", "seal") /\ held' = [held EXCEPT ![r] = token]
    /\ \E k \in BOOLEAN : (sealed => k) /\ keyed' = [keyed EXCEPT ![r] = k]
    /\ UNCHANGED <<sessionVars, clockVars, granted, roomsLeft, strandVars>>

\* _seal_if_needed looks at the setting again, and then writes what was loaded.
FindPlain(r) ==
    /\ Turns(r, "seal", IF keyed[r] /\ ~sealed THEN "sealing" ELSE "due")
    /\ UNCHANGED <<sessionVars, clockVars, keyed, held, granted, roomsLeft, strandVars>>
Seal(r) ==
    /\ Turns(r, "sealing", "due") /\ token' = held[r] /\ sealed' = TRUE
    /\ sealedBack' = sealedBack \cup ({held[r]} \cap spent)
    /\ UNCHANGED <<spent, issued, clockVars, keyed, held, granted, roomsLeft, lost>>

ReadDue == sinceRun >= Interval \/ (~readDone /\ sinceRun >= RetryAfter)

\* _due, or --force; the start is recorded before any work.
Starts(r, force) ==
    /\ dyn[r] = "due"
    /\ IF force \/ ReadDue
       THEN Turns(r, "due", "refresh") /\ sinceRun' = 0 /\ readDone' = FALSE
            /\ UNCHANGED <<keyed, held, granted, roomsLeft>>
       ELSE Leaves(r) /\ UNCHANGED <<sinceRun, readDone>>
    /\ UNCHANGED <<sessionVars, readError, strandVars>>

\* run_scheduled raises, and the stage records it; dynamite-read does not.
Raises(r) ==
    /\ Leaves(r) /\ readError' \in {readError, TRUE}
    /\ UNCHANGED <<token, sealed, sinceRun, readDone, sealedBack>>

Rotates(r) ==
    /\ issued < MaxTokens /\ issued' = issued + 1 /\ spent' = spent \cup {held[r]}

\* A spent token is refused; any other may be, and any call may fail.
RefreshFails(r) ==
    /\ dyn[r] = "refresh" /\ Raises(r)
    /\ UNCHANGED <<issued, spent, lost>>

\* Google rotates, and the answer is lost on the way or cannot be read.
AnswerLost(r) ==
    /\ dyn[r] = "refresh" /\ held[r] \notin spent
    /\ Rotates(r) /\ lost' = lost \cup {held[r]} /\ Raises(r)

\* Mutant: the read comes first, and the new token is saved with its result.
RotatesUnsaved(r) ==
    /\ held[r] \notin spent /\ Turns(r, "refresh", "rooms")
    /\ \/ UNCHANGED <<issued, spent, granted>>
       \/ Rotates(r) /\ granted' = [granted EXCEPT ![r] = issued']
    /\ UNCHANGED <<token, sealed, clockVars, keyed, held, roomsLeft, strandVars>>

RefreshAnswers(r) ==
    /\ held[r] \notin spent
    /\ \/ Turns(r, "refresh", "rooms") /\ UNCHANGED <<issued, spent, granted>>
       \/ Turns(r, "refresh", "save") /\ Rotates(r) /\ granted' = [granted EXCEPT ![r] = issued']
    /\ UNCHANGED <<token, sealed, clockVars, keyed, held, roomsLeft, strandVars>>

SaveRotated(r) ==
    /\ Turns(r, "save", "rooms") /\ token' = granted[r] /\ sealed' = keyed[r]
    /\ UNCHANGED <<spent, issued, clockVars, keyed, held, granted, roomsLeft, strandVars>>

\* set_setting() raises.
SaveFails(r) ==
    /\ dyn[r] = "save" /\ lost' = lost \cup {held[r]} /\ Raises(r)
    /\ UNCHANGED <<issued, spent>>

ListRooms(r) ==
    /\ \E n \in 0 .. RoomLimit :
         /\ Turns(r, "rooms", IF n = 0 THEN "triage" ELSE "messages")
         /\ roomsLeft' = [roomsLeft EXCEPT ![r] = n]
    /\ UNCHANGED <<sessionVars, clockVars, keyed, held, granted, strandVars>>

\* The replies of one discussion; where they cannot be read its opening post
\* still counts.
ReadRoom(r) ==
    /\ Turns(r, "messages", IF roomsLeft[r] = 1 THEN "triage" ELSE "messages")
    /\ roomsLeft' = [roomsLeft EXCEPT ![r] = @ - 1]
    /\ UNCHANGED <<sessionVars, clockVars, keyed, held, granted, strandVars>>

\* The query fails, the id token is refused, or triage raises.
ReadFails(r) ==
    /\ dyn[r] \in {"rooms", "messages", "triage"} /\ Raises(r)
    /\ UNCHANGED <<issued, spent, lost>>

\* triage_records() and record_stage_finish().
TriageRooms(r) ==
    /\ Turns(r, "triage", "finish")
    /\ UNCHANGED <<sessionVars, clockVars, keyed, held, granted, roomsLeft, strandVars>>
RecordFinish(r) ==
    /\ dyn[r] = "finish" /\ Leaves(r) /\ readDone' = TRUE /\ readError' = FALSE
    /\ UNCHANGED <<sessionVars, sinceRun, strandVars>>

\* The process ends where it is.  Between Google's answer and the save the new
\* token goes with it.
ReaderKilled(r) ==
    /\ dyn[r] # "rest" /\ Leaves(r)
    /\ lost' = IF dyn[r] = "save" THEN lost \cup {held[r]} ELSE lost
    /\ UNCHANGED <<sessionVars, clockVars, sealedBack>>

DynamiteRead(r) ==
    \/ LoadSession(r) \/ FindPlain(r) \/ Seal(r) \/ (\E force \in BOOLEAN : Starts(r, force))
    \/ RefreshFails(r) \/ AnswerLost(r) \/ RefreshAnswers(r) \/ SaveRotated(r) \/ SaveFails(r)
    \/ ListRooms(r) \/ ReadRoom(r) \/ ReadFails(r) \/ TriageRooms(r) \/ RecordFinish(r)
    \/ ReaderKilled(r)
DynamiteNext == (\E r \in Readers : DynamiteRead(r)) \/ SaveSession \/ DynamiteTick

DynamiteSpec == DynamiteInit /\ [][DynamiteNext]_dynamiteVars

-----------------------------------------------------------------------------
(* Properties.                                                             *)

\* "The refresh token is saved as soon as Google rotates it, before the read,
\* so a later error does not strand the new token" (run_scheduled): a stored
\* token is one Google still takes, however reads ended and whatever was pasted
\* or sealed meanwhile, unless the reader that spent it is about to save what
\* it got for it, that answer never got to the setting (it was lost, the save
\* failed, or the reader was killed before it), or another reader, which had
\* loaded it before, has sealed it since.
TokenNotStranded ==
    token \in spent =>
        \/ token \in lost \cup sealedBack
        \/ \E r \in Readers : dyn[r] = "save" /\ held[r] = token

=============================================================================

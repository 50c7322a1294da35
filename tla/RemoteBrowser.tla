--------------------------- MODULE RemoteBrowser ---------------------------
(***************************************************************************)
(* The browser that lives on the server: request threads hand closures to  *)
(* one browser thread, which alone may touch Playwright                    *)
(* (circle_leads/remote_browser/session.py).                               *)
(*                                                                         *)
(* A caller takes the worker under the lock and queues its closure after   *)
(* releasing it; start and stop run on the worker and hold the lock; stop  *)
(* then retires the worker with a sentinel.  The interleavings of those    *)
(* steps are the subject: what a page shows is the site's choice.          *)
(***************************************************************************)
EXTENDS Naturals, FiniteSets, Sequences

CONSTANTS
    Callers,     \* request threads of the web server
    MaxThreads,  \* bound: browser threads ever made; 1 .. MaxThreads
    MaxCalls     \* bound: calls ever made

ASSUME RemoteBrowserAssumption == MaxThreads \in Nat \ {0} /\ MaxCalls \in Nat

Threads == 1 .. MaxThreads
None == 0
Ops == {"start", "stop", "touch", "navigate", "refresh", "fetch"}
\* The sentinel among the closures of a thread.
Sentinel == [who |-> None, op |-> "end", n |-> 0]

\* SessionState, without "stopped" and "starting": what a page can show.
Screens == {"awaiting_login", "authenticated", "challenged", "error"}

VARIABLES
    worker,    \* RemoteBrowser._worker, a thread or None
    alive,     \* the browser threads made whose _serve has not returned
    made,      \* how many threads were made
    calls,     \* _BrowserThread._calls of each thread
    at,        \* how far a thread is: "idle", "begin", "launch", "goto", "touch"
    job,       \* the closure it runs
    lock,      \* the thread inside _start_locked or _stop_locked, or None
    ctx, pw,   \* the thread whose context, whose driver, _ctx and _pw hold
    chromium,  \* the threads whose Chromium runs
    driver,    \* the threads whose Playwright driver runs
    state,     \* status.state
    pc,        \* of a caller: "out", "take", "put", "wait", "swap", "retire"
    op, hand, ticket, \* its call, the worker it took and the number of the call
    begun      \* calls made so far

browser == <<ctx, pw, chromium, driver>>
threadVars == <<alive, made, calls, at, job, lock>>
callerVars == <<pc, op, hand, ticket, begun>>
remoteVars == <<worker, threadVars, browser, state, callerVars>>

RemoteInit ==
    /\ worker = None /\ alive = {} /\ made = 0 /\ lock = None
    /\ calls = [t \in Threads |-> <<>>]
    /\ at = [t \in Threads |-> "idle"] /\ job = [t \in Threads |-> Sentinel]
    /\ ctx = None /\ pw = None /\ chromium = {} /\ driver = {} /\ state = "stopped"
    /\ pc = [c \in Callers |-> "out"] /\ op = [c \in Callers |-> "start"]
    /\ hand = [c \in Callers |-> None] /\ ticket = [c \in Callers |-> 0] /\ begun = 0

-----------------------------------------------------------------------------
(* The callers.                                                            *)

\* Reads self._worker and self._ctx without the lock: stop with no worker and
\* refresh with no browser only say "stopped".
Call(c, o) ==
    /\ pc[c] = "out" /\ begun < MaxCalls /\ begun' = begun + 1
    /\ LET nothing == (o = "stop" /\ worker = None) \/ (o = "refresh" /\ ctx = None) IN
       /\ state' = IF nothing THEN "stopped" ELSE state
       /\ pc' = [pc EXCEPT ![c] = IF nothing THEN "out" ELSE "take"]
    /\ op' = [op EXCEPT ![c] = o] /\ ticket' = [ticket EXCEPT ![c] = begun']
    /\ UNCHANGED <<worker, threadVars, browser, hand>>

\* _submit, under the lock: the worker there is, or a new one.
Take(c) ==
    /\ pc[c] = "take" /\ lock = None
    /\ IF worker = None
       THEN /\ made < MaxThreads /\ made' = made + 1
            /\ worker' = made' /\ alive' = alive \cup {made'}
       ELSE UNCHANGED <<worker, made, alive>>
    /\ hand' = [hand EXCEPT ![c] = worker'] /\ pc' = [pc EXCEPT ![c] = "put"]
    /\ UNCHANGED <<calls, at, job, lock, browser, state, op, ticket, begun>>

\* worker.call, outside the lock.
Put(c) ==
    /\ pc[c] = "put"
    /\ calls' = [calls EXCEPT ![hand[c]] = Append(@, [who |-> c, op |-> op[c], n |-> ticket[c]])]
    /\ pc' = [pc EXCEPT ![c] = "wait"]
    /\ UNCHANGED <<worker, alive, made, at, job, lock, browser, state, op, hand, ticket, begun>>

\* done.wait ran out: the closure stays where it is.
GiveUp(c) ==
    /\ pc[c] = "wait" /\ pc' = [pc EXCEPT ![c] = "out"]
    /\ UNCHANGED <<worker, threadVars, browser, state, op, hand, ticket, begun>>

\* Mutant: the worker is told to end before it is taken off.
SwapLate(c) ==
    /\ pc[c] = "swap" /\ worker # None
    /\ calls' = [calls EXCEPT ![worker] = Append(@, Sentinel)]
    /\ hand' = [hand EXCEPT ![c] = worker] /\ pc' = [pc EXCEPT ![c] = "retire"]
    /\ UNCHANGED <<worker, alive, made, at, job, lock, browser, state, op, ticket, begun>>

\* stop, after its closure: the worker is taken off under the lock ...
Swap(c) ==
    /\ pc[c] = "swap" /\ lock = None
    /\ hand' = [hand EXCEPT ![c] = worker] /\ worker' = None
    /\ pc' = [pc EXCEPT ![c] = IF worker = None THEN "out" ELSE "retire"]
    /\ UNCHANGED <<threadVars, browser, state, op, ticket, begun>>

\* ... and retired outside it.  The wait of ten seconds decides nothing.
Shutdown(c) ==
    /\ pc[c] = "retire"
    /\ calls' = [calls EXCEPT ![hand[c]] = Append(@, Sentinel)]
    /\ pc' = [pc EXCEPT ![c] = "out"]
    /\ UNCHANGED <<worker, alive, made, at, job, lock, browser, state, op, hand, ticket, begun>>

-----------------------------------------------------------------------------
(* The browser threads.                                                    *)

\* A closure that ends, well or not, wakes the caller that still waits for it;
\* _stop_locked cannot fail, and its caller goes on to the swap.
Ends(t) ==
    /\ at' = [at EXCEPT ![t] = "idle"]
    /\ LET j == job[t]
           waits == {c \in Callers : c = j.who /\ pc[c] = "wait" /\ ticket[c] = j.n} IN
       pc' = [c \in Callers |->
                IF c \notin waits THEN pc[c] ELSE IF j.op = "stop" THEN "swap" ELSE "out"]
    /\ UNCHANGED <<worker, alive, made, calls, job, op, hand, ticket, begun>>

Goes(t, where) ==
    at' = [at EXCEPT ![t] = where] /\ UNCHANGED <<worker, alive, made, calls, job, callerVars>>

NextCall(t) ==
    /\ t \in alive /\ at[t] = "idle" /\ calls[t] # <<>>
    /\ job' = [job EXCEPT ![t] = Head(calls[t])]
    /\ calls' = [calls EXCEPT ![t] = Tail(@)]
    /\ IF Head(calls[t]) = Sentinel
       THEN alive' = alive \ {t} /\ UNCHANGED at
       ELSE at' = [at EXCEPT ![t] = "begin"] /\ UNCHANGED alive
    /\ UNCHANGED <<worker, made, lock, browser, state, callerVars>>

\* _start_locked: the browser there is, or a driver of its own.  A second
\* driver beside one of the same thread is refused by Playwright.
StartBegins(t) ==
    /\ at[t] = "begin" /\ job[t].op = "start" /\ lock = None
    /\ \/ /\ ctx # None /\ lock' = t /\ Goes(t, "goto") /\ UNCHANGED <<browser, state>>
       \/ /\ ctx = None /\ t \notin driver /\ lock' = t /\ Goes(t, "launch")
          /\ state' = "starting" /\ pw' = t /\ driver' = driver \cup {t}
          /\ UNCHANGED <<ctx, chromium>>
       \/ /\ ctx = None /\ t \in driver
          /\ state' = "starting" /\ Ends(t) /\ UNCHANGED <<lock, browser>>

\* Two Chromiums cannot share the profile; a launch can also just fail, and
\* leaves the driver behind it.
Launch(t) ==
    /\ at[t] = "launch"
    /\ \/ /\ chromium = {} /\ chromium' = {t} /\ ctx' = t
          /\ Goes(t, "goto") /\ UNCHANGED <<lock, pw, driver, state>>
       \/ lock' = None /\ Ends(t) /\ UNCHANGED <<browser, state>>

\* What _classify finds on the screen; from another thread than the one that
\* opened the page it cannot look.
Seen(t) == IF ctx = t THEN Screens ELSE {"error"}

\* start with a host goes there; without one it waits for a login.  A page
\* that does not load leaves the state as it was.
StartGoes(t) ==
    /\ at[t] = "goto" /\ job[t].op = "start" /\ lock' = None /\ Ends(t)
    /\ \/ state' = "awaiting_login"
       \/ ctx = t /\ state' \in Seen(t)
       \/ UNCHANGED state
    /\ UNCHANGED browser

\* _stop_locked closes what this thread opened; an error of closing is
\* passed over, and the references are dropped all the same.
Stops(t) ==
    /\ at[t] = "begin" /\ job[t].op = "stop" /\ lock = None
    /\ chromium' = IF t \in {ctx, pw} THEN chromium \ {t} ELSE chromium
    /\ driver' = IF pw = t THEN driver \ {t} ELSE driver
    /\ ctx' = None /\ pw' = None /\ state' = "stopped"
    /\ Ends(t) /\ UNCHANGED lock

\* The other closures look first whether a browser runs; no lock is held.
LooksFirst(t) ==
    /\ at[t] = "begin" /\ job[t].op \notin {"start", "stop"}
    /\ IF ctx # None
       THEN Goes(t, "touch") /\ UNCHANGED state
       ELSE Ends(t) /\ state' = IF job[t].op = "refresh" THEN "stopped" ELSE state
    /\ UNCHANGED <<lock, browser>>

\* A click, a key or a screenshot changes no state of ours.
Touches(t) ==
    /\ at[t] = "touch" /\ job[t].op = "touch" /\ Ends(t)
    /\ UNCHANGED <<lock, browser, state>>

\* navigate goes to the host first: that fails from another thread and when
\* the page does not load.  refresh only looks.
Looks(t) ==
    /\ at[t] = "touch" /\ job[t].op \in {"navigate", "refresh"} /\ Ends(t)
    /\ \/ job[t].op = "navigate" /\ UNCHANGED state
       \/ (job[t].op = "refresh" \/ ctx = t) /\ state' \in Seen(t)
    /\ UNCHANGED <<lock, browser>>

\* fetch_json: signed out, a wall, or any other answer.
Fetches(t) ==
    /\ at[t] = "touch" /\ job[t].op = "fetch" /\ Ends(t)
    /\ \/ ctx = t /\ state' \in {"awaiting_login", "challenged"}
       \/ UNCHANGED state
    /\ UNCHANGED <<lock, browser>>

BrowserThread(t) ==
    \/ NextCall(t) \/ StartBegins(t) \/ Launch(t) \/ StartGoes(t) \/ Stops(t)
    \/ LooksFirst(t) \/ Touches(t) \/ Looks(t) \/ Fetches(t)

Caller(c) ==
    \/ \E o \in Ops : Call(c, o)
    \/ Take(c) \/ Put(c) \/ GiveUp(c) \/ Swap(c) \/ Shutdown(c)

RemoteNext ==
    \/ \E c \in Callers : Caller(c)
    \/ \E t \in Threads : BrowserThread(t)

RemoteSpec ==
    /\ RemoteInit /\ [][RemoteNext]_remoteVars
    /\ \A t \in Threads : WF_remoteVars(BrowserThread(t))

-----------------------------------------------------------------------------
(* Safety.                                                                  *)

\* Who takes the worker there is, under the lock, takes one that still serves:
\* no thread is told to end while it can be taken, whoever else stops, starts
\* or gave up waiting (_submit and stop, session.py 218-224 and 257-267).
WorkerServes ==
    worker # None =>
        /\ worker \in alive
        /\ \A k \in DOMAIN calls[worker] : calls[worker][k] # Sentinel

=============================================================================

----------------------------- MODULE Connector -----------------------------
(***************************************************************************)
(* The local connector and its backend: pairing, the worklist, and one     *)
(* read-and-upload cycle per community (circle_leads/connector/runner.py,  *)
(* client.py, cli.py; web/connector_auth.py; the connector and connection  *)
(* routes of web/app.py).                                                  *)
(*                                                                         *)
(* Every call from a machine to the backend may fail, before or after the  *)
(* backend has done its part.  What a space holds, and how much of it one  *)
(* reading comes to, is left to chance: a space has records or none.       *)
(***************************************************************************)
EXTENDS Naturals, FiniteSets, SequencesExt

CONSTANTS
    Machines,    \* computers the connector runs on
    Codes,       \* pairing codes ever minted: rows of Connector
    Hosts,       \* private communities, 1 .. n: in the order of their names
    Spaces,      \* the spaces of each, 1 .. k: in the order they are listed
    MaxFailures,   \* bound: calls of the backend or of a community that fail
    MaxClicks    \* bound: clicks on the dashboard, sign-ins and sign-outs

ASSUME ConnectorAssumption ==
    /\ Hosts \subseteq Nat /\ IsFiniteSet(Hosts) /\ Spaces \subseteq Nat /\ IsFiniteSet(Spaces)
    /\ MaxFailures \in Nat /\ MaxClicks \in Nat

NoCode == "no code"
Nobody == "nobody"

\* ConnectionPriority, and SCAN_ORDER without "paused", which comes last.
Priorities == {"vip", "normal", "low", "paused"}
ScanOrder == <<"vip", "normal", "low">>

VARIABLES
    code,      \* Connector rows: "unused", "open", "expired" or "paired"
    hash,      \* the machine whose token a row verifies
    claiming,  \* the row a machine's claim has found, before it stores
    holds,     \* the row of the token in a machine's connector.json
    conn,      \* CircleConnection: priority ("none": no row) and state
    signedIn,  \* the communities the person has a session of
    via,       \* the sync a machine runs: "browser", or "http", which no command calls
    phase, todo, want, left, reported, \* its loop; what it reports; has it?
    failures, clicks

pairing == <<code, hash, claiming, holds>>
loopVars == <<phase, todo, want, left, reported>>
connectVars == <<pairing, conn, signedIn, via, loopVars, failures, clicks>>

NoRow == [priority |-> "none", state |-> "not_connected"]

ConnectInit ==
    /\ code = [k \in Codes |-> "unused"] /\ hash = [k \in Codes |-> Nobody]
    /\ claiming = [m \in Machines |-> NoCode] /\ holds = [m \in Machines |-> NoCode]
    /\ conn \in [Hosts -> {[NoRow EXCEPT !.priority = p] : p \in Priorities \cup {"none"}}]
    /\ signedIn \in [Hosts -> BOOLEAN] /\ via \in [Machines -> {"browser", "http"}]
    /\ phase = [m \in Machines |-> "off"] /\ todo = [m \in Machines |-> <<>>]
    /\ want = [m \in Machines |-> "none"] /\ left = [m \in Machines |-> <<>>]
    /\ reported = [m \in Machines |-> FALSE] /\ failures = 0 /\ clicks = 0

Verified(m) == holds[m] # NoCode /\ code[holds[m]] = "paired" /\ hash[holds[m]] = m

Fault == failures < MaxFailures /\ failures' = failures + 1
Click == clicks < MaxClicks /\ clicks' = clicks + 1

-----------------------------------------------------------------------------
(* Pairing.  claim_pairing reads the row, then writes it.                  *)

MintCode(k) ==
    /\ code[k] = "unused" /\ code' = [code EXCEPT ![k] = "open"]
    /\ UNCHANGED <<hash, claiming, holds, conn, signedIn, via, loopVars, failures, clicks>>

CodeExpires(k) ==
    /\ code[k] = "open" /\ Click /\ code' = [code EXCEPT ![k] = "expired"]
    /\ UNCHANGED <<hash, claiming, holds, conn, signedIn, via, loopVars, failures>>

ClaimFinds(m, k) ==
    /\ phase[m] = "off" /\ code[k] = "open" /\ claiming[m] = NoCode
    /\ claiming' = [claiming EXCEPT ![m] = k]
    /\ UNCHANGED <<code, hash, holds, conn, signedIn, via, loopVars, failures, clicks>>

\* The answer carries the token, and may be lost with the code burnt.
ClaimStores(m) ==
    /\ claiming[m] # NoCode
    /\ code' = [code EXCEPT ![claiming[m]] = "paired"]
    /\ hash' = [hash EXCEPT ![claiming[m]] = m]
    /\ claiming' = [claiming EXCEPT ![m] = NoCode]
    /\ \/ holds' = [holds EXCEPT ![m] = claiming[m]] /\ UNCHANGED failures
       \/ Fault /\ UNCHANGED holds
    /\ UNCHANGED <<conn, signedIn, via, loopVars, clicks>>

-----------------------------------------------------------------------------
(* The dashboard and the communities.                                      *)

\* A host that is added again, or given a priority, only changes that.
AddConnection(h, p) ==
    /\ Click /\ conn[h].priority # p /\ conn' = [conn EXCEPT ![h].priority = p]
    /\ UNCHANGED <<pairing, signedIn, via, loopVars, failures>>

RemoveConnection(h) ==
    /\ Click /\ conn[h].priority # "none" /\ conn' = [conn EXCEPT ![h] = NoRow]
    /\ UNCHANGED <<pairing, signedIn, via, loopVars, failures>>

\* authenticate: the person signs in on the machine; or the session ends.
SessionChanges(h) ==
    /\ Click /\ signedIn' = [signedIn EXCEPT ![h] = ~@]
    /\ UNCHANGED <<pairing, conn, via, loopVars, failures>>

-----------------------------------------------------------------------------
(* The loop of a machine (run_cmd): "off" until paired, "rest" between     *)
(* cycles, "next" between two hosts of a cycle, and inside a sync          *)
(* "session", "spaces", "read", "upload" and "report".                     *)

Moves(m, to) == phase' = [phase EXCEPT ![m] = to]

Starts(m) ==
    /\ phase[m] = "off" /\ holds[m] # NoCode /\ Moves(m, "rest")
    /\ UNCHANGED <<pairing, conn, signedIn, via, todo, want, left, reported, failures, clicks>>

\* Hosts by name, spaces as Circle lists them.
Ascending(S) == CHOOSE q \in SetToSeqs(S) : \A i, j \in DOMAIN q : i < j => q[i] < q[j]

\* connector_worklist: what is not paused, in SCAN_ORDER and then by name.
Worklist ==
    LET ByName(p) == Ascending({h \in Hosts : conn[h].priority = p}) IN
    ByName(ScanOrder[1]) \o ByName(ScanOrder[2]) \o ByName(ScanOrder[3])

\* The heartbeat decides nothing; a worklist that cannot be had is an empty one.
CycleBegins(m) ==
    /\ phase[m] = "rest" /\ Moves(m, "next")
    /\ \/ Verified(m) /\ todo' = [todo EXCEPT ![m] = Worklist] /\ UNCHANGED failures
       \/ ~Verified(m) /\ todo' = [todo EXCEPT ![m] = <<>>] /\ UNCHANGED failures
       \/ Fault /\ todo' = [todo EXCEPT ![m] = <<>>]
    /\ UNCHANGED <<pairing, conn, signedIn, via, want, left, reported, clicks>>

CycleEnds(m) ==
    /\ phase[m] = "next" /\ todo[m] = <<>> /\ Moves(m, "rest")
    /\ UNCHANGED <<pairing, conn, signedIn, via, todo, want, left, reported, failures, clicks>>

SyncBegins(m) ==
    /\ phase[m] = "next" /\ todo[m] # <<>> /\ Moves(m, "session")
    /\ reported' = [reported EXCEPT ![m] = FALSE]
    /\ UNCHANGED <<pairing, conn, signedIn, via, todo, want, left, failures, clicks>>

\* Mutant: an error ends the cycle, not the host.
EndsTheCycle(m) ==
    /\ Moves(m, "next") /\ todo' = [todo EXCEPT ![m] = <<>>]
    /\ UNCHANGED <<pairing, signedIn, via, want, left, clicks>>

\* The sync of a host is over, however it went: on to the next.
NextHost(m) ==
    /\ Moves(m, "next") /\ todo' = [todo EXCEPT ![m] = Tail(@)]
    /\ UNCHANGED <<pairing, signedIn, via, want, left, clicks>>

\* An exception leaves the sync with nothing told to the backend.
Abandons(m) == NextHost(m) /\ UNCHANGED <<conn, reported>>

ToReport(m, s) ==
    /\ Moves(m, "report") /\ want' = [want EXCEPT ![m] = s]
    /\ UNCHANGED <<pairing, conn, signedIn, via, todo, left, reported, clicks>>

\* _is_logged_in_via: the member-only endpoints, else the page itself.
LoggedIn(h) == signedIn[h]

\* In the browser, status() takes a page that does not open for a missing
\* session, while a browser that is not installed is an error and a profile that
\* does not open an exception.  Over HTTP, check_session() takes an answer of
\* the API that is none for an expired cookie, a profile that is not complete is
\* an error, and whatever export_session_cookies() raises an exception.
CannotCheck(m) ==
    IF via[m] = "browser" THEN {"authentication_required", "error"} ELSE {"session_expired", "error"}

ChecksSession(m) ==
    /\ phase[m] = "session"
    /\ \/ ~LoggedIn(Head(todo[m])) /\ ToReport(m, "authentication_required") /\ UNCHANGED failures
       \/ /\ LoggedIn(Head(todo[m])) /\ Moves(m, "spaces")
          /\ UNCHANGED <<pairing, conn, signedIn, via, todo, want, left, reported, failures, clicks>>
       \/ Fault /\ \E s \in CannotCheck(m) : ToReport(m, s)
       \/ Fault /\ Abandons(m)

\* The spaces the member may see, in Circle's order.
SpacesListed == Ascending(Spaces)

\* list_spaces: an error answer is no spaces, a broken connection an exception.
ListsSpaces(m) ==
    /\ phase[m] = "spaces"
    /\ \/ ~LoggedIn(Head(todo[m])) /\ ToReport(m, "session_expired") /\ UNCHANGED failures
       \/ /\ LoggedIn(Head(todo[m])) /\ Moves(m, "read")
          /\ left' = [left EXCEPT ![m] = SpacesListed]
          /\ UNCHANGED <<pairing, conn, signedIn, via, todo, want, reported, failures, clicks>>
       \/ Fault /\ ToReport(m, "access_denied")
       \/ Fault /\ via[m] = "http" /\ ToReport(m, "error")
       \/ Fault /\ Abandons(m)

\* fetch_space_posts of the browser reader has no parameter space_slug: the call
\* raises TypeError.
TakesSlug(m) == via[m] = "http"

\* The HTTP twin has the records of the first pages, up to max_pages or to the
\* first that answers an error; a space with none is passed over.
ReadsSpace(m) ==
    LET rest == <<pairing, conn, signedIn, via, todo, want, reported, clicks>> IN
    /\ phase[m] = "read" /\ left[m] # <<>>
    /\ \/ ~TakesSlug(m) /\ Abandons(m) /\ UNCHANGED failures
       \/ /\ TakesSlug(m) /\ ~signedIn[Head(todo[m])]
          /\ ToReport(m, "session_expired") /\ UNCHANGED failures
       \/ /\ TakesSlug(m) /\ left' = [left EXCEPT ![m] = Tail(@)]
          /\ UNCHANGED <<phase, rest, failures>>
       \/ TakesSlug(m) /\ Fault /\ Abandons(m)
       \/ /\ TakesSlug(m) /\ signedIn[Head(todo[m])] /\ Moves(m, "upload")
          /\ UNCHANGED <<left, rest, failures>>

\* connector_ingest files the records.  A failed call ends the sync, and so does
\* a record whose published_at parsed: a datetime is no JSON.
Uploads(m) ==
    /\ phase[m] = "upload"
    /\ \/ /\ Verified(m) /\ Moves(m, "read") /\ left' = [left EXCEPT ![m] = Tail(@)]
          /\ UNCHANGED <<pairing, conn, signedIn, via, todo, want, reported, failures, clicks>>
       \/ Abandons(m) /\ (UNCHANGED failures \/ Fault)

ReadsAll(m) ==
    /\ phase[m] = "read" /\ left[m] = <<>> /\ ToReport(m, "connected") /\ UNCHANGED failures

\* upsert_connection: a host without a row gets one.
Upserted(m) ==
    [conn EXCEPT ![Head(todo[m])] =
       [priority |-> IF @.priority = "none" THEN "normal" ELSE @.priority, state |-> want[m]]]

Reports(m) ==
    /\ phase[m] = "report" /\ NextHost(m)
    /\ \/ /\ Verified(m) /\ conn' = Upserted(m)
          /\ reported' = [reported EXCEPT ![m] = TRUE] /\ UNCHANGED failures
       \/ ~Verified(m) /\ UNCHANGED <<conn, reported, failures>>
       \/ Fault /\ conn' \in {conn, IF Verified(m) THEN Upserted(m) ELSE conn}
          /\ UNCHANGED reported

Loop(m) ==
    \/ Starts(m) \/ CycleBegins(m) \/ CycleEnds(m) \/ SyncBegins(m) \/ ChecksSession(m)
    \/ ListsSpaces(m) \/ ReadsSpace(m) \/ Uploads(m) \/ ReadsAll(m) \/ Reports(m)

World ==
    \/ \E k \in Codes : MintCode(k) \/ CodeExpires(k)
    \/ \E m \in Machines : ClaimStores(m) \/ \E k \in Codes : ClaimFinds(m, k)
    \/ \E h \in Hosts : \/ \E p \in Priorities : AddConnection(h, p)
                        \/ RemoveConnection(h) \/ SessionChanges(h)

ConnectNext == World \/ \E m \in Machines : Loop(m)

ConnectSpec ==
    /\ ConnectInit /\ [][ConnectNext]_connectVars
    /\ \A m \in Machines : WF_connectVars(Loop(m))

-----------------------------------------------------------------------------
(* Properties.                                                             *)

\* "one bad host must not stop the loop" (cli.py:125): a community that stays
\* on the worklist is turned to again and again by a connector that stays
\* paired, whatever becomes of the communities before it.
HostsGetTheirTurn ==
    \A m \in Machines, h \in Hosts :
      <>[](Verified(m) /\ conn[h].priority \notin {"none", "paused"})
      => []<>(phase[m] = "session" /\ Head(todo[m]) = h)

\* "Report the connection state at each step so the dashboard reflects
\* reality" (runner.py:9): where no call fails, a sync ends with a report.
EachSyncIsReported ==
    [][\A m \in Machines :
         (phase[m] \notin {"off", "rest", "next"} /\ phase'[m] = "next" /\ Verified(m)
            /\ failures' = 0)
         => reported'[m]]_connectVars

=============================================================================

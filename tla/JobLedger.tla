----------------------------- MODULE JobLedger ------------------------------
(***************************************************************************)
(* What the job queue promises its users, without rows, ages or            *)
(* transactions.  A job is leased: it waits, is held by one worker in      *)
(* time, goes to another one only after its holder died or overran, and    *)
(* once ended it never waits again.  A holder that overran may still end   *)
(* it, or end it anew after the one that took it over.                     *)
(***************************************************************************)
CONSTANTS Job, Worker

VARIABLES status,   \* "new", "waiting" (not finished), "ended"
          holder,   \* the job each worker executes, or Nothing
          late      \* the workers whose lease has run out

Nothing == 0

Init ==
    /\ status = [j \in Job |-> "new"]
    /\ holder = [w \in Worker |-> Nothing]
    /\ late = {}

Submit(j) ==
    /\ status[j] = "new"
    /\ status' = [status EXCEPT ![j] = "waiting"]
    /\ UNCHANGED <<holder, late>>

\* Only a job that nobody holds in time can be taken.
Take(w, j) ==
    /\ holder[w] = Nothing
    /\ status[j] = "waiting"
    /\ \A v \in Worker : holder[v] = j => v \in late
    /\ holder' = [holder EXCEPT ![w] = j]
    /\ UNCHANGED <<status, late>>

Overrun(some) ==
    /\ \A w \in some : holder[w] # Nothing
    /\ late' = late \cup some
    /\ UNCHANGED <<status, holder>>

LetsGo(w) ==
    /\ holder[w] # Nothing
    /\ holder' = [holder EXCEPT ![w] = Nothing]
    /\ late' = late \ {w}

\* A job that a late holder ended first is ended again.
End(w) ==
    /\ LetsGo(w)
    /\ status[holder[w]] # "new"
    /\ status' = [status EXCEPT ![holder[w]] = "ended"]

\* The holder dies; the job waits, or was ended by the other one.
Die(w) == LetsGo(w) /\ UNCHANGED status

Next ==
    \/ \E j \in Job : Submit(j)
    \/ \E some \in SUBSET Worker : Overrun(some)
    \/ \E w \in Worker : End(w) \/ Die(w) \/ \E j \in Job : Take(w, j)

Spec == Init /\ [][Next]_<<status, holder, late>>
=============================================================================

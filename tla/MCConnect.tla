----------------------------- MODULE MCConnect ------------------------------
(* The verdicts on posts; or one of the two ways to a private community     *)
(* that run beside the scraper: two request threads with the browser on the *)
(* server, or one paired machine with two communities of two spaces.  A     *)
(* behaviour is one of the three, with the variables of the others at rest. *)
EXTENDS MCLeadVerdicts, RemoteBrowser, Connector

CONSTANTS r1, r2, m1, k1

VARIABLE program

\* Every host is on the list and signed in.
SmallConnect ==
    ConnectInit /\ \A h \in Hosts : conn[h].priority = "normal" /\ signedIn[h]

ConnectAtRest == SmallConnect /\ via = [m \in Machines |-> "http"]

AnyInit ==
    /\ Init /\ RemoteInit
    /\ \/ program \in {"verdicts", "browser"} /\ ConnectAtRest
       \/ program = "connector" /\ SmallConnect

AnyNext ==
    /\ UNCHANGED program
    /\ \/ program = "verdicts" /\ Next /\ UNCHANGED <<remoteVars, connectVars>>
       \/ program = "browser" /\ RemoteNext /\ UNCHANGED <<vars, connectVars>>
       \/ program = "connector" /\ ConnectNext /\ UNCHANGED <<vars, remoteVars>>

\* The fairness of each part, owed where that part runs.
AnySpec ==
    /\ AnyInit /\ [][AnyNext]_<<program, vars, remoteVars, connectVars>>
    /\ \A j \in Judges : WF_vars(program = "verdicts" /\ Proceed(j))
    /\ WF_vars(program = "verdicts" /\ \E p \in Posts : RetryDue(p))
    /\ \A p \in Posts : SF_vars(program = "verdicts" /\ \E j \in Judges : Retry(j, p))
    /\ \A m \in Machines : WF_connectVars(program = "connector" /\ Loop(m))
=============================================================================

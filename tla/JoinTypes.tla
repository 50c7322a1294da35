----------------------------- MODULE JoinTypes ------------------------------
(***************************************************************************)
(* How a community can be joined, as far as its row knows                  *)
(* (circle_leads/discovery/join_type.py: classify_join_type_pending,       *)
(* refine_join_classification, _repoint; circle_leads/reach.py).           *)
(*                                                                         *)
(* Four parties write the answer: the scheduled check, a harvest that      *)
(* reads the community, enrichment that fetches its name, and a person.    *)
(* An answer can be definite, or only that the question is open; the row   *)
(* then keeps what it knows better, and comes due again or never.  A       *)
(* custom domain that is no longer served may hide a community that lives  *)
(* on at its Circle host.                                                  *)
(***************************************************************************)
EXTENDS Naturals, SequencesExt

CONSTANTS
    Communities, Addresses,
    Batch,         \* SCHEDULED_BATCH
    UnknownAfter,  \* UNKNOWN_RECHECK_AFTER, in passes
    ClosedAfter,   \* CLOSED_RECHECK_DAYS and JOIN_RECHECK_DAYS, in passes
    MaxTrouble,    \* bound: requests that fail in passing
    MaxEvents      \* bound: changes of the communities, verdicts by people

ASSUME JoinTypesAssumption ==
    /\ Batch \in Nat \ {0} /\ UnknownAfter \in Nat \ {0} /\ ClosedAfter \in Nat \ {0}
    /\ MaxTrouble \in Nat /\ MaxEvents \in Nat

\* subscription_expired is treated as paid is.
Definite == {"free_join", "paid", "invite_only"}
Open == {"unknown", "locked_unknown"}
ClosedJoinTypes == {"invite_only", "locked_unknown"}

\* What a site answers: a definite settings page, 401, an ordinary website, or
\* a TLS failure ("dead") of a domain that some other host stands behind.
AtCircle == Definite \cup {"locked_unknown", "not_circle"}
Answers == AtCircle \cup {"dead"}

\* Why a row has its type: a live answer, a person, the directory's price, an
\* "unknown" that no other look will change, or one that it may.
Reasons == {"none", "live", "manual", "price", "terminal", "passing"}
Never == ClosedAfter + UnknownAfter + 1
Own == "own"

VARIABLES
    site,      \* what the community's own address answers
    behind,    \* the Circle host its domain is a CNAME for
    there,     \* what that host answers
    fit,       \* Community.icp_flag
    price,     \* Community.price_label, as the type it stands for
    host,      \* Community.host
    named,     \* the rows with a Community.name
    joinType,  \* Community.join_type
    why,       \* what Community.join_type_detail begins with
    waited,    \* passes since join_type_checked_at
    todo,      \* the rows the running check has still to ask
    passDue,   \* the schedule of the check has come round
    trouble, events

world == <<site, behind, there, fit, price>>
row == <<host, named, joinType, why, waited>>
joinVars == <<world, row, todo, passDue, trouble, events>>

JoinInit ==
    /\ site \in [Communities -> Answers] /\ behind \in [Communities -> Addresses]
    /\ there \in [Addresses -> AtCircle]
    /\ fit \in [Communities -> BOOLEAN]
    /\ price \in [Communities -> {"none", "free_join", "paid"}]
    /\ host = [c \in Communities |-> Own] /\ named \in SUBSET Communities
    /\ joinType = [c \in Communities |-> "none"] /\ why = [c \in Communities |-> "none"]
    /\ waited = [c \in Communities |-> Never]
    /\ todo = <<>> /\ passDue = TRUE /\ trouble = 0 /\ events = 0

-----------------------------------------------------------------------------
(* One check of one row.                                                   *)

Live(type, reason, address) == [type |-> type, why |-> reason, at |-> address]

\* _classify_payload, and what a status other than 200 stands for.
OneAnswer(answer, address) ==
    IF answer \in Definite \cup {"locked_unknown"} THEN Live(answer, "live", address)
    ELSE Live("unknown", "terminal", address)

\* What is asked at the row's address: the community's own site, or the Circle
\* host it was moved to; and the host a domain is a CNAME for.
AnswerAt(c) == IF host[c] = Own THEN site[c] ELSE there[host[c]]
CircleHostBehind(c) == behind[c]

\* fetch_join_classification, with _follow_dead_custom_domain.
Fetched(c) ==
    IF AnswerAt(c) # "dead" THEN OneAnswer(AnswerAt(c), host[c])
    ELSE OneAnswer(there[CircleHostBehind(c)], CircleHostBehind(c))

\* What a look comes to when one of its requests fails in passing.  A custom
\* domain whose TLS fails is taken for dead, also for the moment: the host behind
\* is asked, and with no answer there, or none from the DNS, the domain counts as
\* no longer served.
Failed(c) ==
    {Live("unknown", "passing", host[c])}
    \cup IF host[c] # Own THEN {}
         ELSE {Live("unknown", "terminal", Own), OneAnswer(there[CircleHostBehind(c)], CircleHostBehind(c))}

\* The price the directory states, as a join type; none is no answer.
PriceLabelFallback(c, live) ==
    IF price[c] = "none" THEN live ELSE Live(price[c], "price", live.at)

\* refine_join_classification: "Free" is not trusted of a private community.
Refined(c, live) ==
    IF live.type \notin Open THEN live
    ELSE IF why[c] = "manual" THEN Live(joinType[c], "manual", live.at)
    ELSE IF live.type = "locked_unknown" /\ price[c] = "free_join" THEN live
    ELSE PriceLabelFallback(c, live)

Write(c, v) ==
    /\ joinType' = [joinType EXCEPT ![c] = v.type]
    /\ why' = [why EXCEPT ![c] = v.why]
    /\ waited' = [waited EXCEPT ![c] = 0]

\* Mutant: a row is moved to wherever it answered.
RepointAnyway(c, v, at) ==
    /\ Write(c, v)
    /\ host' = [host EXCEPT ![c] = at]

\* _repoint: unless another row lives there already; then this is its dead copy.
Repoint(c, v, at) ==
    IF at = host[c] THEN Write(c, v) /\ UNCHANGED host
    ELSE IF \E d \in Communities \ {c} : host[d] = at
      THEN Write(c, Live("unknown", "terminal", host[c])) /\ UNCHANGED host
    ELSE Write(c, v) /\ host' = [host EXCEPT ![c] = at]

\* The moved address is followed when something is there that answers.
Moved(c, live) == IF live.type = "unknown" THEN host[c] ELSE live.at

\* A look at the row's address, with what it costs of the bound on trouble.
Looked(c, live) ==
    \/ live = Fetched(c) /\ UNCHANGED trouble
    \/ trouble < MaxTrouble /\ trouble' = trouble + 1 /\ live \in Failed(c)
AnyLook(c) == {Fetched(c)} \cup Failed(c)

ClassifyRow(c) ==
    \E live \in AnyLook(c) :
        Looked(c, live) /\ Repoint(c, Refined(c, live), Moved(c, live)) /\ UNCHANGED named

-----------------------------------------------------------------------------
(* Who asks.                                                               *)

\* Mutant: an "unknown" has been answered.
DueOnlyClosed(c) ==
    \/ waited[c] = Never
    \/ fit[c] /\ joinType[c] \in ClosedJoinTypes /\ waited[c] >= ClosedAfter

\* _pending_query(scheduled=True): never asked, an "unknown" that may still be
\* resolved, or a community that suits us and was closed a week ago.
Due(c) ==
    \/ waited[c] = Never
    \/ joinType[c] = "unknown" /\ why[c] # "terminal" /\ waited[c] >= UnknownAfter
    \/ fit[c] /\ joinType[c] \in ClosedJoinTypes /\ waited[c] >= ClosedAfter

\* Those that suit us first, then those with a name, then the longest unasked.
Rank(c) == (IF fit[c] THEN 0 ELSE 2) + (IF c \in named THEN 0 ELSE 1)
Sooner(c, d) == Rank(c) < Rank(d) \/ (Rank(c) = Rank(d) /\ waited[c] > waited[d])

Pending(wanted) ==
    LET asked == {q \in SetToSeqs(wanted) :
                      \A i, j \in DOMAIN q : i < j => ~Sooner(q[j], q[i])}
        s == CHOOSE q \in asked : TRUE
    IN SubSeq(s, 1, IF Len(s) < Batch THEN Len(s) ELSE Batch)

BeginCheck ==
    /\ todo = <<>> /\ passDue /\ passDue' = FALSE
    /\ todo' = Pending({c \in Communities : Due(c)})
    /\ UNCHANGED <<world, row, trouble, events>>

CheckNext ==
    /\ todo # <<>> /\ todo' = Tail(todo)
    /\ ClassifyRow(Head(todo))
    /\ UNCHANGED <<world, passDue, events>>

CheckKilled ==
    /\ todo # <<>> /\ trouble < MaxTrouble /\ trouble' = trouble + 1
    /\ todo' = <<>>
    /\ UNCHANGED <<world, row, passDue, events>>

\* classify-join-types --recheck, by a person.
RecheckAll ==
    /\ todo = <<>> /\ events < MaxEvents /\ events' = events + 1
    /\ todo' = SetToSeq(Communities)
    /\ UNCHANGED <<world, row, passDue, trouble>>

\* A harvest reads the community, also because its name is missing or a person
\* forces it: it refines the answer as the check does and may learn the name, but
\* leaves the address as it is.
HarvestAsks(c) ==
    /\ \/ (waited[c] >= ClosedAfter \/ c \notin named) /\ UNCHANGED events
       \/ events < MaxEvents /\ events' = events + 1
    /\ \E live \in AnyLook(c) :
         /\ Looked(c, live)
         /\ Write(c, Refined(c, live)) /\ UNCHANGED host
         /\ named' \in {named} \cup (IF live.type \in Definite THEN {named \cup {c}} ELSE {})
    /\ UNCHANGED <<world, todo, passDue>>

\* Enrichment asks for a missing name or description, and keeps the answer that
\* came with the name for a row without one.
EnrichAsks(c) ==
    /\ c \notin named /\ waited[c] = Never /\ host[c] = Own /\ site[c] \in Definite
    /\ Write(c, Live(site[c], "live", Own))
    /\ named' = named \cup {c}
    /\ UNCHANGED <<world, host, todo, passDue, trouble, events>>

\* A person opens the page and writes down what it says.
ManualCheck(c) ==
    /\ events < MaxEvents /\ events' = events + 1
    /\ \E t \in Definite \cup {"locked_unknown"} : Write(c, Live(t, "manual", host[c]))
    /\ UNCHANGED <<world, host, named, todo, passDue, trouble>>

-----------------------------------------------------------------------------
WorldChanges ==
    /\ events < MaxEvents /\ events' = events + 1
    /\ \/ \E c \in Communities, a \in Answers : a # site[c] /\ site' = [site EXCEPT ![c] = a]
          /\ UNCHANGED <<there, fit>>
       \/ \E h \in Addresses, a \in AtCircle : a # there[h] /\ there' = [there EXCEPT ![h] = a]
          /\ UNCHANGED <<site, fit>>
       \/ \E c \in Communities : fit' = [fit EXCEPT ![c] = ~@] /\ UNCHANGED <<site, there>>
    /\ UNCHANGED <<behind, price, row, todo, passDue, trouble>>

\* The schedule comes round; a pass is over long before.
Hours ==
    /\ todo = <<>> /\ ~passDue /\ passDue' = TRUE
    /\ waited' = [c \in Communities |-> IF waited[c] < ClosedAfter THEN waited[c] + 1 ELSE waited[c]]
    /\ UNCHANGED <<world, host, named, joinType, why, todo, trouble, events>>

Checker == BeginCheck \/ CheckNext \/ Hours
JoinNext ==
    \/ Checker \/ CheckKilled \/ RecheckAll \/ WorldChanges
    \/ \E c \in Communities : HarvestAsks(c) \/ EnrichAsks(c) \/ ManualCheck(c)

\* Only the scheduled check has to happen: a harvest need not reach a row.
JoinFairness == WF_joinVars(Checker)
JoinSpec == JoinInit /\ [][JoinNext]_joinVars /\ JoinFairness

-----------------------------------------------------------------------------
JoinTypeOK ==
    /\ site \in [Communities -> Answers] /\ host \in [Communities -> Addresses \cup {Own}]
    /\ joinType \in [Communities -> Definite \cup Open \cup {"none"}] /\ named \subseteq Communities
    /\ why \in [Communities -> Reasons] /\ waited \in [Communities -> 0 .. Never]
    /\ ToSet(todo) \subseteq Communities

\* No two rows have one address: of two domains that led to the same Circle
\* host, the row that was checked first moves there and the other stays where
\* it is (_repoint: "Unless that host is already another row").
OneRowPerAddress ==
    \A c, d \in Communities : c # d /\ host[c] = host[d] => host[c] = Own

Truth(c) == IF host[c] # Own THEN there[host[c]] ELSE site[c]

\* A community that suits us and opens its doors does not stay in a waiting
\* state, never asked, unknown or closed, whoever asked it last and whatever
\* was known before (reach.py: CLOSED_RECHECK_DAYS, recheckable_unknown).  An
\* "unknown" the code takes for final is no waiting state; one look at a custom
\* domain that fails in passing may be enough for it.
OpeningsAreNoticed ==
    \A c \in Communities :
        ~<>[](/\ fit[c] /\ Truth(c) = "free_join"
              /\ \/ joinType[c] \in {"none"} \cup ClosedJoinTypes
                 \/ joinType[c] = "unknown" /\ why[c] = "passing")
=============================================================================

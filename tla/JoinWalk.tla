------------------------------ MODULE JoinWalk ------------------------------
(* One visit of the join bot to one community, walked in the droplet's own *)
(* browser (join/cdp_join.py, class _Walk).  Where a page leads and what   *)
(* it shows is the site's choice at every look; what Circle's API says, if *)
(* it answers, follows from who is signed in and who is a member.          *)
EXTENDS Naturals, FiniteSets

CONSTANTS
    MaxRounds,    \* run(): "for round_no in range(3)"
    MaxCodes,     \* MAX_CODES_PER_VISIT
    MaxHops,      \* _attempt_login(): pages on the way to the password field
    MaxPasses     \* _finish_membership(): "for attempt in range(4)"

ASSUME WalkAssumption ==
    MaxRounds \in Nat /\ MaxCodes \in Nat /\ MaxHops \in Nat /\ MaxPasses \in Nat

VARIABLES
    step, outcome,         \* where the walk is; EgoJoinResult.status, or "none"
    round, tried, passes,  \* rounds, what is tried once or was learnt, passes or hops
    host, user, member,    \* whose page is open, who is signed in, the bot's standing
    typed,                 \* hosts the bot typed its email or password on
    sent, inbox, since,    \* codes mailed, codes delivered, the last one too old
    entered, codes         \* codes typed, and how often one was

visit == <<round, tried, passes>>
site == <<host, user, member>>
mailbox == <<sent, inbox, since, entered, codes>>
walkVars == <<step, outcome, visit, site, typed, mailbox>>

\* "own": the community's host on Circle, or a *.circle.so host; "site": the
\* community's host where Circle does not answer; "moved": the custom domain
\* Circle redirects to; "foreign": a page of somebody else's.
Hosts == {"own", "site", "moved", "foreign"}
Circle == {"own", "moved"}
Users == {"none", "bot", "other"}
Standings == {"no", "asked", "open", "in"}   \* "open": in, but for the profile step
Inside == member \in {"open", "in"}

Api == host \in Circle

\* Mutant: whose account it is that is signed in is not looked at.
AnyAccount ==
    CASE user = "none" -> "signed out"
      [] user = "other" \/ Inside -> "member"
      [] OTHER -> "visitor"

\* _member_state(): "silent" is {"api": False}, on a page that is not Circle's and
\* on one whose request was not answered.
Account ==
    CASE user = "none" -> "signed out"
      [] user = "other" -> "other"
      [] user = "bot" /\ Inside -> "member"
      [] OTHER -> "visitor"
Replies == {"silent"} \cup (IF Api THEN {Account} ELSE {})

WalkFrom(first, result) ==
    /\ step = first /\ outcome = result
    /\ round = 0 /\ tried = {} /\ passes = 0
    /\ host = "own" /\ user \in Users /\ member \in Standings
    /\ typed = {}
    /\ sent = 1 /\ inbox = {1} /\ since = 1   \* a code mailed for an earlier visit
    /\ entered = {} /\ codes = 0
WalkInit == WalkFrom("open", "none")

Stop(status) == step' = "done" /\ outcome' = status /\ UNCHANGED visit
GoOn(to) == step' = to /\ UNCHANGED outcome
NextRound == GoOn("look") /\ round' = round + 1 /\ UNCHANGED <<tried, passes>>
Browse == UNCHANGED <<typed, mailbox>>   \* no key is pressed in a text field
Look == UNCHANGED site /\ Browse

-----------------------------------------------------------------------------
(* The emailed code.  The newest code in the mailbox that is newer than    *)
(* "since" is typed; Circle takes it if it is the last one it mailed.      *)

NewCodes(box) == {c \in box : c > since}
Newest(S) == CHOOSE c \in S : \A d \in S : d <= c
SameSince(last) == since
SinceTyped(last) == last

CodeStep(status, next, again) ==
    \/ Stop(status) /\ Look     \* no mailbox, nothing came, no field, or enough typed
    \/ /\ codes < MaxCodes
       /\ sent' \in {sent, sent + 1}
       /\ inbox' \in {inbox, inbox \cup {sent'}}
       /\ NewCodes(inbox') # {}
       /\ entered' = entered \cup {Newest(NewCodes(inbox'))}
       /\ codes' = codes + 1
       /\ since' = SinceTyped(sent')
       /\ UNCHANGED <<host, member, typed>>
       /\ \/ Stop(status) /\ UNCHANGED user     \* still asked for
          \/ /\ Newest(NewCodes(inbox')) = sent'
             /\ GoOn(next)
             /\ passes' = passes + again /\ UNCHANGED <<round, tried>>
             /\ user' \in {user, "bot"}

-----------------------------------------------------------------------------
(* run(): open the page, look at it, click Join once a round.              *)

Open ==
    /\ step = "open"
    /\ Browse /\ UNCHANGED <<user, member>>
    /\ \/ (Stop("dead_host") \/ Stop("nav_failed")) /\ UNCHANGED host
       \/ GoOn("look") /\ UNCHANGED visit /\ host' \in Hosts

TopOfRound ==
    /\ step = "look"
    /\ \/ round = MaxRounds /\ Stop("unclear") /\ Look
       \/ round < MaxRounds /\ GoOn("gate") /\ UNCHANGED visit /\ Look
       \/ round < MaxRounds /\ CodeStep("login_code_needed", "gate", 0)

StoppedByGate ==
    /\ step = "gate" /\ Look
    /\ \/ Stop("invite_skip") \/ Stop("subscription_expired_skip")
       \/ Stop("challenge_stop") \/ Stop("paid_skip")
       \/ "other" \in Replies /\ Stop("wrong_account")

\* Into the profile step: Circle's API told of the membership, or the address
\* of the page was the one of a new member's profile.
Finish(why) ==
    GoOn("finish") /\ tried' = tried \cup {why} /\ passes' = 0 /\ UNCHANGED round
AlreadyMember == step = "gate" /\ "member" \in Replies /\ Finish("told") /\ Look

\* A page that does not answer as Circle's may show a Log in control of its own.
NoLoginYet == "login" \notin tried
SignInFirst(what) ==
    /\ NoLoginYet
    /\ tried' = tried \cup what /\ passes' = 0 /\ UNCHANGED round
    /\ GoOn("login")
SignInAtGate ==
    /\ step = "gate" /\ Replies \cap {"silent", "signed out"} # {}
    /\ SignInFirst({"login"}) /\ Look

\* Neither somebody else nor a member, nor to be signed in first.
PastTheGate(reply) ==
    /\ step = "gate" /\ reply \in Replies \ {"other", "member"}
    /\ ~(reply = "signed out" /\ NoLoginYet)

StepIntoSpace ==
    /\ PastTheGate("visitor") /\ "space" \notin tried
    /\ Look
    /\ tried' = tried \cup {"space"} /\ UNCHANGED passes
    /\ \/ GoOn("look") /\ round' = round + 1
       \/ step' = "done" /\ outcome' = "unclear" /\ UNCHANGED round

NoJoin == (\E r \in Replies : PastTheGate(r)) /\ Stop("unclear") /\ Look

\* What the click does is Circle's: the bot is let in, has to ask, is shown a
\* login dialog (which may know somebody already), or lands somewhere else.
ClickJoin ==
    /\ \E r \in Replies : PastTheGate(r)
    /\ GoOn("clicked") /\ UNCHANGED visit /\ Browse
    /\ IF Api THEN UNCHANGED host ELSE host' \in Hosts
    /\ IF Api /\ user = "none" THEN user' \in Users ELSE UNCHANGED user
    /\ IF Api /\ user = "bot" THEN member' \in Standings ELSE UNCHANGED member

\* The page may ask for the emailed code, of a member or before it lets one in.
CodeAfterClick(next) ==
    \/ GoOn(next) /\ UNCHANGED visit /\ Look
    \/ CodeStep("email_code_needed", next, 0)
AfterClick == step = "clicked" /\ CodeAfterClick("after")

\* The same reading of the page follows the click and the sign-up form: its
\* address first, then Circle's API, then its address and its text once more.
Reading(unknown) ==
    /\ Look
    /\ \/ Stop("paid_skip")
       \/ "other" \in Replies /\ Stop("wrong_account")
       \/ "member" \in Replies /\ Finish("told")
       \/ \E r \in Replies \ {"other", "member"} :
            Finish("onboarding") \/ Stop("pending_approval") \/ Stop(unknown)

ReadPage == step = "after" /\ Reading("unclear")
SignInAfterClick ==    \* and open the community again
    step = "after" /\ "signed out" \in Replies /\ SignInFirst({"login", "reopen"}) /\ Look
FormAppears ==
    /\ step = "after"
    /\ \E r \in Replies \ {"other", "member"} : ~(r = "signed out" /\ NoLoginYet)
    /\ Look
    /\ \/ GoOn("signup") /\ UNCHANGED visit
       \/ Stop("application_form_detected")

-----------------------------------------------------------------------------
(* Credentials.                                                            *)

\* is_circle_host(), or Circle's API answers on the page
TypeAnywhere == TRUE
MayType == host = "site" \/ Api

\* An email first, pages in between, then the password.
LoginHop ==
    /\ step = "login" /\ passes < MaxHops
    /\ GoOn(step) /\ passes' = passes + 1 /\ UNCHANGED <<round, tried>>
    /\ host' \in Hosts /\ UNCHANGED <<user, member, mailbox>>
    /\ typed' \in {typed} \cup (IF MayType THEN {typed \cup {host}} ELSE {})

SignInFails ==
    /\ step = "login" /\ Look
    /\ Stop("needs_login") \/ (host \in {"moved", "foreign"} /\ Stop("external_login"))

SubmitLogin ==
    /\ step = "login" /\ GoOn("loggedin") /\ UNCHANGED <<visit, member, mailbox>>
    /\ \/ Api /\ user' \in {"bot", "other"} /\ UNCHANGED <<host, typed>>   \* silently
       \/ /\ MayType /\ passes < MaxHops
          /\ typed' = typed \cup {host}
          /\ host' \in Hosts
          /\ user' \in {user, "bot"}

AfterLogin ==
    /\ step = "loggedin"
    /\ \/ CodeStep("login_code_needed", "checkin", 0)
       \/ GoOn("checkin") /\ UNCHANGED visit /\ Look

CheckLogin ==
    /\ step = "checkin"
    /\ \/ (Stop("challenge_stop") \/ Stop("needs_login")) /\ Look
       \/ "other" \in Replies /\ Stop("wrong_account") /\ Look
       \/ /\ Replies \ {"other", "signed out"} # {} /\ Browse /\ UNCHANGED <<user, member>>
          /\ IF "reopen" \in tried
             THEN \/ Stop("nav_failed") /\ UNCHANGED host
                  \/ NextRound /\ host' \in Hosts
             ELSE NextRound /\ UNCHANGED host

\* A form that asks for an email and a password and nothing else.
SignUp ==
    /\ step = "signup"
    /\ \/ Stop("application_form_detected") /\ Look     \* a form of another host, too
       \/ /\ MayType /\ typed' = typed \cup {host} /\ UNCHANGED <<host, mailbox>>
          /\ \/ Stop("application_form_detected") /\ UNCHANGED <<user, member>>
             \/ /\ GoOn("submitted") /\ UNCHANGED visit
                /\ user' \in {user, "bot"}
                /\ IF Api /\ user' = "bot" THEN member' \in Standings
                   ELSE UNCHANGED member
AfterSignUp == step = "submitted" /\ CodeAfterClick("signedup")
ReadSignedUp == step = "signedup" /\ Reading("application_form_detected")

-----------------------------------------------------------------------------
(* _finish_membership(): the profile step, until the API answers.          *)

\* The API's 400, "Please confirm before proceeding".
ProfilePending == user = "other" \/ (user = "bot" /\ member = "open")

\* Open communities list their spaces for everybody, whoever is signed in.
Readable ==
    /\ step = "finish" /\ passes < MaxPasses /\ ~(user = "bot" /\ member = "open")
    /\ Stop("joined") /\ Look

NextPass == GoOn("finish") /\ passes' = passes + 1 /\ UNCHANGED <<round, tried>>
Onboarding ==
    /\ step = "finish" /\ passes < MaxPasses
    /\ \/ CodeStep("email_code_needed", "finish", 1)
       \/ passes + 1 < MaxPasses /\ NextPass /\ Look
       \/ Stop("unclear") /\ Look

ProfileStep ==
    /\ step = "finish" /\ passes < MaxPasses /\ ProfilePending
    /\ Browse /\ UNCHANGED <<host, user>>
    /\ \/ Stop("profile_incomplete") /\ UNCHANGED member
       \/ NextPass /\ (IF user = "bot" THEN member' \in {"open", "in"} ELSE UNCHANGED member)

OutOfPasses ==
    step = "finish" /\ passes = MaxPasses /\ Stop("profile_incomplete") /\ Look

\* join_community(): anything the driver raises ends the visit.
DriverError == step # "done" /\ Stop("driver_error") /\ Look

WalkNext ==
    \/ Open \/ TopOfRound \/ StoppedByGate \/ AlreadyMember \/ SignInAtGate
    \/ StepIntoSpace \/ NoJoin \/ ClickJoin \/ AfterClick \/ ReadPage
    \/ SignInAfterClick \/ FormAppears \/ LoginHop \/ SignInFails \/ SubmitLogin
    \/ AfterLogin \/ CheckLogin \/ SignUp \/ AfterSignUp \/ ReadSignedUp
    \/ Readable \/ Onboarding \/ ProfileStep \/ OutOfPasses \/ DriverError

\* The walk runs in one process that does nothing else.
WalkFairness == WF_walkVars(WalkNext)
WalkSpec == WalkInit /\ [][WalkNext]_walkVars /\ WalkFairness

-----------------------------------------------------------------------------
(* _fill_credential(), "Refuses unless the page is Circle": whatever pages *)
(* a login leads through, the bot's email and password are typed on the    *)
(* community's own host or where Circle's API answers (the auth0 page that *)
(* took the password on 2026-09-21).                                       *)
CredentialsStayHome == "foreign" \notin typed

(* _finish_membership(), "We are a member": a visit that Circle's API told  *)
(* of the membership ends as joined only with the bot's own account past   *)
(* the profile step, and with the step or its code open only with that     *)
(* account inside; never for another one the browser is signed in as, nor  *)
(* because an open community lists its spaces for everybody.  A visit that *)
(* was not told ends so only where a click led to the address of a new     *)
(* member's profile, which is taken for the membership.                    *)
OutcomesAreTrue ==
    /\ "told" \in tried =>
         /\ outcome = "joined" => user = "bot" /\ member = "in"
         /\ outcome \in {"email_code_needed", "profile_incomplete"} => user = "bot" /\ Inside
    /\ outcome \in {"joined", "profile_incomplete"} => tried \cap {"told", "onboarding"} # {}

(* fetch_login_code(), "anything older is a code from an earlier run and   *)
(* is ignored": no code of an earlier visit is typed, and none twice.      *)
CodesAreFresh == 1 \notin entered /\ Cardinality(entered) = codes

=============================================================================

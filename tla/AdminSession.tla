---------------------------- MODULE AdminSession ----------------------------
(***************************************************************************)
(* Signing in to the admin console: App.tsx and Login.tsx in the tabs of   *)
(* one browser, the wrapper `request` of api/client.ts, and the handlers   *)
(* and the login limiter of internal/server/auth.go.                       *)
(*                                                                         *)
(* The session token is in localStorage, which the tabs share; the flags   *)
(* authRequired and loggedIn are in each tab, which only hears of its own  *)
(* refusals.  A request carries the token stored when it is sent, the      *)
(* server judges it later and the tab acts on the answer later still.      *)
(***************************************************************************)
EXTENDS Naturals, FiniteSets

CONSTANTS
    Tabs,          \* tabs of one browser: one localStorage, one client address
    MaxFailures,   \* maxConsecutiveFailures of the limiter
    Last           \* the tab used in the end (see CalmDown); tabs are alike

ASSUME SessionConstants ==
    /\ Tabs # {} /\ IsFiniteSet(Tabs)
    /\ MaxFailures \in Nat \ {0}
    /\ Last \in Tabs

VARIABLES
    \* --- the server
    protected,   \* general.admin_password of the running configuration is set
    failures,    \* ipAttempt.failures of the browser's address
    locked,      \* now is before ipAttempt.lockedUntil
    \* --- the browser
    token,       \* localStorage holds a token signed with the last password
                 \* configured and not yet run out (one that is void is no
                 \* better than none, for the server and so for the tabs)
    view,        \* per tab: authChecking, authRequired, loggedIn
    calls,       \* per tab and kind of request: what it carried, where it is
    \* --- the administrator
    calm,        \* only one tab is used any more, and nothing disturbs it
    guesses      \* history: wrong passwords since a lockout, a success or a restart

sessionVars == <<protected, failures, locked, token, view, calls, calm, guesses>>
serverVars  == <<protected, failures, locked, guesses>>

Kinds == {"status", "login", "api", "logout"}

\* A request under way: at the server with its token, past the limiter's
\* check, or answered.  A login whose tab was reloaded is gone for the tab,
\* not for the server.
Idle      == [at |-> "idle"]
Outgoing  == [at: {"sent", "checked"}, token: BOOLEAN, gone: BOOLEAN]
Answered  == [at: {"answered"}, result: {"ok", "open", "no", "refused", "failed"},
              token: BOOLEAN, required: BOOLEAN]
View      == [checking: BOOLEAN, required: BOOLEAN, loggedIn: BOOLEAN]

TypeOK ==
    /\ protected \in BOOLEAN
    /\ failures \in 0 .. MaxFailures + Cardinality(Tabs) - 1
    /\ guesses \in Nat
    /\ locked \in BOOLEAN
    /\ token \in BOOLEAN
    /\ view \in [Tabs -> View]
    /\ calls \in [Tabs -> [Kinds -> {Idle} \cup Outgoing \cup Answered]]
    /\ calm \in BOOLEAN

-----------------------------------------------------------------------------
\* What a tab renders: nothing while it checks, the login form, or the pages.
LoginShown(t) == ~view[t].checking /\ view[t].required /\ ~view[t].loggedIn
PagesShown(t) == ~view[t].checking /\ ~LoginShown(t)

\* checkAdminAuth: every token is accepted, and none needed, if no password is
\* configured.
Accepted(tk) == ~protected \/ tk

\* A request has its token, and a reply more than its result, only where
\* somebody looks at it.
Request(tk)    == [at |-> "sent", token |-> tk, gone |-> FALSE]
Reply(result)  == [at |-> "answered", result |-> result,
                   token |-> FALSE, required |-> FALSE]

Ask(t, k, r) == calls' = [calls EXCEPT ![t][k] = r]
Answer(t, k, a)  == calls' = [calls EXCEPT ![t][k] = a]

InUse(t) == ~calm \/ t = Last

FirstView == [checking |-> TRUE, required |-> FALSE, loggedIn |-> TRUE]

Init ==
    /\ protected \in BOOLEAN
    /\ failures = 0 /\ locked = FALSE
    /\ token = FALSE
    /\ view = [t \in Tabs |-> FirstView]
    /\ calls = [t \in Tabs |->
                  [k \in Kinds |-> IF k = "status" THEN Request(token) ELSE Idle]]
    /\ calm = FALSE /\ guesses = 0

-----------------------------------------------------------------------------
(* The tabs: what the administrator does.                                   *)

\* A tab is (re)loaded: its state is that of a first render, the answers to
\* what it had asked are lost, and the mount effect asks for the status.
Load(t) ==
    /\ ~calm
    /\ view' = [view EXCEPT ![t] = FirstView]
    /\ calls' = [calls EXCEPT ![t] =
          [k \in Kinds |->
             CASE k = "status" -> Request(token)
               [] k = "login" /\ @[k].at \in {"sent", "checked"} -> [@[k] EXCEPT !.gone = TRUE]
               [] OTHER -> Idle]]
    /\ UNCHANGED <<serverVars, token, calm>>

\* handleSubmit of the form, whose button is disabled while it waits.  (Bound:
\* a tab that was reloaded waits for the login it had under way.)
Submit(t) ==
    /\ LoginShown(t) /\ InUse(t)
    /\ calls[t]["login"] = Idle
    /\ Ask(t, "login", Request(FALSE))
    /\ UNCHANGED <<serverVars, token, view, calm>>

\* Any page asks for something; its requests outlive the page.
Fetch(t) ==
    /\ PagesShown(t) /\ InUse(t)
    /\ calls[t]["api"] = Idle
    /\ Ask(t, "api", Request(token))
    /\ UNCHANGED <<serverVars, token, view, calm>>

\* handleLogout: the button is there when authentication is required.
Logout(t) ==
    /\ ~calm
    /\ PagesShown(t) /\ view[t].required
    /\ calls[t]["logout"] = Idle
    /\ Ask(t, "logout", Request(FALSE))
    /\ UNCHANGED <<serverVars, token, view, calm>>

-----------------------------------------------------------------------------
(* The server.                                                              *)

\* getAuthStatus is public and says whether the token it got is accepted.
ServeStatus(t) ==
    /\ calls[t]["status"].at = "sent"
    /\ LET r == IF Accepted(calls[t]["status"].token) THEN "ok" ELSE "no"
       IN  Answer(t, "status", [Reply(r) EXCEPT !.required = protected])
    /\ UNCHANGED <<serverVars, token, view, calm>>

\* adminAuth in front of the handlers; what a handler answers makes no
\* difference to the session.
ServeApi(t) ==
    /\ calls[t]["api"].at = "sent"
    /\ Answer(t, "api", IF Accepted(calls[t]["api"].token) THEN Idle ELSE Reply("refused"))
    /\ UNCHANGED <<serverVars, token, view, calm>>

AnswerLogin(t, a) == Answer(t, "login", IF calls[t]["login"].gone THEN Idle ELSE a)

\* check: the failures that led to a lockout are forgotten once it has run out.
ForgetFailures == failures' = IF failures >= MaxFailures THEN 0 ELSE failures

\* adminLogin up to the limiter's check: without a password everyone is let in
\* with an empty token; a locked address is told so (429, not 401).
CheckLogin(t) ==
    /\ calls[t]["login"].at = "sent"
    /\ \/ /\ ~protected
          /\ AnswerLogin(t, Reply("open"))
          /\ UNCHANGED failures
       \/ /\ protected /\ locked
          /\ AnswerLogin(t, Reply("failed"))
          /\ UNCHANGED failures
       \/ /\ protected /\ ~locked
          /\ Answer(t, "login", [calls[t]["login"] EXCEPT !.at = "checked", !.token = TRUE])
          /\ ForgetFailures
    /\ UNCHANGED <<protected, locked, guesses, token, view, calm>>

\* Mutated form: the address is locked only by one failure too many.
RecordFailureLate ==
    /\ failures' = failures + 1
    /\ locked' = (locked \/ failures' > MaxFailures)

\* recordFailure: the last failure allowed locks the address.
RecordFailure ==
    /\ failures' = failures + 1
    /\ locked' = (locked \/ failures' >= MaxFailures)

\* recordSuccess forgets the address.
RecordSuccess == failures' = 0 /\ locked' = FALSE

\* adminLogin after the check, whose lock was released: the password is
\* compared with the one configured before the check and the outcome recorded;
\* a token is signed with that one.  A wrong one is answered 401, as any refusal.
VerifyLogin(t) ==
    /\ calls[t]["login"].at = "checked"
    /\ \/ /\ RecordSuccess
          /\ AnswerLogin(t, [Reply("ok") EXCEPT !.token = calls[t]["login"].token])
          /\ guesses' = 0
       \/ /\ ~calm
          /\ RecordFailure
          /\ AnswerLogin(t, Reply("refused"))
          /\ guesses' = guesses + 1
    /\ UNCHANGED <<protected, token, view, calm>>

\* lockoutDuration has passed.
LockoutEnds ==
    /\ locked
    /\ locked' = FALSE /\ guesses' = 0
    /\ UNCHANGED <<protected, failures, token, view, calls, calm>>

\* No token issued so far is good any more, wherever it is, except in requests
\* that have come as far as these.
VoidTokens(spared) ==
    /\ token' = FALSE
    /\ calls' = [t \in Tabs |-> [k \in Kinds |->
          IF calls[t][k].at \in spared \cup {"idle"} THEN calls[t][k]
          ELSE [calls[t][k] EXCEPT !.token = FALSE]]]

\* The tokens issued so far are seven days old; that of a login that has passed
\* the check is yet to be issued.
Expire ==
    /\ ~calm
    /\ VoidTokens({"checked"})
    /\ UNCHANGED <<serverVars, view, calm>>

\* A reload installs a configuration without a password, with the one there
\* was before (the tokens it signed are good again), or with another.
SetPassword ==
    /\ ~calm
    /\ \/ protected' = ~protected /\ UNCHANGED <<token, calls>>
       \/ protected' = TRUE /\ VoidTokens({})
    /\ UNCHANGED <<failures, locked, guesses, view, calm>>

\* The limiter is in memory only; requests under way fail.
Restart ==
    /\ ~calm
    /\ failures' = 0 /\ locked' = FALSE /\ guesses' = 0
    /\ calls' = [t \in Tabs |-> [k \in Kinds |->
          CASE calls[t][k].at \in {"idle", "answered"} -> calls[t][k]
            [] OTHER -> IF k = "api" \/ calls[t][k].gone THEN Idle ELSE Reply("failed")]]
    /\ UNCHANGED <<protected, token, view, calm>>

-----------------------------------------------------------------------------
(* The tabs: answers.                                                       *)

\* Mutated form: a refusal clears the token without telling the application.
RefusedSilently(t) == token' = FALSE /\ UNCHANGED view

\* `request` on a 401, whatever token it had carried: the token stored now is
\* removed, and this window is told.
Refused(t) == token' = FALSE /\ view' = [view EXCEPT ![t].loggedIn = FALSE]

\* checkAuth: an answer sets both flags, a failure leaves them as they were.
ReceiveStatus(t) ==
    /\ calls[t]["status"].at = "answered"
    /\ LET a == calls[t]["status"]
       IN  view' = [view EXCEPT ![t] =
              IF a.result = "failed" THEN [@ EXCEPT !.checking = FALSE]
              ELSE [checking |-> FALSE, required |-> a.required,
                    loggedIn |-> a.result = "ok"]]
    /\ Answer(t, "status", Idle)
    /\ UNCHANGED <<serverVars, token, calm>>

\* loginAdmin stores the token unless it is empty, then onLoginSuccess; an
\* error is shown in the form, and a wrong password is a refusal as well.
ReceiveLogin(t) ==
    /\ calls[t]["login"].at = "answered"
    /\ LET a == calls[t]["login"] IN
       \/ /\ a.result \in {"ok", "open"}
          /\ token' = IF a.result = "ok" THEN a.token ELSE token
          /\ view' = [view EXCEPT ![t].loggedIn = TRUE]
       \/ a.result = "refused" /\ Refused(t)
       \/ a.result = "failed" /\ UNCHANGED <<token, view>>
    /\ Answer(t, "login", Idle)
    /\ UNCHANGED <<serverVars, calm>>

ReceiveApi(t) ==
    /\ calls[t]["api"].at = "answered"
    /\ Refused(t)
    /\ Answer(t, "api", Idle)
    /\ UNCHANGED <<serverVars, calm>>

\* adminLogout has nothing to do; logoutAdmin clears the token and tells the
\* window whether or not its request failed, and handleLogout sets the same flag.
ReceiveLogout(t) ==
    /\ calls[t]["logout"] # Idle
    /\ Refused(t)
    /\ Answer(t, "logout", Idle)
    /\ UNCHANGED <<serverVars, calm>>

-----------------------------------------------------------------------------
\* From here on tokens do not run out, the password stays, nobody logs out,
\* reloads or mistypes, and only one tab is used; what the others had asked
\* is still answered.
CalmDown ==
    /\ ~calm
    /\ calm' = TRUE
    /\ UNCHANGED <<serverVars, token, view, calls>>

Serve(t) ==
    \/ ServeStatus(t) \/ ServeApi(t) \/ CheckLogin(t) \/ VerifyLogin(t)

Receive(t) ==
    \/ ReceiveStatus(t) \/ ReceiveLogin(t) \/ ReceiveApi(t) \/ ReceiveLogout(t)

Next ==
    \/ \E t \in Tabs :
         \/ Load(t) \/ Submit(t) \/ Fetch(t) \/ Logout(t)
         \/ Serve(t) \/ Receive(t)
    \/ SetPassword \/ LockoutEnds \/ Expire \/ Restart \/ CalmDown

\* Each request is served and each answer handled; lockouts end; pages keep
\* asking (some by themselves), and an administrator who finds the form fills
\* it in.
Fairness ==
    /\ \A t \in Tabs :
         /\ WF_sessionVars(ServeStatus(t)) /\ WF_sessionVars(ReceiveStatus(t))
         /\ WF_sessionVars(ServeApi(t))    /\ WF_sessionVars(ReceiveApi(t))
         /\ WF_sessionVars(ReceiveLogout(t))
         /\ WF_sessionVars(CheckLogin(t) \/ VerifyLogin(t) \/ ReceiveLogin(t))
         /\ WF_sessionVars(Fetch(t))       /\ WF_sessionVars(Submit(t))
    /\ WF_sessionVars(LockoutEnds)

Spec == Init /\ [][Next]_sessionVars /\ Fairness

-----------------------------------------------------------------------------
\* The limiter checks an address and records a failure in two steps, so
\* guesses that passed the check together all count: between two lockouts no
\* more wrong passwords are compared than the limit and one for each other
\* login under way.
GuessesBounded == guesses <= MaxFailures + Cardinality(Tabs) - 1

\* A refusal that was on its way when somebody logged in removes the new token
\* as well (client.ts:30).  That can only go on for as long as there are such
\* answers: once a tab that knows a password is required is used alone and in
\* peace, it ends up showing the pages, with a token the server accepts.
SessionSettles ==
    (calm /\ ~view[Last].checking /\ view[Last].required)
        ~> [](PagesShown(Last) /\ Accepted(token))
=============================================================================

------------------------- MODULE AdminSessionProofs -------------------------
(***************************************************************************)
(* Safety of AdminSession, for any set of tabs and any limit.  The failures*)
(* an address can still collect are those of the logins past the limiter's *)
(* check, so the inductive invariant counts these together with the ones   *)
(* recorded, and relates the wrong passwords compared to the failures.     *)
(***************************************************************************)
EXTENDS AdminSession, FiniteSetTheorems, TLAPS

\* The logins that have passed the limiter's check and are not yet judged.
Checked == {t \in Tabs : calls[t]["login"].at = "checked"}

Bound == MaxFailures + Cardinality(Tabs) - 1

\* A failure recorded, or one that can still be, counts against the bound.
FailuresInv == failures + Cardinality(Checked) <= Bound

\* A lockout that has run out has not been forgotten yet, or there is room.
GuessesInv ==
    /\ guesses <= failures
    /\ failures >= MaxFailures => locked \/ guesses = 0

SessionInv == TypeOK /\ FailuresInv /\ GuessesInv

-----------------------------------------------------------------------------
(* Counting the logins past the check.                                     *)
LEMMA CheckedFinite ==
    /\ IsFiniteSet(Checked) /\ Cardinality(Checked) \in Nat
    /\ Cardinality(Tabs) \in Nat \ {0}
    /\ Cardinality(Checked) <= Cardinality(Tabs)
<1>1. Checked \subseteq Tabs
  BY DEF Checked
<1>2. IsFiniteSet(Tabs) /\ Tabs # {}
  BY SessionConstants
<1>3. Cardinality(Tabs) # 0
  BY <1>2, FS_EmptySet
<1> QED BY <1>1, <1>2, <1>3, FS_Subset, FS_CardinalityType

LEMMA BoundIsNat == MaxFailures \in Nat \ {0} /\ Bound \in Nat
  BY CheckedFinite, SessionConstants DEF Bound

(* No login passes the check and no failure is recorded: nothing is added. *)
LEMMA NothingMore ==
    ASSUME TypeOK, FailuresInv, Checked' \subseteq Checked,
           failures' \in Nat, failures' <= failures
    PROVE  FailuresInv' /\ failures' \in 0 .. Bound
<1>1. /\ Cardinality(Checked) \in Nat /\ Cardinality(Checked') \in Nat
      /\ Cardinality(Checked') <= Cardinality(Checked)
  BY CheckedFinite, FS_Subset, FS_CardinalityType
<1>2. failures \in Nat
  BY CheckedFinite, BoundIsNat DEF TypeOK, Bound
<1> QED BY <1>1, <1>2, BoundIsNat DEF FailuresInv

(* One login passes the check, at an address that is not locked and whose  *)
(* failures are fewer than the limit: all tabs can be past it by then.     *)
LEMMA OneMoreChecked ==
    ASSUME failures' \in Nat, failures' < MaxFailures
    PROVE  FailuresInv' /\ failures' \in 0 .. Bound
<1>1. Checked' \subseteq Tabs
  BY DEF Checked
<1>2. /\ Cardinality(Checked') \in Nat
      /\ Cardinality(Checked') <= Cardinality(Tabs)
      /\ Cardinality(Tabs) \in Nat \ {0}
  BY <1>1, CheckedFinite, SessionConstants, FS_Subset, FS_CardinalityType
<1> QED BY <1>2, BoundIsNat DEF FailuresInv, Bound

(* A failure is recorded: its login was past the check, and is no more.    *)
LEMMA OneMoreFailure ==
    ASSUME TypeOK, FailuresInv, NEW t \in Tabs,
           t \in Checked, Checked' = Checked \ {t}, failures' = failures + 1
    PROVE  FailuresInv' /\ failures' \in 0 .. Bound
<1>1. /\ Cardinality(Checked) \in Nat /\ Cardinality(Checked') \in Nat
      /\ Cardinality(Checked') = Cardinality(Checked) - 1
  BY CheckedFinite, FS_RemoveElement, FS_CardinalityType
<1>2. failures \in Nat
  BY CheckedFinite, BoundIsNat DEF TypeOK, Bound
<1> QED BY <1>1, <1>2, BoundIsNat DEF FailuresInv

-----------------------------------------------------------------------------
(* The requests of a tab.                                                  *)

Req == {Idle} \cup Outgoing \cup Answered

(* What the tabs send and what they are answered.                          *)
LEMMA RequestTypes ==
    /\ Idle \in Req
    /\ \A tk \in BOOLEAN : Request(tk) \in Outgoing
    /\ \A r \in {"ok", "open", "no", "refused", "failed"} : Reply(r) \in Answered
    /\ \A a \in Answered, b \in BOOLEAN :
          [a EXCEPT !.required = b] \in Answered /\ [a EXCEPT !.token = b] \in Answered
    /\ \A a \in Req : a.at \in {"idle", "sent", "checked", "answered"}
    /\ \A a \in Req : a.at \in {"sent", "checked"} <=> a \in Outgoing
    /\ \A a \in Req : a.at = "answered" <=> a \in Answered
    /\ \A a \in Req : a.at = "idle" <=> a = Idle
    /\ \A a \in Outgoing : a.token \in BOOLEAN /\ a.gone \in BOOLEAN
    /\ \A a \in Answered : a.token \in BOOLEAN /\ a.required \in BOOLEAN
<1>1. Idle.at = "idle"
  BY DEF Idle
<1> QED BY <1>1 DEF Req, Idle, Outgoing, Answered, Request, Reply

CallsOK == calls \in [Tabs -> [Kinds -> Req]]

(* One request of one tab changes; only a login can be past the check.     *)
LEMMA SetCall ==
    ASSUME CallsOK, NEW t \in Tabs, NEW k \in Kinds, NEW a \in Req,
           calls' = [calls EXCEPT ![t][k] = a]
    PROVE  /\ CallsOK'
           /\ (k # "login" \/ a.at # "checked") => Checked' \subseteq Checked
           /\ (k = "login" /\ a.at # "checked") => Checked' = Checked \ {t}
<1>1. \A u \in Tabs : calls'[u] = IF u = t THEN [calls[u] EXCEPT ![k] = a] ELSE calls[u]
  BY DEF CallsOK
<1>2. \A u \in Tabs : calls'[u] \in [Kinds -> Req]
  BY <1>1 DEF CallsOK
<1>3. CallsOK'
  BY <1>2 DEF CallsOK
<1>4. \A u \in Tabs : calls'[u]["login"] =
          IF u = t /\ k = "login" THEN a ELSE calls[u]["login"]
  BY <1>1 DEF CallsOK, Kinds
<1> QED BY <1>3, <1>4 DEF Checked

(* Tokens are void: what a request is and where it is stays.               *)
LEMMA TokensVoid ==
    ASSUME CallsOK, NEW spared, VoidTokens(spared)
    PROVE  CallsOK' /\ Checked' = Checked /\ token' \in BOOLEAN
<1>1. ASSUME NEW t \in Tabs, NEW k \in Kinds
      PROVE  calls'[t][k] \in Req /\ calls'[t][k].at = calls[t][k].at
  <2>1. calls[t][k] \in Req
    BY DEF CallsOK
  <2>2. calls'[t][k] = IF calls[t][k].at \in spared \cup {"idle"} THEN calls[t][k]
                       ELSE [calls[t][k] EXCEPT !.token = FALSE]
    BY DEF VoidTokens
  <2>3. CASE calls[t][k].at \in spared \cup {"idle"}
    BY <2>1, <2>2, <2>3
  <2>4. CASE ~(calls[t][k].at \in spared \cup {"idle"})
    <3>1. calls[t][k] \in Outgoing \cup Answered
      BY <2>1, <2>4, RequestTypes DEF Req
    <3>2. [calls[t][k] EXCEPT !.token = FALSE] \in Outgoing \cup Answered
      BY <3>1 DEF Outgoing, Answered
    <3>3. [calls[t][k] EXCEPT !.token = FALSE].at = calls[t][k].at
      BY <3>1 DEF Outgoing, Answered
    <3> QED BY <2>2, <2>4, <3>2, <3>3 DEF Req
  <2> QED BY <2>3, <2>4
<1>2. calls' = [t \in Tabs |-> [k \in Kinds |-> calls'[t][k]]]
  BY DEF VoidTokens
<1>3. CallsOK'
  BY <1>1, <1>2 DEF CallsOK
<1> QED BY <1>1, <1>3 DEF Checked, Kinds, VoidTokens

-----------------------------------------------------------------------------
(* Every step keeps the types and the two counts.                          *)

\* What most steps leave alone.
Uncounted == UNCHANGED <<protected, failures, locked, guesses>>

LEMMA CountsKept ==
    ASSUME SessionInv, Uncounted, CallsOK', Checked' \subseteq Checked,
           token' \in BOOLEAN, view' \in [Tabs -> View], calm' \in BOOLEAN
    PROVE  SessionInv'
<1>1. failures \in Nat /\ failures' = failures /\ failures' \in Nat
  BY BoundIsNat DEF SessionInv, TypeOK, Uncounted, Bound
<1>2. FailuresInv' /\ failures' \in 0 .. Bound
  BY <1>1, NothingMore DEF SessionInv
<1>3. TypeOK'
  BY <1>2 DEF SessionInv, TypeOK, Uncounted, CallsOK, Req, Bound
<1>4. GuessesInv'
  BY DEF SessionInv, GuessesInv, Uncounted
<1> QED BY <1>2, <1>3, <1>4 DEF SessionInv

LEMMA InitEstablishes == Init => SessionInv
<1> SUFFICES ASSUME Init PROVE SessionInv
  OBVIOUS
<1>1. token \in BOOLEAN /\ calls \in [Tabs -> [Kinds -> Req]] /\ Checked = {}
  BY RequestTypes DEF Init, Checked, Kinds, Idle, Request, Req
<1>2. view \in [Tabs -> View]
  BY DEF Init, View, FirstView
<1>3. Cardinality(Checked) = 0
  BY <1>1, FS_EmptySet
<1>4. FailuresInv /\ failures \in 0 .. Bound
  BY <1>3, BoundIsNat DEF Init, FailuresInv
<1>5. TypeOK
  BY <1>1, <1>2, <1>4 DEF Init, TypeOK, Req, Bound
<1>6. GuessesInv
  BY SessionConstants DEF Init, GuessesInv
<1> QED BY <1>4, <1>5, <1>6 DEF SessionInv

LEMMA LoadKeeps == ASSUME SessionInv, NEW t \in Tabs, Load(t) PROVE SessionInv'
<1>1. CallsOK
  BY DEF SessionInv, TypeOK, CallsOK, Req
<1>2. \A k \in Kinds : calls[t][k] \in Req
  BY <1>1 DEF CallsOK
<1> DEFINE new == [k \in Kinds |->
             CASE k = "status" -> Request(token)
               [] k = "login" /\ calls[t][k].at \in {"sent", "checked"} ->
                     [calls[t][k] EXCEPT !.gone = TRUE]
               [] OTHER -> Idle]
<1>3. calls' = [calls EXCEPT ![t] = new]
  BY <1>1 DEF Load, CallsOK
<1>4. new["login"] \in Req /\ (new["login"].at = "checked" => t \in Checked)
  <2>1. CASE calls[t]["login"].at \in {"sent", "checked"}
    <3>1. new["login"] = [calls[t]["login"] EXCEPT !.gone = TRUE]
      BY <2>1 DEF Kinds
    <3>2. calls[t]["login"] \in Outgoing
      BY <1>2, <2>1, RequestTypes DEF Kinds
    <3> HIDE DEF new
    <3> QED BY <3>1, <3>2 DEF Req, Outgoing, Checked
  <2>2. CASE ~(calls[t]["login"].at \in {"sent", "checked"})
    <3>1. new["login"] = Idle
      BY <2>2 DEF Kinds
    <3> HIDE DEF new
    <3> QED BY <3>1, RequestTypes DEF Idle
  <2> QED BY <2>1, <2>2
<1>5. \A k \in Kinds : new[k] \in Req
  <2>1. Request(token) \in Req /\ Idle \in Req
    BY RequestTypes DEF SessionInv, TypeOK, Req
  <2>2. new["status"] \in Req /\ new["api"] \in Req /\ new["logout"] \in Req
    BY <2>1 DEF Kinds
  <2> HIDE DEF new
  <2> QED BY <1>4, <2>2 DEF Kinds
<1>6. new \in [Kinds -> Req]
  BY <1>5
<1> HIDE DEF new
<1>7. CallsOK' /\ Checked' \subseteq Checked
  BY <1>1, <1>3, <1>4, <1>6 DEF CallsOK, Checked, Kinds
<1>8. Uncounted /\ token' \in BOOLEAN /\ calm' \in BOOLEAN /\ view' \in [Tabs -> View]
  BY DEF Load, Uncounted, serverVars, SessionInv, TypeOK, View, FirstView
<1> QED BY <1>7, <1>8, CountsKept

(* The other steps of the tabs, and the handlers that count nothing.       *)
LEMMA PlainStepKeeps ==
    ASSUME SessionInv, NEW t \in Tabs,
           \/ Submit(t) \/ Fetch(t) \/ Logout(t) \/ ServeStatus(t) \/ ServeApi(t)
           \/ Receive(t)
    PROVE  SessionInv'
<1>1. CallsOK
  BY DEF SessionInv, TypeOK, CallsOK, Req
<1>2. token \in BOOLEAN /\ protected \in BOOLEAN /\ view \in [Tabs -> View] /\ calm \in BOOLEAN
  BY DEF SessionInv, TypeOK
<1>3. \A k \in Kinds : calls[t][k] \in Req
  BY <1>1 DEF CallsOK
<1>4. /\ Idle \in Req /\ Idle.at # "checked"
      /\ \A tk \in BOOLEAN : Request(tk) \in Req /\ Request(tk).at # "checked"
      /\ \A r \in {"ok", "open", "no", "refused", "failed"} :
            Reply(r) \in Req /\ Reply(r).at # "checked"
  BY RequestTypes DEF Req, Idle, Request, Reply
<1>5. \E k \in Kinds, a \in Req : a.at # "checked" /\ calls' = [calls EXCEPT ![t][k] = a]
  <2>1. CASE Submit(t)
    BY <1>4, <2>1 DEF Submit, Ask, Kinds
  <2>2. CASE Fetch(t)
    BY <1>2, <1>4, <2>2 DEF Fetch, Ask, Kinds
  <2>3. CASE Logout(t)
    BY <1>4, <2>3 DEF Logout, Ask, Kinds
  <2>4. CASE ServeStatus(t)
    <3>1. PICK r \in {"ok", "no"} :
             calls' = [calls EXCEPT ![t]["status"] = [Reply(r) EXCEPT !.required = protected]]
      BY <2>4 DEF ServeStatus, Answer
    <3>2. [Reply(r) EXCEPT !.required = protected] \in Answered
      BY <1>2, RequestTypes
    <3> QED BY <3>1, <3>2 DEF Req, Answered, Kinds
  <2>5. CASE ServeApi(t)
    BY <1>4, <2>5 DEF ServeApi, Answer, Kinds
  <2>6. CASE Receive(t)
    BY <1>4, <2>6
    DEF Receive, ReceiveStatus, ReceiveLogin, ReceiveApi, ReceiveLogout, Answer, Kinds
  <2> QED BY <2>1, <2>2, <2>3, <2>4, <2>5, <2>6
<1>6. CallsOK' /\ Checked' \subseteq Checked
  BY <1>1, <1>5, SetCall
<1>7. Uncounted
  BY DEF Uncounted, Submit, Fetch, Logout, ServeStatus, ServeApi, Receive, ReceiveStatus,
         ReceiveLogin, ReceiveApi, ReceiveLogout, serverVars
<1>8. token' \in BOOLEAN /\ view' \in [Tabs -> View] /\ calm' \in BOOLEAN
  <2>1. CASE ~Receive(t)
    BY <1>2, <2>1 DEF Submit, Fetch, Logout, ServeStatus, ServeApi
  <2>2. Refused(t) => token' \in BOOLEAN /\ view' \in [Tabs -> View]
    BY <1>2 DEF Refused, View
  <2>3. CASE ReceiveStatus(t)
    <3>1. calls[t]["status"] \in Answered
      BY <1>3, <2>3, RequestTypes DEF ReceiveStatus, Kinds
    <3>2. calls[t]["status"].required \in BOOLEAN
      BY <3>1 DEF Answered
    <3> QED BY <1>2, <2>3, <3>2 DEF ReceiveStatus, View
  <2>4. CASE ReceiveLogin(t)
    <3>1. calls[t]["login"] \in Answered
      BY <1>3, <2>4, RequestTypes DEF ReceiveLogin, Kinds
    <3>2. calls[t]["login"].token \in BOOLEAN
      BY <3>1 DEF Answered
    <3> QED BY <1>2, <2>2, <2>4, <3>2 DEF ReceiveLogin, View
  <2>5. CASE ReceiveApi(t) \/ ReceiveLogout(t)
    BY <1>2, <2>2, <2>5 DEF ReceiveApi, ReceiveLogout
  <2>6. CASE Receive(t)
    <3>1. calm' = calm
      BY <2>6 DEF Receive, ReceiveStatus, ReceiveLogin, ReceiveApi, ReceiveLogout
    <3> QED BY <1>2, <2>3, <2>4, <2>5, <2>6, <3>1 DEF Receive
  <2> QED BY <2>1, <2>6
<1> QED BY <1>6, <1>7, <1>8, CountsKept

(* The limiter's check lets a login pass with failures short of the limit. *)
LEMMA CheckLoginKeeps == ASSUME SessionInv, NEW t \in Tabs, CheckLogin(t) PROVE SessionInv'
<1>1. CallsOK
  BY DEF SessionInv, TypeOK, CallsOK, Req
<1>2. calls[t]["login"] \in Outgoing
  BY <1>1, RequestTypes DEF CallsOK, CheckLogin, Kinds
<1>3. token' \in BOOLEAN /\ view' \in [Tabs -> View] /\ calm' \in BOOLEAN
  BY DEF CheckLogin, SessionInv, TypeOK
<1>4. failures \in Nat
  BY BoundIsNat DEF SessionInv, TypeOK, Bound
<1>5. CASE UNCHANGED failures /\ \E r \in {"open", "failed"} : AnswerLogin(t, Reply(r))
  <2>1. PICK a \in Req : a.at # "checked" /\ calls' = [calls EXCEPT ![t]["login"] = a]
    <3>1. PICK r \in {"open", "failed"} : AnswerLogin(t, Reply(r))
      BY <1>5
    <3>2. Reply(r) \in Req /\ Reply(r).at # "checked" /\ Idle \in Req /\ Idle.at # "checked"
      BY RequestTypes DEF Req, Reply, Idle
    <3> QED BY <3>1, <3>2 DEF AnswerLogin, Answer
  <2>2. CallsOK' /\ Checked' \subseteq Checked
    BY <1>1, <2>1, SetCall DEF Kinds
  <2>3. Uncounted
    BY <1>5 DEF Uncounted, CheckLogin
  <2> QED BY <1>3, <2>2, <2>3, CountsKept
<1>6. CASE ~locked /\ ForgetFailures /\
           Answer(t, "login", [calls[t]["login"] EXCEPT !.at = "checked", !.token = TRUE])
  <2>1. [calls[t]["login"] EXCEPT !.at = "checked", !.token = TRUE] \in Req
    BY <1>2 DEF Req, Outgoing
  <2>2. CallsOK'
    <3> DEFINE a == [calls[t]["login"] EXCEPT !.at = "checked", !.token = TRUE]
    <3>1. a \in Req /\ calls' = [calls EXCEPT ![t]["login"] = a]
      BY <1>6, <2>1 DEF Answer
    <3> HIDE DEF a
    <3> QED BY <1>1, <3>1, SetCall DEF Kinds
  <2>3. failures' \in Nat /\ failures' < MaxFailures
    BY <1>4, <1>6, BoundIsNat DEF ForgetFailures
  <2>4. FailuresInv' /\ failures' \in 0 .. Bound
    BY <2>3, OneMoreChecked
  <2>5. guesses' = guesses /\ locked' = locked /\ protected' = protected
    BY DEF CheckLogin
  <2>6. guesses \in Nat /\ guesses <= failures /\ (failures >= MaxFailures => guesses = 0)
    BY <1>6 DEF SessionInv, TypeOK, GuessesInv
  <2>7. GuessesInv'
    BY <1>4, <1>6, <2>3, <2>5, <2>6, BoundIsNat DEF GuessesInv, ForgetFailures
  <2>8. TypeOK'
    BY <1>3, <2>2, <2>4, <2>5 DEF SessionInv, TypeOK, CallsOK, Req, Bound
  <2> QED BY <2>4, <2>7, <2>8 DEF SessionInv
<1> QED BY <1>5, <1>6 DEF CheckLogin

(* A password is compared: the login leaves the ones past the check.       *)
LEMMA VerifyLoginKeeps == ASSUME SessionInv, NEW t \in Tabs, VerifyLogin(t) PROVE SessionInv'
<1>1. CallsOK
  BY DEF SessionInv, TypeOK, CallsOK, Req
<1>2. calls[t]["login"] \in Outgoing /\ t \in Checked
  BY <1>1, RequestTypes DEF CallsOK, VerifyLogin, Kinds, Checked
<1>3. token' \in BOOLEAN /\ view' \in [Tabs -> View] /\ calm' \in BOOLEAN
  BY DEF VerifyLogin, SessionInv, TypeOK
<1>4. failures \in Nat /\ guesses \in Nat /\ protected' = protected /\ locked \in BOOLEAN
  BY BoundIsNat DEF SessionInv, TypeOK, Bound, VerifyLogin
<1>5. CallsOK' /\ Checked' = Checked \ {t}
  <2>1. PICK b \in Answered : AnswerLogin(t, b)
    <3>1. Reply("refused") \in Answered
      BY RequestTypes
    <3>2. [Reply("ok") EXCEPT !.token = calls[t]["login"].token] \in Answered
      BY <1>2, RequestTypes
    <3> QED BY <3>1, <3>2 DEF VerifyLogin
  <2>2. PICK a \in Req : a.at # "checked" /\ calls' = [calls EXCEPT ![t]["login"] = a]
    <3>1. Idle \in Req /\ Idle.at # "checked" /\ b \in Req /\ b.at # "checked"
      BY RequestTypes DEF Req, Idle, Answered
    <3> QED BY <2>1, <3>1 DEF AnswerLogin, Answer
  <2> QED BY <1>1, <2>2, SetCall DEF Kinds
<1>6. CASE RecordSuccess /\ guesses' = 0
  <2>1. failures' = 0 /\ locked' = FALSE
    BY <1>6 DEF RecordSuccess
  <2>2. FailuresInv' /\ failures' \in 0 .. Bound
    BY <1>4, <1>5, <2>1, NothingMore DEF SessionInv
  <2>3. TypeOK'
    BY <1>3, <1>4, <1>5, <1>6, <2>1, <2>2 DEF SessionInv, TypeOK, CallsOK, Req, Bound
  <2> QED BY <1>6, <2>1, <2>2, <2>3 DEF SessionInv, GuessesInv
<1>7. CASE RecordFailure /\ guesses' = guesses + 1
  <2>1. failures' = failures + 1 /\ (failures' >= MaxFailures => locked')
    BY <1>7 DEF RecordFailure
  <2>2. locked' \in BOOLEAN
    BY <1>7 DEF RecordFailure
  <2>3. FailuresInv' /\ failures' \in 0 .. Bound
    BY <1>2, <1>5, <2>1, OneMoreFailure DEF SessionInv
  <2>4. GuessesInv'
    BY <1>4, <1>7, <2>1 DEF SessionInv, GuessesInv
  <2>5. TypeOK'
    BY <1>3, <1>4, <1>5, <1>7, <2>2, <2>3 DEF SessionInv, TypeOK, CallsOK, Req, Bound
  <2> QED BY <2>3, <2>4, <2>5 DEF SessionInv
<1> QED BY <1>6, <1>7 DEF VerifyLogin

LEMMA LockoutEndsKeeps == ASSUME SessionInv, LockoutEnds PROVE SessionInv'
<1>1. failures \in Nat /\ failures' = failures /\ guesses' = 0 /\ locked' = FALSE
  BY BoundIsNat DEF SessionInv, TypeOK, Bound, LockoutEnds
<1>2. Checked' = Checked
  BY DEF LockoutEnds, Checked
<1>3. FailuresInv' /\ failures' \in 0 .. Bound
  BY <1>1, <1>2, NothingMore DEF SessionInv
<1>4. TypeOK'
  <2>1. UNCHANGED <<protected, token, view, calls, calm>>
    BY DEF LockoutEnds
  <2> QED BY <1>1, <1>3, <2>1 DEF SessionInv, TypeOK, Bound
<1> QED BY <1>1, <1>3, <1>4 DEF SessionInv, GuessesInv

(* The password and the tokens change, or the administrator calms down.    *)
LEMMA TokenStepKeeps == ASSUME SessionInv, Expire \/ SetPassword \/ CalmDown PROVE SessionInv'
<1>1. CallsOK /\ token \in BOOLEAN /\ protected \in BOOLEAN /\ calm \in BOOLEAN
  BY DEF SessionInv, TypeOK, CallsOK, Req
<1>2. CallsOK' /\ Checked' = Checked /\ token' \in BOOLEAN
  <2>1. CASE Expire
    BY <1>1, <2>1, TokensVoid DEF Expire
  <2>2. CASE SetPassword /\ VoidTokens({})
    BY <1>1, <2>2, TokensVoid
  <2>3. CASE UNCHANGED <<token, calls>>
    BY <1>1, <2>3 DEF CallsOK, Checked
  <2> QED BY <2>1, <2>2, <2>3 DEF SetPassword, CalmDown
<1>3. /\ protected' \in BOOLEAN /\ calm' \in BOOLEAN
      /\ failures' = failures /\ locked' = locked /\ guesses' = guesses /\ view' = view
  BY <1>1 DEF Expire, SetPassword, CalmDown, serverVars
<1>4. failures \in Nat
  BY BoundIsNat DEF SessionInv, TypeOK, Bound
<1>5. FailuresInv' /\ failures' \in 0 .. Bound
  BY <1>2, <1>3, <1>4, NothingMore DEF SessionInv
<1>6. TypeOK'
  BY <1>2, <1>3, <1>5 DEF SessionInv, TypeOK, CallsOK, Req, Bound
<1>7. GuessesInv'
  BY <1>3 DEF SessionInv, GuessesInv
<1> QED BY <1>5, <1>6, <1>7 DEF SessionInv

LEMMA RestartKeeps == ASSUME SessionInv, Restart PROVE SessionInv'
<1>1. CallsOK
  BY DEF SessionInv, TypeOK, CallsOK, Req
<1>2. ASSUME NEW t \in Tabs, NEW k \in Kinds
      PROVE  calls'[t][k] \in Req /\ calls'[t][k].at # "checked"
  <2>1. calls[t][k] \in Req
    BY <1>1 DEF CallsOK
  <2>2. \/ calls'[t][k] = calls[t][k] /\ calls[t][k].at \in {"idle", "answered"}
        \/ calls'[t][k] = Idle
        \/ calls'[t][k] = Reply("failed")
    BY DEF Restart
  <2>3. Idle \in Req /\ Idle.at # "checked"
    BY RequestTypes DEF Idle
  <2>4. Reply("failed") \in Req /\ Reply("failed").at # "checked"
    BY RequestTypes DEF Req, Reply
  <2> QED BY <2>1, <2>2, <2>3, <2>4
<1>3. calls' = [t \in Tabs |-> [k \in Kinds |-> calls'[t][k]]]
  BY DEF Restart
<1>4. CallsOK'
  BY <1>2, <1>3 DEF CallsOK
<1>5. Checked' \subseteq Checked
  BY <1>2 DEF Checked, Kinds
<1>6. failures' = 0 /\ locked' = FALSE /\ guesses' = 0
  BY DEF Restart
<1>7. failures \in Nat
  BY BoundIsNat DEF SessionInv, TypeOK, Bound
<1>8. FailuresInv' /\ failures' \in 0 .. Bound
  BY <1>5, <1>6, <1>7, NothingMore DEF SessionInv
<1>9. TypeOK'
  <2>1. UNCHANGED <<protected, token, view, calm>>
    BY DEF Restart
  <2> QED BY <1>4, <1>6, <1>8, <2>1 DEF SessionInv, TypeOK, CallsOK, Req, Bound
<1> QED BY <1>6, <1>8, <1>9 DEF SessionInv, GuessesInv

-----------------------------------------------------------------------------
(* The failures recorded and still possible stay within the bound, and no  *)
(* more passwords have been compared than failures recorded.               *)
THEOREM SessionInvariant == Spec => []SessionInv
<1>1. ASSUME SessionInv, Next PROVE SessionInv'
  <2>1. CASE \E t \in Tabs : Load(t)
    BY <1>1, <2>1, LoadKeeps
  <2>2. CASE \E t \in Tabs : \/ Submit(t) \/ Fetch(t) \/ Logout(t)
                            \/ ServeStatus(t) \/ ServeApi(t) \/ Receive(t)
    BY <1>1, <2>2, PlainStepKeeps
  <2>3. CASE \E t \in Tabs : CheckLogin(t)
    BY <1>1, <2>3, CheckLoginKeeps
  <2>4. CASE \E t \in Tabs : VerifyLogin(t)
    BY <1>1, <2>4, VerifyLoginKeeps
  <2>5. CASE LockoutEnds
    BY <1>1, <2>5, LockoutEndsKeeps
  <2>6. CASE Expire \/ SetPassword \/ CalmDown
    BY <1>1, <2>6, TokenStepKeeps
  <2>7. CASE Restart
    BY <1>1, <2>7, RestartKeeps
  <2> QED BY <1>1, <2>1, <2>2, <2>3, <2>4, <2>5, <2>6, <2>7 DEF Next, Serve
<1>2. ASSUME SessionInv, UNCHANGED sessionVars PROVE SessionInv'
  <2>1. Uncounted /\ UNCHANGED <<token, view, calls, calm>>
    BY <1>2 DEF sessionVars, Uncounted
  <2>2. CallsOK' /\ Checked' \subseteq Checked
    BY <1>2, <2>1 DEF SessionInv, TypeOK, CallsOK, Req, Checked
  <2>3. token' \in BOOLEAN /\ view' \in [Tabs -> View] /\ calm' \in BOOLEAN
    BY <1>2, <2>1 DEF SessionInv, TypeOK
  <2> QED BY <1>2, <2>1, <2>2, <2>3, CountsKept
<1>3. SessionInv /\ [Next]_sessionVars => SessionInv'
  BY <1>1, <1>2
<1> QED BY <1>3, InitEstablishes, PTL DEF Spec

(* Type correctness, the range of the limiter's counter included.          *)
THEOREM SessionTypeCorrect == Spec => []TypeOK
<1>1. SessionInv => TypeOK
  BY DEF SessionInv
<1> QED BY <1>1, SessionInvariant, PTL

(* Between two lockouts no more wrong passwords are compared than the limit*)
(* and one for each other login that can be under way, however many tabs   *)
(* there are and however their checks and failures interleave.             *)
THEOREM GuessesAreBounded == Spec => []GuessesBounded
<1>1. ASSUME SessionInv PROVE GuessesBounded
  <2>1. guesses \in Nat /\ failures \in Nat /\ failures <= Bound /\ guesses <= failures
    BY <1>1, BoundIsNat DEF SessionInv, TypeOK, GuessesInv, Bound
  <2> QED BY <2>1, BoundIsNat DEF GuessesBounded, Bound
<1> QED BY <1>1, SessionInvariant, PTL
=============================================================================

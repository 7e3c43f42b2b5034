--------------------------- MODULE ConsoleProofs ---------------------------
(***************************************************************************)
(* Safety of the pages of the Web UI, for any sets and any bounds that meet*)
(* the assumptions of their modules.  Each page has an inductive invariant *)
(* of its own; the pages share nothing, so those of the pages that are not *)
(* open are preserved because their variables stay the same.               *)
(***************************************************************************)
EXTENDS Console, WellFoundedInduction, FiniteSetTheorems, SequenceTheorems, TLAPS

-----------------------------------------------------------------------------
(* The least-number principle, for sets.                                   *)
LEMMA LeastNumber ==
    ASSUME NEW T, T \subseteq Nat, T # {}
    PROVE  \E x \in T : \A y \in T : x <= y
<1> DEFINE R == {ss \in Nat \X Nat : ss[1] < ss[2]}
<1>1. IsWellFoundedOn(R, Nat)
  BY NatLessThanWellFounded DEF OpToRel
<1>2. \E x \in T : \A y \in T : ~ (<<y, x>> \in R)
  <2> HIDE DEF R
  <2> QED BY <1>1, WFMin
<1>3. PICK x \in T : \A y \in T : ~ (<<y, x>> \in R)
  BY <1>2
<1>4. ASSUME NEW y \in T PROVE x <= y
  <2>1. x \in Nat /\ y \in Nat
    BY <1>3
  <2>2. ~ (<<y, x>> \in R)
    BY <1>3
  <2> QED BY <2>1, <2>2
<1> QED BY <1>3, <1>4

-----------------------------------------------------------------------------
(* Sequences: what a page removes from a list, and puts into one.          *)

LEMMA JoinedFacts ==
    ASSUME NEW S, NEW s \in Seq(S), NEW t \in Seq(S)
    PROVE  /\ s \o t \in Seq(S) /\ Len(s \o t) = Len(s) + Len(t)
           /\ \A j \in 1 .. Len(s) + Len(t) :
                  (s \o t)[j] = IF j <= Len(s) THEN s[j] ELSE t[j - Len(s)]
  OBVIOUS

LEMMA PartFacts ==
    ASSUME NEW S, NEW s \in Seq(S), NEW i \in 1 .. Len(s) + 1, NEW k \in 0 .. Len(s), k >= i - 1
    PROVE  /\ SubSeq(s, i, k) \in Seq(S) /\ Len(SubSeq(s, i, k)) = k - i + 1
           /\ \A j \in 1 .. k - i + 1 : SubSeq(s, i, k)[j] = s[i - 1 + j]
  OBVIOUS

LEMMA RemoveAtFacts ==
    ASSUME NEW S, NEW s \in Seq(S), NEW i \in 1 .. Len(s)
    PROVE  /\ RemoveAt(s, i) \in Seq(S) /\ Len(RemoveAt(s, i)) = Len(s) - 1
           /\ \A j \in 1 .. Len(s) - 1 : RemoveAt(s, i)[j] = IF j < i THEN s[j] ELSE s[j + 1]
<1> DEFINE a == SubSeq(s, 1, i - 1)
           b == SubSeq(s, i + 1, Len(s))
<1>1. a \in Seq(S) /\ Len(a) = i - 1 /\ \A j \in 1 .. i - 1 : a[j] = s[j]
  BY PartFacts
<1>2. b \in Seq(S) /\ Len(b) = Len(s) - i /\ \A j \in 1 .. Len(s) - i : b[j] = s[i + j]
  BY PartFacts
<1>3. RemoveAt(s, i) = a \o b
  BY DEF RemoveAt
<1> HIDE DEF a, b
<1>4. a \o b \in Seq(S) /\ Len(a \o b) = Len(s) - 1
  <2>1. a \o b \in Seq(S) /\ Len(a \o b) = Len(a) + Len(b)
    BY <1>1, <1>2, JoinedFacts
  <2> QED BY <1>1, <1>2, <2>1
<1>5. ASSUME NEW j \in 1 .. Len(s) - 1
      PROVE  (a \o b)[j] = IF j < i THEN s[j] ELSE s[j + 1]
  <2>1. (a \o b)[j] = IF j <= Len(a) THEN a[j] ELSE b[j - Len(a)]
    BY <1>1, <1>2, JoinedFacts
  <2>2. CASE j < i
    BY <1>1, <2>1, <2>2
  <2>3. CASE ~(j < i)
    <3>1. j - (i - 1) \in 1 .. Len(s) - i /\ i + (j - (i - 1)) = j + 1
      BY <2>3
    <3> QED BY <1>1, <1>2, <2>1, <2>3, <3>1
  <2> QED BY <2>2, <2>3
<1> QED BY <1>3, <1>4, <1>5

HasInserted(t, s, i, e) ==
    /\ Len(t) = Len(s) + 1
    /\ \A j \in 1 .. Len(s) + 1 : t[j] = IF j < i THEN s[j] ELSE IF j = i THEN e ELSE s[j - 1]

LEMMA InsertAtFacts ==
    ASSUME NEW S, NEW s \in Seq(S), NEW i \in 1 .. Len(s) + 1, NEW e \in S
    PROVE  InsertAt(s, i, e) \in Seq(S) /\ HasInserted(InsertAt(s, i, e), s, i, e)
<1> DEFINE a == SubSeq(s, 1, i - 1)
           c == a \o <<e>>
           b == SubSeq(s, i, Len(s))
<1>1. a \in Seq(S) /\ Len(a) = i - 1 /\ \A j \in 1 .. i - 1 : a[j] = s[j]
  BY PartFacts
<1>2. b \in Seq(S) /\ Len(b) = Len(s) - i + 1
      /\ \A j \in 1 .. Len(s) - i + 1 : b[j] = s[i - 1 + j]
  BY PartFacts
<1>3. InsertAt(s, i, e) = c \o b
  BY DEF InsertAt
<1> HIDE DEF a, b
<1>4. <<e>> \in Seq(S) /\ Len(<<e>>) = 1 /\ <<e>>[1] = e
  OBVIOUS
<1>5. c \in Seq(S) /\ Len(c) = i /\ c[i] = e /\ \A j \in 1 .. i - 1 : c[j] = s[j]
  <2>1. /\ c \in Seq(S) /\ Len(c) = Len(a) + 1
        /\ \A j \in 1 .. Len(a) + 1 : c[j] = IF j <= Len(a) THEN a[j] ELSE <<e>>[j - Len(a)]
    BY <1>1, <1>4, JoinedFacts
  <2> HIDE DEF c
  <2> QED BY <1>1, <1>4, <2>1
<1> HIDE DEF c
<1>6. c \o b \in Seq(S) /\ Len(c \o b) = Len(s) + 1
  <2>1. c \o b \in Seq(S) /\ Len(c \o b) = Len(c) + Len(b)
    BY <1>2, <1>5, JoinedFacts
  <2> QED BY <1>2, <1>5, <2>1
<1>7. ASSUME NEW j \in 1 .. Len(s) + 1
      PROVE  (c \o b)[j] = IF j < i THEN s[j] ELSE IF j = i THEN e ELSE s[j - 1]
  <2>1. (c \o b)[j] = IF j <= Len(c) THEN c[j] ELSE b[j - Len(c)]
    BY <1>2, <1>5, JoinedFacts
  <2>2. CASE j < i
    BY <1>5, <2>1, <2>2
  <2>3. CASE j = i
    BY <1>5, <2>1, <2>3
  <2>4. CASE j > i
    <3>1. j - i \in 1 .. Len(s) - i + 1 /\ (i - 1) + (j - i) = j - 1
      BY <2>4
    <3> QED BY <1>2, <1>5, <2>1, <2>4, <3>1
  <2>5. j \in Int /\ i \in Int
    OBVIOUS
  <2>6. j < i \/ j = i \/ j > i
    BY <2>5
  <2> QED BY <2>2, <2>3, <2>4, <2>6
<1> QED BY <1>3, <1>6, <1>7 DEF HasInserted

LEMMA ElementOf ==
    ASSUME NEW S, NEW s \in Seq(S)
    PROVE  DOMAIN s = 1 .. Len(s) /\ Len(s) \in Nat /\ \A i \in 1 .. Len(s) : s[i] \in S
  OBVIOUS

LEMMA SeqOfFunction ==
    ASSUME NEW S, NEW n \in Nat, NEW g \in [1 .. n -> S]
    PROVE  g \in Seq(S) /\ Len(g) = n
  OBVIOUS

-----------------------------------------------------------------------------
(* The calls and flows behind the page of tokens.  A refresh token is safe *)
(* with its only user: a call has it in its copy of the row, and what the  *)
(* upstream last gave is on its way to the row.                            *)

\* The table has the refresh token that the upstream accepts, or has none.
RowIsGood == token.id # 0 /\ token.refresh # 0 => token.refresh = good

\* A result is on its way to the table, and nowhere else.
OnTheWay ==
    \/ \E c \in Calls : call[c].at = "answered"
    \/ \E f \in Flows : flow[f].at = "granted"

SoleUser ==
    /\ \A c, d \in Calling : c = d
    /\ \A f, g \in Exchanging : f = g
    /\ Calling = {} \/ Exchanging = {}

CopiesGood == \A c \in Calling : call[c].copy.refresh = good
GrantsGood == \A f \in Flows : flow[f].at = "granted" => flow[f].refresh = good

RefreshSafe == SoleUser /\ (RowIsGood \/ OnTheWay) /\ CopiesGood /\ GrantsGood
RefreshOK == disturbed \/ RefreshSafe

\* What a flow has before the exchange.
FlowsFresh == \A f \in Flows : flow[f].at \in {"away", "exchanging"} => flow[f].refresh = 0

\* Nobody is left who could write a row back.
RevokedOK == revoked /\ ~dirty => token.id = 0 /\ Calling = {} /\ Exchanging = {}

TokensInv == UserTokensTypeOK /\ FlowsFresh /\ RefreshOK /\ RevokedOK

LEMMA TokensInitially == UserTokensInit => TokensInv
<1> SUFFICES ASSUME UserTokensInit PROVE TokensInv
  OBVIOUS
<1>1. NoFlow.second \in Seconds
  BY UserTokensConstants DEF NoFlow
<1>2. UserTokensTypeOK
  <2>1. 0 \in RowIds /\ 0 \in 0 .. MaxRefresh /\ NoRow \in Row
    BY UserTokensConstants DEF RowIds, Row, NoRow
  <2>2. call \in [Calls -> [at: {"idle", "read", "answered"}, copy: Row]]
    BY <2>1 DEF UserTokensInit, Idle
  <2>3. NoFlow \in [at: {"idle", "away", "exchanging", "granted"}, second: Seconds,
                    refresh: 0 .. MaxRefresh, expiry: {"never", "later"}]
    BY <1>1, <2>1 DEF NoFlow
  <2>4. /\ flow \in [Flows -> [at: {"idle", "away", "exchanging", "granted"}, second: Seconds,
                               refresh: 0 .. MaxRefresh, expiry: {"never", "later"}]]
        /\ pkce \in [Seconds -> Flows \cup {{}}]
    BY <2>3 DEF UserTokensInit
  <2>5. token \in Row /\ token = NoRow /\ token.id = 0
    BY <2>1 DEF UserTokensInit, NoRow
  <2>6. lastRow = 0 /\ issued = 0 /\ good = 0 /\ list = {}
    BY DEF UserTokensInit
  <2>7. token.id <= lastRow /\ good \in 0 .. issued /\ list \in SUBSET (1 .. lastRow)
    BY <2>5, <2>6
  <2>8. revoked \in BOOLEAN /\ dirty \in BOOLEAN /\ disturbed \in BOOLEAN
    BY DEF UserTokensInit
  <2> QED BY <2>1, <2>2, <2>4, <2>5, <2>6, <2>7, <2>8 DEF UserTokensTypeOK
<1>3. Calling = {} /\ Exchanging = {}
  BY DEF UserTokensInit, Calling, Exchanging, Idle, NoFlow
<1>4. FlowsFresh /\ RowIsGood /\ \A f \in Flows : flow[f].at # "granted"
  BY DEF UserTokensInit, FlowsFresh, RowIsGood, NoFlow, NoRow
<1> QED BY <1>2, <1>3, <1>4 DEF TokensInv, RefreshOK, RefreshSafe, CopiesGood, GrantsGood, RevokedOK, SoleUser,
      UserTokensInit

\* The sets of users are those that read so.
LEMMA UsersAre ==
    /\ \A c \in Calls : c \in Calling <=> call[c].at # "idle"
    /\ \A f \in Flows : f \in Exchanging <=> flow[f].at \in {"exchanging", "granted"}
    /\ Calling \subseteq Calls /\ Exchanging \subseteq Flows
  BY DEF Calling, Exchanging

LEMMA ExpireKeeps == ASSUME TokensInv, Expire PROVE TokensInv'
<1>1. /\ token' = [token EXCEPT !.expiry = "past"] /\ token.expiry = "later" /\ token \in Row
      /\ token.id = 0 => token = NoRow
  BY DEF Expire, TokensInv, UserTokensTypeOK
<1>2. token' \in Row /\ token'.id = token.id /\ token'.refresh = token.refresh /\ token.id # 0
  BY <1>1 DEF Row, NoRow
<1>3. UNCHANGED <<lastRow, good, issued, call, flow, pkce, list, revoked, dirty, disturbed>>
  BY DEF Expire, ghosts
<1>4. Calling' = Calling /\ Exchanging' = Exchanging
  BY <1>3 DEF Calling, Exchanging
<1>5. UserTokensTypeOK'
  BY <1>2, <1>3 DEF TokensInv, UserTokensTypeOK
<1>6. FlowsFresh' /\ RevokedOK'
  BY <1>2, <1>3, <1>4 DEF TokensInv, FlowsFresh, RevokedOK
<1>7. RefreshOK'
  BY <1>2, <1>3, <1>4 DEF TokensInv, RefreshOK, RefreshSafe, CopiesGood, GrantsGood,
      SoleUser, RowIsGood, OnTheWay
<1> QED BY <1>5, <1>6, <1>7 DEF TokensInv

CallState == [at: {"idle", "read", "answered"}, copy: Row]
FlowState == [at: {"idle", "away", "exchanging", "granted"}, second: Seconds,
              refresh: 0 .. MaxRefresh, expiry: {"never", "later"}]

\* One call moves on.
LEMMA SetOneCall ==
    ASSUME call \in [Calls -> CallState], NEW c \in Calls, NEW x \in CallState,
           call' = [call EXCEPT ![c] = x]
    PROVE  /\ call' \in [Calls -> CallState]
           /\ call'[c] = x /\ \A d \in Calls \ {c} : call'[d] = call[d]
           /\ Calling' = IF x.at = "idle" THEN Calling \ {c} ELSE Calling \cup {c}
<1>1. \A d \in Calls : call'[d] = IF d = c THEN x ELSE call[d]
  OBVIOUS
<1> QED BY <1>1 DEF Calling

\* One flow moves on.
LEMMA SetOneFlow ==
    ASSUME flow \in [Flows -> FlowState], NEW f \in Flows, NEW x \in FlowState,
           flow' = [flow EXCEPT ![f] = x]
    PROVE  /\ flow' \in [Flows -> FlowState]
           /\ flow'[f] = x /\ \A g \in Flows \ {f} : flow'[g] = flow[g]
           /\ Exchanging' = IF x.at \in {"exchanging", "granted"} THEN Exchanging \cup {f}
                            ELSE Exchanging \ {f}
<1>1. \A g \in Flows : flow'[g] = IF g = f THEN x ELSE flow[g]
  OBVIOUS
<1> QED BY <1>1 DEF Exchanging

\* The conjuncts of the types.
LEMMA TokenTypes ==
    ASSUME UserTokensTypeOK
    PROVE  /\ token \in Row /\ (token.id = 0 => token = NoRow) /\ token.id <= lastRow
           /\ lastRow \in 0 .. MaxRows /\ issued \in 0 .. MaxRefresh /\ good \in 0 .. issued
           /\ call \in [Calls -> CallState] /\ flow \in [Flows -> FlowState]
           /\ pkce \in [Seconds -> Flows \cup {{}}] /\ list \in SUBSET (1 .. lastRow)
           /\ revoked \in BOOLEAN /\ dirty \in BOOLEAN /\ disturbed \in BOOLEAN
           /\ MaxRows \in Nat /\ MaxRefresh \in Nat
           /\ Idle \in CallState /\ NoFlow \in FlowState /\ NoRow \in Row
           /\ Idle.at = "idle" /\ NoFlow.at = "idle"
<1>1. NoRow \in Row /\ NoFlow.second \in Seconds
  BY UserTokensConstants DEF Row, NoRow, RowIds, NoFlow
<1>2. Idle \in CallState /\ Idle.at = "idle"
  BY <1>1 DEF Idle, CallState
<1>3. NoFlow \in FlowState /\ NoFlow.at = "idle"
  BY <1>1, UserTokensConstants DEF NoFlow, FlowState
<1> QED BY <1>1, <1>2, <1>3, UserTokensConstants DEF UserTokensTypeOK, CallState, FlowState, RowIds

LEMMA ReadTokenKeeps == ASSUME TokensInv, NEW c \in Calls, ReadToken(c) PROVE TokensInv'
<1>1. UserTokensTypeOK
  BY DEF TokensInv
<1> DEFINE x == [at |-> "read", copy |-> token]
<1>2. x \in CallState /\ call' = [call EXCEPT ![c] = x] /\ x.at = "read" /\ x.copy = token
  BY <1>1, TokenTypes DEF ReadToken, GetMcpToken, CallState
<1> HIDE DEF x
<1>3. UNCHANGED <<token, lastRow, good, issued, flow, pkce, list, revoked, dirty>>
  BY DEF ReadToken
<1>4. disturbed' = (disturbed \/ Calling # {} \/ Exchanging # {}) /\ disturbed' \in BOOLEAN
  BY DEF ReadToken
<1>5. token.id # 0 /\ token.refresh # 0
  BY <1>1, TokenTypes DEF ReadToken, GetMcpToken, NoRow
<1>6. /\ call' \in [Calls -> CallState] /\ call'[c] = x
      /\ \A d \in Calls \ {c} : call'[d] = call[d]
      /\ Calling' = Calling \cup {c} /\ Exchanging' = Exchanging
  BY <1>1, <1>2, <1>3, SetOneCall, TokenTypes DEF Exchanging
<1>7. UserTokensTypeOK'
  BY <1>1, <1>3, <1>4, <1>6 DEF UserTokensTypeOK, CallState
<1>8. FlowsFresh' /\ RevokedOK'
  BY <1>3, <1>5, <1>6 DEF TokensInv, FlowsFresh, RevokedOK
<1>9. ASSUME ~disturbed' PROVE RefreshSafe'
  <2>1. ~disturbed /\ Calling = {} /\ Exchanging = {}
    BY <1>4, <1>9
  <2>2. RowIsGood
    BY <2>1, UsersAre DEF TokensInv, RefreshOK, RefreshSafe, OnTheWay
  <2>3. token.refresh = good /\ RowIsGood'
    BY <1>3, <1>5, <2>2 DEF RowIsGood
  <2>4. SoleUser'
    BY <1>6, <2>1 DEF SoleUser
  <2>5. CopiesGood'
    BY <1>2, <1>3, <1>6, <2>1, <2>3 DEF CopiesGood
  <2>6. GrantsGood'
    BY <1>3, <2>1, UsersAre DEF GrantsGood
  <2> QED BY <2>3, <2>4, <2>5, <2>6 DEF RefreshSafe
<1> QED BY <1>7, <1>8, <1>9 DEF TokensInv, RefreshOK

(* SaveMcpToken: the row of a conflict keeps its id, a new one gets the    *)
(* next.                                                                   *)
LEMMA SavedRow ==
    ASSUME UserTokensTypeOK, NEW new \in Row, Saved(new)
    PROVE  /\ token' \in Row /\ token'.id # 0 /\ token'.id <= lastRow'
           /\ token'.refresh = new.refresh
           /\ lastRow' \in 0 .. MaxRows /\ lastRow <= lastRow'
<1>1. token.id \in 0 .. MaxRows /\ token.id <= lastRow /\ lastRow \in 0 .. MaxRows /\ MaxRows \in Nat
  BY TokenTypes DEF Row, RowIds
<1> DEFINE id == IF token.id = 0 THEN lastRow + 1 ELSE token.id
<1>2. id \in 0 .. MaxRows /\ id # 0 /\ id <= lastRow' /\ lastRow' \in 0 .. MaxRows /\ lastRow <= lastRow'
  BY <1>1 DEF Saved
<1>3. token' = [new EXCEPT !.id = id]
  BY DEF Saved
<1> HIDE DEF id
<1> QED BY <1>2, <1>3 DEF Row, RowIds

\* The list has only ids that were given out.
LEMMA ListGrows ==
    ASSUME list \in SUBSET (1 .. lastRow), lastRow \in Nat, lastRow' \in Nat,
           lastRow <= lastRow', list' = list
    PROVE  list' \in SUBSET (1 .. lastRow')
  OBVIOUS

LEMMA IssueTypes ==
    ASSUME UserTokensTypeOK, Issue
    PROVE  /\ issued' \in 0 .. MaxRefresh /\ good' \in 0 .. issued'
           /\ issued + 1 \in 0 .. MaxRefresh /\ good' = issued + 1 /\ good' # 0
<1>1. issued \in 0 .. MaxRefresh /\ MaxRefresh \in Nat
  BY TokenTypes
<1> QED BY <1>1 DEF Issue

LEMMA RefreshTokenKeeps == ASSUME TokensInv, NEW c \in Calls, RefreshToken(c) PROVE TokensInv'
<1>1. UserTokensTypeOK /\ call[c] \in CallState /\ c \in Calling
  BY TokenTypes DEF TokensInv, RefreshToken, Calling
<1>2. UNCHANGED <<token, lastRow, flow, pkce, list, revoked, dirty, disturbed>>
  BY DEF RefreshToken, ghosts
<1>3. PICK x \in CallState :
         /\ call' = [call EXCEPT ![c] = x] /\ x.at = "answered" /\ x.copy.refresh = good'
         /\ issued' \in 0 .. MaxRefresh /\ good' \in 0 .. issued'
  <2>1. PICK expiry \in {"none", "later"} :
           \/ Issue /\ call' = [call EXCEPT ![c] =
                   [at |-> "answered", copy |-> Refreshed(call[c].copy, issued + 1, expiry)]]
           \/ UNCHANGED <<good, issued>> /\ call' = [call EXCEPT ![c] =
                   [at |-> "answered", copy |-> Refreshed(call[c].copy, 0, expiry)]]
    BY DEF RefreshToken
  <2>2. call[c].copy \in Row /\ call[c].copy.refresh = good
    BY <1>1 DEF CallState, RefreshToken
  <2>3. ASSUME NEW n \in 0 .. MaxRefresh
        PROVE  /\ Refreshed(call[c].copy, n, expiry) \in Row
               /\ Refreshed(call[c].copy, n, expiry).refresh = IF n = 0 THEN good ELSE n
    BY <2>2 DEF Refreshed, Row
  <2>4. CASE Issue /\ call' = [call EXCEPT ![c] =
                   [at |-> "answered", copy |-> Refreshed(call[c].copy, issued + 1, expiry)]]
    <3> DEFINE x == [at |-> "answered", copy |-> Refreshed(call[c].copy, issued + 1, expiry)]
    <3>1. /\ issued' \in 0 .. MaxRefresh /\ good' \in 0 .. issued'
          /\ issued + 1 \in 0 .. MaxRefresh /\ good' = issued + 1 /\ good' # 0
      BY <1>1, <2>4, IssueTypes
    <3>2. x \in CallState /\ x.at = "answered" /\ x.copy.refresh = good'
      BY <2>3, <3>1 DEF CallState
    <3>3. call' = [call EXCEPT ![c] = x]
      BY <2>4
    <3> HIDE DEF x
    <3> QED BY <3>1, <3>2, <3>3
  <2>5. CASE UNCHANGED <<good, issued>> /\ call' = [call EXCEPT ![c] =
                   [at |-> "answered", copy |-> Refreshed(call[c].copy, 0, expiry)]]
    <3> DEFINE x == [at |-> "answered", copy |-> Refreshed(call[c].copy, 0, expiry)]
    <3>1. 0 \in 0 .. MaxRefresh /\ issued' \in 0 .. MaxRefresh /\ good' \in 0 .. issued' /\ good' = good
      BY <1>1, <2>5, TokenTypes
    <3>2. x \in CallState /\ x.at = "answered" /\ x.copy.refresh = good'
      BY <2>3, <3>1 DEF CallState
    <3>3. call' = [call EXCEPT ![c] = x]
      BY <2>5
    <3> HIDE DEF x
    <3> QED BY <3>1, <3>2, <3>3
  <2> QED BY <2>1, <2>4, <2>5
<1>4. /\ call' \in [Calls -> CallState] /\ call'[c] = x /\ Calling' = Calling
      /\ Exchanging' = Exchanging
  <2>1. call \in [Calls -> CallState] /\ x.at # "idle" /\ call' = [call EXCEPT ![c] = x]
    BY <1>1, <1>3, TokenTypes
  <2>2. call' \in [Calls -> CallState] /\ call'[c] = x /\ Calling' = Calling \cup {c}
    BY <2>1, SetOneCall
  <2>3. Exchanging' = Exchanging
    BY <1>2 DEF Exchanging
  <2> QED BY <1>1, <2>2, <2>3
<1>5. UserTokensTypeOK'
  BY <1>1, <1>2, <1>3, <1>4 DEF UserTokensTypeOK, CallState
<1>6. FlowsFresh' /\ RevokedOK'
  BY <1>2, <1>4 DEF TokensInv, FlowsFresh, RevokedOK
<1>7. ASSUME ~disturbed' PROVE RefreshSafe'
  <2>1. SoleUser /\ Calling = {c} /\ Exchanging = {}
    BY <1>1, <1>2, <1>7 DEF TokensInv, RefreshOK, RefreshSafe, SoleUser
  <2>2. SoleUser'
    BY <1>4, <2>1 DEF SoleUser
  <2>3. CopiesGood'
    BY <1>3, <1>4, <2>1 DEF CopiesGood
  <2>4. GrantsGood'
    BY <1>2, <2>1, UsersAre DEF GrantsGood
  <2>5. OnTheWay'
    BY <1>3, <1>4 DEF OnTheWay
  <2> QED BY <2>2, <2>3, <2>4, <2>5 DEF RefreshSafe
<1> QED BY <1>5, <1>6, <1>7 DEF TokensInv, RefreshOK

(* A call is over without having saved anything.                           *)
LEMMA CallEndsKeeps ==
    ASSUME TokensInv, NEW c \in Calls, RefreshFails(c) \/ SaveRefreshedFails(c)
    PROVE  TokensInv'
<1>1. UserTokensTypeOK /\ c \in Calling
  BY UsersAre DEF TokensInv, RefreshFails, SaveRefreshedFails
<1>2. UNCHANGED <<token, lastRow, flow, pkce, list, revoked, dirty>> /\ call' = [call EXCEPT ![c] = Idle]
  BY DEF RefreshFails, SaveRefreshedFails
<1>3. /\ \/ UNCHANGED <<good, issued, disturbed>> /\ call[c].at = "read"
         \/ disturbed'
      /\ issued' \in 0 .. MaxRefresh /\ good' \in 0 .. issued' /\ disturbed' \in BOOLEAN
  BY <1>1, IssueTypes, TokenTypes DEF RefreshFails, SaveRefreshedFails
<1>4. /\ call' \in [Calls -> CallState] /\ \A d \in Calls \ {c} : call'[d] = call[d]
      /\ Calling' = Calling \ {c} /\ Exchanging' = Exchanging
  BY <1>1, <1>2, SetOneCall, TokenTypes DEF Exchanging
<1>5. UserTokensTypeOK'
  BY <1>1, <1>2, <1>3, <1>4 DEF UserTokensTypeOK, CallState
<1>6. FlowsFresh' /\ RevokedOK'
  BY <1>2, <1>4 DEF TokensInv, FlowsFresh, RevokedOK
<1>7. ASSUME ~disturbed' PROVE RefreshSafe'
  <2>1. UNCHANGED <<good, issued, disturbed>> /\ call[c].at = "read"
    BY <1>3, <1>7
  <2>2. RefreshSafe /\ Calling = {c} /\ Exchanging = {}
    BY <1>1, <1>7, <2>1 DEF TokensInv, RefreshOK, RefreshSafe, SoleUser
  <2>3. RowIsGood
    BY <2>1, <2>2, UsersAre DEF RefreshSafe, OnTheWay
  <2>4. RowIsGood' /\ GrantsGood'
    BY <1>2, <2>1, <2>2, <2>3 DEF RowIsGood, RefreshSafe, GrantsGood
  <2>5. SoleUser' /\ CopiesGood'
    BY <1>4, <2>2 DEF SoleUser, CopiesGood
  <2> QED BY <2>4, <2>5 DEF RefreshSafe
<1> QED BY <1>5, <1>6, <1>7 DEF TokensInv, RefreshOK

LEMMA SaveRefreshedKeeps == ASSUME TokensInv, NEW c \in Calls, SaveRefreshed(c) PROVE TokensInv'
<1>1. UserTokensTypeOK /\ c \in Calling /\ call[c] \in CallState
  BY UsersAre, TokenTypes DEF TokensInv, SaveRefreshed
<1>2. /\ UNCHANGED <<good, issued, flow, pkce, list, revoked, dirty, disturbed>>
      /\ call' = [call EXCEPT ![c] = Idle] /\ Saved(call[c].copy) /\ call[c].copy \in Row
  BY <1>1 DEF SaveRefreshed, ghosts, CallState
<1>3. /\ token' \in Row /\ token'.id # 0 /\ token'.id <= lastRow'
      /\ token'.refresh = call[c].copy.refresh
      /\ lastRow' \in 0 .. MaxRows /\ lastRow <= lastRow'
  BY <1>1, <1>2, SavedRow
<1>4. /\ call' \in [Calls -> CallState] /\ \A d \in Calls \ {c} : call'[d] = call[d]
      /\ Calling' = Calling \ {c} /\ Exchanging' = Exchanging
  BY <1>1, <1>2, SetOneCall, TokenTypes DEF Exchanging
<1>5. list' \in SUBSET (1 .. lastRow')
  BY <1>1, <1>2, <1>3, ListGrows, TokenTypes
<1>6. UserTokensTypeOK'
  BY <1>1, <1>2, <1>3, <1>4, <1>5 DEF UserTokensTypeOK, CallState, RowIds
<1>7. FlowsFresh'
  BY <1>2 DEF TokensInv, FlowsFresh
<1>8. RevokedOK'
  BY <1>1, <1>2 DEF TokensInv, RevokedOK
<1>9. ASSUME ~disturbed' PROVE RefreshSafe'
  <2>1. RefreshSafe /\ Calling = {c} /\ Exchanging = {}
    BY <1>1, <1>2, <1>9 DEF TokensInv, RefreshOK, RefreshSafe, SoleUser
  <2>2. RowIsGood' /\ GrantsGood'
    BY <1>2, <1>3, <2>1 DEF RowIsGood, RefreshSafe, GrantsGood, CopiesGood
  <2>3. SoleUser' /\ CopiesGood'
    BY <1>4, <2>1 DEF SoleUser, CopiesGood
  <2> QED BY <2>2, <2>3 DEF RefreshSafe
<1> QED BY <1>6, <1>7, <1>8, <1>9 DEF TokensInv, RefreshOK

LEMMA StartOAuthFlowKeeps ==
    ASSUME TokensInv, NEW f \in Flows, NEW s \in Seconds, StartOAuthFlow(f, s)
    PROVE  TokensInv'
<1>1. UserTokensTypeOK
  BY DEF TokensInv
<1> DEFINE x == [NoFlow EXCEPT !.at = "away", !.second = s]
<1>2. x \in FlowState /\ x.at = "away" /\ x.refresh = 0 /\ flow' = [flow EXCEPT ![f] = x]
  BY <1>1, TokenTypes DEF StartOAuthFlow, FlowState, NoFlow
<1> HIDE DEF x
<1>3. UNCHANGED <<token, lastRow, good, issued, call, list, revoked, dirty, disturbed>>
  BY DEF StartOAuthFlow, ghosts
<1>4. pkce' \in [Seconds -> Flows \cup {{}}]
  BY <1>1, TokenTypes DEF StartOAuthFlow
<1>5. /\ flow' \in [Flows -> FlowState] /\ flow'[f] = x
      /\ \A g \in Flows \ {f} : flow'[g] = flow[g]
      /\ Exchanging' = Exchanging /\ Calling' = Calling
  <2>1. flow \in [Flows -> FlowState] /\ ~(f \in Exchanging)
    BY <1>1, TokenTypes, UsersAre DEF StartOAuthFlow
  <2>2. /\ flow' \in [Flows -> FlowState] /\ flow'[f] = x
        /\ \A g \in Flows \ {f} : flow'[g] = flow[g]
        /\ Exchanging' = Exchanging \ {f}
    BY <1>2, <2>1, SetOneFlow
  <2> QED BY <1>3, <2>1, <2>2 DEF Calling
<1>6. UserTokensTypeOK'
  BY <1>1, <1>3, <1>4, <1>5 DEF UserTokensTypeOK, FlowState
<1>7. FlowsFresh' /\ RevokedOK'
  BY <1>2, <1>3, <1>5 DEF TokensInv, FlowsFresh, RevokedOK
<1>8. ASSUME ~disturbed' PROVE RefreshSafe'
  <2>1. RefreshSafe
    BY <1>3, <1>8 DEF TokensInv, RefreshOK
  <2>2. SoleUser' /\ CopiesGood' /\ RowIsGood' = RowIsGood
    BY <1>3, <1>5, <2>1 DEF RefreshSafe, SoleUser, CopiesGood, RowIsGood
  <2>3. GrantsGood'
    BY <1>2, <1>3, <1>5, <2>1 DEF RefreshSafe, GrantsGood
  <2>4. OnTheWay => OnTheWay'
    BY <1>3, <1>5 DEF OnTheWay, StartOAuthFlow
  <2> QED BY <2>1, <2>2, <2>3, <2>4 DEF RefreshSafe
<1> QED BY <1>6, <1>7, <1>8 DEF TokensInv, RefreshOK

(* A flow is over without having written a row, or is turned away.         *)
LEMMA FlowEndsKeeps ==
    ASSUME TokensInv, NEW f \in Flows,
           flow' = [flow EXCEPT ![f] = NoFlow],
           UNCHANGED <<token, lastRow, good, issued, call, list, revoked, dirty>>,
           pkce' \in [Seconds -> Flows \cup {{}}],
           disturbed' \in BOOLEAN, flow[f].at = "granted" \/ disturbed => disturbed'
    PROVE  TokensInv'
<1>1. UserTokensTypeOK
  BY DEF TokensInv
<1>2. /\ flow' \in [Flows -> FlowState] /\ flow'[f] = NoFlow
      /\ \A g \in Flows \ {f} : flow'[g] = flow[g]
      /\ Exchanging' = Exchanging \ {f} /\ Calling' = Calling
  <2>1. flow \in [Flows -> FlowState] /\ NoFlow \in FlowState /\ NoFlow.at = "idle"
    BY <1>1, TokenTypes
  <2> QED BY <2>1, SetOneFlow DEF Calling
<1>3. UserTokensTypeOK'
  BY <1>1, <1>2 DEF UserTokensTypeOK, FlowState
<1>4. FlowsFresh' /\ RevokedOK'
  BY <1>1, <1>2, TokenTypes DEF TokensInv, FlowsFresh, RevokedOK
<1>5. ASSUME ~disturbed' PROVE RefreshSafe'
  <2>1. RefreshSafe /\ flow[f].at # "granted"
    BY <1>1, <1>5, TokenTypes DEF TokensInv, RefreshOK
  <2>2. SoleUser' /\ CopiesGood' /\ RowIsGood' = RowIsGood
    BY <1>2, <2>1 DEF RefreshSafe, SoleUser, CopiesGood, RowIsGood
  <2>3. GrantsGood'
    BY <1>1, <1>2, <2>1, TokenTypes DEF RefreshSafe, GrantsGood
  <2>4. OnTheWay => OnTheWay'
    BY <1>2, <2>1 DEF OnTheWay
  <2> QED BY <2>1, <2>2, <2>3, <2>4 DEF RefreshSafe
<1> QED BY <1>3, <1>4, <1>5 DEF TokensInv, RefreshOK

LEMMA HandleCallbackKeeps ==
    ASSUME TokensInv, NEW f \in Flows, HandleCallback(f)
    PROVE  TokensInv'
<1>1. UserTokensTypeOK /\ flow[f] \in FlowState /\ flow[f].at = "away"
  BY TokenTypes DEF TokensInv, HandleCallback
<1> DEFINE s == flow[f].second
<1>2. s \in Seconds
  BY <1>1 DEF FlowState
<1>3. /\ UNCHANGED <<token, lastRow, good, issued, call, list, dirty>>
      /\ pkce' \in [Seconds -> Flows \cup {{}}]
      /\ revoked' = (revoked /\ pkce[s] # f)
      /\ disturbed' = (disturbed \/ (pkce[s] = f /\ (Calling # {} \/ Exchanging # {})))
      /\ flow' = [flow EXCEPT ![f] =
                    IF pkce[s] = f THEN [flow[f] EXCEPT !.at = "exchanging"] ELSE NoFlow]
  BY <1>1, <1>2, TokenTypes DEF HandleCallback
<1> HIDE DEF s
<1>4. CASE pkce[s] # f
  <2>1. flow' = [flow EXCEPT ![f] = NoFlow] /\ revoked' = revoked /\ disturbed' = disturbed
    BY <1>1, <1>3, <1>4, TokenTypes
  <2> QED BY <1>1, <1>3, <2>1, FlowEndsKeeps, TokenTypes
<1>5. CASE pkce[s] = f
  <2> DEFINE x == [flow[f] EXCEPT !.at = "exchanging"]
  <2>1. x \in FlowState /\ x.at = "exchanging" /\ x.refresh = 0 /\ flow' = [flow EXCEPT ![f] = x]
    BY <1>1, <1>3, <1>5 DEF FlowState, TokensInv, FlowsFresh
  <2> HIDE DEF x
  <2>2. /\ flow' \in [Flows -> FlowState] /\ flow'[f] = x
        /\ \A g \in Flows \ {f} : flow'[g] = flow[g]
        /\ Exchanging' = Exchanging \cup {f} /\ Calling' = Calling
    BY <1>1, <1>3, <2>1, SetOneFlow, TokenTypes DEF Calling
  <2>3. revoked' = FALSE /\ disturbed' \in BOOLEAN
    BY <1>3, <1>5
  <2>4. UserTokensTypeOK'
    BY <1>1, <1>3, <2>2, <2>3 DEF UserTokensTypeOK, FlowState
  <2>5. FlowsFresh' /\ RevokedOK'
    BY <2>1, <2>2, <2>3 DEF TokensInv, FlowsFresh, RevokedOK
  <2>6. ASSUME ~disturbed' PROVE RefreshSafe'
    <3>1. RefreshSafe /\ Calling = {} /\ Exchanging = {}
      BY <1>3, <1>5, <2>6 DEF TokensInv, RefreshOK
    <3>2. RowIsGood'
      BY <1>3, <3>1, UsersAre DEF RefreshSafe, OnTheWay, RowIsGood
    <3>3. SoleUser' /\ CopiesGood'
      BY <2>2, <3>1 DEF SoleUser, CopiesGood
    <3>4. GrantsGood'
      BY <2>1, <2>2, <3>1, UsersAre DEF GrantsGood
    <3> QED BY <3>2, <3>3, <3>4 DEF RefreshSafe
  <2> QED BY <2>4, <2>5, <2>6 DEF TokensInv, RefreshOK
<1> QED BY <1>4, <1>5

LEMMA ExchangeCodeKeeps ==
    ASSUME TokensInv, NEW f \in Flows, ExchangeCode(f)
    PROVE  TokensInv'
<1>1. UserTokensTypeOK /\ flow[f] \in FlowState /\ flow[f].at = "exchanging" /\ f \in Exchanging
  BY TokenTypes, UsersAre DEF TokensInv, ExchangeCode
<1>2. flow[f].refresh = 0
  BY <1>1 DEF TokensInv, FlowsFresh
<1>3. UNCHANGED <<token, lastRow, call, pkce, list, revoked, dirty, disturbed>>
  BY DEF ExchangeCode, ghosts
<1>4. PICK x \in FlowState :
         /\ flow' = [flow EXCEPT ![f] = x] /\ x.at = "granted" /\ x.refresh = good'
         /\ issued' \in 0 .. MaxRefresh /\ good' \in 0 .. issued'
  <2>1. PICK expiry \in {"never", "later"} :
          \/ /\ Issue
             /\ flow' = [flow EXCEPT ![f] = [@ EXCEPT !.at = "granted",
                            !.refresh = issued + 1, !.expiry = expiry]]
          \/ /\ good' = 0 /\ UNCHANGED issued
             /\ flow' = [flow EXCEPT ![f] = [@ EXCEPT !.at = "granted", !.expiry = expiry]]
    BY DEF ExchangeCode
  <2>2. CASE Issue /\ flow' = [flow EXCEPT ![f] = [@ EXCEPT !.at = "granted",
                            !.refresh = issued + 1, !.expiry = expiry]]
    <3> DEFINE x == [flow[f] EXCEPT !.at = "granted", !.refresh = issued + 1, !.expiry = expiry]
    <3>1. /\ issued' \in 0 .. MaxRefresh /\ good' \in 0 .. issued'
          /\ issued + 1 \in 0 .. MaxRefresh /\ good' = issued + 1
      BY <1>1, <2>2, IssueTypes
    <3>2. x \in FlowState /\ x.at = "granted" /\ x.refresh = good'
      BY <1>1, <3>1 DEF FlowState
    <3>3. flow' = [flow EXCEPT ![f] = x]
      BY <1>1, <2>2, TokenTypes
    <3> HIDE DEF x
    <3> QED BY <3>1, <3>2, <3>3
  <2>3. CASE good' = 0 /\ UNCHANGED issued /\
             flow' = [flow EXCEPT ![f] = [@ EXCEPT !.at = "granted", !.expiry = expiry]]
    <3> DEFINE x == [flow[f] EXCEPT !.at = "granted", !.expiry = expiry]
    <3>1. issued' \in 0 .. MaxRefresh /\ good' \in 0 .. issued'
      BY <1>1, <2>3, TokenTypes
    <3>2. x \in FlowState /\ x.at = "granted" /\ x.refresh = good'
      BY <1>1, <1>2, <2>3 DEF FlowState
    <3>3. flow' = [flow EXCEPT ![f] = x]
      BY <1>1, <2>3, TokenTypes
    <3> HIDE DEF x
    <3> QED BY <3>1, <3>2, <3>3
  <2> QED BY <2>1, <2>2, <2>3
<1>5. /\ flow' \in [Flows -> FlowState] /\ flow'[f] = x
      /\ \A g \in Flows \ {f} : flow'[g] = flow[g]
      /\ Exchanging' = Exchanging /\ Calling' = Calling
  <2>1. flow \in [Flows -> FlowState] /\ x.at \in {"exchanging", "granted"}
        /\ flow' = [flow EXCEPT ![f] = x]
    BY <1>1, <1>4, TokenTypes
  <2>2. /\ flow' \in [Flows -> FlowState] /\ flow'[f] = x
        /\ \A g \in Flows \ {f} : flow'[g] = flow[g]
        /\ Exchanging' = Exchanging \cup {f}
    BY <2>1, SetOneFlow
  <2>3. Calling' = Calling
    BY <1>3 DEF Calling
  <2> QED BY <1>1, <2>2, <2>3
<1>6. UserTokensTypeOK'
  BY <1>1, <1>3, <1>4, <1>5 DEF UserTokensTypeOK, FlowState
<1>7. FlowsFresh' /\ RevokedOK'
  BY <1>3, <1>4, <1>5 DEF TokensInv, FlowsFresh, RevokedOK
<1>8. ASSUME ~disturbed' PROVE RefreshSafe'
  <2>1. SoleUser /\ Exchanging = {f} /\ Calling = {}
    BY <1>1, <1>3, <1>8 DEF TokensInv, RefreshOK, RefreshSafe, SoleUser
  <2>2. SoleUser' /\ CopiesGood'
    BY <1>5, <2>1 DEF SoleUser, CopiesGood
  <2>3. GrantsGood'
    BY <1>4, <1>5, <2>1, UsersAre DEF GrantsGood
  <2>4. OnTheWay'
    BY <1>4, <1>5 DEF OnTheWay
  <2> QED BY <2>2, <2>3, <2>4 DEF RefreshSafe
<1> QED BY <1>6, <1>7, <1>8 DEF TokensInv, RefreshOK

LEMMA SaveGrantedKeeps == ASSUME TokensInv, NEW f \in Flows, SaveGranted(f) PROVE TokensInv'
<1>1. UserTokensTypeOK /\ flow[f] \in FlowState /\ f \in Exchanging /\ flow[f].at = "granted"
  BY UsersAre, TokenTypes DEF TokensInv, SaveGranted
<1> DEFINE new == [id |-> 0, refresh |-> flow[f].refresh, expiry |-> flow[f].expiry]
<1>2. new \in Row /\ new.refresh = flow[f].refresh
  BY <1>1, UserTokensConstants DEF Row, RowIds, FlowState
<1>3. Saved(new) /\ flow' = [flow EXCEPT ![f] = NoFlow]
  BY DEF SaveGranted
<1> HIDE DEF new
<1>4. UNCHANGED <<good, issued, call, pkce, list, revoked, dirty, disturbed>>
  BY DEF SaveGranted, ghosts
<1>5. /\ token' \in Row /\ token'.id # 0 /\ token'.id <= lastRow'
      /\ token'.refresh = flow[f].refresh
      /\ lastRow' \in 0 .. MaxRows /\ lastRow <= lastRow'
  BY <1>1, <1>2, <1>3, SavedRow
<1>6. /\ flow' \in [Flows -> FlowState] /\ flow'[f] = NoFlow
      /\ \A g \in Flows \ {f} : flow'[g] = flow[g]
      /\ Exchanging' = Exchanging \ {f} /\ Calling' = Calling
  <2>1. flow \in [Flows -> FlowState] /\ NoFlow \in FlowState /\ NoFlow.at = "idle"
    BY <1>1, TokenTypes
  <2> QED BY <1>3, <1>4, <2>1, SetOneFlow DEF Calling
<1>7. list' \in SUBSET (1 .. lastRow')
  BY <1>1, <1>4, <1>5, ListGrows, TokenTypes
<1>8. UserTokensTypeOK'
  BY <1>1, <1>4, <1>5, <1>6, <1>7 DEF UserTokensTypeOK, FlowState, RowIds
<1>9. FlowsFresh'
  BY <1>1, <1>6, TokenTypes DEF TokensInv, FlowsFresh
<1>10. RevokedOK'
  BY <1>1, <1>4 DEF TokensInv, RevokedOK
<1>11. ASSUME ~disturbed' PROVE RefreshSafe'
  <2>1. RefreshSafe /\ Exchanging = {f} /\ Calling = {}
    BY <1>1, <1>4, <1>11 DEF TokensInv, RefreshOK, RefreshSafe, SoleUser
  <2>2. RowIsGood'
    BY <1>1, <1>4, <1>5, <2>1 DEF RowIsGood, RefreshSafe, GrantsGood
  <2>3. SoleUser' /\ CopiesGood'
    BY <1>6, <2>1 DEF SoleUser, CopiesGood
  <2>4. GrantsGood'
    BY <1>1, <1>4, <1>6, <2>1, TokenTypes DEF RefreshSafe, GrantsGood
  <2> QED BY <2>2, <2>3, <2>4 DEF RefreshSafe
<1> QED BY <1>8, <1>9, <1>10, <1>11 DEF TokensInv, RefreshOK

LEMMA FlowStopsKeeps ==
    ASSUME TokensInv, NEW f \in Flows, Abandon(f) \/ CallbackFails(f)
    PROVE  TokensInv'
<1>1. /\ flow' = [flow EXCEPT ![f] = NoFlow]
      /\ UNCHANGED <<token, lastRow, good, issued, call, pkce, list, revoked, dirty>>
  BY DEF Abandon, CallbackFails, ghosts
<1>2. disturbed' \in BOOLEAN /\ (flow[f].at = "granted" \/ disturbed => disturbed')
  <2>1. disturbed \in BOOLEAN
    BY TokenTypes DEF TokensInv
  <2>2. CASE Abandon(f)
    <3>1. disturbed' = disturbed /\ flow[f].at = "away"
      BY <2>2 DEF Abandon, ghosts
    <3> QED BY <2>1, <3>1
  <2>3. CASE CallbackFails(f)
    BY <2>3 DEF CallbackFails
  <2> QED BY <2>2, <2>3
<1>3. pkce' \in [Seconds -> Flows \cup {{}}]
  BY <1>1, TokenTypes DEF TokensInv
<1> QED BY <1>1, <1>2, <1>3, FlowEndsKeeps

\* Nothing of the table, the calls and the flows changes.
LEMMA BystanderKeeps ==
    ASSUME TokensInv,
           UNCHANGED <<token, lastRow, good, issued, call, flow, revoked, dirty, disturbed>>,
           pkce' \in [Seconds -> Flows \cup {{}}], list' \in SUBSET (1 .. lastRow)
    PROVE  TokensInv'
<1>1. UserTokensTypeOK'
  BY DEF TokensInv, UserTokensTypeOK
<1>2. Calling' = Calling /\ Exchanging' = Exchanging
  BY DEF Calling, Exchanging
<1>3. FlowsFresh' /\ RevokedOK'
  BY <1>2 DEF TokensInv, FlowsFresh, RevokedOK
<1>4. RefreshOK'
  BY <1>2 DEF TokensInv, RefreshOK, RefreshSafe, SoleUser, RowIsGood, OnTheWay, CopiesGood,
      GrantsGood
<1> QED BY <1>1, <1>3, <1>4 DEF TokensInv

LEMMA ForgetOrLoadKeeps ==
    ASSUME TokensInv, ForgetStates \/ LoadTokens \/ UNCHANGED tokenVars
    PROVE  TokensInv'
<1>1. /\ pkce \in [Seconds -> Flows \cup {{}}] /\ list \in SUBSET (1 .. lastRow)
      /\ token.id \in Nat /\ token.id <= lastRow /\ lastRow \in Nat
  BY TokenTypes DEF TokensInv, Row, RowIds
<1>2. UNCHANGED <<token, lastRow, good, issued, call, flow, revoked, dirty, disturbed>>
  BY DEF ForgetStates, LoadTokens, ghosts, tokenVars
<1>3. CASE ForgetStates
  <2>1. pkce' \in [Seconds -> Flows \cup {{}}] /\ list' = list
    BY <1>1, <1>3 DEF ForgetStates
  <2> QED BY <1>1, <1>2, <2>1, BystanderKeeps
<1>4. CASE LoadTokens
  <2>1. list' \in SUBSET (1 .. lastRow) /\ pkce' = pkce
    BY <1>1, <1>4 DEF LoadTokens
  <2> QED BY <1>1, <1>2, <2>1, BystanderKeeps
<1>5. CASE UNCHANGED tokenVars
  <2>1. list' = list /\ pkce' = pkce
    BY <1>5 DEF tokenVars
  <2> QED BY <1>1, <1>2, <2>1, BystanderKeeps
<1> QED BY <1>3, <1>4, <1>5

LEMMA RestartKeeps == ASSUME TokensInv, Restart PROVE TokensInv'
<1>1. UserTokensTypeOK
  BY DEF TokensInv
<1>2. /\ UNCHANGED <<token, lastRow, good, issued, list, revoked, dirty>>
      /\ disturbed' = (disturbed \/ Calling # {} \/ Exchanging # {})
      /\ call' = [c \in Calls |-> Idle] /\ pkce' = [s \in Seconds |-> {}]
      /\ flow' = [f \in Flows |-> IF f \in Exchanging THEN NoFlow ELSE flow[f]]
  BY DEF Restart
<1>3. /\ call' \in [Calls -> CallState] /\ flow' \in [Flows -> FlowState]
      /\ pkce' \in [Seconds -> Flows \cup {{}}] /\ disturbed' \in BOOLEAN
  BY <1>1, <1>2, TokenTypes
<1>4. Calling' = {} /\ Exchanging' = {}
  BY <1>1, <1>2, TokenTypes, UsersAre DEF Calling, Exchanging
<1>5. UserTokensTypeOK'
  BY <1>1, <1>2, <1>3 DEF UserTokensTypeOK, CallState, FlowState
<1>6. FlowsFresh' /\ RevokedOK'
  BY <1>1, <1>2, <1>4, TokenTypes DEF TokensInv, FlowsFresh, RevokedOK
<1>7. ASSUME ~disturbed' PROVE RefreshSafe'
  <2>1. RefreshSafe /\ Calling = {} /\ Exchanging = {}
    BY <1>2, <1>7 DEF TokensInv, RefreshOK
  <2>2. RowIsGood'
    BY <1>2, <2>1, UsersAre DEF RefreshSafe, OnTheWay, RowIsGood
  <2>3. SoleUser' /\ CopiesGood'
    BY <1>4 DEF SoleUser, CopiesGood
  <2>4. GrantsGood'
    BY <1>1, <1>2, <2>1, UsersAre, TokenTypes DEF GrantsGood
  <2> QED BY <2>2, <2>3, <2>4 DEF RefreshSafe
<1> QED BY <1>5, <1>6, <1>7 DEF TokensInv, RefreshOK

LEMMA DeleteMcpTokenKeeps == ASSUME TokensInv, NEW i \in list, DeleteMcpToken(i) PROVE TokensInv'
<1>1. UserTokensTypeOK /\ list \in SUBSET (1 .. lastRow) /\ pkce \in [Seconds -> Flows \cup {{}}]
  BY TokenTypes DEF TokensInv
<1>2. /\ UNCHANGED <<lastRow, good, issued, call, flow, pkce, disturbed>>
      /\ list' \in SUBSET (1 .. lastRow)
  BY <1>1 DEF DeleteMcpToken
<1>3. CASE token.id # i
  <2>1. UNCHANGED <<token, revoked, dirty>>
    BY <1>3 DEF DeleteMcpToken
  <2> QED BY <1>1, <1>2, <2>1, BystanderKeeps
<1>4. CASE token.id = i
  <2>1. token' = NoRow /\ revoked' = (Exchanging = {}) /\ dirty' = (Calling # {})
    BY <1>4 DEF DeleteMcpToken, Deleted
  <2>2. token' \in Row /\ token'.id = 0 /\ token'.id <= lastRow'
    BY <1>1, <1>2, <2>1, TokenTypes DEF NoRow
  <2>3. Calling' = Calling /\ Exchanging' = Exchanging
    BY <1>2 DEF Calling, Exchanging
  <2>4. UserTokensTypeOK'
    BY <1>1, <1>2, <2>1, <2>2 DEF UserTokensTypeOK
  <2>5. FlowsFresh'
    BY <1>2 DEF TokensInv, FlowsFresh
  <2>6. RevokedOK'
    BY <2>1, <2>2, <2>3 DEF RevokedOK
  <2>7. RowIsGood'
    BY <2>2 DEF RowIsGood
  <2>8. RefreshOK'
    BY <1>2, <2>3, <2>7
    DEF TokensInv, RefreshOK, RefreshSafe, SoleUser, OnTheWay, CopiesGood, GrantsGood
  <2> QED BY <2>4, <2>5, <2>6, <2>8 DEF TokensInv
<1> QED BY <1>3, <1>4

LEMMA TokensKept == TokensInv /\ [UserTokensNext]_tokenVars => TokensInv'
<1> SUFFICES ASSUME TokensInv, [UserTokensNext]_tokenVars PROVE TokensInv'
  OBVIOUS
<1>1. CASE Expire
  BY <1>1, ExpireKeeps
<1>2. CASE \E c \in Calls : ResolveCredential(c)
  BY <1>2, ReadTokenKeeps, RefreshTokenKeeps, CallEndsKeeps, SaveRefreshedKeeps
  DEF ResolveCredential
<1>3. CASE \E f \in Flows : Authorise(f)
  BY <1>3, StartOAuthFlowKeeps, FlowStopsKeeps, HandleCallbackKeeps, ExchangeCodeKeeps,
     SaveGrantedKeeps
  DEF Authorise
<1>4. CASE ForgetStates \/ LoadTokens \/ UNCHANGED tokenVars
  BY <1>4, ForgetOrLoadKeeps
<1>5. CASE Restart
  BY <1>5, RestartKeeps
<1>6. CASE \E i \in list : DeleteMcpToken(i)
  BY <1>6, DeleteMcpTokenKeeps
<1> QED BY <1>1, <1>2, <1>3, <1>4, <1>5, <1>6 DEF UserTokensNext, McpTokensPage

LEMMA TokensSafe == TokensInv => UserTokensTypeOK /\ RefreshTokenKept /\ RevivedOnlyByRefresh
<1> SUFFICES ASSUME TokensInv PROVE RefreshTokenKept /\ RevivedOnlyByRefresh
  BY DEF TokensInv
<1>1. ASSUME Calling = {}, Exchanging = {}, ~disturbed PROVE RowIsGood
  BY <1>1, UsersAre DEF TokensInv, RefreshOK, RefreshSafe, OnTheWay
<1> QED BY <1>1 DEF TokensInv, RefreshTokenKept, RowIsGood, RevokedOK, RevivedOnlyByRefresh

-----------------------------------------------------------------------------
(* The MCP test page.  A load that no other has overlapped is for the combo*)
(* that is chosen.                                                         *)

LoadsForCombo ==
    /\ \A l \in DOMAIN toolLoads :
          toolLoads[l].alone => Len(toolLoads) = 1 /\ toolLoads[l].combo = selectedCombo
    /\ ~toolsCrossed =>
          Len(toolLoads) <= 1 /\ \A l \in DOMAIN toolLoads : toolLoads[l].alone

ToolsOfCombo ==
    toolLoads = <<>> /\ ~toolsCrossed /\ tools # NoCombo => tools = selectedCombo

\* What was sent, or is shown, stands under the tool and the combo it was sent
\* for.
StandsUnder(c) ==
    c.on /\ ~c.moved /\ PanelShown =>
        /\ c.listed = tools /\ c.tool = selectedTool
        /\ c.combo = selectedCombo \/ toolLoads # <<>>

ToolsInv ==
    /\ McpPlaygroundTypeOK
    /\ LoadsForCombo
    /\ ToolsOfCombo
    /\ toolCall.on /\ ~toolCall.early => toolCall.listed = toolCall.combo
    /\ StandsUnder(toolCall)
    /\ StandsUnder(callResult)

LEMMA ToolsInitially == McpPlaygroundInit => ToolsInv
<1> SUFFICES ASSUME McpPlaygroundInit PROVE ToolsInv
  OBVIOUS
<1>1. NoCall \in Call /\ ~NoCall.on
  BY DEF NoCall, Call, AnyCombo
<1>2. McpPlaygroundTypeOK
  <2>1. toolLoads = <<>> /\ toolLoads \in Seq([combo: McpCombos, alone: BOOLEAN]) /\ Len(toolLoads) = 0
    BY DEF McpPlaygroundInit
  <2>2. 0 \in 0 .. MaxChoices /\ 0 <= MaxToolLoads
    BY McpPlaygroundConstants
  <2> QED BY <1>1, <2>1, <2>2 DEF McpPlaygroundInit, McpPlaygroundTypeOK, AnyCombo
<1> QED BY <1>1, <1>2
  DEF McpPlaygroundInit, ToolsInv, LoadsForCombo, ToolsOfCombo, StandsUnder, PanelShown

\* The conjuncts of the types.
LEMMA ToolTypes ==
    ASSUME McpPlaygroundTypeOK
    PROVE  /\ selectedCombo \in AnyCombo /\ tools \in AnyCombo /\ selectedTool \in Tools \cup {0}
           /\ toolLoads \in Seq([combo: McpCombos, alone: BOOLEAN])
           /\ Len(toolLoads) <= MaxToolLoads /\ MaxToolLoads \in Nat
           /\ loadingTools \in BOOLEAN /\ toolsCrossed \in BOOLEAN
           /\ toolCall \in Call /\ callResult \in Call
           /\ choices \in 0 .. MaxChoices /\ MaxChoices \in Nat
           /\ NoCall \in Call /\ ~NoCall.on /\ NoCombo \in AnyCombo /\ McpCombos \subseteq AnyCombo
           /\ NoCombo \notin McpCombos /\ Tools \subseteq Nat \ {0} /\ FirstTool \in Tools
<1>1. NoCall \in Call /\ ~NoCall.on
  BY DEF NoCall, Call, AnyCombo
<1>2. FirstTool \in Tools
  <2>1. PICK t \in Tools : \A u \in Tools : t <= u
    BY LeastNumber, McpPlaygroundConstants
  <2> QED BY <2>1 DEF FirstTool
<1> QED BY <1>1, <1>2, McpPlaygroundConstants DEF McpPlaygroundTypeOK, AnyCombo

\* A load more: it is for the combo that is chosen then, or has overlapped.
LEMMA FetchToolsKeeps ==
    ASSUME McpPlaygroundTypeOK, LoadsForCombo, NEW c \in McpCombos, fetchTools(c),
           selectedCombo' = c
    PROVE  /\ LoadsForCombo' /\ toolLoads' # <<>>
           /\ toolLoads' \in Seq([combo: McpCombos, alone: BOOLEAN])
           /\ Len(toolLoads') <= MaxToolLoads
           /\ loadingTools' \in BOOLEAN /\ toolsCrossed' \in BOOLEAN
<1>1. /\ toolLoads \in Seq([combo: McpCombos, alone: BOOLEAN])
      /\ toolsCrossed \in BOOLEAN /\ MaxToolLoads \in Nat /\ Len(toolLoads) < MaxToolLoads
  BY ToolTypes DEF fetchTools
<1>2. CASE toolLoads = <<>>
  <2>1. toolLoads' = <<[combo |-> c, alone |-> TRUE]>> /\ toolsCrossed' = toolsCrossed
    BY <1>1, <1>2 DEF fetchTools
  <2>2. Len(toolLoads') = 1 /\ toolLoads'[1].combo = c /\ toolLoads'[1].alone
    BY <2>1
  <2>3. LoadsForCombo'
    BY <2>1, <2>2 DEF LoadsForCombo
  <2>4. /\ toolLoads' \in Seq([combo: McpCombos, alone: BOOLEAN])
        /\ Len(toolLoads') <= MaxToolLoads /\ toolLoads' # <<>>
    BY <1>1, <1>2, <2>1, <2>2
  <2> QED BY <1>1, <2>1, <2>3, <2>4 DEF fetchTools
<1>3. CASE toolLoads # <<>>
  <2>1. Len(toolLoads) \in Nat \ {0}
    BY <1>1, <1>3
  <2>2. toolLoads' = [l \in 1 .. Len(toolLoads) + 1 |->
                         [combo |-> IF l <= Len(toolLoads) THEN toolLoads[l].combo ELSE c,
                          alone |-> FALSE]]
    BY <1>3 DEF fetchTools
  <2>3. ASSUME NEW l \in 1 .. Len(toolLoads) + 1
        PROVE  [combo |-> IF l <= Len(toolLoads) THEN toolLoads[l].combo ELSE c,
                alone |-> FALSE] \in [combo: McpCombos, alone: BOOLEAN]
    <3>1. l <= Len(toolLoads) => toolLoads[l] \in [combo: McpCombos, alone: BOOLEAN]
      <4>1. l <= Len(toolLoads) => l \in 1 .. Len(toolLoads)
        BY <2>1
      <4> QED BY <1>1, <4>1, ElementOf
    <3>2. (IF l <= Len(toolLoads) THEN toolLoads[l].combo ELSE c) \in McpCombos
      BY <3>1
    <3> QED BY <3>2
  <2>4. toolLoads' \in Seq([combo: McpCombos, alone: BOOLEAN]) /\ Len(toolLoads') = Len(toolLoads) + 1
    <3>1. toolLoads' \in [1 .. Len(toolLoads) + 1 -> [combo: McpCombos, alone: BOOLEAN]]
      BY <2>2, <2>3
    <3>2. Len(toolLoads) + 1 \in Nat
      BY <2>1
    <3> QED BY <3>1, <3>2, SeqOfFunction
  <2>5. \A l \in DOMAIN toolLoads' : ~toolLoads'[l].alone
    BY <2>2
  <2>6. toolsCrossed' = TRUE /\ loadingTools' = TRUE
    BY <1>3 DEF fetchTools
  <2>7. LoadsForCombo'
    BY <2>5, <2>6 DEF LoadsForCombo
  <2> QED BY <1>1, <2>1, <2>4, <2>6, <2>7
<1> QED BY <1>2, <1>3

\* A load less: what is left is not alone.
LEMMA LoadEndsKeeps ==
    ASSUME McpPlaygroundTypeOK, LoadsForCombo, NEW l \in DOMAIN toolLoads,
           toolLoads' = RemoveAt(toolLoads, l), selectedCombo' = selectedCombo,
           toolsCrossed' = toolsCrossed \/ toolsCrossed' = (toolsCrossed /\ ~toolLoads[l].alone)
    PROVE  /\ LoadsForCombo'
           /\ toolLoads' \in Seq([combo: McpCombos, alone: BOOLEAN])
           /\ Len(toolLoads') <= MaxToolLoads /\ toolsCrossed' \in BOOLEAN
           /\ toolLoads[l].alone \/ ~toolsCrossed =>
                 toolLoads[l].combo = selectedCombo /\ toolLoads' = <<>>
<1>1. /\ toolLoads \in Seq([combo: McpCombos, alone: BOOLEAN]) /\ l \in 1 .. Len(toolLoads)
      /\ toolsCrossed \in BOOLEAN /\ MaxToolLoads \in Nat /\ Len(toolLoads) <= MaxToolLoads
  BY ToolTypes
<1>2. /\ toolLoads' \in Seq([combo: McpCombos, alone: BOOLEAN])
      /\ Len(toolLoads') = Len(toolLoads) - 1
      /\ \A j \in 1 .. Len(toolLoads) - 1 :
            toolLoads'[j] = IF j < l THEN toolLoads[j] ELSE toolLoads[j + 1]
  BY <1>1, RemoveAtFacts
<1>3. CASE Len(toolLoads) = 1
  <2>1. toolLoads' = <<>> /\ DOMAIN toolLoads' = {} /\ Len(toolLoads') = 0
    BY <1>2, <1>3
  <2>2. LoadsForCombo'
    BY <2>1 DEF LoadsForCombo
  <2>3. toolLoads[l].alone \/ ~toolsCrossed => toolLoads[l].combo = selectedCombo
    BY DEF LoadsForCombo
  <2>4. toolsCrossed' \in BOOLEAN
    BY <1>1
  <2>5. Len(toolLoads') <= MaxToolLoads
    BY <1>1, <1>3, <2>1
  <2> QED BY <1>2, <2>1, <2>2, <2>3, <2>4, <2>5
<1>4. CASE Len(toolLoads) # 1
  <2>1. toolsCrossed /\ \A j \in 1 .. Len(toolLoads) : ~toolLoads[j].alone
    BY <1>1, <1>4 DEF LoadsForCombo
  <2>2. toolsCrossed' = TRUE
    <3>1. ~toolLoads[l].alone
      BY <1>1, <2>1
    <3> QED BY <1>1, <2>1, <3>1
  <2>3. \A j \in 1 .. Len(toolLoads) - 1 : ~toolLoads'[j].alone
    BY <1>1, <1>2, <2>1
  <2>4. DOMAIN toolLoads' = 1 .. Len(toolLoads) - 1
    BY <1>1, <1>2
  <2>5. LoadsForCombo'
    BY <2>2, <2>3, <2>4 DEF LoadsForCombo
  <2> QED BY <1>1, <1>2, <2>1, <2>2, <2>5
<1> QED BY <1>3, <1>4

LEMMA LoadCombosKeeps == ASSUME ToolsInv, LoadCombos PROVE ToolsInv'
<1>1. McpPlaygroundTypeOK
  BY DEF ToolsInv
<1>2. PICK c \in McpCombos : selectedCombo' = c /\ fetchTools(c)
  BY DEF LoadCombos
<1>3. UNCHANGED <<tools, selectedTool, toolCall, callResult, choices>>
  BY DEF LoadCombos
<1>4. /\ LoadsForCombo' /\ toolLoads' # <<>>
      /\ toolLoads' \in Seq([combo: McpCombos, alone: BOOLEAN])
      /\ Len(toolLoads') <= MaxToolLoads
      /\ loadingTools' \in BOOLEAN /\ toolsCrossed' \in BOOLEAN
  BY <1>1, <1>2, FetchToolsKeeps DEF ToolsInv
<1>5. McpPlaygroundTypeOK'
  BY <1>1, <1>2, <1>3, <1>4, ToolTypes DEF McpPlaygroundTypeOK
<1>6. ToolsOfCombo'
  BY <1>4 DEF ToolsOfCombo
<1>7. StandsUnder(toolCall)' /\ StandsUnder(callResult)'
  BY <1>3, <1>4 DEF ToolsInv, StandsUnder, PanelShown
<1> QED BY <1>3, <1>4, <1>5, <1>6, <1>7 DEF ToolsInv

\* A call that is under way has been moved away from.
LEMMA MovedFacts ==
    ASSUME McpPlaygroundTypeOK, Moved
    PROVE  /\ toolCall' \in Call /\ toolCall'.moved = toolCall.on /\ toolCall'.on = toolCall.on
           /\ toolCall'.early = toolCall.early /\ toolCall'.listed = toolCall.listed
           /\ toolCall'.combo = toolCall.combo
           /\ StandsUnder(toolCall)'
<1>1. toolCall \in Call /\ toolCall' = [toolCall EXCEPT !.moved = toolCall.on]
  BY ToolTypes DEF Moved
<1>2. toolCall' \in Call /\ toolCall'.moved = toolCall.on /\ toolCall'.on = toolCall.on
  BY <1>1 DEF Call
<1> QED BY <1>1, <1>2 DEF StandsUnder, Call

LEMMA AnswerToolsKeeps ==
    ASSUME ToolsInv, NEW l \in DOMAIN toolLoads, AnswerTools(l) PROVE ToolsInv'
<1>1. McpPlaygroundTypeOK /\ LoadsForCombo
  BY DEF ToolsInv
<1>2. /\ toolLoads' = RemoveAt(toolLoads, l) /\ selectedCombo' = selectedCombo /\ choices' = choices
      /\ toolsCrossed' = (toolsCrossed /\ ~toolLoads[l].alone)
      /\ callResult' = NoCall /\ loadingTools' = FALSE
  BY DEF AnswerTools
<1>3. \/ tools' = toolLoads[l].combo /\ selectedTool' = FirstTool
      \/ tools' = NoCombo /\ selectedTool' = 0
  BY DEF AnswerTools
<1>4. /\ LoadsForCombo' /\ toolLoads' \in Seq([combo: McpCombos, alone: BOOLEAN])
      /\ Len(toolLoads') <= MaxToolLoads /\ toolsCrossed' \in BOOLEAN
      /\ toolLoads[l].alone \/ ~toolsCrossed =>
            toolLoads[l].combo = selectedCombo /\ toolLoads' = <<>>
  BY <1>1, <1>2, LoadEndsKeeps
<1>5. /\ toolCall' \in Call /\ toolCall'.on = toolCall.on /\ toolCall'.early = toolCall.early
      /\ toolCall'.listed = toolCall.listed /\ toolCall'.combo = toolCall.combo
      /\ StandsUnder(toolCall)'
  BY <1>1, MovedFacts DEF AnswerTools
<1>6. tools' \in AnyCombo /\ selectedTool' \in Tools \cup {0}
  <2>1. toolLoads[l] \in [combo: McpCombos, alone: BOOLEAN]
    <3>1. toolLoads \in Seq([combo: McpCombos, alone: BOOLEAN])
      BY <1>1, ToolTypes
    <3> QED BY <3>1, ElementOf
  <2> QED BY <1>1, <1>3, <2>1, ToolTypes
<1>7. McpPlaygroundTypeOK'
  BY <1>1, <1>2, <1>4, <1>5, <1>6, ToolTypes DEF McpPlaygroundTypeOK
<1>8. ToolsOfCombo'
  BY <1>2, <1>3, <1>4 DEF ToolsOfCombo
<1>9. StandsUnder(callResult)'
  BY <1>1, <1>2, ToolTypes DEF StandsUnder
<1> QED BY <1>4, <1>5, <1>7, <1>8, <1>9 DEF ToolsInv

LEMMA ToolsFailKeeps ==
    ASSUME ToolsInv, NEW l \in DOMAIN toolLoads, ToolsFail(l) PROVE ToolsInv'
<1>1. McpPlaygroundTypeOK /\ LoadsForCombo
  BY DEF ToolsInv
<1>2. /\ toolLoads' = RemoveAt(toolLoads, l) /\ tools' = NoCombo /\ loadingTools' = FALSE
      /\ UNCHANGED <<selectedCombo, selectedTool, callResult, toolsCrossed, choices>>
  BY DEF ToolsFail, ToolsAfterFailure
<1>3. /\ LoadsForCombo' /\ toolLoads' \in Seq([combo: McpCombos, alone: BOOLEAN])
      /\ Len(toolLoads') <= MaxToolLoads
  BY <1>1, <1>2, LoadEndsKeeps
<1>4. /\ toolCall' \in Call /\ toolCall'.on = toolCall.on /\ toolCall'.early = toolCall.early
      /\ toolCall'.listed = toolCall.listed /\ toolCall'.combo = toolCall.combo
      /\ StandsUnder(toolCall)'
  BY <1>1, MovedFacts DEF ToolsFail
<1>5. McpPlaygroundTypeOK'
  BY <1>1, <1>2, <1>3, <1>4, ToolTypes DEF McpPlaygroundTypeOK
<1>6. ToolsOfCombo' /\ StandsUnder(callResult)'
  BY <1>2 DEF ToolsOfCombo, StandsUnder, PanelShown
<1> QED BY <1>3, <1>4, <1>5, <1>6 DEF ToolsInv

LEMMA ChooseComboKeeps == ASSUME ToolsInv, NEW c \in McpCombos, ChooseCombo(c) PROVE ToolsInv'
<1>1. McpPlaygroundTypeOK /\ LoadsForCombo
  BY DEF ToolsInv
<1>2. /\ selectedCombo' = c /\ fetchTools(c) /\ UNCHANGED <<tools, selectedTool, callResult>>
      /\ choices' \in 0 .. MaxChoices
  BY <1>1, ToolTypes DEF ChooseCombo, Choice
<1>3. /\ LoadsForCombo' /\ toolLoads' # <<>>
      /\ toolLoads' \in Seq([combo: McpCombos, alone: BOOLEAN])
      /\ Len(toolLoads') <= MaxToolLoads
      /\ loadingTools' \in BOOLEAN /\ toolsCrossed' \in BOOLEAN
  BY <1>1, <1>2, FetchToolsKeeps
<1>4. /\ toolCall' \in Call /\ toolCall'.on = toolCall.on /\ toolCall'.early = toolCall.early
      /\ toolCall'.listed = toolCall.listed /\ toolCall'.combo = toolCall.combo
      /\ StandsUnder(toolCall)'
  BY <1>1, MovedFacts DEF ChooseCombo
<1>5. McpPlaygroundTypeOK'
  BY <1>1, <1>2, <1>3, <1>4, ToolTypes DEF McpPlaygroundTypeOK
<1>6. ToolsOfCombo' /\ StandsUnder(callResult)'
  BY <1>2, <1>3 DEF ToolsInv, ToolsOfCombo, StandsUnder, PanelShown
<1> QED BY <1>3, <1>4, <1>5, <1>6 DEF ToolsInv

LEMMA RefreshToolsKeeps == ASSUME ToolsInv, RefreshTools PROVE ToolsInv'
<1>1. McpPlaygroundTypeOK /\ LoadsForCombo
  BY DEF ToolsInv
<1>2. /\ selectedCombo \in McpCombos /\ fetchTools(selectedCombo)
      /\ UNCHANGED <<selectedCombo, tools, selectedTool, toolCall, callResult>>
      /\ choices' \in 0 .. MaxChoices
  BY <1>1, ToolTypes DEF RefreshTools, Choice, AnyCombo
<1>3. /\ LoadsForCombo' /\ toolLoads' # <<>>
      /\ toolLoads' \in Seq([combo: McpCombos, alone: BOOLEAN])
      /\ Len(toolLoads') <= MaxToolLoads
      /\ loadingTools' \in BOOLEAN /\ toolsCrossed' \in BOOLEAN
  BY <1>1, <1>2, FetchToolsKeeps
<1>4. McpPlaygroundTypeOK'
  BY <1>1, <1>2, <1>3, ToolTypes DEF McpPlaygroundTypeOK
<1>5. ToolsOfCombo' /\ StandsUnder(callResult)' /\ StandsUnder(toolCall)'
  BY <1>2, <1>3 DEF ToolsInv, ToolsOfCombo, StandsUnder, PanelShown
<1> QED BY <1>2, <1>3, <1>4, <1>5 DEF ToolsInv

\* The loads and what they are for stay.
LEMMA LoadsStay ==
    ASSUME LoadsForCombo, ToolsOfCombo,
           UNCHANGED <<selectedCombo, tools, toolLoads, toolsCrossed>>
    PROVE  LoadsForCombo' /\ ToolsOfCombo'
  BY DEF LoadsForCombo, ToolsOfCombo

LEMMA SelectToolKeeps == ASSUME ToolsInv, NEW t \in Tools, handleSelectTool(t) PROVE ToolsInv'
<1>1. McpPlaygroundTypeOK
  BY DEF ToolsInv
<1>2. /\ UNCHANGED <<selectedCombo, tools, toolLoads, loadingTools, toolsCrossed>>
      /\ selectedTool' = t /\ callResult' = NoCall /\ choices' \in 0 .. MaxChoices
  BY <1>1, ToolTypes DEF handleSelectTool, Choice
<1>3. LoadsForCombo' /\ ToolsOfCombo'
  BY <1>2, LoadsStay DEF ToolsInv
<1>4. /\ toolCall' \in Call /\ toolCall'.on = toolCall.on /\ toolCall'.early = toolCall.early
      /\ toolCall'.listed = toolCall.listed /\ toolCall'.combo = toolCall.combo
      /\ StandsUnder(toolCall)'
  BY <1>1, MovedFacts DEF handleSelectTool
<1>5. McpPlaygroundTypeOK'
  BY <1>1, <1>2, <1>4, ToolTypes DEF McpPlaygroundTypeOK
<1>6. StandsUnder(callResult)'
  BY <1>1, <1>2, ToolTypes DEF StandsUnder
<1> QED BY <1>3, <1>4, <1>5, <1>6 DEF ToolsInv

LEMMA ExecuteKeeps == ASSUME ToolsInv, handleExecute PROVE ToolsInv'
<1>1. McpPlaygroundTypeOK
  BY DEF ToolsInv
<1>2. /\ UNCHANGED <<selectedCombo, tools, selectedTool, toolLoads, loadingTools, toolsCrossed>>
      /\ callResult' = NoCall /\ choices' \in 0 .. MaxChoices
  BY <1>1, ToolTypes DEF handleExecute, Choice
<1>3. toolCall' = [on |-> TRUE, combo |-> selectedCombo, listed |-> tools,
                   tool |-> selectedTool, early |-> toolLoads # <<>> \/ toolsCrossed,
                   moved |-> FALSE]
  BY DEF handleExecute
<1>4. LoadsForCombo' /\ ToolsOfCombo'
  BY <1>2, LoadsStay DEF ToolsInv
<1>5. /\ toolCall'.on /\ toolCall'.combo = selectedCombo /\ toolCall'.listed = tools
      /\ toolCall'.tool = selectedTool /\ ~toolCall'.moved
      /\ toolCall'.early = (toolLoads # <<>> \/ toolsCrossed)
  BY <1>3
<1>6. toolCall' \in Call
  BY <1>1, <1>3, ToolTypes DEF Call
<1>7. McpPlaygroundTypeOK'
  BY <1>1, <1>2, <1>6, ToolTypes DEF McpPlaygroundTypeOK
<1>8. StandsUnder(callResult)' /\ StandsUnder(toolCall)'
  BY <1>1, <1>2, <1>5, ToolTypes DEF StandsUnder
<1>9. ~toolCall'.early => toolCall'.listed = toolCall'.combo
  BY <1>5 DEF handleExecute, PanelShown, ToolsInv, ToolsOfCombo
<1> QED BY <1>4, <1>7, <1>8, <1>9 DEF ToolsInv

LEMMA AnswerCallKeeps == ASSUME ToolsInv, AnswerCall PROVE ToolsInv'
<1>1. McpPlaygroundTypeOK
  BY DEF ToolsInv
<1>2. /\ UNCHANGED <<selectedCombo, tools, selectedTool, toolLoads, loadingTools, toolsCrossed,
                    choices>>
      /\ callResult' = toolCall /\ toolCall' = NoCall
  BY DEF AnswerCall
<1>3. LoadsForCombo' /\ ToolsOfCombo'
  BY <1>2, LoadsStay DEF ToolsInv
<1>4. McpPlaygroundTypeOK'
  BY <1>1, <1>2, ToolTypes DEF McpPlaygroundTypeOK
<1>5. StandsUnder(callResult)' /\ StandsUnder(toolCall)'
  BY <1>1, <1>2, ToolTypes DEF ToolsInv, StandsUnder, PanelShown
<1> QED BY <1>1, <1>2, <1>3, <1>4, <1>5, ToolTypes DEF ToolsInv

LEMMA ToolsKept == ToolsInv /\ [McpPlaygroundNext]_playVars => ToolsInv'
<1> SUFFICES ASSUME ToolsInv, [McpPlaygroundNext]_playVars PROVE ToolsInv'
  OBVIOUS
<1>1. CASE UNCHANGED playVars
  <2>1. UNCHANGED <<selectedCombo, tools, selectedTool, toolLoads, loadingTools, toolCall,
                    callResult, toolsCrossed, choices>>
    BY <1>1 DEF playVars
  <2> QED BY <2>1 DEF ToolsInv, McpPlaygroundTypeOK, LoadsForCombo, ToolsOfCombo, StandsUnder,
          PanelShown
<1> QED BY <1>1, LoadCombosKeeps, AnswerToolsKeeps, ToolsFailKeeps, ChooseComboKeeps,
           RefreshToolsKeeps, SelectToolKeeps, ExecuteKeeps, AnswerCallKeeps
        DEF McpPlaygroundNext

LEMMA ToolsSafe == ToolsInv => McpPlaygroundTypeOK /\ ToolOfShownCombo
  BY DEF ToolsInv, StandsUnder, ToolOfShownCombo

-----------------------------------------------------------------------------
(* The pages that load.  A load that no other has overlapped is for the    *)
(* query that is displayed, unless the page has still to ask for that one. *)

LoadsForQuery ==
    /\ \A i \in DOMAIN loads : loads[i].alone =>
          Len(loads) = 1 /\ (armed \/ query.at = "nothing" \/ loads[i].q = query.q)
    /\ ~crossed => Len(loads) <= 1 /\ \A i \in DOMAIN loads : loads[i].alone

\* A timer that runs has the query of the page in its closure.
TimerOfQuery ==
    /\ timed.at = "query" => timed = query
    /\ way.timer = "none" => timed.at = "nothing"

ShowsItsQuery == err \/ (shown.at = "rows" /\ shown.q = query.q)

\* A load that fails in silence leaves what was there.
SilenceOK ==
    /\ ~crossed /\ ~armed /\ query.at = "query" /\ way.clears # "silent"
    /\ \A i \in DOMAIN loads : loads[i].silent
    => ShowsItsQuery

LoadsInv == PageLoadsTypeOK /\ LoadsForQuery /\ TimerOfQuery /\ SilenceOK

LoadRec == [q: Query, since: 0 .. MaxData, silent: BOOLEAN, catalog: BOOLEAN, alone: BOOLEAN]

\* The conjuncts of the types.
LEMMA LoadTypes ==
    ASSUME PageLoadsTypeOK
    PROVE  /\ kind \in Kinds
           /\ query \in [at: {"query", "nothing"}, q: Query]
           /\ timed \in [at: {"query", "nothing"}, q: Query]
           /\ shown \in [at: {"rows", "nothing"}, q: Query, v: 0 .. MaxData]
           /\ loads \in Seq(LoadRec) /\ Len(loads) <= MaxInFlight /\ MaxInFlight \in Nat \ {0}
           /\ more \in BOOLEAN /\ armed \in BOOLEAN /\ err \in BOOLEAN
           /\ answered \in BOOLEAN /\ crossed \in BOOLEAN
           /\ polls \in 0 .. MaxPolls /\ row \in [open: {"no", "loading", "yes"}, asked: BOOLEAN]
           /\ data \in 0 .. MaxData /\ acts \in 0 .. MaxActs /\ fails \in 0 .. MaxFails
           /\ MaxData \in Nat /\ MaxActs \in Nat /\ MaxFails \in Nat
           /\ First \in Query /\ Closed \in [at: {"query", "nothing"}, q: Query]
           /\ Nothing \in [at: {"rows", "nothing"}, q: Query, v: 0 .. MaxData]
<1>1. First \in Query
  BY PageLoadsConstants DEF First, Query
<1>2. Closed \in [at: {"query", "nothing"}, q: Query]
  BY <1>1 DEF Closed
<1>3. Nothing \in [at: {"rows", "nothing"}, q: Query, v: 0 .. MaxData]
  BY <1>1, PageLoadsConstants DEF Nothing
<1> QED BY <1>1, <1>2, <1>3, PageLoadsConstants DEF PageLoadsTypeOK, LoadRec

\* The pages, and what is needed of how they load.
LEMMA PagesAre ==
    /\ Kinds = {"Logs", "Requests", "McpRequests", "McpLogs", "Overview", "McpOverview", "Info",
                "McpInfo", "Inspect", "Picker"}
    /\ kind \in Kinds => way.timer \in {"none", "switch", "always", "poll"}
    /\ kind \in {"Logs", "Inspect"} => way.timer = "none"
    /\ kind = "Logs" => way.clears = "start"
    /\ kind = "Inspect" => way.clears = "start"
    /\ kind = "Picker" => way.timer = "poll"
    /\ kind \in Kinds => (Page[kind].can \cap {"first", "detail"} # {} => kind = "Logs")
    /\ kind \in Kinds => ("inspect" \in Page[kind].can => kind = "Inspect")
    /\ kind \in Kinds => ("auto" \in Page[kind].can => way.timer = "switch")
  BY DEF Kinds, Page, way, Way, LogsLoad, RequestsLoad, McpRequestsLoad, McpLogsLoad, OverviewLoad,
         McpOverviewLoad, InfoLoad, McpInfoLoad, InspectLoad, PickerLoad, LogsControls,
         RequestsControls, McpRequestsControls, McpLogsControls, McpRequestsRow, McpLogsRow,
         OverviewControls, McpOverviewControls, McpInfoControls, InspectControls, PickerControls

LEMMA LoadsInitially == PageLoadsInit => LoadsInv
<1> SUFFICES ASSUME PageLoadsInit PROVE LoadsInv
  OBVIOUS
<1>1. /\ First \in Query /\ Asks(First) \in [at: {"query", "nothing"}, q: Query]
      /\ Closed \in [at: {"query", "nothing"}, q: Query]
      /\ Nothing \in [at: {"rows", "nothing"}, q: Query, v: 0 .. MaxData]
      /\ Asks(First).at = "query" /\ Asks(First).q = First /\ Closed.at = "nothing"
      /\ Closed # Asks(First)
  BY PageLoadsConstants DEF First, Query, Asks, Closed, Nothing
<1> DEFINE l == [q |-> First, since |-> 0, silent |-> way.clears = "silent",
                 catalog |-> FALSE, alone |-> TRUE]
<1>2. l \in LoadRec /\ l.alone /\ l.q = First /\ (l.silent <=> way.clears = "silent")
  <2>1. 0 \in 0 .. MaxData
    BY PageLoadsConstants
  <2>2. (way.clears = "silent") \in BOOLEAN
    OBVIOUS
  <2> QED BY <1>1, <2>1, <2>2 DEF LoadRec
<1>3. /\ query = IF kind = "Inspect" THEN Closed ELSE Asks(First)
      /\ timed = IF way.timer = "always" THEN Asks(First) ELSE Closed
      /\ loads = IF kind \in {"Inspect", "Picker"} THEN <<>> ELSE <<l>>
      /\ armed = (kind = "Picker") /\ crossed = FALSE /\ kind \in Kinds
  BY DEF PageLoadsInit
<1> HIDE DEF l
<1>4. loads \in Seq(LoadRec) /\ Len(loads) <= 1 /\ \A i \in DOMAIN loads : loads[i] = l
  <2>1. CASE loads = <<>>
    BY <2>1
  <2>2. CASE loads = <<l>>
    BY <1>2, <2>2
  <2> QED BY <1>3, <2>1, <2>2
<1>5. PageLoadsTypeOK
  <2>1. /\ query \in [at: {"query", "nothing"}, q: Query] /\ timed \in [at: {"query", "nothing"}, q: Query]
        /\ shown \in [at: {"rows", "nothing"}, q: Query, v: 0 .. MaxData]
    BY <1>1, <1>3 DEF PageLoadsInit
  <2>2. Len(loads) <= MaxInFlight
    BY <1>4, PageLoadsConstants
  <2>3. more \in BOOLEAN /\ armed \in BOOLEAN /\ err \in BOOLEAN /\ answered \in BOOLEAN /\ crossed \in BOOLEAN
    BY <1>3 DEF PageLoadsInit
  <2>4. /\ polls \in 0 .. MaxPolls /\ row \in [open: {"no", "loading", "yes"}, asked: BOOLEAN]
        /\ data \in 0 .. MaxData /\ acts \in 0 .. MaxActs /\ fails \in 0 .. MaxFails
    BY PageLoadsConstants DEF PageLoadsInit, MaxPolls
  <2> QED BY <1>3, <1>4, <2>1, <2>2, <2>3, <2>4 DEF PageLoadsTypeOK, LoadRec
<1>6. LoadsForQuery
  <2>1. \A i \in DOMAIN loads : kind # "Inspect" /\ i = 1 /\ Len(loads) = 1
    BY <1>3, <1>4
  <2>2. kind # "Inspect" => query.q = First
    BY <1>1, <1>3
  <2> QED BY <1>2, <1>4, <2>1, <2>2 DEF LoadsForQuery
<1>7. TimerOfQuery
  BY <1>1, <1>3, PagesAre DEF TimerOfQuery
<1>8. SilenceOK
  <2> SUFFICES ASSUME ~armed, query.at = "query", way.clears # "silent",
                      \A i \in DOMAIN loads : loads[i].silent
               PROVE  FALSE
    BY DEF SilenceOK
  <2>1. kind # "Inspect" /\ kind # "Picker"
    BY <1>1, <1>3
  <2>2. loads = <<l>>
    BY <1>3, <2>1
  <2>3. 1 \in DOMAIN loads /\ loads[1] = l
    BY <2>2
  <2> QED BY <1>2, <2>3
<1> QED BY <1>5, <1>6, <1>7, <1>8 DEF LoadsInv

\* Sending loads: the only one under way, or all of them overlap.
LEMMA SentFacts ==
    ASSUME PageLoadsTypeOK, NEW ls \in Seq(LoadRec), Len(ls) > 0, SendAll(ls)
    PROVE  /\ loads' \in Seq(LoadRec) /\ Len(loads') <= MaxInFlight /\ loads' # <<>>
           /\ crossed' \in BOOLEAN /\ err' \in BOOLEAN
           /\ \/ loads = <<>> /\ Len(ls) = 1 /\ loads' = ls /\ crossed' = crossed
              \/ crossed' /\ \A i \in DOMAIN loads' : ~loads'[i].alone
<1>1. /\ loads \in Seq(LoadRec) /\ MaxInFlight \in Nat /\ crossed \in BOOLEAN /\ err \in BOOLEAN
      /\ Len(loads) + Len(ls) <= MaxInFlight /\ Len(loads) \in Nat /\ Len(ls) \in Nat
  BY LoadTypes DEF SendAll
<1> DEFINE all == loads \o ls
<1>2. all \in Seq(LoadRec) /\ Len(all) = Len(loads) + Len(ls)
  BY <1>1, JoinedFacts
<1>3. /\ loads' = IF Len(all) = 1 THEN all
                   ELSE [i \in DOMAIN all |-> [all[i] EXCEPT !.alone = FALSE]]
      /\ crossed' = (crossed \/ Len(all) > 1)
  BY DEF SendAll
<1>4. err' \in BOOLEAN
  BY <1>1 DEF SendAll
<1>5. CASE Len(all) = 1
  <2>1. Len(loads) = 0 /\ Len(ls) = 1
    <3> HIDE DEF all
    <3> QED BY <1>1, <1>2, <1>5
  <2>2. loads = <<>>
    BY <1>1, <2>1
  <2>3. all = ls
    BY <2>2
  <2> HIDE DEF all
  <2>4. loads' = ls /\ crossed' = crossed
    BY <1>1, <1>3, <1>5, <2>3
  <2>5. loads' # <<>>
    BY <2>1, <2>4
  <2> QED BY <1>1, <1>2, <1>4, <1>5, <2>1, <2>2, <2>3, <2>4, <2>5
<1>6. CASE Len(all) # 1
  <2> HIDE DEF all
  <2>1. Len(all) > 1
    BY <1>1, <1>2, <1>6
  <2>2. loads' = [i \in 1 .. Len(all) |-> [all[i] EXCEPT !.alone = FALSE]] /\ crossed' = TRUE
    <3>1. DOMAIN all = 1 .. Len(all)
      BY <1>2, ElementOf
    <3>2. loads' = [i \in DOMAIN all |-> [all[i] EXCEPT !.alone = FALSE]]
      BY <1>3, <1>6
    <3>3. crossed' = TRUE
      BY <1>3, <2>1
    <3> QED BY <3>1, <3>2, <3>3
  <2>3. \A i \in 1 .. Len(all) : [all[i] EXCEPT !.alone = FALSE] \in LoadRec
    <3>1. \A i \in 1 .. Len(all) : all[i] \in LoadRec
      BY <1>2, ElementOf
    <3> QED BY <3>1 DEF LoadRec
  <2>4. loads' \in [1 .. Len(all) -> LoadRec]
    BY <2>2, <2>3
  <2>5. loads' \in Seq(LoadRec) /\ Len(loads') = Len(all)
    BY <1>2, <2>4, SeqOfFunction
  <2>6. loads' # <<>>
    BY <2>1, <2>5
  <2>7. \A i \in DOMAIN loads' : ~loads'[i].alone
    <3>1. \A i \in 1 .. Len(all) : all[i] \in LoadRec
      BY <1>2, ElementOf
    <3> QED BY <2>2, <3>1 DEF LoadRec
  <2> QED BY <1>1, <1>2, <1>4, <2>2, <2>5, <2>6, <2>7
<1> QED BY <1>5, <1>6

\* A load that is sent is for the query of the page, or the page will ask again.
LEMMA SendKeeps ==
    ASSUME LoadsInv, NEW l \in LoadRec, Send(l), kind' = kind,
           l.alone <=> loads = <<>>,
           armed' \/ query'.at = "nothing" \/ l.q = query'.q,
           l.silent => way.clears = "silent" \/ UNCHANGED <<shown, query, armed>>
    PROVE  /\ loads' \in Seq(LoadRec) /\ Len(loads') <= MaxInFlight
           /\ crossed' \in BOOLEAN /\ err' \in BOOLEAN
           /\ LoadsForQuery' /\ SilenceOK'
<1>1. <<l>> \in Seq(LoadRec) /\ Len(<<l>>) = 1 /\ <<l>>[1] = l /\ DOMAIN <<l>> = {1}
  OBVIOUS
<1>2. /\ loads' \in Seq(LoadRec) /\ Len(loads') <= MaxInFlight
      /\ crossed' \in BOOLEAN /\ err' \in BOOLEAN
      /\ \/ loads = <<>> /\ loads' = <<l>> /\ crossed' = crossed
         \/ crossed' /\ \A i \in DOMAIN loads' : ~loads'[i].alone
  <2>1. SendAll(<<l>>) /\ PageLoadsTypeOK
    BY DEF Send, LoadsInv
  <2>2. Len(<<l>>) > 0
    BY <1>1
  <2> QED BY <1>1, <2>1, <2>2, SentFacts
<1>3. way' = way
  BY DEF way
<1>4. CASE crossed' /\ \A i \in DOMAIN loads' : ~loads'[i].alone
  <2>1. LoadsForQuery' /\ SilenceOK'
    BY <1>4 DEF LoadsForQuery, SilenceOK
  <2> QED BY <1>2, <2>1
<1>5. CASE loads = <<>> /\ loads' = <<l>> /\ crossed' = crossed
  <2>1. Len(loads') = 1 /\ loads'[1] = l /\ DOMAIN loads' = {1} /\ l.alone
    BY <1>1, <1>5
  <2>2. LoadsForQuery'
    BY <2>1 DEF LoadsForQuery
  <2>3. ASSUME l.silent, way.clears # "silent", ~crossed', ~armed', query'.at = "query"
        PROVE  ShowsItsQuery'
    <3>1. UNCHANGED <<shown, query, armed>>
      BY <2>3
    <3>2. DOMAIN loads = {}
      BY <1>5
    <3>3. ShowsItsQuery
      BY <1>5, <2>3, <3>1, <3>2 DEF LoadsInv, SilenceOK
    <3>4. \A i \in DOMAIN <<l>> : <<l>>[i].silent
      BY <1>1, <2>3
    <3>5. err' = err
      <4>1. err \in BOOLEAN
        BY LoadTypes DEF LoadsInv
      <4> QED BY <3>4, <4>1 DEF Send, SendAll
    <3> QED BY <3>1, <3>3, <3>5 DEF ShowsItsQuery
  <2>4. SilenceOK'
    BY <1>3, <2>1, <2>3 DEF SilenceOK
  <2> QED BY <1>2, <2>2, <2>4
<1> QED BY <1>2, <1>4, <1>5

\* The load of an effect or a button.
LEMMA NewLoadFacts ==
    ASSUME PageLoadsTypeOK, NEW q \in Query
    PROVE  /\ NewLoad(q) \in LoadRec /\ NewLoad(q).q = q
           /\ NewLoad(q).alone <=> loads = <<>>
           /\ NewLoad(q).silent <=> way.clears = "silent"
  BY LoadTypes DEF NewLoad, LoadRec

QueryState == [at: {"query", "nothing"}, q: Query]

\* The types of what is not about loads.
RestOfTypes ==
    /\ query \in QueryState /\ timed \in QueryState
    /\ shown \in [at: {"rows", "nothing"}, q: Query, v: 0 .. MaxData]
    /\ more \in BOOLEAN /\ armed \in BOOLEAN /\ answered \in BOOLEAN
    /\ polls \in 0 .. MaxPolls /\ row \in [open: {"no", "loading", "yes"}, asked: BOOLEAN]
    /\ data \in 0 .. MaxData /\ acts \in 0 .. MaxActs /\ fails \in 0 .. MaxFails

LEMMA TypesOfParts ==
    PageLoadsTypeOK =>
        /\ kind \in Kinds /\ RestOfTypes
        /\ loads \in Seq(LoadRec) /\ Len(loads) <= MaxInFlight
        /\ crossed \in BOOLEAN /\ err \in BOOLEAN
  BY DEF PageLoadsTypeOK, RestOfTypes, LoadRec, QueryState

LEMMA ActFacts ==
    ASSUME PageLoadsTypeOK, Act PROVE acts' \in 0 .. MaxActs
<1>1. acts \in Nat /\ MaxActs \in Nat /\ acts < MaxActs /\ acts' = acts + 1
  BY LoadTypes DEF Act
<1> QED BY <1>1

LEMMA AsksFacts ==
    ASSUME NEW q \in Query
    PROVE  Asks(q) \in QueryState /\ Asks(q).at = "query" /\ Asks(q).q = q
  BY DEF Asks, QueryState

\* A step that sends one load, and keeps the types and the timer.
LEMMA SendStepKeeps ==
    ASSUME LoadsInv, NEW l \in LoadRec, Send(l), kind' = kind,
           l.alone <=> loads = <<>>,
           armed' \/ query'.at = "nothing" \/ l.q = query'.q,
           l.silent => way.clears = "silent" \/ UNCHANGED <<shown, query, armed>>,
           RestOfTypes', TimerOfQuery'
    PROVE  LoadsInv'
<1>1. /\ loads' \in Seq(LoadRec) /\ Len(loads') <= MaxInFlight
      /\ crossed' \in BOOLEAN /\ err' \in BOOLEAN
      /\ LoadsForQuery' /\ SilenceOK'
  BY SendKeeps
<1>2. kind' \in Kinds
  BY TypesOfParts DEF LoadsInv
<1>3. PageLoadsTypeOK'
  BY <1>1, <1>2 DEF PageLoadsTypeOK, RestOfTypes, LoadRec, QueryState
<1> QED BY <1>1, <1>3 DEF LoadsInv

\* A step that leaves the loads and what is shown.
LEMMA PlainKeeps ==
    ASSUME LoadsInv, UNCHANGED <<kind, shown, loads, err, crossed>>,
           armed' \/ query'.at = "nothing" \/ UNCHANGED <<query, armed>>,
           RestOfTypes', TimerOfQuery'
    PROVE  LoadsInv'
<1>1. way' = way
  BY DEF way
<1>2. LoadsForQuery'
  BY DEF LoadsInv, LoadsForQuery
<1>3. SilenceOK'
  BY <1>1 DEF LoadsInv, SilenceOK, ShowsItsQuery
<1>4. PageLoadsTypeOK'
  <2>1. /\ kind' \in Kinds /\ loads' \in Seq(LoadRec) /\ Len(loads') <= MaxInFlight
        /\ crossed' \in BOOLEAN /\ err' \in BOOLEAN
    BY TypesOfParts DEF LoadsInv
  <2> QED BY <2>1 DEF PageLoadsTypeOK, RestOfTypes, LoadRec, QueryState
<1> QED BY <1>2, <1>3, <1>4 DEF LoadsInv

\* A timer that stays as it is, under a query that stays or without timers.
LEMMA TimerStays ==
    ASSUME TimerOfQuery, UNCHANGED <<kind, timed>>,
           query' = query \/ way.timer = "none"
    PROVE  TimerOfQuery'
<1>1. way' = way
  BY DEF way
<1> QED BY <1>1 DEF TimerOfQuery

LEMMA ChangeKeeps ==
    ASSUME LoadsInv, NEW q \in Query, Change(q), acts' \in 0 .. MaxActs PROVE LoadsInv'
<1>1. PageLoadsTypeOK /\ RestOfTypes
  BY TypesOfParts DEF LoadsInv
<1>2. /\ query' = Asks(q) /\ timed' = (IF timed.at = "query" THEN Asks(q) ELSE timed)
      /\ Send(NewLoad(q))
      /\ UNCHANGED <<kind, shown, more, armed, polls, answered, row, data, fails>>
  BY DEF Change, Retimed, EffectQuery
<1>3. RestOfTypes'
  BY <1>1, <1>2, AsksFacts DEF RestOfTypes
<1>4. TimerOfQuery'
  <2>1. way' = way
    BY <1>2 DEF way
  <2>2. Asks(q).at = "query"
    BY AsksFacts
  <2> QED BY <1>2, <2>1, <2>2 DEF LoadsInv, TimerOfQuery
<1> DEFINE l == NewLoad(q)
<1>5. /\ l \in LoadRec /\ l.q = query'.q /\ (l.alone <=> loads = <<>>)
      /\ (l.silent <=> way.clears = "silent")
  BY <1>1, <1>2, NewLoadFacts, AsksFacts
<1>6. Send(l)
  BY <1>2
<1> HIDE DEF l
<1> QED BY <1>2, <1>3, <1>4, <1>5, <1>6, SendStepKeeps

LEMMA SetFilterKeeps == ASSUME LoadsInv, NEW f \in Filters, SetFilter(f) PROVE LoadsInv'
<1>1. [filter |-> f, page |-> 0] \in Query
  BY DEF Query
<1>2. acts' \in 0 .. MaxActs
  BY ActFacts DEF LoadsInv, SetFilter
<1> QED BY <1>1, <1>2, ChangeKeeps DEF SetFilter

LEMMA TurnPageKeeps == ASSUME LoadsInv, NEW p \in 0 .. 1, TurnPage(p) PROVE LoadsInv'
<1>1. query.q \in Query
  BY LoadTypes DEF LoadsInv
<1>2. [query.q EXCEPT !.page = p] \in Query
  BY <1>1 DEF Query
<1>3. acts' \in 0 .. MaxActs
  BY ActFacts DEF LoadsInv, TurnPage
<1> QED BY <1>2, <1>3, ChangeKeeps DEF TurnPage

\* The load of this render, from a button or from the debounce timer.
LEMMA LoadNowKeeps ==
    ASSUME LoadsInv, Refresh \/ Debounced \/ RefreshCatalog PROVE LoadsInv'
<1>1. PageLoadsTypeOK /\ RestOfTypes /\ TimerOfQuery /\ query.q \in Query
  BY TypesOfParts, LoadTypes DEF LoadsInv
<1>2. /\ UNCHANGED <<kind, query, shown, more, timed, polls, answered, row, data, fails>>
      /\ armed' \in BOOLEAN /\ acts' \in 0 .. MaxActs
  BY <1>1, ActFacts DEF Refresh, Debounced, RefreshCatalog, RestOfTypes
<1>3. RestOfTypes'
  BY <1>1, <1>2 DEF RestOfTypes
<1>4. TimerOfQuery'
  BY <1>1, <1>2, TimerStays
<1>5. PICK l \in LoadRec : /\ Send(l) /\ l.q = query.q /\ (l.alone <=> loads = <<>>)
                          /\ (l.silent <=> way.clears = "silent")
  <2> DEFINE n == NewLoad(query.q)
  <2>1. /\ n \in LoadRec /\ n.q = query.q /\ (n.alone <=> loads = <<>>)
        /\ (n.silent <=> way.clears = "silent")
    BY <1>1, NewLoadFacts
  <2>2. Send(n) \/ Send([n EXCEPT !.catalog = TRUE])
    BY DEF Refresh, Debounced, RefreshCatalog
  <2> HIDE DEF n
  <2>3. [n EXCEPT !.catalog = TRUE] \in LoadRec
    BY <2>1 DEF LoadRec
  <2>4. /\ [n EXCEPT !.catalog = TRUE].q = n.q /\ [n EXCEPT !.catalog = TRUE].alone = n.alone
        /\ [n EXCEPT !.catalog = TRUE].silent = n.silent
    BY <2>1 DEF LoadRec
  <2> QED BY <2>1, <2>2, <2>3, <2>4
<1> QED BY <1>2, <1>3, <1>4, <1>5, SendStepKeeps

LEMMA TickKeeps == ASSUME LoadsInv, Tick PROVE LoadsInv'
<1>1. PageLoadsTypeOK /\ RestOfTypes /\ TimerOfQuery /\ timed.q \in Query
  BY TypesOfParts, LoadTypes DEF LoadsInv
<1>2. UNCHANGED <<kind, query, shown, more, timed, armed, answered, row, data, acts, fails>>
  BY DEF Tick
<1>3. polls' \in 0 .. MaxPolls
  BY <1>1 DEF Tick, RestOfTypes, MaxPolls
<1>4. RestOfTypes'
  BY <1>1, <1>2, <1>3 DEF RestOfTypes
<1>5. TimerOfQuery' /\ timed = query
  BY <1>1, <1>2, TimerStays DEF TimerOfQuery, Tick
<1> DEFINE n == NewLoad(timed.q)
           l == [n EXCEPT !.silent = @ \/ way.timer = "poll"]
<1>6. n \in LoadRec /\ n.q = query.q /\ (n.alone <=> loads = <<>>)
  BY <1>1, <1>5, NewLoadFacts
<1>7. Send(l)
  BY DEF Tick
<1> HIDE DEF n
<1>8. l \in LoadRec /\ l.q = n.q /\ l.alone = n.alone
  <2>1. n.silent \in BOOLEAN
    BY <1>6 DEF LoadRec
  <2>2. l = [n EXCEPT !.silent = n.silent \/ way.timer = "poll"]
    BY <1>6 DEF LoadRec
  <2> QED BY <1>6, <2>1, <2>2 DEF LoadRec
<1> HIDE DEF l
<1> QED BY <1>2, <1>4, <1>5, <1>6, <1>7, <1>8, SendStepKeeps

LEMMA InspectKeeps == ASSUME LoadsInv, NEW f \in Filters, Inspect(f) PROVE LoadsInv'
<1>1. PageLoadsTypeOK /\ RestOfTypes /\ TimerOfQuery /\ acts' \in 0 .. MaxActs
  BY TypesOfParts, ActFacts DEF LoadsInv, Inspect
<1> DEFINE q == [filter |-> f, page |-> 0]
<1>2. q \in Query /\ query' = Asks(q)
  BY DEF Query, Inspect
<1> HIDE DEF q
<1>3. /\ UNCHANGED <<kind, more, timed, armed, polls, answered, row, data, fails>>
      /\ shown' = Nothing /\ Send(NewLoad(query'.q))
  BY DEF Inspect
<1>4. RestOfTypes'
  BY <1>1, <1>2, <1>3, AsksFacts, LoadTypes DEF RestOfTypes
<1>5. kind = "Inspect" /\ way.timer = "none"
  BY <1>1, PagesAre DEF Inspect, May, PageLoadsTypeOK
<1>6. TimerOfQuery'
  BY <1>1, <1>3, <1>5, TimerStays
<1> DEFINE l == NewLoad(query'.q)
<1>7. /\ l \in LoadRec /\ l.q = query'.q /\ (l.alone <=> loads = <<>>)
      /\ (l.silent <=> way.clears = "silent")
  BY <1>1, <1>2, AsksFacts, NewLoadFacts
<1>8. Send(l)
  BY <1>3
<1> HIDE DEF l
<1> QED BY <1>3, <1>4, <1>6, <1>7, <1>8, SendStepKeeps

\* Logs sends the load of the page that was open, and then that of the first.
LEMMA RefreshFirstKeeps == ASSUME LoadsInv, RefreshFirst PROVE LoadsInv'
<1>1. PageLoadsTypeOK /\ RestOfTypes /\ TimerOfQuery /\ acts' \in 0 .. MaxActs /\ query.q \in Query
  BY TypesOfParts, ActFacts, LoadTypes DEF LoadsInv, RefreshFirst
<1> DEFINE q == [query.q EXCEPT !.page = 0]
           n == NewLoad(query.q)
           m == NewLoad(query'.q)
           ls == <<n>> \o (IF query' = query THEN <<>> ELSE <<m>>)
<1>2. q \in Query
  BY <1>1 DEF Query
<1>3. /\ UNCHANGED <<kind, shown, more, timed, armed, polls, answered, row, data, fails>>
      /\ query' = Asks(q) /\ SendAll(ls)
  BY DEF RefreshFirst
<1>4. kind = "Logs" /\ way.timer = "none" /\ way.clears = "start"
  BY <1>1, PagesAre DEF RefreshFirst, May, PageLoadsTypeOK
<1> HIDE DEF q
<1>5. query' \in QueryState /\ query'.q \in Query
  BY <1>2, <1>3, AsksFacts
<1>6. RestOfTypes'
  BY <1>1, <1>3, <1>5 DEF RestOfTypes
<1>7. TimerOfQuery'
  BY <1>1, <1>3, <1>4, TimerStays
<1>8. /\ n \in LoadRec /\ n.q = query.q /\ (n.alone <=> loads = <<>>)
      /\ (n.silent <=> way.clears = "silent") /\ m \in LoadRec
  BY <1>1, <1>5, NewLoadFacts
<1> HIDE DEF n, m
<1>9. CASE query' = query
  <2>1. ls = <<n>>
    BY <1>9
  <2>2. Send(n)
    BY <1>3, <2>1 DEF Send
  <2>3. n.q = query'.q
    BY <1>8, <1>9
  <2> QED BY <1>3, <1>6, <1>7, <1>8, <2>2, <2>3, SendStepKeeps
<1>10. CASE query' # query
  <2>1. ls = <<n>> \o <<m>>
    BY <1>10
  <2>2. ls \in Seq(LoadRec) /\ Len(ls) = 2
    <3>1. /\ <<n>> \in Seq(LoadRec) /\ Len(<<n>>) = 1
          /\ <<m>> \in Seq(LoadRec) /\ Len(<<m>>) = 1
      BY <1>8
    <3> QED BY <2>1, <3>1, JoinedFacts
  <2> HIDE DEF ls
  <2>3. /\ loads' \in Seq(LoadRec) /\ Len(loads') <= MaxInFlight
        /\ crossed' \in BOOLEAN /\ err' \in BOOLEAN
        /\ crossed' /\ \A i \in DOMAIN loads' : ~loads'[i].alone
    <3>1. Len(ls) > 0 /\ Len(ls) # 1
      BY <2>2
    <3> QED BY <1>1, <1>3, <2>2, <3>1, SentFacts
  <2>4. LoadsForQuery' /\ SilenceOK'
    BY <2>3 DEF LoadsForQuery, SilenceOK
  <2>5. kind' \in Kinds
    BY <1>1, <1>3, TypesOfParts
  <2>6. PageLoadsTypeOK'
    BY <1>6, <2>3, <2>5 DEF PageLoadsTypeOK, RestOfTypes, LoadRec, QueryState
  <2> QED BY <1>7, <2>4, <2>6 DEF LoadsInv
<1> QED BY <1>9, <1>10

LEMMA SwitchAutoKeeps == ASSUME LoadsInv, SwitchAuto PROVE LoadsInv'
<1>1. /\ PageLoadsTypeOK /\ RestOfTypes /\ TimerOfQuery /\ acts' \in 0 .. MaxActs
      /\ Closed \in QueryState
  BY TypesOfParts, ActFacts, LoadTypes DEF LoadsInv, SwitchAuto, QueryState
<1>2. /\ UNCHANGED <<kind, query, shown, more, loads, armed, polls, err, answered, row,
                     data, fails, crossed>>
      /\ timed' = IF timed.at = "query" THEN Closed ELSE query
  BY DEF SwitchAuto
<1>3. RestOfTypes'
  BY <1>1, <1>2 DEF RestOfTypes
<1>4. way' = way /\ way.timer = "switch" /\ Closed.at = "nothing"
  BY <1>1, <1>2, PagesAre DEF SwitchAuto, May, PageLoadsTypeOK, way, Closed
<1>5. TimerOfQuery'
  BY <1>2, <1>4 DEF TimerOfQuery
<1> QED BY <1>2, <1>3, <1>5, PlainKeeps

\* A row's detail, and what changes on the server, are not about loads.
LEMMA RowKeeps ==
    ASSUME LoadsInv, ToggleDetail \/ AnswerDetail \/ OpenRow \/ ServerChanges PROVE LoadsInv'
<1>1. PageLoadsTypeOK /\ RestOfTypes /\ TimerOfQuery
  BY TypesOfParts DEF LoadsInv
<1>2. /\ UNCHANGED <<kind, query, shown, more, loads, timed, armed, polls, err, answered,
                     fails, crossed>>
      /\ acts' \in 0 .. MaxActs
  BY <1>1, ActFacts DEF ToggleDetail, AnswerDetail, OpenRow, ServerChanges, RestOfTypes
<1>3. row' \in [open: {"no", "loading", "yes"}, asked: BOOLEAN]
  <2>1. row \in [open: {"no", "loading", "yes"}, asked: BOOLEAN]
    BY <1>1 DEF RestOfTypes
  <2>2. CASE ToggleDetail
    <3>1. row' = [open |-> "loading", asked |-> TRUE] \/ row' = [row EXCEPT !.open = "no"]
      BY <2>2 DEF ToggleDetail
    <3>2. [row EXCEPT !.open = "no"] \in [open: {"no", "loading", "yes"}, asked: BOOLEAN]
      BY <2>1
    <3>3. [open |-> "loading", asked |-> TRUE] \in [open: {"no", "loading", "yes"}, asked: BOOLEAN]
      OBVIOUS
    <3> QED BY <3>1, <3>2, <3>3
  <2>3. CASE AnswerDetail
    BY <2>3 DEF AnswerDetail
  <2>4. CASE OpenRow
    <3>1. row' = [row EXCEPT !.open = "yes"] \/ row' = [row EXCEPT !.open = "no"]
      BY <2>4 DEF OpenRow
    <3> QED BY <2>1, <3>1
  <2>5. CASE ServerChanges
    BY <2>1, <2>5 DEF ServerChanges
  <2> QED BY <2>2, <2>3, <2>4, <2>5
<1>4. data' \in 0 .. MaxData
  <2>1. data \in 0 .. MaxData /\ MaxData \in Nat
    BY <1>1, LoadTypes
  <2>2. data' = data \/ (data < MaxData /\ data' = data + 1)
    BY DEF ToggleDetail, AnswerDetail, OpenRow, ServerChanges
  <2> QED BY <2>1, <2>2
<1>5. RestOfTypes'
  BY <1>1, <1>2, <1>3, <1>4 DEF RestOfTypes
<1>6. TimerOfQuery'
  BY <1>1, <1>2, TimerStays
<1> QED BY <1>2, <1>5, <1>6, PlainKeeps

LEMMA CloseInspectKeeps == ASSUME LoadsInv, CloseInspect PROVE LoadsInv'
<1>1. /\ PageLoadsTypeOK /\ RestOfTypes /\ TimerOfQuery /\ acts' \in 0 .. MaxActs
      /\ Closed \in QueryState
  BY TypesOfParts, ActFacts, LoadTypes DEF LoadsInv, CloseInspect, QueryState
<1>2. /\ UNCHANGED <<kind, shown, more, loads, timed, armed, polls, err, answered, row, data,
                     fails, crossed>>
      /\ query' = Closed
  BY DEF CloseInspect
<1>3. RestOfTypes'
  BY <1>1, <1>2 DEF RestOfTypes
<1>4. way.timer = "none"
  BY <1>1, PagesAre DEF CloseInspect, May, PageLoadsTypeOK
<1>5. TimerOfQuery'
  BY <1>1, <1>2, <1>4, TimerStays
<1>6. query'.at = "nothing"
  BY <1>2 DEF Closed
<1> QED BY <1>2, <1>3, <1>5, <1>6, PlainKeeps

LEMMA TypeKeeps == ASSUME LoadsInv, NEW f \in Filters, Type(f) PROVE LoadsInv'
<1>1. PageLoadsTypeOK /\ RestOfTypes /\ TimerOfQuery /\ acts' \in 0 .. MaxActs
  BY TypesOfParts, ActFacts DEF LoadsInv, Type
<1> DEFINE q == [filter |-> f, page |-> 0]
<1>2. q \in Query
  BY DEF Query
<1>3. /\ UNCHANGED <<kind, shown, more, loads, err, answered, row, data, fails, crossed>>
      /\ query' = Asks(q) /\ armed' = TRUE /\ polls' = 0
      /\ timed' = IF timed.at = "query" THEN Asks(query'.q) ELSE timed
  BY DEF Type, Retimed
<1> HIDE DEF q
<1>4. query' \in QueryState /\ query'.q = q /\ query'.at = "query"
  BY <1>2, <1>3, AsksFacts
<1>5. polls' \in 0 .. MaxPolls
  BY <1>3 DEF MaxPolls
<1>6. timed' \in QueryState
  BY <1>1, <1>3, <1>4 DEF RestOfTypes
<1>7. RestOfTypes'
  BY <1>1, <1>3, <1>4, <1>5, <1>6 DEF RestOfTypes
<1>8. TimerOfQuery'
  <2>1. way' = way
    BY <1>3 DEF way
  <2> QED BY <1>1, <1>3, <1>4, <2>1 DEF TimerOfQuery
<1> QED BY <1>3, <1>7, <1>8, PlainKeeps

\* A load less: those that are left overlapped, and are still said to.
LEMMA LoadLessKeeps ==
    ASSUME PageLoadsTypeOK, LoadsForQuery, NEW i \in DOMAIN loads,
           loads' = RemoveAt(loads, i), UNCHANGED <<query, armed>>,
           crossed' = crossed \/ crossed' = (crossed /\ ~loads[i].alone)
    PROVE  /\ LoadsForQuery'
           /\ loads' \in Seq(LoadRec) /\ Len(loads') <= MaxInFlight /\ crossed' \in BOOLEAN
           /\ loads[i] \in LoadRec
           /\ loads[i].alone \/ ~crossed =>
                 /\ armed \/ query.at = "nothing" \/ loads[i].q = query.q
                 /\ i = 1 /\ DOMAIN loads = {1}
<1>1. /\ loads \in Seq(LoadRec) /\ i \in 1 .. Len(loads) /\ crossed \in BOOLEAN
      /\ MaxInFlight \in Nat /\ Len(loads) <= MaxInFlight /\ DOMAIN loads = 1 .. Len(loads)
  BY LoadTypes
<1>2. /\ loads' \in Seq(LoadRec) /\ Len(loads') = Len(loads) - 1
      /\ \A j \in 1 .. Len(loads) - 1 :
            loads'[j] = IF j < i THEN loads[j] ELSE loads[j + 1]
  BY <1>1, RemoveAtFacts
<1>3. loads[i] \in LoadRec
  BY <1>1, ElementOf
<1>4. Len(loads') <= MaxInFlight
  BY <1>1, <1>2
<1>5. crossed' \in BOOLEAN
  BY <1>1
<1>6. loads[i].alone \/ ~crossed => loads[i].alone /\ Len(loads) = 1
  <2>1. Len(loads) >= 1
    BY <1>1
  <2> QED BY <1>1, <2>1 DEF LoadsForQuery
<1>7. ASSUME loads[i].alone \/ ~crossed
      PROVE  /\ armed \/ query.at = "nothing" \/ loads[i].q = query.q
             /\ i = 1 /\ DOMAIN loads = {1}
  BY <1>1, <1>6, <1>7 DEF LoadsForQuery
<1>8. LoadsForQuery'
  <2>1. CASE Len(loads) = 1
    <3>1. Len(loads') = 0 /\ DOMAIN loads' = {}
      BY <1>2, <2>1
    <3> QED BY <3>1 DEF LoadsForQuery
  <2>2. CASE Len(loads) # 1
    <3>1. crossed /\ \A j \in 1 .. Len(loads) : ~loads[j].alone
      BY <1>1, <2>2 DEF LoadsForQuery
    <3>2. crossed' = TRUE
      BY <1>1, <3>1
    <3>3. \A j \in 1 .. Len(loads) - 1 : ~loads'[j].alone
      BY <1>1, <1>2, <3>1
    <3>4. DOMAIN loads' = 1 .. Len(loads) - 1
      BY <1>1, <1>2
    <3> QED BY <3>2, <3>3, <3>4 DEF LoadsForQuery
  <2> QED BY <2>1, <2>2
<1> QED BY <1>2, <1>3, <1>4, <1>5, <1>7, <1>8

\* What an answer shows is what the page asks for, if its load was alone.
LEMMA AnswerKeeps == ASSUME LoadsInv, NEW i \in DOMAIN loads, Answer(i) PROVE LoadsInv'
<1>1. PageLoadsTypeOK /\ RestOfTypes /\ LoadsForQuery /\ TimerOfQuery
  BY TypesOfParts DEF LoadsInv
<1>2. /\ loads' = RemoveAt(loads, i) /\ UNCHANGED <<kind, query, armed, data, acts, fails>>
      /\ crossed' = (crossed /\ ~loads[i].alone)
      /\ more' \in BOOLEAN /\ answered' = TRUE
      /\ err' = (err /\ way.clears # "answer")
      /\ row' = IF kind = "Logs" THEN [row EXCEPT !.open = "no"] ELSE row
  BY DEF Answer
<1>3. PICK v \in loads[i].since .. data :
          /\ shown' = Rows(loads[i].q, v) /\ timed' = PollAfter(v)
          /\ polls' = IF timed.at = "nothing" THEN 0 ELSE polls
  BY DEF Answer
<1>4. /\ LoadsForQuery' /\ loads' \in Seq(LoadRec) /\ Len(loads') <= MaxInFlight
      /\ crossed' \in BOOLEAN /\ loads[i] \in LoadRec
      /\ loads[i].alone \/ ~crossed =>
            armed \/ query.at = "nothing" \/ loads[i].q = query.q
  BY <1>1, <1>2, LoadLessKeeps
<1>5. way' = way /\ way.timer \in {"none", "switch", "always", "poll"}
  BY <1>1, <1>2, PagesAre DEF way, PageLoadsTypeOK
<1>6. v \in 0 .. MaxData /\ loads[i].q \in Query
  <2>1. loads[i].since \in 0 .. MaxData /\ loads[i].q \in Query
    BY <1>4 DEF LoadRec
  <2>2. data \in 0 .. MaxData /\ MaxData \in Nat
    BY <1>1, LoadTypes
  <2> QED BY <2>1, <2>2
<1>7. timed' = timed \/ timed' = Closed \/ (timed' = query /\ way.timer = "poll")
  <2>1. v < MaxData \/ v = MaxData
    <3>1. MaxData \in Nat
      BY <1>1, LoadTypes
    <3> QED BY <1>6, <3>1
  <2> QED BY <1>3, <1>5, <2>1 DEF PollAfter
<1>8. RestOfTypes'
  <2>1. shown' \in [at: {"rows", "nothing"}, q: Query, v: 0 .. MaxData]
    BY <1>3, <1>6 DEF Rows
  <2>2. timed' \in QueryState
    <3>1. Closed \in QueryState
      BY <1>1, LoadTypes DEF QueryState
    <3> QED BY <1>1, <1>7, <3>1 DEF RestOfTypes
  <2>3. polls' \in 0 .. MaxPolls
    BY <1>1, <1>3 DEF RestOfTypes, MaxPolls
  <2>4. row' \in [open: {"no", "loading", "yes"}, asked: BOOLEAN]
    BY <1>1, <1>2 DEF RestOfTypes
  <2> QED BY <1>1, <1>2, <2>1, <2>2, <2>3, <2>4 DEF RestOfTypes
<1>9. TimerOfQuery'
  <2>1. Closed.at = "nothing"
    BY DEF Closed
  <2> QED BY <1>1, <1>2, <1>5, <1>7, <2>1 DEF TimerOfQuery
<1>10. SilenceOK'
  <2> SUFFICES ASSUME ~crossed', ~armed, query.at = "query" PROVE ShowsItsQuery'
    BY <1>2 DEF SilenceOK
  <2>1. loads[i].alone \/ ~crossed
    BY <1>2
  <2>2. loads[i].q = query.q
    BY <1>4, <2>1
  <2> QED BY <1>2, <1>3, <2>2 DEF ShowsItsQuery, Rows
<1>11. err' \in BOOLEAN /\ kind' \in Kinds
  BY <1>1, <1>2, LoadTypes
<1>12. PageLoadsTypeOK'
  BY <1>4, <1>8, <1>11 DEF PageLoadsTypeOK, RestOfTypes, LoadRec, QueryState
<1> QED BY <1>4, <1>9, <1>10, <1>12 DEF LoadsInv

\* A load that fails says so, or was silent and leaves what was shown before.
LEMMA AnswerFailsKeeps == ASSUME LoadsInv, NEW i \in DOMAIN loads, AnswerFails(i) PROVE LoadsInv'
<1>1. PageLoadsTypeOK /\ RestOfTypes /\ LoadsForQuery /\ TimerOfQuery
  BY TypesOfParts DEF LoadsInv
<1>2. /\ loads' = RemoveAt(loads, i) /\ err' = (err \/ ~loads[i].silent) /\ answered' = TRUE
      /\ UNCHANGED <<kind, query, shown, more, timed, armed, polls, row, data, acts, crossed>>
      /\ fails < MaxFails /\ fails' = fails + 1
  BY DEF AnswerFails
<1>3. /\ LoadsForQuery' /\ loads' \in Seq(LoadRec) /\ Len(loads') <= MaxInFlight
      /\ crossed' \in BOOLEAN /\ loads[i] \in LoadRec
      /\ ~crossed => i = 1 /\ DOMAIN loads = {1}
  BY <1>1, <1>2, LoadLessKeeps
<1>4. fails' \in 0 .. MaxFails
  <2>1. fails \in 0 .. MaxFails /\ MaxFails \in Nat
    BY <1>1, LoadTypes
  <2> QED BY <1>2, <2>1
<1>5. RestOfTypes'
  BY <1>1, <1>2, <1>4 DEF RestOfTypes
<1>6. TimerOfQuery'
  BY <1>1, <1>2, TimerStays
<1>7. err' \in BOOLEAN /\ kind' \in Kinds /\ err \in BOOLEAN /\ loads[i].silent \in BOOLEAN
  <2>1. loads[i].silent \in BOOLEAN
    BY <1>3 DEF LoadRec
  <2> QED BY <1>1, <1>2, <2>1, LoadTypes
<1>8. SilenceOK'
  <2>1. way' = way
    BY <1>2 DEF way
  <2> SUFFICES ASSUME ~crossed, ~armed, query.at = "query", way.clears # "silent"
               PROVE  ShowsItsQuery'
    BY <1>2, <2>1 DEF SilenceOK
  <2>2. CASE ~loads[i].silent
    BY <1>2, <2>2 DEF ShowsItsQuery
  <2>3. CASE loads[i].silent
    <3>1. \A j \in DOMAIN loads : loads[j].silent
      BY <1>3, <2>3
    <3>2. ShowsItsQuery
      BY <3>1 DEF LoadsInv, SilenceOK
    <3> QED BY <1>2, <1>7, <3>2 DEF ShowsItsQuery
  <2> QED BY <1>7, <2>2, <2>3
<1>9. PageLoadsTypeOK'
  BY <1>3, <1>5, <1>7 DEF PageLoadsTypeOK, RestOfTypes, LoadRec, QueryState
<1> QED BY <1>3, <1>6, <1>8, <1>9 DEF LoadsInv

LEMMA LoadsKept == LoadsInv /\ [PageLoadsNext]_loadVars => LoadsInv'
<1> SUFFICES ASSUME LoadsInv, [PageLoadsNext]_loadVars PROVE LoadsInv'
  OBVIOUS
<1>1. CASE UserActs
  <2>1. CASE \E f \in Filters : SetFilter(f) \/ Inspect(f) \/ Type(f)
    BY <2>1, SetFilterKeeps, InspectKeeps, TypeKeeps
  <2>2. CASE \E p \in 0 .. 1 : TurnPage(p)
    BY <2>2, TurnPageKeeps
  <2>3. CASE Refresh \/ RefreshCatalog
    BY <2>3, LoadNowKeeps
  <2>4. CASE RefreshFirst \/ SwitchAuto \/ CloseInspect
    BY <2>4, RefreshFirstKeeps, SwitchAutoKeeps, CloseInspectKeeps
  <2>5. CASE ToggleDetail \/ OpenRow
    BY <2>5, RowKeeps
  <2> QED BY <1>1, <2>1, <2>2, <2>3, <2>4, <2>5 DEF UserActs
<1>2. CASE Debounced
  BY <1>2, LoadNowKeeps
<1>3. CASE Tick
  BY <1>3, TickKeeps
<1>4. CASE Answered
  BY <1>4, AnswerKeeps, AnswerFailsKeeps DEF Answered
<1>5. CASE AnswerDetail \/ ServerChanges
  BY <1>5, RowKeeps
<1>6. CASE UNCHANGED loadVars
  <2>1. UNCHANGED <<kind, query, shown, more, loads, timed, armed, polls, err, answered, row,
                    data, acts, fails, crossed>>
    BY <1>6 DEF loadVars
  <2>2. RestOfTypes' /\ TimerOfQuery'
    <3>1. RestOfTypes
      BY TypesOfParts DEF LoadsInv
    <3>2. TimerOfQuery'
      BY <2>1, TimerStays DEF LoadsInv
    <3> QED BY <2>1, <3>1, <3>2 DEF RestOfTypes
  <2> QED BY <2>1, <2>2, PlainKeeps
<1> QED BY <1>1, <1>2, <1>3, <1>4, <1>5, <1>6 DEF PageLoadsNext

LEMMA LoadsSafe == LoadsInv => PageLoadsTypeOK /\ QuietPageShowsItsQuery
<1> SUFFICES ASSUME LoadsInv PROVE PageLoadsTypeOK /\ QuietPageShowsItsQuery
  OBVIOUS
<1>1. loads = <<>> => DOMAIN loads = {}
  OBVIOUS
<1> QED BY <1>1 DEF LoadsInv, SilenceOK, ShowsItsQuery, QuietPageShowsItsQuery

-----------------------------------------------------------------------------
(* The test page of the proxy.                                             *)

\* The combo that is chosen is there, and has the format that is chosen.
ChoiceOK ==
    comboName # <<>> =>
        Matching(comboName) # {} /\ SupportsFormat(Found(comboName), fmt)

FirstOfAll == flatCombos = <<>> => comboName = <<>> /\ ~Busy

\* While a request is under way, the choice is the one it was sent with.
RequestOK ==
    Busy =>
        /\ comboName # <<>> /\ (isRelayCombo => upstream # <<>>)
        /\ request.model = requestModel
        /\ SupportsFormat(Found(comboName), request.fmt)

TestInv == PlaygroundTypeOK /\ ChoiceOK /\ FirstOfAll /\ RequestOK

\* The combos of a list that an identifier may mean, and the one that it does.
MeantIn(cs, id) == {i \in DOMAIN cs : getFullID(cs[i]) = id \/ <<cs[i].name>> = id}
FirstMeant(cs, id) ==
    cs[CHOOSE i \in MeantIn(cs, id) : \A j \in MeantIn(cs, id) : i <= j]

\* The first combo that is meant is one of them, and no later than the others.
LEMMA FirstMeantFacts ==
    ASSUME NEW cs \in Seq(TestCombo), NEW id, MeantIn(cs, id) # {}
    PROVE  \E i \in MeantIn(cs, id) :
              FirstMeant(cs, id) = cs[i] /\ \A j \in MeantIn(cs, id) : i <= j
<1> DEFINE M == MeantIn(cs, id)
           n == CHOOSE i \in M : \A j \in M : i <= j
<1>1. M \subseteq Nat
  BY DEF MeantIn
<1>2. \E i \in M : \A j \in M : i <= j
  <2>1. M # {}
    OBVIOUS
  <2> HIDE DEF M
  <2> QED BY <1>1, <2>1, LeastNumber
<1>3. n \in M /\ \A j \in M : n <= j
  <2> HIDE DEF M
  <2> QED BY <1>2
<1>4. FirstMeant(cs, id) = cs[n]
  BY DEF FirstMeant
<1> QED BY <1>3, <1>4

\* Sequences of one and of two.
LEMMA ShortSequences ==
    ASSUME NEW S, NEW a \in S, NEW b \in S
    PROVE  /\ <<a>> \in Seq(S) \ {<<>>} /\ Len(<<a>>) <= 2
           /\ <<a, b>> \in Seq(S) \ {<<>>} /\ Len(<<a, b>>) <= 2
<1>1. <<a>> \in Seq(S) /\ Len(<<a>>) = 1
  OBVIOUS
<1>2. <<a, b>> \in Seq(S) /\ Len(<<a, b>>) = 2
  OBVIOUS
<1>3. <<a>> # <<>> /\ <<a, b>> # <<>>
  OBVIOUS
<1> QED BY <1>1, <1>2, <1>3

\* The list of the page, and its combos.
LEMMA CombosAre ==
    ASSUME NEW cs \in Listed \cup {<<>>}
    PROVE  /\ cs \in Seq(TestCombo)
           /\ \A i \in DOMAIN cs :
                 /\ cs[i] \in TestCombo /\ cs[i].formats # <<>>
                 /\ cs[i].formats \in Seq(ApiFormat)
                 /\ cs[i].formats[1] \in ApiFormat
                 /\ SupportsFormat(cs[i], cs[i].formats[1])
                 /\ getFullID(cs[i]) \in Seq(STRING) \ {<<>>} /\ Len(getFullID(cs[i])) <= 2
                 /\ i \in MeantIn(cs, getFullID(cs[i]))
<1>1. cs \in Seq(TestCombo) /\ \A i \in DOMAIN cs : cs[i].formats # <<>>
  <2>1. CASE cs = <<>>
    BY <2>1
  <2>2. CASE cs \in Listed
    BY <2>2, PlaygroundConstants
  <2> QED BY <2>1, <2>2
<1>2. ASSUME NEW i \in DOMAIN cs
      PROVE  /\ cs[i] \in TestCombo /\ cs[i].formats # <<>>
             /\ cs[i].formats \in Seq(ApiFormat)
             /\ cs[i].formats[1] \in ApiFormat
             /\ SupportsFormat(cs[i], cs[i].formats[1])
             /\ getFullID(cs[i]) \in Seq(STRING) \ {<<>>} /\ Len(getFullID(cs[i])) <= 2
             /\ i \in MeantIn(cs, getFullID(cs[i]))
  <2>1. cs[i] \in TestCombo /\ cs[i].formats # <<>>
    BY <1>1
  <2> DEFINE fs == cs[i].formats
  <2>2. fs \in Seq(ApiFormat) /\ fs # <<>>
    BY <2>1 DEF TestCombo
  <2> HIDE DEF fs
  <2>3. 1 \in DOMAIN fs /\ fs[1] \in ApiFormat
    BY <2>2
  <2> USE DEF fs
  <2>4. SupportsFormat(cs[i], cs[i].formats[1])
    BY <2>3 DEF SupportsFormat
  <2>5. getFullID(cs[i]) \in Seq(STRING) \ {<<>>} /\ Len(getFullID(cs[i])) <= 2
    <3>1. getFullID(cs[i]) = <<cs[i].name>> \/ getFullID(cs[i]) = <<cs[i].group, cs[i].name>>
      BY DEF getFullID
    <3>2. \A a, b \in STRING :
              /\ <<a>> \in Seq(STRING) \ {<<>>} /\ Len(<<a>>) <= 2
              /\ <<a, b>> \in Seq(STRING) \ {<<>>} /\ Len(<<a, b>>) <= 2
      BY ShortSequences
    <3>3. cs[i].group \in STRING /\ cs[i].name \in STRING
      BY <2>1 DEF TestCombo
    <3> HIDE DEF getFullID
    <3> QED BY <3>1, <3>2, <3>3
  <2>6. i \in MeantIn(cs, getFullID(cs[i]))
    BY DEF MeantIn
  <2> QED BY <2>1, <2>2, <2>3, <2>4, <2>5, <2>6
<1> QED BY <1>1, <1>2

\* The conjuncts of the types.
LEMMA TestTypes ==
    PlaygroundTypeOK <=>
        /\ flatCombos \in Listed \cup {<<>>}
        /\ comboName \in Seq(STRING) /\ Len(comboName) <= 2 /\ fmt \in ApiFormat
        /\ stream \in BOOLEAN /\ upstream \in UpstreamNames \cup {<<>>} /\ file \in BOOLEAN
        /\ sending \in {"idle", "sending", "streaming", "done", "error"}
        /\ request.fmt \in ApiFormat /\ request.stream \in BOOLEAN /\ tries \in 0 .. MaxTries
  BY CombosAre DEF PlaygroundTypeOK

LEMMA TestInitially == PlaygroundInit => TestInv
<1> SUFFICES ASSUME PlaygroundInit PROVE TestInv
  OBVIOUS
<1>1. PlaygroundTypeOK
  <2>1. comboName \in Seq(STRING) /\ Len(comboName) <= 2 /\ 0 \in 0 .. MaxTries
    BY PlaygroundConstants DEF PlaygroundInit
  <2> QED BY <2>1, TestTypes DEF PlaygroundInit, NoRequest, ApiFormat
<1>2. ChoiceOK /\ FirstOfAll /\ RequestOK
  BY DEF PlaygroundInit, ChoiceOK, FirstOfAll, RequestOK, Busy
<1> QED BY <1>1, <1>2 DEF TestInv

\* The combo that a choice means is on the list.
LEMMA FoundFacts ==
    ASSUME PlaygroundTypeOK, NEW id, Matching(id) # {}
    PROVE  /\ \E i \in Matching(id) : Found(id) = flatCombos[i]
           /\ Found(id).formats[1] \in ApiFormat
           /\ SupportsFormat(Found(id), Found(id).formats[1])
<1>1. Matching(id) = MeantIn(flatCombos, id) /\ Found(id) = FirstMeant(flatCombos, id)
  BY DEF Matching, MeantIn, Found, FirstMeant
<1>2. flatCombos \in Listed \cup {<<>>} /\ flatCombos \in Seq(TestCombo)
  BY TestTypes, CombosAre
<1>3. PICK i \in Matching(id) : Found(id) = flatCombos[i]
  BY <1>1, <1>2, FirstMeantFacts
<1>4. i \in DOMAIN flatCombos
  BY DEF Matching
<1> QED BY <1>2, <1>3, <1>4, CombosAre

LEMMA LoadConfigKeeps == ASSUME TestInv, LoadConfig PROVE TestInv'
<1>1. PlaygroundTypeOK /\ ~Busy /\ comboName = <<>>
  BY DEF TestInv, FirstOfAll, LoadConfig
<1>2. UNCHANGED <<stream, upstream, file, sending, request, tries>>
  BY DEF LoadConfig
<1>3. PICK cs \in Listed :
          /\ flatCombos' = cs
          /\ comboName' = IF cs = <<>> THEN comboName ELSE getFullID(cs[1])
          /\ fmt' = IF cs = <<>> THEN fmt ELSE cs[1].formats[1]
  BY DEF LoadConfig
<1>4. ~Busy'
  BY <1>1, <1>2 DEF Busy
<1>5. RequestOK'
  BY <1>4 DEF RequestOK
<1>6. CASE cs = <<>>
  <2>1. UNCHANGED <<comboName, fmt>>
    BY <1>3, <1>6
  <2>2. PlaygroundTypeOK'
    <3>1. flatCombos' = <<>>
      BY <1>3, <1>6
    <3> QED BY <1>1, <1>2, <2>1, <3>1 DEF PlaygroundTypeOK
  <2>3. ChoiceOK' /\ FirstOfAll'
    BY <1>1, <1>4, <2>1 DEF ChoiceOK, FirstOfAll
  <2> QED BY <1>5, <2>2, <2>3 DEF TestInv
<1>7. CASE cs # <<>>
  <2>1. cs \in Seq(TestCombo)
    BY CombosAre
  <2>2. 1 \in DOMAIN cs
    BY <1>7, <2>1
  <2> DEFINE id == getFullID(cs[1])
  <2>3. /\ id \in Seq(STRING) \ {<<>>} /\ Len(id) <= 2 /\ 1 \in MeantIn(cs, id)
        /\ cs[1].formats[1] \in ApiFormat /\ SupportsFormat(cs[1], cs[1].formats[1])
        /\ \A i \in DOMAIN cs : cs[i] \in TestCombo
    BY <2>2, CombosAre
  <2>4. comboName' = id /\ fmt' = cs[1].formats[1]
    BY <1>3, <1>7
  <2> HIDE DEF id
  <2>5. PlaygroundTypeOK'
    BY <1>1, <1>2, <1>3, <2>3, <2>4 DEF PlaygroundTypeOK
  <2>6. FirstMeant(cs, id) = cs[1]
    <3>1. PICK i \in MeantIn(cs, id) :
              FirstMeant(cs, id) = cs[i] /\ \A j \in MeantIn(cs, id) : i <= j
      BY <2>1, <2>3, FirstMeantFacts
    <3>2. i \in DOMAIN cs /\ i <= 1
      BY <2>3, <3>1 DEF MeantIn
    <3>3. i = 1
      BY <2>1, <3>2
    <3> QED BY <3>1, <3>3
  <2>7. ChoiceOK'
    <3>1. Matching(comboName)' = MeantIn(cs, id)
      BY <1>3, <2>4 DEF Matching, MeantIn
    <3>2. Found(comboName)' = cs[1]
      BY <1>3, <2>4, <2>6 DEF Found, FirstMeant, Matching, MeantIn
    <3>3. SupportsFormat(Found(comboName), fmt)' = SupportsFormat(cs[1], cs[1].formats[1])
      BY <2>4, <3>2 DEF SupportsFormat
    <3> QED BY <2>3, <3>1, <3>3 DEF ChoiceOK
  <2>8. FirstOfAll'
    BY <1>3, <1>7 DEF FirstOfAll
  <2> QED BY <1>5, <2>5, <2>7, <2>8 DEF TestInv
<1> QED BY <1>6, <1>7

LEMMA TryFacts ==
    ASSUME PlaygroundTypeOK, Try PROVE ~Busy /\ tries' \in 0 .. MaxTries
<1>1. tries \in 0 .. MaxTries /\ MaxTries \in Nat /\ tries < MaxTries /\ tries' = tries + 1 /\ ~Busy
  BY PlaygroundConstants, TestTypes DEF Try
<1> QED BY <1>1

\* A choice that is made between two requests.
LEMMA ChoiceKeeps ==
    ASSUME TestInv, ~Busy, UNCHANGED <<flatCombos, sending, request>>,
           tries' \in 0 .. MaxTries, stream' \in BOOLEAN, file' \in BOOLEAN,
           upstream' \in UpstreamNames \cup {<<>>},
           comboName' \in Seq(STRING), Len(comboName') <= 2, fmt' \in ApiFormat,
           flatCombos = <<>> => comboName' = <<>>,
           comboName' # <<>> => Matching(comboName') # {} /\ SupportsFormat(Found(comboName'), fmt')
    PROVE  TestInv'
<1>1. PlaygroundTypeOK'
  BY DEF TestInv, PlaygroundTypeOK
<1>2. ~Busy'
  BY DEF Busy
<1>3. FirstOfAll' /\ RequestOK'
  BY <1>2 DEF FirstOfAll, RequestOK
<1>4. ChoiceOK'
  <2>1. Matching(comboName)' = Matching(comboName')
    BY DEF Matching
  <2>2. Found(comboName)' = Found(comboName')
    BY DEF Found, Matching
  <2>3. SupportsFormat(Found(comboName), fmt)' = SupportsFormat(Found(comboName'), fmt')
    BY <2>2 DEF SupportsFormat
  <2> QED BY <2>1, <2>3 DEF ChoiceOK
<1> QED BY <1>1, <1>3, <1>4 DEF TestInv

LEMMA ChangeComboKeeps ==
    ASSUME TestInv, NEW i \in DOMAIN flatCombos, handleComboChange(getFullID(flatCombos[i]))
    PROVE  TestInv'
<1>1. PlaygroundTypeOK /\ flatCombos \in Listed \cup {<<>>}
  BY TestTypes DEF TestInv
<1> DEFINE id == getFullID(flatCombos[i])
<1>2. id \in Seq(STRING) /\ Len(id) <= 2 /\ Matching(id) # {}
  <2>1. id \in Seq(STRING) /\ Len(id) <= 2 /\ i \in MeantIn(flatCombos, id)
    BY <1>1, CombosAre
  <2> QED BY <2>1 DEF MeantIn, Matching
<1>3. /\ Try /\ comboName' = id /\ fmt' = FormatOf(id)
      /\ UNCHANGED <<flatCombos, stream, upstream, file, sending, request>>
  BY DEF handleComboChange
<1>4. flatCombos # <<>>
  OBVIOUS
<1> HIDE DEF id
<1>5. fmt' = Found(id).formats[1]
  BY <1>2, <1>3 DEF FormatOf
<1>6. fmt' \in ApiFormat /\ SupportsFormat(Found(id), fmt')
  BY <1>1, <1>2, <1>5, FoundFacts
<1>7. ~Busy /\ tries' \in 0 .. MaxTries
  BY <1>1, <1>3, TryFacts
<1>8. stream' \in BOOLEAN /\ upstream' \in UpstreamNames \cup {<<>>} /\ file' \in BOOLEAN
  BY <1>1, <1>3, TestTypes
<1> QED BY <1>2, <1>3, <1>4, <1>6, <1>7, <1>8, ChoiceKeeps

LEMMA SetFormatKeeps == ASSUME TestInv, NEW f \in ApiFormat, SetFormat(f) PROVE TestInv'
<1>1. PlaygroundTypeOK /\ ~Busy /\ tries' \in 0 .. MaxTries
  BY TryFacts DEF TestInv, SetFormat
<1>2. /\ f \in availableFormats /\ fmt' = f
      /\ UNCHANGED <<flatCombos, comboName, upstream, file, sending, request>>
      /\ stream' = (stream /\ f \notin NotStreamed)
  BY DEF SetFormat
<1>3. comboName # <<>> => Matching(comboName) # {} /\ SupportsFormat(Found(comboName), f)
  BY <1>2 DEF TestInv, ChoiceOK, availableFormats
<1>4. /\ stream' \in BOOLEAN /\ upstream' \in UpstreamNames \cup {<<>>} /\ file' \in BOOLEAN
      /\ comboName \in Seq(STRING) /\ Len(comboName) <= 2
  BY <1>1, <1>2, TestTypes
<1>5. flatCombos = <<>> => comboName = <<>>
  BY DEF TestInv, FirstOfAll
<1> QED BY <1>1, <1>2, <1>3, <1>4, <1>5, ChoiceKeeps

LEMMA FieldsKeep ==
    ASSUME TestInv, ToggleStream \/ FillUpstream \/ ChooseFile PROVE TestInv'
<1>1. PlaygroundTypeOK /\ ~Busy /\ tries' \in 0 .. MaxTries
  BY TryFacts DEF TestInv, ToggleStream, FillUpstream, ChooseFile
<1>2. UNCHANGED <<flatCombos, comboName, fmt, sending, request>>
  BY DEF ToggleStream, FillUpstream, ChooseFile
<1>3. stream' \in BOOLEAN /\ upstream' \in UpstreamNames \cup {<<>>} /\ file' \in BOOLEAN
  BY <1>1, TestTypes DEF ToggleStream, FillUpstream, ChooseFile
<1>4. /\ comboName # <<>> => Matching(comboName) # {} /\ SupportsFormat(Found(comboName), fmt)
      /\ flatCombos = <<>> => comboName = <<>>
      /\ comboName \in Seq(STRING) /\ Len(comboName) <= 2 /\ fmt \in ApiFormat
  BY <1>1, TestTypes DEF TestInv, ChoiceOK, FirstOfAll
<1> QED BY <1>1, <1>2, <1>3, <1>4, ChoiceKeeps

\* A step of a request: the choice stays.
LEMMA RequestKeeps ==
    ASSUME TestInv, UNCHANGED <<flatCombos, comboName, fmt, stream, upstream, file>>,
           sending' \in {"idle", "sending", "streaming", "done", "error"},
           request'.fmt \in ApiFormat, request'.stream \in BOOLEAN, tries' \in 0 .. MaxTries,
           Busy' => /\ comboName # <<>> /\ (isRelayCombo => upstream # <<>>)
                    /\ request'.model = requestModel
                    /\ SupportsFormat(Found(comboName), request'.fmt)
    PROVE  TestInv'
<1>1. PlaygroundTypeOK'
  BY DEF TestInv, PlaygroundTypeOK
<1>2. Matching(comboName)' = Matching(comboName) /\ Found(comboName)' = Found(comboName)
  BY DEF Matching, Found
<1>3. ChoiceOK'
  BY <1>2 DEF TestInv, ChoiceOK, SupportsFormat
<1>4. FirstOfAll'
  BY DEF TestInv, FirstOfAll
<1>5. RequestOK'
  <2>1. SupportsFormat(Found(comboName), request.fmt)' =
        SupportsFormat(Found(comboName), request'.fmt)
    BY <1>2 DEF SupportsFormat
  <2>2. UNCHANGED <<isRelayCombo, requestModel>>
    BY <1>2 DEF isRelayCombo, requestModel
  <2> QED BY <1>2, <2>1, <2>2 DEF RequestOK
<1> QED BY <1>1, <1>3, <1>4, <1>5 DEF TestInv

LEMMA sendKeeps == ASSUME TestInv, send PROVE TestInv'
<1>1. PlaygroundTypeOK /\ ~Busy /\ tries' \in 0 .. MaxTries
  BY TryFacts DEF TestInv, send
<1>2. /\ UNCHANGED <<flatCombos, comboName, fmt, stream, upstream, file>>
      /\ comboName # <<>> /\ (isRelayCombo => upstream # <<>>)
  BY DEF send
<1>3. CASE sending' = "idle" /\ UNCHANGED request
  <2>1. ~Busy' /\ request.fmt \in ApiFormat /\ request.stream \in BOOLEAN
    BY <1>1, <1>3, TestTypes DEF Busy
  <2> QED BY <1>1, <1>2, <1>3, <2>1, RequestKeeps
<1>4. CASE /\ sending' = "sending"
           /\ request' = [model |-> requestModel, fmt |-> fmt,
                          stream |-> stream /\ fmt \notin NotStreamed]
  <2>1. fmt \in ApiFormat /\ (stream /\ fmt \notin NotStreamed) \in BOOLEAN
    BY <1>1, TestTypes
  <2>2. SupportsFormat(Found(comboName), fmt)
    BY <1>2 DEF TestInv, ChoiceOK
  <2>3. /\ request'.model = requestModel
        /\ request'.fmt = fmt /\ request'.stream = (stream /\ fmt \notin NotStreamed)
    BY <1>4
  <2> QED BY <1>1, <1>2, <1>4, <2>1, <2>2, <2>3, RequestKeeps
<1> QED BY <1>3, <1>4 DEF send

LEMMA AnswersKeep == ASSUME TestInv, stop \/ Receive PROVE TestInv'
<1>1. /\ Busy /\ UNCHANGED <<flatCombos, comboName, fmt, stream, upstream, file, request, tries>>
      /\ sending' \in {"streaming", "done", "error"}
  BY DEF stop, Receive
<1>2. request.fmt \in ApiFormat /\ request.stream \in BOOLEAN /\ tries \in 0 .. MaxTries
  BY TestTypes DEF TestInv
<1>3. RequestOK
  BY DEF TestInv
<1> QED BY <1>1, <1>2, <1>3, RequestKeeps DEF RequestOK

LEMMA TestKept == TestInv /\ [PlaygroundNext]_tryVars => TestInv'
<1> SUFFICES ASSUME TestInv, [PlaygroundNext]_tryVars PROVE TestInv'
  OBVIOUS
<1>1. CASE UNCHANGED tryVars
  <2>1. /\ UNCHANGED <<flatCombos, comboName, fmt, stream, upstream, file, sending, request, tries>>
        /\ Busy' = Busy
    BY <1>1 DEF tryVars, Busy
  <2>2. /\ sending \in {"idle", "sending", "streaming", "done", "error"}
        /\ request.fmt \in ApiFormat /\ request.stream \in BOOLEAN /\ tries \in 0 .. MaxTries
    BY TestTypes DEF TestInv
  <2>3. RequestOK
    BY DEF TestInv
  <2> QED BY <2>1, <2>2, <2>3, RequestKeeps DEF RequestOK
<1> QED BY <1>1, LoadConfigKeeps, ChangeComboKeeps, SetFormatKeeps, FieldsKeep, sendKeeps, AnswersKeep
        DEF PlaygroundNext

\* A name belongs to one combo at most.
LEMMA OneAnswers ==
    ASSUME PlaygroundTypeOK, NEW name, NEW i \in Answering(name)
    PROVE  Answering(name) = {i} /\ flatCombos[i] \in TestCombo
<1>1. i \in DOMAIN flatCombos /\ name \in Identifiers(flatCombos[i])
  BY DEF Answering
<1>2. flatCombos \in Listed
  BY <1>1 DEF PlaygroundTypeOK
<1>3. \A j \in Answering(name) : j = i
  BY <1>1, <1>2, PlaygroundConstants DEF Answering
<1> QED BY <1>1, <1>3 DEF PlaygroundTypeOK

\* A relay's name and an upstream model are resolved to the relay, unless a
\* longer part of them is a name.
LEMMA RelayResolves ==
    ASSUME PlaygroundTypeOK, NEW name \in Seq(STRING), NEW up \in Seq(STRING),
           name # <<>>, up # <<>>, NEW i \in Answering(name), flatCombos[i].relay,
           \A n \in Len(name) + 1 .. Len(name \o up) :
               \A j \in Answering(SubSeq(name \o up, 1, n)) :
                   n # Len(name \o up) /\ ~flatCombos[j].relay
    PROVE  Answering(name \o up) = {} /\ ResolveRequest(name \o up) = {i}
<1> DEFINE l == Len(name)
           m == name \o up
           parts == {n \in 1 .. Len(m) - 1 : Relaying(m, n) # {}}
<1>1. /\ l \in Nat /\ l >= 1 /\ m \in Seq(STRING)
      /\ Len(m) \in Nat /\ Len(m) > l
  OBVIOUS
<1>2. SubSeq(m, 1, Len(m)) = m
  BY <1>1, SubSeqFull
<1>3. SubSeq(m, 1, l) = name
  <2>1. l \in 1 .. Len(name) /\ 1 \in 1 .. Len(name)
    BY <1>1
  <2>2. SubSeq(m, 1, l) = SubSeq(name, 1, l)
    BY <2>1, SubSeqOfConcat1
  <2> QED BY <2>2, SubSeqFull
<1>4. Answering(m) = {}
  <2>1. Len(m) \in l + 1 .. Len(m)
    BY <1>1
  <2> QED BY <1>2, <2>1
<1>5. Relaying(m, l) = {i}
  BY <1>3, OneAnswers DEF Relaying
<1>6. \A n \in l + 1 .. Len(m) : Relaying(m, n) = {}
  BY DEF Relaying
<1> HIDE DEF m, l
<1>7. l \in parts
  <2>1. l \in 1 .. Len(m) - 1 /\ Relaying(m, l) # {}
    BY <1>1, <1>5
  <2> QED BY <2>1
<1>8. ASSUME NEW n \in parts PROVE n \in Nat /\ n <= l
  <2>1. n \in 1 .. Len(m) - 1 /\ Relaying(m, n) # {}
    OBVIOUS
  <2>2. n \notin l + 1 .. Len(m)
    BY <1>6, <2>1
  <2> QED BY <1>1, <2>1, <2>2
<1>9. {k \in parts : \A n \in parts : n <= k} = {l}
  <2> HIDE DEF parts
  <2>1. \A n \in parts : n <= l
    BY <1>8
  <2>2. ASSUME NEW k \in parts, \A n \in parts : n <= k PROVE k = l
    <3>1. l <= k
      BY <1>7, <2>2
    <3> QED BY <1>1, <1>8, <3>1
  <2> QED BY <1>7, <2>1, <2>2
<1>10. ResolveRequest(m) = {i}
  BY <1>4, <1>5, <1>9 DEF ResolveRequest
<1> QED BY <1>4, <1>10 DEF m

\* A request is for the combo that is chosen.  If the identifier means only one
\* combo, and the same one for the gateway, this is the one that it finds.
LEMMA TestSafe == TestInv => PlaygroundTypeOK /\ FormatAccepted
<1> SUFFICES ASSUME TestInv, Busy, ~Mistaken(comboName), ~Overtaken
             PROVE  \E i \in DOMAIN flatCombos :
                        /\ ResolveRequest(request.model) = {i}
                        /\ SupportsFormat(flatCombos[i], request.fmt)
                        /\ flatCombos[i].relay => Answering(request.model) = {}
  BY DEF FormatAccepted, TestInv
<1>1. /\ PlaygroundTypeOK /\ Matching(comboName) # {} /\ request.model = requestModel
      /\ comboName # <<>> /\ (isRelayCombo => upstream # <<>>)
      /\ SupportsFormat(Found(comboName), request.fmt)
  BY DEF TestInv, ChoiceOK, RequestOK
<1>2. PICK i \in Matching(comboName) : Found(comboName) = flatCombos[i]
  BY <1>1, FoundFacts
<1>3. FullName(flatCombos[i]) = comboName /\ i \in DOMAIN flatCombos
  BY DEF Mistaken, Matching
<1>4. i \in Answering(comboName)
  BY <1>3 DEF FullName, Identifiers, Answering
<1>5. isRelayCombo <=> flatCombos[i].relay
  BY <1>1, <1>2 DEF isRelayCombo
<1>6. comboName \in Seq(STRING) /\ upstream \in Seq(STRING)
  <2>1. comboName \in Seq(STRING) /\ upstream \in UpstreamNames \cup {<<>>}
    BY <1>1, TestTypes
  <2>2. UpstreamNames \cup {<<>>} \subseteq Seq(STRING)
    <3>1. <<>> \in Seq(STRING)
      OBVIOUS
    <3> QED BY <3>1, PlaygroundConstants
  <2> QED BY <2>1, <2>2
<1>7. CASE ~flatCombos[i].relay
  <2>1. request.model = comboName
    BY <1>1, <1>5, <1>6, <1>7 DEF requestModel
  <2>2. Answering(comboName) = {i}
    BY <1>1, <1>4, OneAnswers
  <2>3. ResolveRequest(comboName) = {i}
    BY <2>2 DEF ResolveRequest
  <2> QED BY <1>1, <1>2, <1>3, <1>7, <2>1, <2>3
<1>8. CASE flatCombos[i].relay
  <2>1. request.model = comboName \o upstream
    BY <1>1, <1>5, <1>8 DEF requestModel
  <2>2. \A n \in Len(comboName) + 1 .. Len(comboName \o upstream) :
            \A j \in Answering(SubSeq(comboName \o upstream, 1, n)) :
                n # Len(comboName \o upstream) /\ ~flatCombos[j].relay
    BY <2>1 DEF Overtaken
  <2>3. Answering(comboName \o upstream) = {} /\ ResolveRequest(comboName \o upstream) = {i}
    BY <1>1, <1>4, <1>5, <1>6, <1>8, <2>2, RelayResolves
  <2> QED BY <1>1, <1>2, <1>3, <2>1, <2>3
<1> QED BY <1>7, <1>8

-----------------------------------------------------------------------------
(* The MCP configuration page.                                             *)

\* What the page makes of a configuration when it saves.
SanitizedProvs(ps)   == [p \in DOMAIN ps |-> Sanitized(ps[p])]
SanitizedEntries(es) == [k \in DOMAIN es |-> SanitizedEntry(es[k])]

\* What is sent, and then what runs, is what the page showed, sanitized.
SentIsSaid ==
    /\ put.at = "sent" =>
          put.provs = SanitizedProvs(said.provs) /\ put.entries = SanitizedEntries(said.entries)
    /\ put.at = "done" =>
          gw.provs = SanitizedProvs(said.provs) /\ gw.entries = SanitizedEntries(said.entries)

\* A configuration that runs would be sanitized to itself.
RunsSanitized ==
    /\ \A p \in DOMAIN gw.provs : gw.provs[p].mode = "oauth2" => gw.provs[p].isolated
    /\ \A k \in DOMAIN gw.entries, c \in Categories : gw.entries[k].lists[c] # {}

\* A page that is not edited shows what runs.
UneditedOK ==
    ~edited =>
        /\ entries = gw.entries
        /\ DOMAIN provs = DOMAIN gw.provs
        /\ \A p \in DOMAIN gw.provs :
              provs[p].mode = gw.provs[p].mode /\ IsIsolated(provs[p]) = gw.provs[p].isolated
        /\ put.at = "sent" => said.provs = provs /\ said.entries = entries

EditorInv ==
    /\ McpEditorTypeOK
    /\ said.provs \in Settings /\ EntrySeq(said.entries)
    /\ put.at # "notIsolated"
    /\ SentIsSaid
    /\ RunsSanitized
    /\ UneditedOK

CapsState == [McpProviders -> [got: {"nothing", "items", "error"}, loading: BOOLEAN]]

\* The conjuncts of the types.
LEMMA EditorTypes ==
    McpEditorTypeOK <=>
        /\ provs \in Settings /\ entries \in Seq(Entry) /\ Len(entries) <= MaxEntries
        /\ inCombos \in BOOLEAN /\ edited \in BOOLEAN /\ edits \in 0 .. MaxEdits
        /\ caps \in CapsState
        /\ put.at \in {"idle", "sent", "done", "refused", "notIsolated"}
        /\ gw.provs \in Running /\ gw.entries \in Seq(Entry) /\ Len(gw.entries) <= MaxEntries
        /\ \A e \in ToSet(gw.entries) : e.provider \in DOMAIN gw.provs
  BY DEF McpEditorTypeOK, EntrySeq, CapsState

LEMMA SettingsAre ==
    /\ \A ps \in Settings : DOMAIN ps \in SUBSET McpProviders /\ ps \in [DOMAIN ps -> Setting]
    /\ \A P \in SUBSET McpProviders : \A ps \in [P -> Setting] : ps \in Settings
  BY DEF Settings

LEMMA RunningAre ==
    /\ \A ps \in Running : /\ DOMAIN ps \in SUBSET McpProviders
                           /\ ps \in [DOMAIN ps -> [mode: Modes, isolated: BOOLEAN]]
    /\ \A P \in SUBSET McpProviders :
          \A ps \in [P -> [mode: Modes, isolated: BOOLEAN]] : ps \in Running
  BY DEF Running

\* Loads that are asked for.
LEMMA CapsFacts ==
    ASSUME NEW cs \in CapsState, NEW es PROVE WithLoads(cs, es) \in CapsState
<1>1. ASSUME NEW p \in McpProviders
      PROVE  /\ cs[p] \in [got: {"nothing", "items", "error"}, loading: BOOLEAN]
             /\ [cs[p] EXCEPT !.loading = TRUE] \in
                   [got: {"nothing", "items", "error"}, loading: BOOLEAN]
  <2>1. cs[p] \in [got: {"nothing", "items", "error"}, loading: BOOLEAN]
    BY DEF CapsState
  <2> QED BY <2>1
<1> QED BY <1>1 DEF WithLoads, CapsState

LEMMA EditFacts == ASSUME McpEditorTypeOK, Edit PROVE edits' \in 0 .. MaxEdits
<1>1. edits \in 0 .. MaxEdits /\ MaxEdits \in Nat /\ edits < MaxEdits /\ edits' = edits + 1
  BY McpEditorConstants DEF McpEditorTypeOK, Edit
<1> QED BY <1>1

\* One member of a sequence is replaced.
LEMMA ReplacedFacts ==
    ASSUME NEW S, NEW s \in Seq(S), NEW k \in DOMAIN s, NEW e \in S
    PROVE  [s EXCEPT ![k] = e] \in Seq(S) /\ Len([s EXCEPT ![k] = e]) = Len(s)
  OBVIOUS

\* A list that is sanitized is not empty, and lets the same items through.
LEMMA SanitizedIs ==
    ASSUME NEW e \in Entry
    PROVE  /\ SanitizedEntry(e) \in Entry /\ SanitizedEntry(e).provider = e.provider
           /\ \A c \in Categories : SanitizedEntry(e).lists[c] = Unrestricted(e.lists[c])
           /\ (\A c \in Categories : e.lists[c] # {}) => SanitizedEntry(e) = e
<1> DEFINE ls == [c \in Categories |-> Unrestricted(e.lists[c])]
<1>1. e.lists \in [Categories -> SUBSET (Items \cup {All})] /\ e.provider \in McpProviders
  BY DEF Entry, Lists
<1>2. ls \in [Categories -> SUBSET (Items \cup {All})]
  <2>1. ASSUME NEW c \in Categories PROVE Unrestricted(e.lists[c]) \in SUBSET (Items \cup {All})
    BY <1>1 DEF Unrestricted
  <2> QED BY <2>1
<1>3. SanitizedEntry(e) = [e EXCEPT !.lists = ls]
  BY DEF SanitizedEntry
<1>4. \A c \in Categories : ls[c] = Unrestricted(e.lists[c])
  OBVIOUS
<1>5. ASSUME \A c \in Categories : e.lists[c] # {} PROVE ls = e.lists
  <2>1. \A c \in Categories : ls[c] = e.lists[c]
    BY <1>5 DEF Unrestricted
  <2> HIDE DEF ls
  <2> QED BY <1>1, <1>2, <2>1
<1> HIDE DEF ls
<1>6. /\ [e EXCEPT !.lists = ls] \in Entry /\ [e EXCEPT !.lists = ls].provider = e.provider
      /\ [e EXCEPT !.lists = ls].lists = ls
  BY <1>1, <1>2 DEF Entry, Lists
<1>7. ls = e.lists => [e EXCEPT !.lists = ls] = e
  BY DEF Entry
<1> QED BY <1>3, <1>4, <1>5, <1>6, <1>7

LEMMA SanitizedEntriesAre ==
    ASSUME NEW es \in Seq(Entry)
    PROVE  /\ SanitizedEntries(es) \in Seq(Entry)
           /\ Len(SanitizedEntries(es)) = Len(es) /\ DOMAIN SanitizedEntries(es) = DOMAIN es
           /\ \A k \in DOMAIN es : SanitizedEntries(es)[k] = SanitizedEntry(es[k])
           /\ (\A k \in DOMAIN es, c \in Categories : es[k].lists[c] # {})
                 => SanitizedEntries(es) = es
<1> DEFINE n == SanitizedEntries(es)
<1>1. \A k \in 1 .. Len(es) : es[k] \in Entry
  BY ElementOf
<1>2. DOMAIN es = 1 .. Len(es) /\ Len(es) \in Nat
  OBVIOUS
<1>3. n = [k \in 1 .. Len(es) |-> SanitizedEntry(es[k])]
  BY <1>2 DEF SanitizedEntries
<1>4. \A k \in 1 .. Len(es) : SanitizedEntry(es[k]) \in Entry
  BY <1>1, SanitizedIs
<1>5. n \in [1 .. Len(es) -> Entry]
  BY <1>3, <1>4
<1>6. \A k \in 1 .. Len(es) : n[k] = SanitizedEntry(es[k])
  BY <1>3
<1> HIDE DEF n
<1>7. n \in Seq(Entry) /\ Len(n) = Len(es)
  BY <1>2, <1>5, SeqOfFunction
<1>8. ASSUME \A k \in DOMAIN es, c \in Categories : es[k].lists[c] # {} PROVE n = es
  <2>1. \A k \in 1 .. Len(es) : n[k] = es[k]
    BY <1>1, <1>2, <1>6, <1>8, SanitizedIs
  <2> QED BY <1>2, <1>5, <2>1
<1>9. DOMAIN n = DOMAIN es
  BY <1>2, <1>5
<1> QED BY <1>2, <1>6, <1>7, <1>8, <1>9 DEF n

LEMMA SanitizedProvsAre ==
    ASSUME NEW ps \in Settings
    PROVE  /\ SanitizedProvs(ps) \in Running /\ DOMAIN SanitizedProvs(ps) = DOMAIN ps
           /\ \A p \in DOMAIN ps :
                 /\ SanitizedProvs(ps)[p].mode = ps[p].mode
                 /\ SanitizedProvs(ps)[p].isolated = (ps[p].mode = "oauth2" \/ IsIsolated(ps[p]))
                 /\ ps[p] \in Setting
<1>1. DOMAIN ps \in SUBSET McpProviders /\ \A p \in DOMAIN ps : ps[p] \in Setting
  BY SettingsAre
<1>2. \A p \in DOMAIN ps : Sanitized(ps[p]) \in [mode: Modes, isolated: BOOLEAN]
  BY <1>1 DEF Sanitized, Setting, IsIsolated
<1>3. SanitizedProvs(ps) \in [DOMAIN ps -> [mode: Modes, isolated: BOOLEAN]]
  BY <1>2 DEF SanitizedProvs
<1> QED BY <1>1, <1>3, RunningAre DEF SanitizedProvs, Sanitized

LEMMA EditorInitially == McpEditorInit => EditorInv
<1> SUFFICES ASSUME McpEditorInit PROVE EditorInv
  OBVIOUS
<1>1. PICK first \in McpProviders, iso \in BOOLEAN :
          /\ gw = [provs |-> [p \in {first} |-> [mode |-> "none", isolated |-> iso]],
                   entries |-> <<[provider |-> first,
                                  lists |-> [c \in Categories |-> {All}]]>>]
          /\ \E section \in BOOLEAN :
                provs = [p \in {first} |-> [mode |-> "none", isolated |-> iso /\ section,
                                            authMode |-> iso]]
  BY DEF McpEditorInit
<1>2. PICK section \in BOOLEAN :
          provs = [p \in {first} |-> [mode |-> "none", isolated |-> iso /\ section,
                                      authMode |-> iso]]
  BY <1>1
<1>3. /\ gw.provs = [p \in {first} |-> [mode |-> "none", isolated |-> iso]]
      /\ gw.entries = <<[provider |-> first, lists |-> [c \in Categories |-> {All}]]>>
      /\ entries = gw.entries /\ inCombos = FALSE /\ caps = [p \in McpProviders |-> NoCaps]
      /\ put = NoPut /\ said = [provs |-> provs, entries |-> entries]
      /\ edited = FALSE /\ edits = 0
  BY <1>1 DEF McpEditorInit
<1>4. provs \in Settings /\ gw.provs \in Running
  <2>1. {first} \in SUBSET McpProviders
    OBVIOUS
  <2>2. (iso /\ section) \in BOOLEAN
    OBVIOUS
  <2>3. provs \in [{first} -> Setting]
    BY <1>2, <2>2 DEF Setting, Modes
  <2>4. gw.provs \in [{first} -> [mode: Modes, isolated: BOOLEAN]]
    BY <1>3 DEF Modes
  <2> QED BY <2>1, <2>3, <2>4, SettingsAre, RunningAre
<1> DEFINE e == [provider |-> first, lists |-> [c \in Categories |-> {All}]]
<1>5. e \in Entry /\ e.provider = first /\ \A c \in Categories : e.lists[c] = {All}
  BY DEF Entry, Lists
<1>6. gw.entries = <<e>>
  BY <1>3
<1> HIDE DEF e
<1>7. /\ gw.entries \in Seq(Entry) /\ Len(gw.entries) = 1 /\ DOMAIN gw.entries = {1}
      /\ gw.entries[1] = e /\ ToSet(gw.entries) = {e}
  <2>1. gw.entries \in Seq(Entry) /\ Len(gw.entries) = 1 /\ DOMAIN gw.entries = {1} /\ gw.entries[1] = e
    BY <1>5, <1>6
  <2> QED BY <2>1 DEF ToSet
<1>8. McpEditorTypeOK
  <2>1. 1 <= MaxEntries /\ 0 \in 0 .. MaxEdits
    BY McpEditorConstants
  <2>2. caps \in CapsState
    BY <1>3 DEF CapsState, NoCaps
  <2>3. first \in DOMAIN gw.provs
    BY <1>3
  <2> QED BY <1>3, <1>4, <1>5, <1>7, <2>1, <2>2, <2>3, EditorTypes DEF NoPut
<1>9. /\ said.provs \in Settings /\ said.entries \in Seq(Entry) /\ Len(said.entries) <= MaxEntries
      /\ put.at = "idle"
  BY <1>3, <1>4, <1>7, <1>8 DEF EditorTypes, McpEditorTypeOK, EntrySeq, NoPut
<1>10. RunsSanitized
  <2>1. \A p \in DOMAIN gw.provs : gw.provs[p].mode = "none"
    BY <1>3
  <2>2. \A k \in DOMAIN gw.entries, c \in Categories : gw.entries[k].lists[c] = {All}
    BY <1>5, <1>7
  <2> QED BY <2>1, <2>2 DEF RunsSanitized
<1>11. UneditedOK
  BY <1>2, <1>3, <1>9 DEF UneditedOK, IsIsolated
<1> QED BY <1>8, <1>9, <1>10, <1>11 DEF EditorInv, SentIsSaid, EntrySeq

\* A step that edits nothing.
LEMMA PageStays ==
    ASSUME EditorInv, UNCHANGED <<provs, entries, put, gw, said, edited>>,
           inCombos' \in BOOLEAN, caps' \in CapsState, edits' \in 0 .. MaxEdits
    PROVE  EditorInv'
<1>1. McpEditorTypeOK'
  BY DEF EditorInv, McpEditorTypeOK, CapsState, EntrySeq
<1>2. SentIsSaid' /\ RunsSanitized' /\ UneditedOK'
  BY DEF EditorInv, SentIsSaid, RunsSanitized, UneditedOK, SanitizedProvs, SanitizedEntries
<1> QED BY <1>1, <1>2 DEF EditorInv, EntrySeq

\* An edit.
LEMMA EditedKeeps ==
    ASSUME EditorInv, UNCHANGED <<inCombos, put, gw, said>>, edited' = TRUE, Edit,
           provs' \in Settings, entries' \in Seq(Entry), Len(entries') <= MaxEntries,
           caps' \in CapsState
    PROVE  EditorInv'
<1>1. edits' \in 0 .. MaxEdits
  BY EditFacts DEF EditorInv
<1>2. McpEditorTypeOK'
  BY <1>1 DEF EditorInv, McpEditorTypeOK, CapsState, EntrySeq
<1>3. SentIsSaid' /\ RunsSanitized' /\ UneditedOK'
  BY DEF EditorInv, SentIsSaid, RunsSanitized, UneditedOK, SanitizedProvs, SanitizedEntries
<1> QED BY <1>2, <1>3 DEF EditorInv, EntrySeq

LEMMA EditProvidersKeeps == ASSUME EditorInv, EditProviders PROVE EditorInv'
<1>1. /\ provs \in Settings /\ entries \in Seq(Entry) /\ Len(entries) <= MaxEntries
      /\ caps \in CapsState
  BY EditorTypes DEF EditorInv
<1>2. DOMAIN provs \in SUBSET McpProviders /\ provs \in [DOMAIN provs -> Setting]
  BY <1>1, SettingsAre
<1>3. ASSUME NEW new \in Settings, EditProvs(new) PROVE EditorInv'
  BY <1>1, <1>3, EditedKeeps DEF EditProvs
<1>4. ASSUME NEW p \in DOMAIN provs, NEW mode \in Modes, NEW iso \in BOOLEAN,
             updateAuth(p, mode, iso)
      PROVE  EditorInv'
  <2> DEFINE s == [mode |-> mode, isolated |-> iso, authMode |-> iso]
  <2>1. s \in Setting
    BY DEF Setting
  <2>2. EditProvs([provs EXCEPT ![p] = s])
    BY <1>4 DEF updateAuth
  <2> HIDE DEF s
  <2>3. [provs EXCEPT ![p] = s] \in [DOMAIN provs -> Setting]
    BY <1>2, <2>1
  <2>4. [provs EXCEPT ![p] = s] \in Settings
    BY <1>2, <2>3, SettingsAre
  <2> QED BY <1>3, <2>2, <2>4
<1>5. ASSUME NEW p \in DOMAIN provs, NEW mode \in Modes, SetMode(p, mode) PROVE EditorInv'
  <2>1. provs[p].isolated \in BOOLEAN
    BY <1>2 DEF Setting
  <2> QED BY <1>4, <1>5, <2>1 DEF SetMode
<1>6. ASSUME NEW p \in DOMAIN provs, SetIsolated(p) PROVE EditorInv'
  <2>1. provs[p].mode \in Modes /\ (~IsIsolated(provs[p])) \in BOOLEAN
    BY <1>2 DEF Setting
  <2> QED BY <1>4, <1>6, <2>1 DEF SetIsolated
<1>7. ASSUME NEW p \in McpProviders, AddProvider(p) PROVE EditorInv'
  <2> DEFINE new == [q \in DOMAIN provs \cup {p} |->
                 IF q = p THEN [mode |-> "none", isolated |-> FALSE, authMode |-> FALSE]
                 ELSE provs[q]]
  <2>1. [mode |-> "none", isolated |-> FALSE, authMode |-> FALSE] \in Setting
    BY DEF Setting, Modes
  <2>2. new \in [DOMAIN provs \cup {p} -> Setting]
    BY <1>2, <2>1
  <2>3. DOMAIN provs \cup {p} \in SUBSET McpProviders
    BY <1>2
  <2>4. EditProvs(new)
    BY <1>7 DEF AddProvider
  <2> HIDE DEF new
  <2>5. new \in Settings
    BY <2>2, <2>3, SettingsAre
  <2> QED BY <1>3, <2>4, <2>5
<1>8. ASSUME NEW p \in DOMAIN provs, RemoveProvider(p) PROVE EditorInv'
  <2> DEFINE new == [q \in DOMAIN provs \ {p} |-> provs[q]]
  <2>1. new \in [DOMAIN provs \ {p} -> Setting] /\ DOMAIN provs \ {p} \in SUBSET McpProviders
    BY <1>2
  <2>2. EditProvs(new)
    BY <1>8 DEF RemoveProvider
  <2> HIDE DEF new
  <2>3. new \in Settings
    BY <2>1, SettingsAre
  <2> QED BY <1>3, <2>2, <2>3
<1> QED BY <1>5, <1>6, <1>7, <1>8 DEF EditProviders

\* A list that replaces one of a member, by whatever control.
LEMMA SetListKeeps ==
    ASSUME EditorInv, NEW k \in DOMAIN entries, NEW c \in Categories,
           NEW boxes \in SUBSET (Items \cup {All}), SetList(k, c, boxes)
    PROVE  EditorInv'
<1>1. /\ provs \in Settings /\ entries \in Seq(Entry) /\ Len(entries) <= MaxEntries
      /\ caps \in CapsState
  BY EditorTypes DEF EditorInv
<1>2. entries[k] \in Entry
  BY <1>1, ElementOf
<1> DEFINE e == [entries[k] EXCEPT !.lists = [@ EXCEPT ![c] = boxes]]
           new == [entries EXCEPT ![k] = e]
<1>3. e \in Entry
  <2>1. entries[k].lists \in [Categories -> SUBSET (Items \cup {All})]
    BY <1>2 DEF Entry, Lists
  <2>2. [entries[k].lists EXCEPT ![c] = boxes] \in Lists
    BY <2>1 DEF Lists
  <2> QED BY <1>2, <2>2 DEF Entry
<1>4. EditEntries(new, caps)
  BY DEF SetList
<1> HIDE DEF e
<1>5. new \in Seq(Entry) /\ Len(new) = Len(entries)
  BY <1>1, <1>3, ReplacedFacts
<1> HIDE DEF new
<1>6. WithLoads(caps, new) \in CapsState
  BY <1>1, CapsFacts
<1> QED BY <1>1, <1>4, <1>5, <1>6, EditedKeeps DEF EditEntries

LEMMA KnownIs ==
    ASSUME EditorInv, NEW k \in DOMAIN entries
    PROVE  /\ Known(k) \subseteq Items
           /\ \A c \in Categories : entries[k].lists[c] \subseteq Items \cup {All}
<1>1. entries[k] \in Entry
  BY EditorTypes, ElementOf DEF EditorInv
<1>2. entries[k].provider \in McpProviders /\ entries[k].lists \in Lists
  BY <1>1 DEF Entry
<1> QED BY <1>2, McpEditorConstants DEF Known, Lists

LEMMA EditCategoryKeeps ==
    ASSUME EditorInv, NEW k \in DOMAIN entries, NEW c \in Categories, EditCategory(k, c)
    PROVE  EditorInv'
<1>1. Known(k) \subseteq Items /\ entries[k].lists[c] \subseteq Items \cup {All}
  BY KnownIs
<1>2. \E boxes \in SUBSET (Items \cup {All}) : SetList(k, c, boxes)
  <2>1. CASE ToggleAll(k, c)
    <3>1. SetList(k, c, Known(k)) \/ SetList(k, c, {All})
      BY <2>1 DEF ToggleAll
    <3> QED BY <1>1, <3>1
  <2>2. CASE PickAll(k, c)
    BY <1>1, <2>2 DEF PickAll
  <2>3. CASE Clear(k, c)
    BY <2>3 DEF Clear
  <2>4. CASE \E i \in Items : ToggleItem(k, c, i)
    <3> DEFINE cur == entries[k].lists[c] \ {All}
    <3>1. PICK i \in Items : SetList(k, c, cur \ {i}) \/ SetList(k, c, cur \cup {i})
      BY <2>4 DEF ToggleItem
    <3>2. cur \ {i} \in SUBSET (Items \cup {All}) /\ cur \cup {i} \in SUBSET (Items \cup {All})
      BY <1>1
    <3> HIDE DEF cur
    <3> QED BY <3>1, <3>2
  <2>5. CASE \E boxes \in SUBSET (Items \cup {All}) : TypeList(k, c, boxes)
    BY <2>5 DEF TypeList
  <2> QED BY <2>1, <2>2, <2>3, <2>4, <2>5 DEF EditCategory
<1> QED BY <1>2, SetListKeeps

LEMMA EditMembersKeeps == ASSUME EditorInv, EditMembers PROVE EditorInv'
<1>1. /\ provs \in Settings /\ entries \in Seq(Entry) /\ Len(entries) <= MaxEntries
      /\ caps \in CapsState /\ DOMAIN provs \in SUBSET McpProviders /\ MaxEntries \in Nat
  BY EditorTypes, SettingsAre, McpEditorConstants DEF EditorInv
<1>2. ASSUME NEW new \in Seq(Entry), Len(new) <= MaxEntries, EditEntries(new, caps)
      PROVE  EditorInv'
  <2>1. WithLoads(caps, new) \in CapsState
    BY <1>1, CapsFacts
  <2> QED BY <1>1, <1>2, <2>1, EditedKeeps DEF EditEntries
<1>3. CASE addMember
  <2>1. PICK p \in DOMAIN provs :
            EditEntries(Append(entries, [provider |-> p, lists |-> [c \in Categories |-> {All}]]),
                        caps)
    BY <1>3 DEF addMember
  <2> DEFINE e == [provider |-> p, lists |-> [c \in Categories |-> {All}]]
  <2>2. e \in Entry /\ Len(entries) < MaxEntries
    BY <1>1, <1>3 DEF Entry, Lists, addMember
  <2>3. EditEntries(Append(entries, e), caps)
    BY <2>1
  <2> HIDE DEF e
  <2>4. Append(entries, e) \in Seq(Entry) /\ Len(Append(entries, e)) <= MaxEntries
    BY <1>1, <2>2
  <2> QED BY <1>2, <2>3, <2>4
<1>4. ASSUME NEW k \in DOMAIN entries, removeMember(k) PROVE EditorInv'
  <2>1. k \in 1 .. Len(entries) /\ Len(entries) \in Nat
    BY <1>1, ElementOf
  <2>2. RemoveAt(entries, k) \in Seq(Entry) /\ Len(RemoveAt(entries, k)) = Len(entries) - 1
    BY <1>1, <2>1, RemoveAtFacts
  <2>3. Len(RemoveAt(entries, k)) <= MaxEntries
    BY <1>1, <2>1, <2>2
  <2> QED BY <1>2, <1>4, <2>2, <2>3 DEF removeMember
<1>5. ASSUME NEW k \in DOMAIN entries, NEW p \in McpProviders, SetProvider(k, p)
      PROVE  EditorInv'
  <2> DEFINE e == [entries[k] EXCEPT !.provider = p]
             new == [entries EXCEPT ![k] = e]
  <2>1. entries[k] \in Entry
    BY <1>1, ElementOf
  <2>2. e \in Entry
    BY <2>1 DEF Entry
  <2>3. EditEntries(new, caps)
    BY <1>5 DEF SetProvider
  <2> HIDE DEF e
  <2>4. new \in Seq(Entry) /\ Len(new) = Len(entries)
    BY <1>1, <2>2, ReplacedFacts
  <2> HIDE DEF new
  <2> QED BY <1>1, <1>2, <2>3, <2>4
<1>6. ASSUME NEW k \in DOMAIN entries, Invert(k) PROVE EditorInv'
  <2>1. Known(k) \ entries[k].lists["tools"] \in SUBSET (Items \cup {All})
    BY KnownIs
  <2>2. "tools" \in Categories
    BY DEF Categories
  <2> QED BY <1>6, <2>1, <2>2, SetListKeeps DEF Invert
<1> QED BY <1>3, <1>4, <1>5, <1>6, EditCategoryKeeps DEF EditMembers

\* What is loaded is not edited.
LEMMA CapsKeep ==
    ASSUME EditorInv,
           SwitchTabs \/ \E p \in McpProviders : RefreshCaps(p) \/ AnswerCaps(p)
    PROVE  EditorInv'
<1>1. McpEditorTypeOK /\ caps \in CapsState /\ inCombos \in BOOLEAN /\ edits \in 0 .. MaxEdits
  BY EditorTypes DEF EditorInv
<1>2. CASE SwitchTabs
  <2>1. [p \in McpProviders |-> NoCaps] \in CapsState
    BY DEF CapsState, NoCaps
  <2>2. caps' \in CapsState
    BY <1>2, <2>1, CapsFacts DEF SwitchTabs
  <2>3. /\ UNCHANGED <<provs, entries, put, gw, said, edited>>
        /\ inCombos' \in BOOLEAN /\ edits' \in 0 .. MaxEdits
    BY <1>1, <1>2, EditFacts DEF SwitchTabs
  <2> QED BY <2>2, <2>3, PageStays
<1>3. ASSUME NEW p \in McpProviders, RefreshCaps(p) \/ AnswerCaps(p) PROVE EditorInv'
  <2>1. /\ UNCHANGED <<provs, entries, put, gw, said, edited, inCombos>>
        /\ edits' \in 0 .. MaxEdits
    BY <1>1, <1>3, EditFacts DEF RefreshCaps, AnswerCaps
  <2>2. caps' \in CapsState
    <3>1. caps[p] \in [got: {"nothing", "items", "error"}, loading: BOOLEAN]
      BY <1>1 DEF CapsState
    <3>2. CASE RefreshCaps(p)
      <4> DEFINE c == [caps[p] EXCEPT !.loading = TRUE]
      <4>1. c \in [got: {"nothing", "items", "error"}, loading: BOOLEAN]
        BY <3>1
      <4>2. caps' = [caps EXCEPT ![p] = c]
        BY <3>2 DEF RefreshCaps
      <4> HIDE DEF c
      <4> QED BY <1>1, <4>1, <4>2 DEF CapsState
    <3>3. CASE AnswerCaps(p)
      <4>1. PICK got \in {"error", "items"} :
                caps' = [caps EXCEPT ![p] = [got |-> got, loading |-> FALSE]]
        BY <3>3 DEF AnswerCaps
      <4> QED BY <1>1, <4>1 DEF CapsState
    <3> QED BY <1>3, <3>2, <3>3
  <2> QED BY <1>1, <2>1, <2>2, PageStays
<1> QED BY <1>2, <1>3

LEMMA SavePageKeeps == ASSUME EditorInv, SavePage PROVE EditorInv'
<1>1. /\ McpEditorTypeOK /\ edits' \in 0 .. MaxEdits
      /\ provs \in Settings /\ entries \in Seq(Entry) /\ Len(entries) <= MaxEntries
  BY EditFacts, EditorTypes DEF EditorInv, SavePage
<1>2. /\ put' = [at |-> "sent", provs |-> SanitizedProvs(provs),
                 entries |-> SanitizedEntries(entries)]
      /\ said' = [provs |-> provs, entries |-> entries]
      /\ UNCHANGED <<provs, entries, inCombos, caps, gw, edited>>
  BY DEF SavePage, SanitizedProvs, SanitizedEntries
<1>3. /\ put'.at = "sent" /\ put'.provs = SanitizedProvs(provs)
      /\ put'.entries = SanitizedEntries(entries)
      /\ said'.provs = provs /\ said'.entries = entries
  BY <1>2
<1>4. McpEditorTypeOK'
  BY <1>1, <1>2, <1>3 DEF McpEditorTypeOK, EntrySeq
<1>5. SentIsSaid'
  BY <1>3 DEF SentIsSaid, SanitizedProvs, SanitizedEntries
<1>6. RunsSanitized' /\ UneditedOK'
  BY <1>2, <1>3 DEF EditorInv, RunsSanitized, UneditedOK
<1> QED BY <1>1, <1>3, <1>4, <1>5, <1>6 DEF EditorInv, EntrySeq

\* The gateway never turns the page's configuration down for its isolation.
LEMMA SentIsIsolated == ASSUME EditorInv, put.at = "sent" PROVE ~NotIsolated
<1>1. put.provs = SanitizedProvs(said.provs) /\ said.provs \in Settings
  BY DEF EditorInv, SentIsSaid
<1> DEFINE ps == said.provs
           sent == put.provs
<1>2. /\ DOMAIN sent = DOMAIN ps
      /\ \A p \in DOMAIN ps :
            /\ sent[p].mode = ps[p].mode
            /\ sent[p].isolated = (ps[p].mode = "oauth2" \/ IsIsolated(ps[p]))
  BY <1>1, SanitizedProvsAre
<1>3. \A p \in DOMAIN sent : sent[p].mode = "oauth2" => sent[p].isolated
  <2> HIDE DEF ps, sent
  <2> QED BY <1>2
<1> QED BY <1>3 DEF NotIsolated

LEMMA InstallKeeps == ASSUME EditorInv, Install PROVE EditorInv'
<1>1. /\ put.at = "sent" /\ ~NotIsolated /\ ~Dangling
      /\ gw' = [provs |-> put.provs, entries |-> put.entries]
      /\ put'.at = "done"
      /\ UNCHANGED <<provs, entries, inCombos, caps, said, edited, edits>>
  BY DEF Install, NoPut
<1>2. /\ gw'.provs = SanitizedProvs(said.provs) /\ gw'.entries = SanitizedEntries(said.entries)
      /\ gw'.provs = put.provs /\ gw'.entries = put.entries
      /\ said.provs \in Settings /\ said.entries \in Seq(Entry) /\ Len(said.entries) <= MaxEntries
  BY <1>1 DEF EditorInv, SentIsSaid, EntrySeq
<1> DEFINE sp == SanitizedProvs(said.provs)
<1>0. /\ DOMAIN sp = DOMAIN said.provs /\ gw'.provs = sp
      /\ \A p \in DOMAIN said.provs :
            /\ sp[p].mode = said.provs[p].mode
            /\ sp[p].isolated = (said.provs[p].mode = "oauth2" \/ IsIsolated(said.provs[p]))
            /\ said.provs[p] \in Setting
  BY <1>2, SanitizedProvsAre
<1> HIDE DEF sp
<1>3. McpEditorTypeOK'
  <2>1. /\ gw'.provs \in Running /\ gw'.entries \in Seq(Entry) /\ Len(gw'.entries) <= MaxEntries
    BY <1>2, SanitizedProvsAre, SanitizedEntriesAre
  <2>2. \A x \in ToSet(gw'.entries) : x.provider \in DOMAIN gw'.provs
    BY <1>1, <1>2 DEF Dangling
  <2> QED BY <1>1, <2>1, <2>2 DEF EditorInv, McpEditorTypeOK, EntrySeq
<1>4. SentIsSaid'
  BY <1>1, <1>2 DEF SentIsSaid, SanitizedProvs, SanitizedEntries
<1>5. RunsSanitized'
  <2>1. \A p \in DOMAIN gw'.provs : gw'.provs[p].mode = "oauth2" => gw'.provs[p].isolated
    BY <1>0
  <2>2. ASSUME NEW k \in DOMAIN gw'.entries, NEW c \in Categories
        PROVE  gw'.entries[k].lists[c] # {}
    <3>1. k \in DOMAIN said.entries /\ gw'.entries[k] = SanitizedEntry(said.entries[k])
      BY <1>2, SanitizedEntriesAre
    <3>2. said.entries[k] \in Entry
      BY <1>2, <3>1, ElementOf
    <3>3. gw'.entries[k].lists[c] = Unrestricted(said.entries[k].lists[c])
      BY <3>1, <3>2, SanitizedIs
    <3> QED BY <3>3 DEF Unrestricted
  <2> QED BY <2>1, <2>2 DEF RunsSanitized
<1>6. ASSUME ~edited
      PROVE  /\ entries = gw'.entries /\ DOMAIN provs = DOMAIN gw'.provs
             /\ \A p \in DOMAIN gw'.provs :
                   /\ provs[p].mode = gw'.provs[p].mode
                   /\ IsIsolated(provs[p]) = gw'.provs[p].isolated
  <2>1. /\ entries = gw.entries /\ said.entries = entries /\ said.provs = provs
        /\ DOMAIN provs = DOMAIN gw.provs
        /\ \A p \in DOMAIN gw.provs :
              provs[p].mode = gw.provs[p].mode /\ IsIsolated(provs[p]) = gw.provs[p].isolated
        /\ \A p \in DOMAIN gw.provs : gw.provs[p].mode = "oauth2" => gw.provs[p].isolated
        /\ \A k \in DOMAIN gw.entries, c \in Categories : gw.entries[k].lists[c] # {}
    BY <1>1, <1>6 DEF EditorInv, UneditedOK, RunsSanitized
  <2>2. gw'.entries = entries
    <3>1. said.entries \in Seq(Entry)
      BY <1>2
    <3>2. \A k \in DOMAIN said.entries, c \in Categories : said.entries[k].lists[c] # {}
      BY <2>1
    <3>3. SanitizedEntries(said.entries) = said.entries
      BY <3>1, <3>2, SanitizedEntriesAre
    <3> QED BY <1>2, <2>1, <3>3
  <2>3. DOMAIN provs = DOMAIN gw'.provs
    BY <1>0, <2>1
  <2>4. ASSUME NEW p \in DOMAIN gw'.provs
        PROVE  /\ provs[p].mode = gw'.provs[p].mode
               /\ IsIsolated(provs[p]) = gw'.provs[p].isolated
    <3>1. /\ gw'.provs[p].mode = provs[p].mode
          /\ gw'.provs[p].isolated = (provs[p].mode = "oauth2" \/ IsIsolated(provs[p]))
          /\ provs[p] \in Setting
      BY <1>0, <2>1, <2>3
    <3>2. provs[p].mode = "oauth2" => gw.provs[p].isolated
      BY <2>1, <2>3
    <3>3. IsIsolated(provs[p]) = gw.provs[p].isolated
      BY <2>1, <2>3
    <3>4. IsIsolated(provs[p]) \in BOOLEAN
      BY DEF IsIsolated
    <3> QED BY <3>1, <3>2, <3>3, <3>4
  <2> QED BY <2>2, <2>3, <2>4
<1>7. UneditedOK'
  BY <1>1, <1>6 DEF UneditedOK, IsIsolated
<1> QED BY <1>1, <1>2, <1>3, <1>4, <1>5, <1>7 DEF EditorInv, EntrySeq

\* Refusals leave the page, and what runs.
LEMMA RefusalsKeep == ASSUME EditorInv, Refuse \/ AnswerRefused PROVE EditorInv'
<1>1. /\ UNCHANGED <<provs, entries, inCombos, caps, gw, said, edited, edits>>
      /\ put'.at \in {"refused", "idle"}
  BY SentIsIsolated DEF Refuse, AnswerRefused, NoPut
<1>2. McpEditorTypeOK'
  BY <1>1 DEF EditorInv, McpEditorTypeOK, EntrySeq
<1>3. SentIsSaid' /\ RunsSanitized' /\ UneditedOK'
  BY <1>1 DEF EditorInv, SentIsSaid, RunsSanitized, UneditedOK
<1> QED BY <1>1, <1>2, <1>3 DEF EditorInv, EntrySeq

LEMMA AnswerSavedKeeps == ASSUME EditorInv, AnswerSaved PROVE EditorInv'
<1>1. /\ provs' = Dumped(gw.provs) /\ entries' = gw.entries
      /\ caps' = (IF inCombos THEN WithLoads(caps, gw.entries) ELSE caps)
      /\ put'.at = "idle" /\ edited' = FALSE
      /\ UNCHANGED <<inCombos, gw, said, edits>>
  BY DEF AnswerSaved, NoPut
<1>2. /\ gw.provs \in Running /\ gw.entries \in Seq(Entry) /\ Len(gw.entries) <= MaxEntries
      /\ caps \in CapsState
  BY EditorTypes DEF EditorInv
<1>3. /\ DOMAIN gw.provs \in SUBSET McpProviders
      /\ \A p \in DOMAIN gw.provs : gw.provs[p] \in [mode: Modes, isolated: BOOLEAN]
  BY <1>2, RunningAre
<1>4. /\ DOMAIN provs' = DOMAIN gw.provs
      /\ \A p \in DOMAIN gw.provs :
            /\ provs'[p] = [mode |-> gw.provs[p].mode, isolated |-> gw.provs[p].isolated,
                            authMode |-> gw.provs[p].isolated]
            /\ provs'[p] \in Setting
  BY <1>1, <1>3 DEF Dumped, Setting
<1>5. provs' \in Settings
  <2>1. provs' \in [DOMAIN gw.provs -> Setting]
    BY <1>1, <1>4 DEF Dumped
  <2> QED BY <1>3, <2>1, SettingsAre
<1>6. caps' \in CapsState
  BY <1>1, <1>2, CapsFacts
<1>7. McpEditorTypeOK'
  BY <1>1, <1>2, <1>5, <1>6 DEF EditorInv, McpEditorTypeOK, EntrySeq, CapsState
<1>8. SentIsSaid' /\ RunsSanitized'
  BY <1>1 DEF EditorInv, SentIsSaid, RunsSanitized
<1>9. UneditedOK'
  <2>1. \A p \in DOMAIN gw.provs : /\ provs'[p].mode = gw.provs[p].mode
                                  /\ provs'[p].isolated = gw.provs[p].isolated
                                  /\ provs'[p].authMode = gw.provs[p].isolated
                                  /\ gw.provs[p].isolated \in BOOLEAN
    <3> SUFFICES ASSUME NEW p \in DOMAIN gw.provs
                 PROVE  /\ provs'[p].mode = gw.provs[p].mode
                        /\ provs'[p].isolated = gw.provs[p].isolated
                        /\ provs'[p].authMode = gw.provs[p].isolated
                        /\ gw.provs[p].isolated \in BOOLEAN
      OBVIOUS
    <3>1. gw.provs[p].isolated \in BOOLEAN
      BY <1>3
    <3>2. provs'[p] = [mode |-> gw.provs[p].mode, isolated |-> gw.provs[p].isolated,
                       authMode |-> gw.provs[p].isolated]
      BY <1>4
    <3> QED BY <3>1, <3>2
  <2> QED BY <1>1, <1>4, <2>1 DEF UneditedOK, IsIsolated
<1> QED BY <1>1, <1>7, <1>8, <1>9 DEF EditorInv, EntrySeq

LEMMA EditorKept == EditorInv /\ [McpEditorNext]_mcpVars => EditorInv'
<1> SUFFICES ASSUME EditorInv, [McpEditorNext]_mcpVars PROVE EditorInv'
  OBVIOUS
<1>1. CASE UNCHANGED mcpVars
  <2>1. UNCHANGED <<provs, entries, inCombos, caps, put, gw, said, edited, edits>>
    BY <1>1 DEF mcpVars
  <2>2. inCombos \in BOOLEAN /\ caps \in CapsState /\ edits \in 0 .. MaxEdits
    BY EditorTypes DEF EditorInv
  <2> QED BY <2>1, <2>2, PageStays
<1>2. CASE \E p \in McpProviders : RefreshCaps(p) \/ AnswerCaps(p)
  BY <1>2, CapsKeep
<1>3. CASE SwitchTabs
  BY <1>3, CapsKeep
<1> QED BY <1>1, <1>2, <1>3, EditProvidersKeeps, EditMembersKeeps, SavePageKeeps, InstallKeeps,
           RefusalsKeep, AnswerSavedKeeps
        DEF McpEditorNext

\* Of the items of a provider, a list that is sanitized lets those through whose
\* boxes are checked, with the two exceptions that the property names.
LEMMA BoxesAreObeyed ==
    ASSUME NEW e \in Entry, NEW c \in Categories,
           e.lists[c] # {}, All \in e.lists[c] => IsAll(e.lists[c])
    PROVE  LetThrough(SanitizedEntry(e), c) = Checked(e, c)
<1>1. /\ SanitizedEntry(e).lists[c] = Unrestricted(e.lists[c])
      /\ SanitizedEntry(e).provider = e.provider
  BY SanitizedIs
<1>2. Unrestricted(e.lists[c]) = e.lists[c]
  BY DEF Unrestricted
<1>3. ItemsOf[e.provider] \subseteq Items /\ All \notin Items
  BY McpEditorConstants DEF Entry
<1> QED BY <1>1, <1>2, <1>3 DEF LetThrough, Checked, IsAll

LEMMA EditorSafe == EditorInv => McpEditorTypeOK /\ ShownIsWhatRuns
<1> SUFFICES ASSUME EditorInv PROVE ShownIsWhatRuns
  BY DEF EditorInv
<1>1. /\ put.at # "notIsolated" /\ said.provs \in Settings /\ said.entries \in Seq(Entry)
  BY DEF EditorInv, EntrySeq
<1>2. ASSUME put.at = "done"
      PROVE  /\ DOMAIN gw.provs = DOMAIN said.provs
             /\ \A p \in DOMAIN gw.provs :
                   gw.provs[p].isolated <=> \/ IsIsolated(said.provs[p])
                                            \/ said.provs[p].mode = "oauth2"
             /\ \A k \in DOMAIN said.entries, c \in Categories :
                   \/ LetThrough(gw.entries[k], c) = Checked(said.entries[k], c)
                   \/ said.entries[k].lists[c] = {}
                   \/ All \in said.entries[k].lists[c] /\ ~IsAll(said.entries[k].lists[c])
  <2>1. gw.provs = SanitizedProvs(said.provs) /\ gw.entries = SanitizedEntries(said.entries)
    BY <1>2 DEF EditorInv, SentIsSaid
  <2>2. /\ DOMAIN gw.provs = DOMAIN said.provs
        /\ \A p \in DOMAIN gw.provs :
              gw.provs[p].isolated <=> \/ IsIsolated(said.provs[p])
                                       \/ said.provs[p].mode = "oauth2"
    BY <1>1, <2>1, SanitizedProvsAre
  <2>3. ASSUME NEW k \in DOMAIN said.entries, NEW c \in Categories
        PROVE  \/ LetThrough(gw.entries[k], c) = Checked(said.entries[k], c)
               \/ said.entries[k].lists[c] = {}
               \/ All \in said.entries[k].lists[c] /\ ~IsAll(said.entries[k].lists[c])
    <3>1. said.entries[k] \in Entry /\ gw.entries[k] = SanitizedEntry(said.entries[k])
      BY <1>1, <2>1, ElementOf, SanitizedEntriesAre
    <3> QED BY <3>1, BoxesAreObeyed
  <2> QED BY <2>2, <2>3
<1>3. ~edited =>
          /\ entries = gw.entries
          /\ \A p \in DOMAIN gw.provs : IsIsolated(provs[p]) = gw.provs[p].isolated
  BY DEF EditorInv, UneditedOK
<1> QED BY <1>1, <1>2, <1>3 DEF ShownIsWhatRuns

-----------------------------------------------------------------------------
(* The combos tab.                                                         *)

Distinct(cs) == \A i, j \in DOMAIN cs : cs[i].name = cs[j].name => i = j

MembersOK(ms) == ms \in Seq(Member) /\ ms # <<>> /\ Len(ms) <= MaxMembers
RowType       == [busy: BOOLEAN, hits: Models \cup {0}]
AskRec        == [at: 0 .. Len(NameSeq), members: BoundedSeq(Member, MaxMembers), name: Names,
                  live: BOOLEAN, quiet: BOOLEAN]

\* A request that nothing has disturbed finds its combo where it was, with the
\* members it was sent for.
AskOK(a, r, cs) ==
    a # NoAsk =>
        /\ a.at # 0
        /\ MembersOK(a.members) /\ r \in DOMAIN a.members
        /\ a.quiet =>
              /\ a.at \in DOMAIN cs
              /\ cs[a.at].name = a.name
              /\ cs[a.at].members = a.members

ListOK ==
    /\ combos \in Seq(Combo) /\ Distinct(combos)
    /\ sel \in 1 .. Len(combos) \/ (sel = 1 /\ combos = <<>>)
    /\ tabOpen \in BOOLEAN /\ folded \in SUBSET AllGroups /\ clicks \in 0 .. MaxClicks

AsksOK ==
    /\ ask \in [RowIndex -> AskRec]
    /\ \A r \in RowIndex : AskOK(ask[r], r, combos)

CombosInv == ListOK /\ AsksOK /\ rowState \in [RowIndex -> RowType]

\* No request that is under way is forgotten.
StillAsking == \A r \in RowIndex : ask[r] # NoAsk => ask'[r] # NoAsk

\* The names, one after the other.
LEMMA NamesAre ==
    /\ NameSeq \in Seq(Names) /\ Len(NameSeq) = Cardinality(Names)
    /\ Cardinality(Names) \in Nat /\ Cardinality(Names) >= 2
    /\ NameSeq[1] \in Names /\ NameSeq[2] \in Names /\ NameSeq[1] # NameSeq[2]
<1> DEFINE n == Cardinality(Names)
           B == {f \in [1 .. n -> Names] : IsInjective(f)}
<1>1. n \in Nat /\ n >= 2 /\ ExistsBijection(1 .. n, Names)
  BY ComboEditorConstants, FS_CardinalityType
<1>2. \E f \in [1 .. n -> Names] : IsInjective(f)
  BY <1>1 DEF ExistsBijection, Bijection, Injection
<1>3. NameSeq \in [1 .. n -> Names] /\ IsInjective(NameSeq)
  BY <1>2 DEF NameSeq, SetToSeq
<1> HIDE DEF n
<1>4. NameSeq \in Seq(Names) /\ Len(NameSeq) = n
  BY <1>1, <1>3, SeqOfFunction
<1>5. 1 \in 1 .. n /\ 2 \in 1 .. n /\ DOMAIN NameSeq = 1 .. n
  BY <1>1, <1>3
<1>6. NameSeq[1] # NameSeq[2]
  BY <1>3, <1>5 DEF IsInjective
<1> QED BY <1>1, <1>3, <1>4, <1>5, <1>6 DEF n

\* There are no more combos than names.
LEMMA NamesSuffice ==
    ASSUME NEW cs \in Seq(Combo), Distinct(cs) PROVE Len(cs) <= Len(NameSeq)
<1> DEFINE f == [i \in 1 .. Len(cs) |-> cs[i].name]
<1>1. \A i \in 1 .. Len(cs) : cs[i].name \in Names
  <2>1. \A i \in 1 .. Len(cs) : cs[i] \in Combo
    BY ElementOf
  <2> QED BY <2>1 DEF Combo
<1>2. DOMAIN cs = 1 .. Len(cs) /\ Len(cs) \in Nat
  BY ElementOf
<1>3. f \in Injection(1 .. Len(cs), Names)
  BY <1>1, <1>2 DEF Distinct, Injection, IsInjective
<1>4. Cardinality(1 .. Len(cs)) <= Cardinality(Names)
  BY <1>3, ComboEditorConstants, FS_Injection
<1>5. Cardinality(1 .. Len(cs)) = Len(cs)
  <2>1. 1 \in Int /\ Len(cs) \in Int
    BY <1>2
  <2>2. Cardinality(1 .. Len(cs)) = IF 1 > Len(cs) THEN 0 ELSE Len(cs) - 1 + 1
    BY <2>1, FS_Interval
  <2> QED BY <1>2, <2>2
<1> QED BY <1>4, <1>5, NamesAre

LEMMA BoundedAre ==
    ASSUME NEW ms
    PROVE  ms \in BoundedSeq(Member, MaxMembers) <=> ms \in Seq(Member) /\ Len(ms) <= MaxMembers
<1>1. MaxMembers \in Nat
  BY ComboEditorConstants
<1>2. BoundedSeq(Member, MaxMembers) = UNION {[1 .. m -> Member] : m \in 0 .. MaxMembers}
  BY DEF BoundedSeq, SeqOf
<1>3. ASSUME ms \in BoundedSeq(Member, MaxMembers)
      PROVE  ms \in Seq(Member) /\ Len(ms) <= MaxMembers
  <2>1. PICK m \in 0 .. MaxMembers : ms \in [1 .. m -> Member]
    BY <1>2, <1>3
  <2>2. m \in Nat /\ m <= MaxMembers
    BY <1>1, <2>1
  <2> QED BY <2>1, <2>2, SeqOfFunction
<1>4. ASSUME ms \in Seq(Member), Len(ms) <= MaxMembers
      PROVE  ms \in BoundedSeq(Member, MaxMembers)
  <2>1. Len(ms) \in 0 .. MaxMembers /\ ms \in [1 .. Len(ms) -> Member]
    BY <1>1, <1>4
  <2> QED BY <1>2, <2>1
<1> QED BY <1>3, <1>4

LEMMA ComboIs ==
    ASSUME NEW c \in Combo
    PROVE  /\ c.name \in Names /\ c.group \in AllGroups /\ c.flag \in BOOLEAN /\ c.relay \in BOOLEAN
           /\ MembersOK(c.members)
  BY BoundedAre DEF Combo, MembersOK

LEMMA WithMembers ==
    ASSUME NEW c \in Combo, NEW ms, MembersOK(ms)
    PROVE  /\ [c EXCEPT !.members = ms] \in Combo
           /\ [c EXCEPT !.members = ms].name = c.name
<1>1. ms \in BoundedSeq(Member, MaxMembers) \ {<<>>}
  BY BoundedAre DEF MembersOK
<1> QED BY <1>1 DEF Combo

LEMMA AskTypes ==
    /\ NoAsk \in AskRec /\ NoAsk.at = 0
    /\ \A a \in AskRec : /\ a.at \in Nat /\ a.name \in Names
                         /\ a.live \in BOOLEAN /\ a.quiet \in BOOLEAN
<1>1. <<>> \in BoundedSeq(Member, MaxMembers)
  <2>1. <<>> \in Seq(Member) /\ Len(<<>>) <= MaxMembers
    BY ComboEditorConstants
  <2> QED BY <2>1, BoundedAre
<1>2. 0 \in 0 .. Len(NameSeq)
  BY NamesAre
<1> QED BY <1>1, <1>2, NamesAre DEF NoAsk, AskRec

LEMMA CombosInitially == ComboEditorInit => CombosInv
<1> SUFFICES ASSUME ComboEditorInit PROVE CombosInv
  OBVIOUS
<1>1. PICK m \in Models :
        /\ combos = << [name |-> NameSeq[1], group |-> "default", flag |-> TRUE,
                        relay |-> FALSE,
                        members |-> <<[model |-> m, params |-> 0], EmptyMember>>],
                       [name |-> NameSeq[2], group |-> CHOOSE g \in Groups : TRUE,
                        flag |-> FALSE, relay |-> FALSE,
                        members |-> <<[model |-> m, params |-> m]>>] >>
        /\ sel = 1 /\ tabOpen = TRUE /\ folded = {}
        /\ rowState = [r \in RowIndex |-> FreshRow] /\ ask = [r \in RowIndex |-> NoAsk]
        /\ clicks = 0
  BY DEF ComboEditorInit
<1> DEFINE ms == <<[model |-> m, params |-> 0], EmptyMember>>
           ns == <<[model |-> m, params |-> m]>>
           g  == CHOOSE x \in Groups : TRUE
           c == [name |-> NameSeq[1], group |-> "default", flag |-> TRUE,
                 relay |-> FALSE, members |-> ms]
           d == [name |-> NameSeq[2], group |-> g, flag |-> FALSE, relay |-> FALSE,
                 members |-> ns]
<1>2. MembersOK(ms) /\ MembersOK(ns)
  <2>1. [model |-> m, params |-> 0] \in Member /\ EmptyMember \in Member
        /\ [model |-> m, params |-> m] \in Member
    BY DEF Member, EmptyMember
  <2>2. MaxMembers \in Nat /\ MaxMembers >= 2
    BY ComboEditorConstants
  <2> QED BY <2>1, <2>2 DEF MembersOK
<1>3. g \in AllGroups /\ "default" \in AllGroups
  BY ComboEditorConstants DEF AllGroups
<1>4. combos = <<c, d>>
  BY <1>1
<1> HIDE DEF ms, ns, g
<1>5. c \in Combo /\ d \in Combo /\ c.name = NameSeq[1] /\ d.name = NameSeq[2]
  <2>1. /\ ms \in BoundedSeq(Member, MaxMembers) \ {<<>>}
        /\ ns \in BoundedSeq(Member, MaxMembers) \ {<<>>}
    BY <1>2, BoundedAre DEF MembersOK
  <2> QED BY <1>3, <2>1, NamesAre DEF Combo
<1> HIDE DEF c, d
<1>6. /\ combos \in Seq(Combo) /\ Len(combos) = 2 /\ DOMAIN combos = {1, 2}
      /\ combos[1] = c /\ combos[2] = d
  BY <1>4, <1>5
<1>7. Distinct(combos)
  BY <1>5, <1>6, NamesAre DEF Distinct
<1>8. ListOK
  <2>1. sel \in 1 .. Len(combos)
    BY <1>1, <1>6
  <2>2. clicks \in 0 .. MaxClicks
    BY <1>1, ComboEditorConstants
  <2> QED BY <1>1, <1>6, <1>7, <2>1, <2>2 DEF ListOK
<1>9. AsksOK
  <2>1. ask \in [RowIndex -> AskRec]
    BY <1>1, AskTypes
  <2> QED BY <1>1, <2>1 DEF AsksOK, AskOK
<1>10. rowState \in [RowIndex -> RowType]
  BY <1>1 DEF RowType, FreshRow
<1> QED BY <1>8, <1>9, <1>10 DEF CombosInv

\* What a step leaves of the rows and of their requests.
LEMMA RerenderKeeps ==
    ASSUME CombosInv, NEW newRow \in [RowIndex -> RowType], NEW newAsk \in [RowIndex -> AskRec],
           Rerender(newRow, newAsk), ListOK',
           \A r \in RowIndex : AskOK(newAsk[r], r, combos)
    PROVE  CombosInv' /\ \A r \in RowIndex : newAsk[r] # NoAsk => ask'[r] # NoAsk
<1>1. \A r \in RowIndex : newAsk[r] \in AskRec
  OBVIOUS
<1>2. PICK live \in [RowIndex -> BOOLEAN] :
          /\ rowState' = [r \in RowIndex |-> IF live[r] THEN newRow[r] ELSE FreshRow]
          /\ ask' = [r \in RowIndex |->
                IF newAsk[r] = NoAsk THEN NoAsk
                ELSE [newAsk[r] EXCEPT !.live = @ /\ live[r], !.quiet = @ /\ combos' = combos]]
  <2> DEFINE there(r) == tabOpen' /\ combos' # <<>> /\ r \in DOMAIN combos'[sel'].members
             live == [r \in RowIndex |-> there(r)]
  <2>1. live \in [RowIndex -> BOOLEAN]
    OBVIOUS
  <2>2. \A r \in RowIndex : live[r] = there(r)
    OBVIOUS
  <2>3. rowState' = [r \in RowIndex |-> IF there(r) THEN newRow[r] ELSE FreshRow]
    BY DEF Rerender
  <2>4. ask' = [r \in RowIndex |->
                  IF newAsk[r] = NoAsk THEN NoAsk
                  ELSE [newAsk[r] EXCEPT !.live = @ /\ there(r), !.quiet = @ /\ combos' = combos]]
    BY DEF Rerender
  <2> HIDE DEF there
  <2>5. /\ rowState' = [r \in RowIndex |-> IF live[r] THEN newRow[r] ELSE FreshRow]
        /\ ask' = [r \in RowIndex |->
              IF newAsk[r] = NoAsk THEN NoAsk
              ELSE [newAsk[r] EXCEPT !.live = @ /\ live[r], !.quiet = @ /\ combos' = combos]]
    BY <2>2, <2>3, <2>4
  <2> HIDE DEF live
  <2> QED BY <2>1, <2>5
<1>3. rowState' \in [RowIndex -> RowType]
  BY <1>2 DEF RowType, FreshRow
<1>4. ASSUME NEW r \in RowIndex, newAsk[r] # NoAsk
      PROVE  /\ ask'[r] \in AskRec /\ ask'[r].at = newAsk[r].at
             /\ ask'[r].members = newAsk[r].members /\ ask'[r].name = newAsk[r].name
             /\ ask'[r].quiet => newAsk[r].quiet /\ combos' = combos
  <2> DEFINE a == newAsk[r]
  <2>1. ask'[r] = [a EXCEPT !.live = @ /\ live[r], !.quiet = @ /\ combos' = combos]
    BY <1>2, <1>4
  <2>2. a \in AskRec
    BY <1>1
  <2> HIDE DEF a
  <2>3. PICK x \in BOOLEAN, y \in BOOLEAN :
            ask'[r] = [a EXCEPT !.live = x, !.quiet = y] /\ (y => a.quiet /\ combos' = combos)
    <3>1. ask'[r] = [a EXCEPT !.live = a.live /\ live[r], !.quiet = a.quiet /\ combos' = combos]
      BY <2>1, <2>2 DEF AskRec
    <3>2. (a.live /\ live[r]) \in BOOLEAN /\ (a.quiet /\ combos' = combos) \in BOOLEAN
      OBVIOUS
    <3> QED BY <3>1, <3>2
  <2>4. /\ ask'[r] \in AskRec /\ ask'[r].at = a.at /\ ask'[r].members = a.members
        /\ ask'[r].name = a.name /\ ask'[r].quiet = y
    BY <2>2, <2>3 DEF AskRec
  <2> USE DEF a
  <2> QED BY <2>3, <2>4
<1>5. \A r \in RowIndex : newAsk[r] = NoAsk => ask'[r] = NoAsk
  BY <1>2
<1>6. ASSUME NEW r \in RowIndex, newAsk[r] # NoAsk
      PROVE  ask'[r] # NoAsk /\ AskOK(ask'[r], r, combos')
  <2>1. /\ newAsk[r].at # 0 /\ MembersOK(newAsk[r].members) /\ r \in DOMAIN newAsk[r].members
        /\ newAsk[r].quiet => /\ newAsk[r].at \in DOMAIN combos
                              /\ combos[newAsk[r].at].name = newAsk[r].name
                              /\ combos[newAsk[r].at].members = newAsk[r].members
    BY <1>6 DEF AskOK
  <2>2. ask'[r] # NoAsk
    BY <1>4, <1>6, <2>1, AskTypes
  <2>3. ask'[r].at # 0 /\ MembersOK(ask'[r].members) /\ r \in DOMAIN ask'[r].members
    BY <1>4, <1>6, <2>1
  <2>4. ASSUME ask'[r].quiet
        PROVE  /\ ask'[r].at \in DOMAIN combos'
               /\ combos'[ask'[r].at].name = ask'[r].name
               /\ combos'[ask'[r].at].members = ask'[r].members
    BY <1>4, <1>6, <2>1, <2>4
  <2> QED BY <2>2, <2>3, <2>4 DEF AskOK
<1>7. AsksOK'
  <2>1. \A r \in RowIndex : ask'[r] \in AskRec
    BY <1>4, <1>5, AskTypes
  <2>2. ask' \in [RowIndex -> AskRec]
    BY <1>2, <2>1
  <2>3. \A r \in RowIndex : AskOK(ask'[r], r, combos')
    BY <1>5, <1>6 DEF AskOK
  <2> QED BY <2>2, <2>3 DEF AsksOK, AskOK, MembersOK, NoAsk
<1> QED BY <1>3, <1>6, <1>7 DEF CombosInv

LEMMA ClickFacts == ASSUME ListOK, Click PROVE clicks' \in 0 .. MaxClicks
<1>1. clicks \in 0 .. MaxClicks /\ MaxClicks \in Nat /\ clicks < MaxClicks /\ clicks' = clicks + 1
  BY ComboEditorConstants DEF ListOK, Click
<1> QED BY <1>1

\* A click after which the list is well.
LEMMA RedrawKeeps ==
    ASSUME CombosInv, Redraw,
           combos' \in Seq(Combo), Distinct(combos'),
           sel' \in 1 .. Len(combos') \/ (sel' = 1 /\ combos' = <<>>),
           tabOpen' \in BOOLEAN, folded' \in SUBSET AllGroups
    PROVE  CombosInv' /\ StillAsking
<1>1. clicks' \in 0 .. MaxClicks
  BY ClickFacts DEF CombosInv, Redraw
<1>2. ListOK'
  BY <1>1 DEF ListOK, Distinct
<1>3. /\ rowState \in [RowIndex -> RowType] /\ ask \in [RowIndex -> AskRec]
      /\ \A r \in RowIndex : AskOK(ask[r], r, combos)
  BY DEF CombosInv, AsksOK
<1>4. Rerender(rowState, ask)
  BY DEF Redraw
<1> QED BY <1>2, <1>3, <1>4, RerenderKeeps DEF StillAsking

\* The list, and the combo that is selected.
LEMMA ListFacts ==
    ASSUME CombosInv
    PROVE  /\ combos \in Seq(Combo) /\ Distinct(combos)
           /\ sel \in 1 .. Len(combos) \/ (sel = 1 /\ combos = <<>>)
           /\ tabOpen \in BOOLEAN /\ folded \in SUBSET AllGroups
           /\ Len(combos) \in Nat /\ DOMAIN combos = 1 .. Len(combos)
           /\ combos # <<>> =>
                 sel \in DOMAIN combos /\ Current \in Combo /\ MembersOK(Members)
<1>1. /\ combos \in Seq(Combo) /\ Distinct(combos)
      /\ sel \in 1 .. Len(combos) \/ (sel = 1 /\ combos = <<>>)
      /\ tabOpen \in BOOLEAN /\ folded \in SUBSET AllGroups
  BY DEF CombosInv, ListOK
<1>2. Len(combos) \in Nat /\ DOMAIN combos = 1 .. Len(combos)
  BY <1>1, ElementOf
<1>3. ASSUME combos # <<>>
      PROVE  sel \in DOMAIN combos /\ Current \in Combo /\ MembersOK(Members)
  <2>1. sel \in DOMAIN combos /\ combos[sel] \in Combo
    BY <1>1, <1>2, <1>3, ElementOf
  <2> QED BY <2>1, ComboIs DEF Current, Members
<1> QED BY <1>1, <1>2, <1>3

\* A combo that goes leaves the others with names of their own, which are not
\* the name that it had.
LEMMA RemovedNames ==
    ASSUME NEW cs \in Seq(Combo), Distinct(cs), NEW i \in DOMAIN cs
    PROVE  /\ RemoveAt(cs, i) \in Seq(Combo) /\ Len(RemoveAt(cs, i)) = Len(cs) - 1
           /\ Distinct(RemoveAt(cs, i))
           /\ \A k \in DOMAIN RemoveAt(cs, i) : RemoveAt(cs, i)[k].name # cs[i].name
<1> DEFINE t == RemoveAt(cs, i)
<1>1. i \in 1 .. Len(cs) /\ Len(cs) \in Nat /\ DOMAIN cs = 1 .. Len(cs)
  BY ElementOf
<1>2. /\ t \in Seq(Combo) /\ Len(t) = Len(cs) - 1
      /\ \A j \in 1 .. Len(cs) - 1 : t[j] = IF j < i THEN cs[j] ELSE cs[j + 1]
  BY <1>1, RemoveAtFacts
<1> HIDE DEF t
<1>3. DOMAIN t = 1 .. Len(cs) - 1
  BY <1>2, ElementOf
<1>4. \A j \in 1 .. Len(cs) - 1 :
          \E x \in 1 .. Len(cs) : /\ t[j] = cs[x] /\ x # i
                                  /\ x = IF j < i THEN j ELSE j + 1
  <2> SUFFICES ASSUME NEW j \in 1 .. Len(cs) - 1
               PROVE  \E x \in 1 .. Len(cs) : /\ t[j] = cs[x] /\ x # i
                                              /\ x = IF j < i THEN j ELSE j + 1
    OBVIOUS
  <2>1. CASE j < i
    BY <1>1, <1>2, <2>1
  <2>2. CASE ~(j < i)
    <3>1. j + 1 \in 1 .. Len(cs) /\ j + 1 # i
      BY <1>1, <2>2
    <3> QED BY <1>2, <2>2, <3>1
  <2> QED BY <2>1, <2>2
<1>5. \A k \in DOMAIN t : t[k].name # cs[i].name
  BY <1>1, <1>3, <1>4 DEF Distinct
<1>6. ASSUME NEW j \in DOMAIN t, NEW k \in DOMAIN t, t[j].name = t[k].name PROVE j = k
  <2>1. PICK x \in 1 .. Len(cs) : t[j] = cs[x] /\ x = IF j < i THEN j ELSE j + 1
    BY <1>3, <1>4
  <2>2. PICK y \in 1 .. Len(cs) : t[k] = cs[y] /\ y = IF k < i THEN k ELSE k + 1
    BY <1>3, <1>4
  <2>3. x = y
    BY <1>1, <1>6, <2>1, <2>2 DEF Distinct
  <2>4. j \in Nat /\ k \in Nat /\ i \in Nat
    BY <1>1, <1>3
  <2> QED BY <2>1, <2>2, <2>3, <2>4
<1>7. Distinct(t)
  BY <1>6 DEF Distinct
<1> QED BY <1>2, <1>5, <1>7 DEF t

\* A combo that comes has a name that no other has.
LEMMA InsertedNames ==
    ASSUME NEW cs \in Seq(Combo), Distinct(cs), NEW i \in 1 .. Len(cs) + 1, NEW c \in Combo,
           \A k \in DOMAIN cs : cs[k].name # c.name
    PROVE  /\ InsertAt(cs, i, c) \in Seq(Combo) /\ Len(InsertAt(cs, i, c)) = Len(cs) + 1
           /\ Distinct(InsertAt(cs, i, c))
<1> DEFINE t == InsertAt(cs, i, c)
<1>1. i \in Nat /\ Len(cs) \in Nat /\ DOMAIN cs = 1 .. Len(cs)
  BY ElementOf
<1>2. /\ t \in Seq(Combo) /\ Len(t) = Len(cs) + 1
      /\ \A j \in 1 .. Len(cs) + 1 :
            t[j] = IF j < i THEN cs[j] ELSE IF j = i THEN c ELSE cs[j - 1]
  <2>1. cs \in Seq(Combo) /\ i \in 1 .. Len(cs) + 1 /\ c \in Combo
    OBVIOUS
  <2> HIDE DEF t
  <2>2. InsertAt(cs, i, c) \in Seq(Combo) /\ HasInserted(InsertAt(cs, i, c), cs, i, c)
    BY <2>1, InsertAtFacts
  <2> QED BY <2>2 DEF t, HasInserted
<1> HIDE DEF t
<1>3. DOMAIN t = 1 .. Len(cs) + 1
  BY <1>2, ElementOf
<1>4. \A j \in 1 .. Len(cs) + 1 :
          \/ j = i /\ t[j] = c
          \/ \E x \in 1 .. Len(cs) : /\ t[j] = cs[x] /\ j # i
                                     /\ x = IF j < i THEN j ELSE j - 1
  <2> SUFFICES ASSUME NEW j \in 1 .. Len(cs) + 1, j # i
               PROVE  \E x \in 1 .. Len(cs) : /\ t[j] = cs[x]
                                              /\ x = IF j < i THEN j ELSE j - 1
    BY <1>2
  <2>1. CASE j < i
    <3>1. j \in 1 .. Len(cs)
      BY <1>1, <2>1
    <3> QED BY <1>2, <2>1, <3>1
  <2>2. CASE ~(j < i)
    <3>1. j - 1 \in 1 .. Len(cs)
      BY <1>1, <2>2
    <3> QED BY <1>2, <2>2, <3>1
  <2> QED BY <2>1, <2>2
<1>5. ASSUME NEW j \in DOMAIN t, NEW k \in DOMAIN t, t[j].name = t[k].name PROVE j = k
  <2>0. \A n \in DOMAIN t : n = i \/ t[n].name # c.name
    BY <1>1, <1>3, <1>4
  <2>9. t[i].name = c.name
    BY <1>3, <1>4
  <2>1. CASE j = i
    BY <1>5, <2>0, <2>1, <2>9
  <2>2. CASE k = i
    BY <1>5, <2>0, <2>2, <2>9
  <2>3. CASE j # i /\ k # i
    <3>1. PICK x \in 1 .. Len(cs) : t[j] = cs[x] /\ x = IF j < i THEN j ELSE j - 1
      BY <1>3, <1>4, <2>3
    <3>2. PICK y \in 1 .. Len(cs) : t[k] = cs[y] /\ y = IF k < i THEN k ELSE k - 1
      BY <1>3, <1>4, <2>3
    <3>3. x = y
      BY <1>1, <1>5, <3>1, <3>2 DEF Distinct
    <3>4. j \in Nat /\ k \in Nat
      BY <1>3
    <3> QED BY <1>1, <2>3, <3>1, <3>2, <3>3, <3>4
  <2> QED BY <2>1, <2>2, <2>3
<1>6. Distinct(t)
  BY <1>5 DEF Distinct
<1> QED BY <1>2, <1>6 DEF t

\* The combo that is edited keeps its name.
LEMMA ReplacedNames ==
    ASSUME NEW cs \in Seq(Combo), Distinct(cs), NEW i \in DOMAIN cs, NEW c \in Combo,
           c.name = cs[i].name
    PROVE  /\ [cs EXCEPT ![i] = c] \in Seq(Combo) /\ Len([cs EXCEPT ![i] = c]) = Len(cs)
           /\ Distinct([cs EXCEPT ![i] = c])
<1> DEFINE t == [cs EXCEPT ![i] = c]
<1>1. t \in Seq(Combo) /\ Len(t) = Len(cs)
  BY ReplacedFacts
<1>2. DOMAIN t = DOMAIN cs /\ \A j \in DOMAIN cs : t[j].name = cs[j].name
  OBVIOUS
<1> HIDE DEF t
<1>3. Distinct(t)
  BY <1>2 DEF Distinct
<1> QED BY <1>1, <1>3 DEF t

LEMMA EditListKeeps == ASSUME CombosInv, EditList PROVE CombosInv' /\ StillAsking
<1>1. /\ combos \in Seq(Combo) /\ Distinct(combos)
      /\ sel \in 1 .. Len(combos) \/ (sel = 1 /\ combos = <<>>)
      /\ tabOpen \in BOOLEAN /\ folded \in SUBSET AllGroups
      /\ Len(combos) \in Nat /\ DOMAIN combos = 1 .. Len(combos)
      /\ combos # <<>> => sel \in DOMAIN combos
  BY ListFacts
<1>2. ASSUME NEW i \in DOMAIN combos, Select(i) PROVE CombosInv' /\ StillAsking
  <2>1. UNCHANGED <<combos, tabOpen, folded>> /\ sel' = i /\ Redraw
    BY <1>2 DEF Select
  <2> QED BY <1>1, <2>1, RedrawKeeps
<1>3. CASE SwitchTab
  <2>1. UNCHANGED <<combos, sel, folded>> /\ tabOpen' \in BOOLEAN /\ Redraw
    BY <1>3 DEF SwitchTab
  <2> QED BY <1>1, <2>1, RedrawKeeps
<1>4. ASSUME NEW g \in AllGroups, toggleGroupCollapse(g) PROVE CombosInv' /\ StillAsking
  <2>1. UNCHANGED <<combos, sel, tabOpen>> /\ folded' \in SUBSET AllGroups /\ Redraw
    BY <1>1, <1>4 DEF toggleGroupCollapse
  <2> QED BY <1>1, <2>1, RedrawKeeps
<1>5. ASSUME NEW g \in AllGroups, addCombo(g) PROVE CombosInv' /\ StillAsking
  <2>1. PICK n \in Names :
            /\ \A i \in DOMAIN combos : combos[i].name # n
            /\ combos' = Append(combos, [name |-> n, group |-> g, flag |-> g = "default",
                                         relay |-> FALSE, members |-> <<EmptyMember>>])
    BY <1>5 DEF addCombo
  <2>2. sel' = Len(combos') /\ UNCHANGED <<tabOpen, folded>> /\ Redraw
    BY <1>5 DEF addCombo
  <2> DEFINE c == [name |-> n, group |-> g, flag |-> g = "default",
                   relay |-> FALSE, members |-> <<EmptyMember>>]
  <2>3. c \in Combo /\ c.name = n
    <3>1. <<EmptyMember>> \in Seq(Member) /\ Len(<<EmptyMember>>) = 1 /\ <<EmptyMember>> # <<>>
      BY DEF EmptyMember, Member
    <3>2. <<EmptyMember>> \in BoundedSeq(Member, MaxMembers)
      <4>1. 1 <= MaxMembers
        BY ComboEditorConstants
      <4> QED BY <3>1, <4>1, BoundedAre
    <3> QED BY <3>1, <3>2 DEF Combo
  <2>4. combos' = Append(combos, c)
    BY <2>1
  <2> HIDE DEF c
  <2>5. combos' \in Seq(Combo) /\ Len(combos') = Len(combos) + 1
    BY <1>1, <2>3, <2>4
  <2>6. \A i \in DOMAIN combos' : combos'[i] = IF i = Len(combos) + 1 THEN c ELSE combos[i]
    BY <1>1, <2>3, <2>4
  <2>7. DOMAIN combos' = 1 .. Len(combos) + 1
    BY <2>5, ElementOf
  <2>8. Distinct(combos')
    <3>1. \A i \in DOMAIN combos' : i = Len(combos) + 1 \/ i \in DOMAIN combos
      BY <1>1, <2>7
    <3> QED BY <1>1, <2>1, <2>3, <2>6, <3>1 DEF Distinct
  <2>9. sel' \in 1 .. Len(combos')
    BY <1>1, <2>2, <2>5
  <2> QED BY <1>1, <2>2, <2>5, <2>8, <2>9, RedrawKeeps
<1>6. CASE removeCombo
  <2>1. /\ combos # <<>> /\ combos' = RemoveAt(combos, sel)
        /\ sel' = (IF sel = 1 THEN 1 ELSE sel - 1) /\ UNCHANGED <<tabOpen, folded>> /\ Redraw
    BY <1>6 DEF removeCombo
  <2>2. /\ combos' \in Seq(Combo) /\ Len(combos') = Len(combos) - 1 /\ Distinct(combos')
    BY <1>1, <2>1, RemovedNames
  <2>3. sel' \in 1 .. Len(combos') \/ (sel' = 1 /\ combos' = <<>>)
    <3>1. sel \in 1 .. Len(combos)
      BY <1>1, <2>1
    <3>2. Len(combos') = 0 => combos' = <<>>
      BY <2>2
    <3>3. sel' \in 1 .. Len(combos') \/ (sel' = 1 /\ Len(combos') = 0)
      BY <1>1, <2>1, <2>2, <3>1
    <3> QED BY <3>2, <3>3
  <2> QED BY <1>1, <2>1, <2>2, <2>3, RedrawKeeps
<1>7. ASSUME NEW i \in DOMAIN combos, NEW j \in DOMAIN combos, handleComboReorder(i, j)
      PROVE  CombosInv' /\ StillAsking
  <2> DEFINE g == combos[j].group
             moved == [combos[i] EXCEPT !.group = g, !.flag = g = "default"]
             rest == RemoveAt(combos, i)
  <2>1. /\ combos' = InsertAt(rest, j, moved)
        /\ sel' = j /\ UNCHANGED <<tabOpen, folded>> /\ Redraw
    BY <1>7 DEF handleComboReorder
  <2>2. moved \in Combo /\ moved.name = combos[i].name
    <3>1. combos[i] \in Combo /\ combos[j] \in Combo
      BY <1>1, ElementOf
    <3>2. g \in AllGroups
      BY <3>1, ComboIs
    <3> HIDE DEF g
    <3> QED BY <3>1, <3>2 DEF Combo
  <2>3. /\ rest \in Seq(Combo) /\ Len(rest) = Len(combos) - 1 /\ Distinct(rest)
        /\ \A k \in DOMAIN rest : rest[k].name # combos[i].name
    BY <1>1, RemovedNames
  <2> HIDE DEF rest, moved
  <2>4. j \in 1 .. Len(rest) + 1
    BY <1>1, <2>3
  <2>5. combos' \in Seq(Combo) /\ Len(combos') = Len(rest) + 1 /\ Distinct(combos')
    BY <2>1, <2>2, <2>3, <2>4, InsertedNames
  <2>6. sel' \in 1 .. Len(combos')
    BY <2>1, <2>4, <2>5
  <2> QED BY <1>1, <2>1, <2>5, <2>6, RedrawKeeps
<1> QED BY <1>2, <1>3, <1>4, <1>5, <1>6, <1>7 DEF EditList

\* An edit of the combo that is selected.
LEMMA UpdateKeeps ==
    ASSUME CombosInv, NEW cb, Update(cb), combos # <<>> => cb \in Combo /\ cb.name = Current.name
    PROVE  CombosInv' /\ StillAsking
<1>1. /\ combos \in Seq(Combo) /\ Distinct(combos) /\ combos # <<>> /\ sel \in DOMAIN combos
      /\ tabOpen \in BOOLEAN /\ folded \in SUBSET AllGroups /\ sel \in 1 .. Len(combos)
  BY ListFacts DEF Update
<1>2. combos' = [combos EXCEPT ![sel] = cb] /\ UNCHANGED <<sel, tabOpen, folded>> /\ Redraw
  BY <1>1 DEF Update, updateCombo
<1>3. cb.name = combos[sel].name /\ cb \in Combo
  BY <1>1 DEF Current
<1>4. combos' \in Seq(Combo) /\ Len(combos') = Len(combos) /\ Distinct(combos')
  BY <1>1, <1>2, <1>3, ReplacedNames
<1> QED BY <1>1, <1>2, <1>4, RedrawKeeps

LEMMA UpdateMembersKeeps ==
    ASSUME CombosInv, NEW ms, UpdateMembers(ms), combos # <<>> => MembersOK(ms)
    PROVE  CombosInv' /\ StillAsking
<1>1. combos # <<>> => Current \in Combo
  BY ListFacts
<1>2. combos # <<>> => /\ [Current EXCEPT !.members = ms] \in Combo
                       /\ [Current EXCEPT !.members = ms].name = Current.name
  BY <1>1, WithMembers
<1> QED BY <1>2, UpdateKeeps DEF UpdateMembers

LEMMA EditComboKeeps ==
    ASSUME CombosInv, EditCombo, combos # <<>> PROVE CombosInv' /\ StillAsking
<1>1. Current \in Combo /\ MembersOK(Members) /\ MaxMembers \in Nat
  BY ListFacts, ComboEditorConstants
<1>2. Members \in Seq(Member) /\ Members # <<>> /\ Len(Members) <= MaxMembers
      /\ Len(Members) \in Nat /\ DOMAIN Members = 1 .. Len(Members)
      /\ EmptyMember \in Member
  BY <1>1 DEF MembersOK, EmptyMember, Member
<1>3. ASSUME NEW g \in AllGroups, SetGroup(g) PROVE CombosInv' /\ StillAsking
  <2> DEFINE b == IF g = "default" THEN TRUE ELSE Current.flag
             cb == [Current EXCEPT !.group = g, !.flag = b]
  <2>1. b \in BOOLEAN
    BY <1>1, ComboIs
  <2>2. Update(cb)
    <3>1. cb = [Current EXCEPT !.group = g, !.flag = IF g = "default" THEN TRUE ELSE @]
      BY <1>1 DEF Combo
    <3> QED BY <1>3, <3>1 DEF SetGroup
  <2> HIDE DEF b
  <2>3. cb \in Combo /\ cb.name = Current.name
    BY <1>1, <2>1 DEF Combo
  <2> HIDE DEF cb
  <2> QED BY <2>2, <2>3, UpdateKeeps
<1>4. CASE ToggleDefault
  <2> DEFINE cb == [Current EXCEPT !.flag = ~Current.flag]
  <2>1. cb = [Current EXCEPT !.flag = ~@]
    BY <1>1 DEF Combo
  <2>2. cb \in Combo /\ cb.name = Current.name
    BY <1>1 DEF Combo
  <2>3. Update(cb)
    BY <1>4, <2>1 DEF ToggleDefault
  <2> HIDE DEF cb
  <2> QED BY <2>2, <2>3, UpdateKeeps
<1>5. CASE ToggleRelay
  <2> DEFINE cb == [Current EXCEPT !.relay = ~Current.relay]
  <2>1. cb = [Current EXCEPT !.relay = ~@]
    BY <1>1 DEF Combo
  <2>2. cb \in Combo /\ cb.name = Current.name
    BY <1>1 DEF Combo
  <2>3. Update(cb)
    BY <1>5, <2>1 DEF ToggleRelay
  <2> HIDE DEF cb
  <2> QED BY <2>2, <2>3, UpdateKeeps
<1>6. CASE AddMember
  <2>1. Len(Members) < MaxMembers /\ UpdateMembers(Append(Members, EmptyMember))
    BY <1>6 DEF AddMember
  <2>2. MembersOK(Append(Members, EmptyMember))
    <3>1. /\ Append(Members, EmptyMember) \in Seq(Member)
          /\ Len(Append(Members, EmptyMember)) = Len(Members) + 1
      BY <1>2
    <3> QED BY <1>1, <1>2, <2>1, <3>1 DEF MembersOK
  <2> QED BY <2>1, <2>2, UpdateMembersKeeps
<1>7. ASSUME NEW r \in RowIndex, RemoveMember(r) PROVE CombosInv' /\ StillAsking
  <2>1. /\ r \in DOMAIN Members /\ Len(Members) > 1 /\ UpdateMembers(RemoveAt(Members, r))
    BY <1>7 DEF RemoveMember, Mounted, Members
  <2>2. /\ RemoveAt(Members, r) \in Seq(Member)
        /\ Len(RemoveAt(Members, r)) = Len(Members) - 1
    BY <1>2, <2>1, RemoveAtFacts
  <2>3. MembersOK(RemoveAt(Members, r))
    <3>1. /\ Len(RemoveAt(Members, r)) > 0 /\ Len(RemoveAt(Members, r)) <= MaxMembers
      BY <1>1, <1>2, <2>1, <2>2
    <3> QED BY <2>2, <3>1 DEF MembersOK
  <2> QED BY <2>1, <2>3, UpdateMembersKeeps
<1>8. ASSUME NEW r \in RowIndex, MoveMember(r) PROVE CombosInv' /\ StillAsking
  <2> DEFINE ms == [Members EXCEPT ![r] = Members[r + 1], ![r + 1] = Members[r]]
  <2>1. r \in DOMAIN Members /\ r + 1 \in DOMAIN Members /\ UpdateMembers(ms)
    BY <1>8 DEF MoveMember, Mounted, Members
  <2>2. Members[r] \in Member /\ Members[r + 1] \in Member
    BY <1>2, <2>1, ElementOf
  <2>3. ms \in Seq(Member) /\ Len(ms) = Len(Members)
    BY <1>2, <2>1, <2>2
  <2> HIDE DEF ms
  <2>4. MembersOK(ms)
    <3>1. Len(ms) > 0
      BY <1>2, <2>3
    <3> QED BY <1>2, <2>3, <3>1 DEF MembersOK
  <2> QED BY <2>1, <2>4, UpdateMembersKeeps
<1>9. ASSUME NEW r \in RowIndex, NEW m \in Models \cup {0}, SetModel(r, m)
      PROVE  CombosInv' /\ StillAsking
  <2> DEFINE x == [Members[r] EXCEPT !.model = m]
             ms == [Members EXCEPT ![r] = x]
  <2>1. r \in DOMAIN Members /\ UpdateMembers([Members EXCEPT ![r].model = m])
    BY <1>9 DEF SetModel, Mounted, Members
  <2>2. ms = [Members EXCEPT ![r].model = m]
    OBVIOUS
  <2>3. x \in Member
    <3>1. Members[r] \in Member
      BY <1>2, <2>1, ElementOf
    <3> QED BY <3>1 DEF Member
  <2> HIDE DEF x
  <2>4. ms \in Seq(Member) /\ Len(ms) = Len(Members)
    BY <1>2, <2>1, <2>3, ReplacedFacts
  <2>5. UpdateMembers(ms)
    BY <2>1, <2>2
  <2> HIDE DEF ms
  <2>6. MembersOK(ms)
    <3>1. Len(ms) > 0
      BY <1>2, <2>4
    <3> QED BY <1>2, <2>4, <3>1 DEF MembersOK
  <2> QED BY <2>5, <2>6, UpdateMembersKeeps
<1> QED BY <1>3, <1>4, <1>5, <1>6, <1>7, <1>8, <1>9 DEF EditCombo
\* The members of a combo with a member's limits and prices changed.
LEMMA WithParamsFacts ==
    ASSUME CombosInv, NEW i, NEW ms, MembersOK(ms), NEW r \in DOMAIN ms, NEW p \in Models \cup {0}
    PROVE  /\ WithParams(i, ms, r, p) \in Seq(Combo)
           /\ Len(WithParams(i, ms, r, p)) = Len(combos) /\ Distinct(WithParams(i, ms, r, p))
<1>1. combos \in Seq(Combo) /\ Distinct(combos)
  BY ListFacts
<1>2. CASE i \notin DOMAIN combos
  BY <1>1, <1>2 DEF WithParams
<1>3. CASE i \in DOMAIN combos
  <2> DEFINE x == [ms[r] EXCEPT !.params = p]
             ns == [ms EXCEPT ![r] = x]
             cb == [combos[i] EXCEPT !.members = ns]
  <2>1. combos[i] \in Combo
    BY <1>1, <1>3, ElementOf
  <2>2. ms[r] \in Member /\ ms \in Seq(Member) /\ Len(ms) <= MaxMembers /\ ms # <<>>
    BY ElementOf DEF MembersOK
  <2>3. x \in Member
    BY <2>2 DEF Member
  <2>4. WithParams(i, ms, r, p) = [combos EXCEPT ![i] = cb]
    BY <1>3 DEF WithParams, updateCombo
  <2> HIDE DEF x
  <2>5. ns \in Seq(Member) /\ Len(ns) = Len(ms)
    BY <2>2, <2>3, ReplacedFacts
  <2> HIDE DEF ns
  <2>6. MembersOK(ns)
    <3>1. Len(ms) \in Nat /\ Len(ms) > 0
      BY <2>2
    <3> QED BY <2>2, <2>5, <3>1 DEF MembersOK
  <2>7. cb \in Combo /\ cb.name = combos[i].name
    BY <2>1, <2>6, WithMembers
  <2> HIDE DEF cb
  <2>8. /\ [combos EXCEPT ![i] = cb] \in Seq(Combo) /\ Len([combos EXCEPT ![i] = cb]) = Len(combos)
        /\ Distinct([combos EXCEPT ![i] = cb])
    BY <1>1, <1>3, <2>7, ReplacedNames
  <2> QED BY <2>4, <2>8
<1> QED BY <1>2, <1>3

\* A step of a row, or of a request of one.
LEMMA RowStepKeeps ==
    ASSUME CombosInv, NEW newRow \in [RowIndex -> RowType], NEW newAsk \in [RowIndex -> AskRec],
           Rerender(newRow, newAsk), \A r \in RowIndex : AskOK(newAsk[r], r, combos),
           combos' \in Seq(Combo), Distinct(combos'), Len(combos') = Len(combos),
           UNCHANGED <<sel, tabOpen, folded>>, clicks' \in 0 .. MaxClicks
    PROVE  CombosInv' /\ \A r \in RowIndex : newAsk[r] # NoAsk => ask'[r] # NoAsk
<1>1. sel' \in 1 .. Len(combos') \/ (sel' = 1 /\ combos' = <<>>)
  BY ListFacts
<1>2. tabOpen \in BOOLEAN /\ folded \in SUBSET AllGroups
  BY ListFacts
<1>3. ListOK'
  BY <1>1, <1>2 DEF ListOK, Distinct
<1> QED BY <1>3, RerenderKeeps

\* The requests as they are.
LEMMA AsksAre ==
    ASSUME CombosInv
    PROVE  /\ ask \in [RowIndex -> AskRec] /\ \A r \in RowIndex : AskOK(ask[r], r, combos)
           /\ rowState \in [RowIndex -> RowType]
           /\ \A r \in RowIndex : rowState[r] \in RowType /\ ask[r] \in AskRec
           /\ clicks \in 0 .. MaxClicks
  BY DEF CombosInv, ListOK, AsksOK

LEMMA UseRowKeeps ==
    ASSUME CombosInv, NEW r \in RowIndex, UseRow(r) PROVE CombosInv' /\ StillAsking
<1>1. /\ ask \in [RowIndex -> AskRec] /\ \A q \in RowIndex : AskOK(ask[q], q, combos)
      /\ rowState \in [RowIndex -> RowType] /\ rowState[r] \in RowType
  BY AsksAre
<1>2. combos # <<>> /\ r \in DOMAIN Members /\ clicks' \in 0 .. MaxClicks
  BY ClickFacts DEF UseRow, clearParams, suggest, applyEntry, Mounted, Members, CombosInv
<1>3. /\ combos \in Seq(Combo) /\ Distinct(combos) /\ MembersOK(Members) /\ sel \in DOMAIN combos
      /\ Current \in Combo /\ Len(combos) \in Nat /\ DOMAIN combos = 1 .. Len(combos)
  BY <1>2, ListFacts
<1>4. CASE clearParams(r) \/ \E m \in Models : applyEntry(r, m)
  <2>1. PICK p \in Models \cup {0} : combos' = WithParams(sel, Members, r, p)
    BY <1>4 DEF clearParams, applyEntry
  <2> DEFINE row0 == [rowState EXCEPT ![r].hits = 0]
  <2>2. UNCHANGED <<sel, tabOpen, folded>> /\ Rerender(row0, ask)
    BY <1>4 DEF clearParams, applyEntry
  <2>3. row0 \in [RowIndex -> RowType]
    <3> DEFINE x == [rowState[r] EXCEPT !.hits = 0]
    <3>1. x \in RowType
      BY <1>1 DEF RowType
    <3>2. row0 = [rowState EXCEPT ![r] = x]
      OBVIOUS
    <3> HIDE DEF x
    <3> QED BY <1>1, <3>1, <3>2
  <2> HIDE DEF row0
  <2>4. combos' \in Seq(Combo) /\ Distinct(combos') /\ Len(combos') = Len(combos)
    BY <1>2, <1>3, <2>1, WithParamsFacts
  <2> QED BY <1>1, <1>2, <2>2, <2>3, <2>4, RowStepKeeps DEF StillAsking
<1>5. CASE suggest(r)
  <2> DEFINE row1 == [rowState EXCEPT ![r].busy = TRUE]
             a == [at |-> sel, members |-> Members, name |-> Current.name, live |-> TRUE,
                   quiet |-> TRUE]
             ask1 == [ask EXCEPT ![r] = a]
  <2>1. /\ UNCHANGED <<combos, sel, tabOpen, folded>> /\ Rerender(row1, ask1)
        /\ ask[r] = NoAsk
    BY <1>5 DEF suggest
  <2>2. row1 \in [RowIndex -> RowType]
    <3> DEFINE x == [rowState[r] EXCEPT !.busy = TRUE]
    <3>1. x \in RowType
      BY <1>1 DEF RowType
    <3>2. row1 = [rowState EXCEPT ![r] = x]
      OBVIOUS
    <3> HIDE DEF x
    <3> QED BY <1>1, <3>1, <3>2
  <2>3. a \in AskRec
    <3>1. Members \in BoundedSeq(Member, MaxMembers)
      BY <1>3, BoundedAre DEF MembersOK
    <3>2. sel \in 0 .. Len(NameSeq)
      <4>1. Len(combos) <= Len(NameSeq) /\ Len(NameSeq) \in Nat
        BY <1>3, NamesSuffice, NamesAre
      <4> QED BY <1>3, <4>1
    <3>3. Current.name \in Names
      BY <1>3, ComboIs
    <3> QED BY <3>1, <3>2, <3>3 DEF AskRec
  <2>4. AskOK(a, r, combos)
    <3>1. a.at # 0 /\ a.at \in DOMAIN combos
      BY <1>3
    <3>2. combos[a.at].name = a.name /\ combos[a.at].members = a.members
      BY DEF Current, Members
    <3> QED BY <1>2, <1>3, <3>1, <3>2 DEF AskOK
  <2> HIDE DEF row1, a
  <2>5. ask1 \in [RowIndex -> AskRec] /\ \A q \in RowIndex : AskOK(ask1[q], q, combos)
    BY <1>1, <2>3, <2>4
  <2>6. \A q \in RowIndex : ask[q] # NoAsk => ask1[q] # NoAsk
    BY <1>1, <2>1
  <2> HIDE DEF ask1
  <2>7. Distinct(combos') /\ combos' \in Seq(Combo) /\ Len(combos') = Len(combos)
    BY <1>3, <2>1
  <2> QED BY <1>2, <2>1, <2>2, <2>5, <2>6, <2>7, RowStepKeeps DEF StillAsking
<1> QED BY <1>4, <1>5 DEF UseRow

\* A request that is answered is over, the others are not.
LEMMA AnsweredKeeps ==
    ASSUME CombosInv, NEW r \in RowIndex, SuggestAnswered(r)
    PROVE  CombosInv' /\ \A q \in RowIndex : q # r /\ ask[q] # NoAsk => ask'[q] # NoAsk
<1>1. /\ ask \in [RowIndex -> AskRec] /\ \A q \in RowIndex : AskOK(ask[q], q, combos)
      /\ rowState \in [RowIndex -> RowType] /\ rowState[r] \in RowType
      /\ clicks \in 0 .. MaxClicks
  BY AsksAre
<1>2. ask[r] # NoAsk /\ UNCHANGED <<sel, tabOpen, folded, clicks>>
  BY DEF SuggestAnswered, SuggestApplied, SuggestOffered, SuggestEmpty, SuggestFails
<1>3. MembersOK(ask[r].members) /\ r \in DOMAIN ask[r].members
  BY <1>1, <1>2 DEF AskOK
<1>4. ask[r].members[r].model \in Models \cup {0}
  <2>1. ask[r].members[r] \in Member
    BY <1>3, ElementOf DEF MembersOK
  <2> QED BY <2>1 DEF Member
<1>5. combos' \in Seq(Combo) /\ Distinct(combos') /\ Len(combos') = Len(combos)
  <2>1. CASE SuggestApplied(r)
    <3>1. combos' = WithParams(ask[r].at, ask[r].members, r, ask[r].members[r].model)
      BY <2>1 DEF SuggestApplied, AnsweredIndex
    <3> QED BY <1>3, <1>4, <3>1, WithParamsFacts
  <2>2. CASE combos' = combos
    BY <2>2, ListFacts
  <2> QED BY <2>1, <2>2 DEF SuggestAnswered, SuggestOffered, SuggestEmpty, SuggestFails
<1>6. PICK newRow \in [RowIndex -> RowType] : Rerender(newRow, [ask EXCEPT ![r] = NoAsk])
  <2>1. ASSUME NEW new \in RowType PROVE TellRow(r, new) \in [RowIndex -> RowType]
    BY <1>1 DEF TellRow
  <2>2. CASE SuggestApplied(r)
    <3>1. FreshRow \in RowType
      BY DEF FreshRow, RowType
    <3> QED BY <2>1, <2>2, <3>1 DEF SuggestApplied
  <2>3. CASE SuggestOffered(r)
    <3>1. [busy |-> FALSE, hits |-> ask[r].members[r].model] \in RowType
      BY <1>4 DEF RowType
    <3> QED BY <2>1, <2>3, <3>1 DEF SuggestOffered
  <2>4. CASE SuggestEmpty(r)
    BY <1>1, <2>4 DEF SuggestEmpty
  <2>5. CASE SuggestFails(r)
    <3>1. [rowState[r] EXCEPT !.busy = FALSE] \in RowType
      BY <1>1 DEF RowType
    <3> QED BY <2>1, <2>5, <3>1 DEF SuggestFails
  <2> QED BY <2>2, <2>3, <2>4, <2>5 DEF SuggestAnswered
<1> DEFINE ask1 == [ask EXCEPT ![r] = NoAsk]
<1>7. /\ ask1 \in [RowIndex -> AskRec] /\ \A q \in RowIndex : AskOK(ask1[q], q, combos)
      /\ \A q \in RowIndex : q # r => ask1[q] = ask[q]
  BY <1>1, AskTypes DEF AskOK
<1>8. Rerender(newRow, ask1)
  BY <1>6
<1> HIDE DEF ask1
<1>9. clicks' \in 0 .. MaxClicks
  BY <1>1, <1>2
<1>10. CombosInv' /\ \A q \in RowIndex : ask1[q] # NoAsk => ask'[q] # NoAsk
  BY <1>2, <1>5, <1>7, <1>8, <1>9, RowStepKeeps
<1> QED BY <1>7, <1>10

\* What is applied when nothing has been edited goes to the member that it was
\* asked for.
LEMMA QuietAnswerIsLocal ==
    ASSUME CombosInv, NEW r \in RowIndex, SuggestAnswered(r), ask[r].quiet,
           NEW i \in DOMAIN combos
    PROVE  IF combos[i].name = ask[r].name
           THEN combos'[i] = combos[i] \/
                combos'[i] = [combos[i] EXCEPT !.members[r].params = combos[i].members[r].model]
           ELSE combos'[i] = combos[i]
<1>1. CASE combos' = combos
  BY <1>1
<1>2. CASE SuggestApplied(r)
  <2> DEFINE a == ask[r].at
             ms == combos[a].members
             cb == [combos[a] EXCEPT !.members = [ms EXCEPT ![r].params = ms[r].model]]
  <2>1. /\ a \in DOMAIN combos /\ combos[a].name = ask[r].name
        /\ combos[a].members = ask[r].members
    BY <1>2, AsksAre DEF SuggestApplied, AskOK
  <2>2. combos' = [combos EXCEPT ![a] = cb]
    BY <1>2, <2>1 DEF SuggestApplied, AnsweredIndex, WithParams, updateCombo
  <2>3. i # a => combos'[i] = combos[i]
    <3> HIDE DEF a, cb
    <3> QED BY <2>2
  <2>4. i = a => combos'[i] = [combos[i] EXCEPT !.members[r].params = combos[i].members[r].model]
    <3>1. i = a => combos'[i] = cb
      <4> HIDE DEF a, cb
      <4> QED BY <2>1, <2>2
    <3> QED BY <3>1
  <2>5. combos[i].name = ask[r].name <=> i = a
    BY <2>1, ListFacts DEF Distinct
  <2> HIDE DEF a, cb
  <2> QED BY <2>3, <2>4, <2>5
<1> QED BY <1>1, <1>2 DEF SuggestAnswered, SuggestOffered, SuggestEmpty, SuggestFails

\* The combos tab: its invariant, and that every request that ends is answered.
LEMMA CombosKept ==
    ASSUME CombosInv, [ComboEditorNext]_comboVars
    PROVE  /\ CombosInv'
           /\ \A r \in RowIndex : ask[r] # NoAsk /\ ask'[r] = NoAsk => SuggestAnswered(r)
<1>1. CASE UNCHANGED comboVars
  <2>1. UNCHANGED <<combos, sel, tabOpen, folded, rowState, ask, clicks>>
    BY <1>1 DEF comboVars
  <2> QED BY <2>1 DEF CombosInv, ListOK, AsksOK
<1>2. CASE EditList
  BY <1>2, EditListKeeps DEF StillAsking
<1>3. CASE EditDetail
  BY <1>3, EditComboKeeps, UseRowKeeps DEF EditDetail, StillAsking
<1>4. ASSUME NEW r \in RowIndex, SuggestAnswered(r)
      PROVE  /\ CombosInv'
             /\ \A q \in RowIndex : ask[q] # NoAsk /\ ask'[q] = NoAsk => SuggestAnswered(q)
  BY <1>4, AnsweredKeeps
<1> QED BY <1>1, <1>2, <1>3, <1>4 DEF ComboEditorNext

LEMMA CombosSafe == CombosInv => ComboEditorTypeOK
<1> SUFFICES ASSUME CombosInv PROVE ComboEditorTypeOK
  OBVIOUS
<1>1. \A i \in DOMAIN combos : combos[i] \in Combo
  BY ListFacts, ElementOf
<1>2. IsInjective([i \in DOMAIN combos |-> combos[i].name])
  BY ListFacts DEF Distinct, IsInjective
<1>3. rowState \in [RowIndex -> [busy: BOOLEAN, hits: Models \cup {0}]]
  BY AsksAre DEF RowType
<1>4. \A r \in RowIndex : ask[r].at \in 0 .. Len(NameSeq) /\ ask[r].name \in Names
  <2>1. \A r \in RowIndex : ask[r] \in AskRec
    BY AsksAre
  <2> QED BY <2>1 DEF AskRec
<1> QED BY <1>1, <1>2, <1>3, <1>4, ListFacts, AsksAre DEF ComboEditorTypeOK

-----------------------------------------------------------------------------
(* The console.                                                            *)

ConsoleInv ==
    /\ open \in Pages
    /\ CombosInv
    /\ EditorInv
    /\ TokensInv
    /\ LoadsInv
    /\ ToolsInv
    /\ TestInv

LEMMA ConsoleInitially == Init => ConsoleInv
  BY CombosInitially, EditorInitially, TokensInitially, LoadsInitially, ToolsInitially,
     TestInitially
  DEF Init, ConsoleInv

\* Every step is one of at most one page, and none of the others.
LEMMA StepsOfPages ==
    ASSUME [Next]_consoleVars
    PROVE  /\ [ComboEditorNext]_comboVars /\ [McpEditorNext]_mcpVars
           /\ [UserTokensNext]_tokenVars /\ [PageLoadsNext]_loadVars
           /\ [McpPlaygroundNext]_playVars /\ [PlaygroundNext]_tryVars
           /\ open' = open
<1>1. CASE OnConfig
  BY <1>1 DEF OnConfig
<1>2. CASE OnMcpConfig
  BY <1>2 DEF OnMcpConfig
<1>3. CASE OnMcpTokens
  BY <1>3 DEF OnMcpTokens
<1>4. CASE OnLists(PageLoadsNext)
  BY <1>4 DEF OnLists
<1>5. CASE OnMcpTest
  BY <1>5 DEF OnMcpTest
<1>6. CASE OnTest
  BY <1>6 DEF OnTest
<1>7. CASE UNCHANGED consoleVars
  BY <1>7 DEF consoleVars
<1> QED BY <1>1, <1>2, <1>3, <1>4, <1>5, <1>6, <1>7 DEF Next

LEMMA ConsoleKept == ConsoleInv /\ [Next]_consoleVars => ConsoleInv'
<1> SUFFICES ASSUME ConsoleInv, [Next]_consoleVars PROVE ConsoleInv'
  OBVIOUS
<1>1. CombosInv' /\ EditorInv' /\ TokensInv' /\ LoadsInv' /\ ToolsInv' /\ TestInv'
  BY StepsOfPages, CombosKept, EditorKept, TokensKept, LoadsKept, ToolsKept, TestKept
  DEF ConsoleInv
<1>2. open' \in Pages
  BY StepsOfPages DEF ConsoleInv
<1> QED BY <1>1, <1>2 DEF ConsoleInv

\* The invariants of all the pages hold together.
THEOREM ConsoleInvariant == Spec => []ConsoleInv
<1> QED BY ConsoleInitially, ConsoleKept, PTL DEF Spec

\* Every page keeps to its types: what is selected is in the list, names stay
\* different, no more is under way than is allowed for (the pages of the Web UI).
THEOREM ConsoleTypeCorrect == Spec => []TypeOK
<1>1. ConsoleInv => TypeOK
  BY CombosSafe, EditorSafe, TokensSafe, LoadsSafe, ToolsSafe, TestSafe DEF ConsoleInv, TypeOK
<1> QED BY <1>1, ConsoleInvariant, PTL

\* Once a save of the MCP page has gone through, the gateway isolates and lets
\* through what the page showed, the lists apart that were empty or mixed, and
\* until it is edited the page shows what runs (McpConfig.tsx, config/build.go
\* and mcp/gateway/combo.go).
THEOREM SavedPageIsObeyed == Spec => []ShownIsWhatRuns
<1>1. ConsoleInv => ShownIsWhatRuns
  BY EditorSafe DEF ConsoleInv
<1> QED BY <1>1, ConsoleInvariant, PTL

\* At rest, the refresh token in the table is the one that the upstream accepts,
\* as long as no two of its users overlapped and no result was lost
\* (auth.Manager).
THEOREM RefreshTokenSurvives == Spec => []RefreshTokenKept
<1>1. ConsoleInv => RefreshTokenKept
  BY TokensSafe DEF ConsoleInv
<1> QED BY <1>1, ConsoleInvariant, PTL

\* A token that is revoked comes back without a new authorisation only by a
\* refresh that had read it before (ResolveCredential and the page of tokens).
THEOREM OnlyRefreshRevives == Spec => []RevivedOnlyByRefresh
<1>1. ConsoleInv => RevivedOnlyByRefresh
  BY TokensSafe DEF ConsoleInv
<1> QED BY <1>1, ConsoleInvariant, PTL

\* A page with nothing under way and no loads crossed says that something failed
\* or shows the rows of its query (the pages of the Web UI that load).
THEOREM QuietPagesShowTheirQuery == Spec => []QuietPageShowsItsQuery
<1>1. ConsoleInv => QuietPageShowsItsQuery
  BY LoadsSafe DEF ConsoleInv
<1> QED BY <1>1, ConsoleInvariant, PTL

\* A tool is called of the combo that has listed it, unless a load of tools was
\* under way or two had crossed, and a result stands under its own tool and
\* combo, unless the page moved on meanwhile (McpTest.tsx).
THEOREM ToolsAreOfTheCombo == Spec => []ToolOfShownCombo
<1>1. ConsoleInv => ToolOfShownCombo
  BY ToolsSafe DEF ConsoleInv
<1> QED BY <1>1, ConsoleInvariant, PTL

\* What the test page sends is resolved to one combo, which takes its format and
\* its upstream model, unless the identifier is mistaken or overtaken (Test.tsx,
\* router.go and config.go).
THEOREM TestRequestsAreTaken == Spec => []FormatAccepted
<1>1. ConsoleInv => FormatAccepted
  BY TestSafe DEF ConsoleInv
<1> QED BY <1>1, ConsoleInvariant, PTL

\* An entry that arrives when nothing was edited since it was asked for changes
\* the member it was asked for and nothing else (ConfigEditor.tsx).
THEOREM SuggestionsAreLocal == Spec => QuietSuggestionIsLocal
<1>1. ASSUME ConsoleInv, [Next]_consoleVars
      PROVE  [\A r \in RowIndex : (ask[r] # NoAsk /\ ask[r].quiet /\ ask'[r] = NoAsk) =>
                 \A i \in DOMAIN combos :
                     IF combos[i].name = ask[r].name
                     THEN combos'[i] = combos[i] \/
                          combos'[i] = [combos[i] EXCEPT !.members[r].params =
                                            combos[i].members[r].model]
                     ELSE combos'[i] = combos[i]]_comboVars
  <2>1. /\ CombosInv
        /\ \A r \in RowIndex : ask[r] # NoAsk /\ ask'[r] = NoAsk => SuggestAnswered(r)
    BY <1>1, StepsOfPages, CombosKept DEF ConsoleInv
  <2> QED BY <2>1, QuietAnswerIsLocal
<1> QED BY <1>1, ConsoleInvariant, PTL DEF Spec, QuietSuggestionIsLocal
=============================================================================

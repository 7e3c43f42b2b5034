--------------------------- MODULE McpClientProofs ---------------------------
(***************************************************************************)
(* Theorems about StdioClient: its type invariant, that no call is         *)
(* forgotten and no send blocks, that a retry never runs a request twice,  *)
(* and when a caller may be told that the server is not initialized.       *)
(***************************************************************************)
EXTENDS StdioClient, TLAPS

(* One channel, one answer: an id that is registered belongs to a call     *)
(* that has got nothing yet, and the reader holds none of them.            *)
Registered ==
    /\ pending # {} => running
    /\ \A c, d \in Callers : (call[c].id \in {call[d].id, call[d].earlier} /\ call[c].id # 0) => c = d
    /\ \A c \in Callers : call[c].id \in pending => call[c].pc \in {"write", "wait"} /\ chan[c] = "empty"
    /\ hand.id \notin pending
    /\ \A c \in Callers : (At(c, "wait") /\ call[c].id = hand.id) => chan[c] = "empty"
    /\ \A c \in Callers : call[c].pc \in {"write", "wait"} => call[c].id \notin {0, call[c].earlier}
    /\ \A c \in Callers : At(c, "write") => chan[c] \in {"empty", "exited"}

(* What is known of a request that was refused.                            *)
Unread(id) == id \notin ran /\ \A r \in input : r.id # id

(* A request is written once, is answered once, and was not carried out    *)
(* when it was refused.                                                    *)
Once ==
    /\ \A r \in input : r.id \notin ran
    /\ \A r, s \in input : r.id = s.id => r = s
    /\ \A a \in output \cup {hand} :
          /\ \A r \in input : r.id # a.id
          /\ a.answer = "notInitialized" => a.id \notin ran
    /\ \A c \in Callers :
          /\ Unread(call[c].earlier)
          /\ At(c, "write") => /\ Unread(call[c].id)
                               /\ \A a \in output \cup {hand} : a.id # call[c].id
          /\ At(c, "reset") => Unread(call[c].id)
          /\ (At(c, "wait") /\ chan[c] = "notInitialized") => Unread(call[c].id)
          /\ (At(c, "wait") /\ initMu # c) =>
                 \A r \in input : r.id = call[c].id => r.method = "call"

(* Only the holder of initMu sets initRes; who makes a request without it  *)
(* calls a tool.                                                           *)
Locked ==
    /\ initMu # Nobody => ~initRes
    /\ \A c \in Callers : /\ initMu = c => call[c].pc \in {"send", "write", "wait", "notify", "set"}
                          /\ call[c].pc \in {"notify", "set"} => initMu = c
                          /\ call[c].pc \in {"check", "send", "write", "wait", "reset"} =>
                                 initMu = c \/ call[c].method = "call"

(* The process in use was initialized; it may have ended since.            *)
Current == served \/ (running /\ ~alive)

Answered(c) == initMu = c /\ (call[c].pc \in {"notify", "set"} \/ (At(c, "wait") /\ chan[c] = "ok"))

(* A call that found the client initialized, no process having exited      *)
(* since it began.                                                         *)
Past(c) ==
    /\ call[c].begun = exits /\ ~At(c, "idle")
    /\ call[c].attempt = 2 \/ (initMu # c /\ call[c].pc \in {"send", "write", "wait", "reset"})

Sending(c) == initMu # c /\ call[c].pc \in {"send", "write", "wait"}

(* Under such a call no handshake is left over from an earlier process, so *)
(* its second request meets a server that is initialized.                  *)
NoneLeftOver(c) == Past(c) => \A d \in Callers : Answered(d) => Current
SecondIsServed(c) ==
    (Past(c) /\ call[c].attempt = 2) =>
        /\ initRes => Current
        /\ Sending(c) => Current
        /\ (At(c, "wait") /\ initMu # c) =>
              /\ chan[c] # "notInitialized"
              /\ \A a \in output \cup {hand} : a.id = call[c].id => a.answer # "notInitialized"
Refused(c) == call[c].refused => exits > call[c].begun

Process ==
    /\ (served => alive) /\ (alive => running)
    /\ running \/ (hand = NoAnswer /\ output = {})
    /\ \A a \in output \cup {hand} : a.answer = "ok" => Current

StdioInv ==
    /\ TypeOK /\ Registered /\ Once /\ Locked /\ Process
    /\ \A c \in Callers : NoneLeftOver(c) /\ SecondIsServed(c) /\ Refused(c)

Record == [pc : {"idle", "check", "lock", "send", "write", "wait", "reset", "notify", "set"},
           method : {"initialize", "call"}, attempt : {1, 2},
           id : 0 .. seq, earlier : 0 .. seq, begun : 0 .. exits, refused : BOOLEAN]

----------------------------------------------------------------------------
(* What a step may do to the process, besides reading and writing: start   *)
(* it when there is none, or end it.                                       *)
ProcessGoesOn ==
    /\ running' \in BOOLEAN /\ alive' \in BOOLEAN /\ reading' \in BOOLEAN /\ served' \in BOOLEAN
    /\ input' \subseteq input /\ output' \subseteq output
    /\ running => running'
    /\ Current => Current'
    /\ Process'

LEMMA ProcessStays ==
    ASSUME StdioInv, UNCHANGED <<procVars, hand>>
    PROVE  ProcessGoesOn
  BY DEF StdioInv, TypeOK, Process, Current, ProcessGoesOn, procVars

LEMMA ProcessStarts ==
    ASSUME StdioInv, HaveProcess \/ NoProcess, UNCHANGED hand
    PROVE  ProcessGoesOn /\ initRes' \in BOOLEAN /\ (initRes' => initRes)
<1>1. CASE UNCHANGED <<procVars, initRes>>
  <2>1. initRes' = initRes /\ initRes \in BOOLEAN /\ UNCHANGED <<procVars, hand>>
    BY <1>1 DEF StdioInv, TypeOK
  <2> QED BY <2>1, ProcessStays
<1>2. CASE ~UNCHANGED <<procVars, initRes>>
  <2>1. /\ ~running /\ running' = TRUE /\ alive' = TRUE /\ reading' = TRUE /\ served' = FALSE
        /\ input' = {} /\ output' = {} /\ initRes' = FALSE
    BY <1>2 DEF HaveProcess, NoProcess
  <2>2. ~Current /\ hand = NoAnswer
    BY <2>1 DEF StdioInv, TypeOK, Process, Current
  <2>3. Process'
    BY <2>1, <2>2 DEF Process, NoAnswer
  <2> QED BY <2>1, <2>2, <2>3 DEF ProcessGoesOn
<1> QED BY <1>1, <1>2

LEMMA ProcessDies ==
    ASSUME StdioInv, running, Dies, UNCHANGED hand
    PROVE  ProcessGoesOn
  BY DEF StdioInv, TypeOK, Process, Current, ProcessGoesOn, Dies

(* Steps of a caller that leave the channels alone.                        *)
LEMMA CallerAlone ==
    ASSUME StdioInv, NEW c \in Callers,
           ProcessGoesOn, UNCHANGED <<hand, seq, chan, exits, ran>>,
           pending' \subseteq pending, initMu' \in Callers \cup {Nobody}, initRes' \in BOOLEAN,
           closed' \in BOOLEAN, calls' \in Nat, call' \in [Callers -> Record],
           \A d \in Callers : d # c => call'[d] = call[d] /\ (initMu' = d <=> initMu = d),
           call'[c].id \in {0, call[c].id} \ pending', call'[c].pc \notin {"write", "wait"},
           call'[c].earlier \in {0, call[c].earlier, call[c].id},
           Unread(call'[c].earlier), call'[c].pc = "reset" => Unread(call'[c].id),
           Locked',
           Answered(c)' => \A d \in Callers : Past(d) => Current,
           initRes' => initRes \/ \A d \in Callers : Past(d) => Current,
           NoneLeftOver(c)', SecondIsServed(c)', Refused(c)'
    PROVE  StdioInv'
<1> USE DEF StdioInv
<1>1. /\ input' \subseteq input /\ output' \subseteq output
      /\ UNCHANGED <<hand, seq, chan, exits, ran>>
  BY DEF ProcessGoesOn
<1>2. TypeOK'
  BY <1>1 DEF TypeOK, Record, ProcessGoesOn
<1>3. Registered'
  BY <1>1 DEF Registered, At, ProcessGoesOn
<1>4. Once'
  BY <1>1 DEF Once, At, Unread
<1>5. Process' /\ (Current => Current')
  BY DEF ProcessGoesOn
<1>6. ASSUME NEW d \in Callers
      PROVE  NoneLeftOver(d)' /\ SecondIsServed(d)' /\ Refused(d)'
  <2>1. CASE d = c
    BY <2>1
  <2>2. CASE d # c
    <3>1. (Past(d)' <=> Past(d)) /\ (Sending(d)' <=> Sending(d)) /\ (At(d, "wait")' <=> At(d, "wait"))
          /\ call'[d] = call[d] /\ (initMu' = d <=> initMu = d)
      BY <1>1, <2>2 DEF Past, Sending, At
    <3>2. \A e \in Callers : e # c => (Answered(e)' <=> Answered(e))
      BY <1>1 DEF Answered, At
    <3>3. NoneLeftOver(d)'
      BY <1>5, <3>1, <3>2 DEF NoneLeftOver
    <3>4. SecondIsServed(d)'
      BY <1>1, <1>5, <3>1 DEF SecondIsServed
    <3>5. Refused(d)'
      BY <1>1, <3>1 DEF Refused
    <3> QED BY <3>3, <3>4, <3>5
  <2> QED BY <2>1, <2>2
<1> QED BY <1>2, <1>3, <1>4, <1>5, <1>6

(* What is known of the call of a caller.                                  *)
LEMMA CallTypes ==
    ASSUME StdioInv, NEW c \in Callers
    PROVE  /\ call \in [Callers -> Record] /\ call[c] \in Record /\ seq \in Nat /\ exits \in Nat
           /\ call[c].begun \in 0 .. exits /\ call[c].id \in 0 .. seq /\ call[c].earlier \in 0 .. seq
           /\ c # Nobody /\ pending \subseteq 1 .. seq
  BY CallersAssumption DEF StdioInv, TypeOK, Record

LEMMA BeginKeeps ==
    ASSUME StdioInv, NEW c \in Callers, NEW method \in {"initialize", "call"}, Begin(c, method)
    PROVE  StdioInv'
<1> DEFINE new == Call(IF method = "call" THEN "check" ELSE "lock", method)
<1>1. /\ At(c, "idle") /\ call' = [call EXCEPT ![c] = new] /\ calls' = calls + 1
      /\ UNCHANGED <<procVars, hand, seq, chan, exits, ran>>
      /\ UNCHANGED <<pending, initMu, initRes, closed>>
  BY DEF Begin
<1>2. /\ new \in Record /\ new.id = 0 /\ new.earlier = 0 /\ ~new.refused /\ new.attempt = 1
      /\ new.pc \in {"check", "lock"} /\ (new.pc = "check" => new.method = "call")
  BY CallTypes DEF Record, Call
<1> HIDE DEF new
<1>3. /\ \A d \in Callers : d # c => call'[d] = call[d]
      /\ call'[c] = new /\ call' \in [Callers -> Record]
  BY <1>1, <1>2, CallTypes
<1>4. Unread(0) /\ 0 \notin pending
  BY DEF StdioInv, TypeOK, Unread
<1>5. Locked' /\ initMu # c
  BY <1>1, <1>2, <1>3 DEF StdioInv, Locked, At
<1>6. NoneLeftOver(c)' /\ SecondIsServed(c)' /\ Refused(c)' /\ ~Answered(c)'
  BY <1>1, <1>2, <1>3, <1>5 DEF NoneLeftOver, SecondIsServed, Refused, Past, Answered, At
<1>7. /\ initMu \in Callers \cup {Nobody} /\ initRes \in BOOLEAN /\ closed \in BOOLEAN /\ calls + 1 \in Nat
  BY DEF StdioInv, TypeOK
<1> QED BY <1>1, <1>2, <1>3, <1>4, <1>5, <1>6, <1>7, ProcessStays, CallerAlone

LEMMA CheckKeeps ==
    ASSUME StdioInv, NEW c \in Callers, Check(c)
    PROVE  StdioInv'
<1>1. /\ At(c, "check") /\ call' = [call EXCEPT ![c].pc = IF initRes THEN "send" ELSE "lock"]
      /\ UNCHANGED <<procVars, hand, seq, chan, exits, ran>>
      /\ UNCHANGED <<pending, initMu, initRes, closed, calls>>
  BY DEF Check, GoTo, history
<1>2. /\ \A d \in Callers : d # c => call'[d] = call[d]
      /\ call'[c] = [call[c] EXCEPT !.pc = IF initRes THEN "send" ELSE "lock"]
      /\ call' \in [Callers -> Record]
  BY <1>1, CallTypes DEF Record
<1>3. /\ call'[c].pc = IF initRes THEN "send" ELSE "lock"
      /\ call'[c].id = call[c].id /\ call'[c].earlier = call[c].earlier /\ call'[c].begun = call[c].begun
      /\ call'[c].attempt = call[c].attempt /\ call'[c].refused = call[c].refused
  BY <1>2, CallTypes DEF Record
<1>4. Unread(call[c].earlier) /\ call[c].id \notin pending
  BY <1>1 DEF StdioInv, Once, Registered, At
<1>5. Locked' /\ initMu # c /\ (initRes => initMu = Nobody)
  BY <1>1, <1>2, <1>3, CallTypes DEF StdioInv, Locked, At
<1>6. ~Answered(c)' /\ Refused(c)' /\ Current' = Current
  BY <1>1, <1>3, <1>5 DEF StdioInv, Answered, Refused, Current, procVars
<1>7. initRes => \A d \in Callers : ~Answered(d)'
  BY <1>1, <1>5, CallTypes DEF Answered
<1>8. \A d \in Callers : Answered(d)' => Answered(d)
  BY <1>1, <1>2, <1>6 DEF Answered, At
<1>9. Past(c)' => initRes \/ Past(c)
  BY <1>1, <1>3 DEF Past, At
<1>10. NoneLeftOver(c)'
  BY <1>6, <1>7, <1>8, <1>9 DEF StdioInv, NoneLeftOver
<1>11. SecondIsServed(c)'
  BY <1>1, <1>3, <1>6 DEF StdioInv, SecondIsServed, Past, Sending, At
<1>12. initMu \in Callers \cup {Nobody} /\ initRes \in BOOLEAN /\ closed \in BOOLEAN /\ calls \in Nat
  BY DEF StdioInv, TypeOK
<1> QED BY <1>1, <1>2, <1>3, <1>4, <1>5, <1>6, <1>10, <1>11, <1>12, ProcessStays, CallerAlone

(* A record stays one when two of its fields change.                       *)
LEMMA EndedIsRecord ==
    ASSUME NEW P, NEW M, NEW A, NEW I, NEW E, NEW G, NEW R, NEW pc \in P, NEW refused \in R,
           NEW r \in [pc : P, method : M, attempt : A, id : I, earlier : E, begun : G, refused : R]
    PROVE  /\ [r EXCEPT !.pc = pc, !.refused = refused] \in
                  [pc : P, method : M, attempt : A, id : I, earlier : E, begun : G, refused : R]
           /\ [r EXCEPT !.pc = pc, !.refused = refused].refused = refused
  OBVIOUS

(* A call that returns.                                                    *)
LEMMA EndKeeps ==
    ASSUME StdioInv, NEW c \in Callers, NEW refused \in BOOLEAN, End(c, refused),
           ProcessGoesOn, UNCHANGED <<hand, seq, chan, exits, ran>>,
           UNCHANGED <<initRes, closed, calls>>,
           pending' \subseteq pending \ {call[c].id},
           refused => exits > call[c].begun
    PROVE  StdioInv'
<1>1. /\ call' = [call EXCEPT ![c].pc = "idle", ![c].refused = refused]
      /\ initMu' = IF initMu = c THEN Nobody ELSE initMu
  BY DEF End, Released, Handshaking
<1>2. /\ \A d \in Callers : d # c => call'[d] = call[d]
      /\ call'[c] = [call[c] EXCEPT !.pc = "idle", !.refused = refused]
      /\ call' \in [Callers -> Record]
  <2> DEFINE ended == [call[c] EXCEPT !.pc = "idle", !.refused = refused]
  <2>1. ended \in Record /\ ended.refused = refused
    <3>1. /\ call[c] \in Record /\ refused \in BOOLEAN
          /\ "idle" \in {"idle", "check", "lock", "send", "write", "wait", "reset", "notify", "set"}
      BY CallTypes
    <3> QED BY ONLY <3>1, EndedIsRecord DEF Record
  <2>2. call' = [call EXCEPT ![c] = ended]
    BY <1>1, CallTypes
  <2> HIDE DEF ended
  <2>3. call'[c] = ended /\ call' \in [Callers -> Record] /\ \A d \in Callers : d # c => call'[d] = call[d]
    BY <2>1, <2>2, CallTypes
  <2> QED BY <2>3 DEF ended
<1>3. /\ call'[c].pc = "idle" /\ call'[c].refused = refused
      /\ call'[c].id = call[c].id /\ call'[c].earlier = call[c].earlier /\ call'[c].begun = call[c].begun
  BY <1>2, CallTypes DEF Record
<1>4. Unread(call[c].earlier) /\ call[c].id \notin pending'
  BY DEF StdioInv, Once
<1>5. Locked' /\ initMu' # c
  BY <1>1, <1>2, <1>3, CallTypes DEF StdioInv, Locked
<1>6. ~Answered(c)' /\ Refused(c)' /\ ~Past(c)'
  BY <1>3, <1>5 DEF Answered, Refused, Past, At
<1>7. NoneLeftOver(c)' /\ SecondIsServed(c)'
  BY <1>6 DEF NoneLeftOver, SecondIsServed
<1>8. /\ initMu \in Callers \cup {Nobody} /\ initRes \in BOOLEAN /\ closed \in BOOLEAN /\ calls \in Nat
  BY DEF StdioInv, TypeOK
<1>9. \A d \in Callers : d # c => (initMu' = d <=> initMu = d)
  BY <1>1, CallTypes
<1>10. initMu' \in Callers \cup {Nobody} /\ pending' \subseteq pending
  BY <1>1, <1>8
<1> QED BY <1>2, <1>3, <1>4, <1>5, <1>6, <1>7, <1>8, <1>9, <1>10, CallerAlone

(* A call that moves on behind the handshake.                              *)
LEMMA InitializedKeeps ==
    ASSUME StdioInv, NEW c \in Callers, Initialized(c),
           UNCHANGED <<procVars, hand, seq, chan, exits, ran>>,
           UNCHANGED <<pending, closed, calls>>, initRes' = TRUE,
           \/ At(c, "lock") /\ initMu = Nobody /\ initRes
           \/ At(c, "set")
    PROVE  StdioInv'
<1>1. /\ initMu' = Nobody /\ (initMu = c \/ (initMu = Nobody /\ initRes))
      /\ call[c].id \notin pending /\ Unread(call[c].earlier)
  <2>1. initMu' = Nobody /\ (initMu = c \/ (initMu = Nobody /\ initRes))
    BY CallTypes DEF StdioInv, Locked, Initialized, End, Released, Handshaking, At
  <2>2. call[c].id \notin pending
    BY DEF StdioInv, Registered, At
  <2>3. Unread(call[c].earlier)
    BY DEF StdioInv, Once
  <2> QED BY <2>1, <2>2, <2>3
<1>2. /\ call' = [call EXCEPT ![c] = call'[c]]
      /\ call'[c] \in Record /\ call'[c].pc \in {"send", "idle"}
      /\ call'[c].id = call[c].id /\ call'[c].earlier = call[c].earlier /\ call'[c].begun = call[c].begun
      /\ call'[c].attempt = call[c].attempt /\ (call'[c].refused => call[c].refused)
      /\ call'[c].pc = "send" => call'[c].method = "call"
  BY CallTypes DEF Initialized, End, GoTo, Record
<1>3. call' \in [Callers -> Record] /\ \A d \in Callers : d # c => call'[d] = call[d]
  BY <1>2, CallTypes
<1>4. \A d \in Callers : ~Answered(d)'
  BY <1>1, CallTypes DEF Answered
<1>5. Current' = Current /\ (\A d \in Callers : d # c => (Past(d)' <=> Past(d)))
  BY <1>1, <1>3, CallTypes DEF Current, procVars, Past, At
<1>6. \A d \in Callers : Past(d) /\ initMu = c => Current
  BY <1>1, CallTypes DEF StdioInv, NoneLeftOver, Answered, At
<1>7. initRes \/ \A d \in Callers : Past(d) => Current
  BY <1>1, <1>6
<1>8. Locked'
  BY <1>1, <1>2, <1>3, CallTypes DEF StdioInv, Locked
<1>9. NoneLeftOver(c)' /\ Refused(c)'
  BY <1>2, <1>4 DEF StdioInv, NoneLeftOver, Refused
<1>10. SecondIsServed(c)'
  <2>1. Past(c)' /\ call'[c].attempt = 2 => Past(c)
    BY <1>2 DEF Past, At
  <2>2. Past(c) /\ call[c].attempt = 2 => Current
    BY <1>1, <1>6 DEF StdioInv, SecondIsServed
  <2> QED BY <1>2, <1>5, <2>1, <2>2 DEF SecondIsServed, At
<1>11. closed \in BOOLEAN /\ calls \in Nat
  BY DEF StdioInv, TypeOK
<1>12. \A d \in Callers : d # c => (initMu' = d <=> initMu = d)
  BY <1>1, CallTypes
<1> QED BY <1>1, <1>2, <1>3, <1>4, <1>7, <1>8, <1>9, <1>10, <1>11, <1>12, ProcessStays, CallerAlone

LEMMA LockInitKeeps ==
    ASSUME StdioInv, NEW c \in Callers, LockInit(c)
    PROVE  StdioInv'
<1>1. /\ At(c, "lock") /\ initMu = Nobody
      /\ UNCHANGED <<procVars, hand, seq, chan, exits, ran>>
      /\ UNCHANGED <<pending, closed, calls, initRes>>
  BY DEF LockInit, history
<1>2. CASE initRes
  <2>1. Initialized(c) /\ initRes' = TRUE
    BY <1>1, <1>2 DEF LockInit, StdioInv, TypeOK
  <2> QED BY <1>1, <1>2, <2>1, InitializedKeeps
<1>3. CASE ~initRes
  <2>1. initMu' = c /\ call' = [call EXCEPT ![c].pc = "send"]
    BY <1>1, <1>3 DEF LockInit, GoTo
  <2>2. /\ \A d \in Callers : d # c => call'[d] = call[d]
        /\ call'[c] = [call[c] EXCEPT !.pc = "send"]
        /\ call' \in [Callers -> Record]
    BY <2>1, CallTypes DEF Record
  <2>3. /\ call'[c].pc = "send"
        /\ call'[c].id = call[c].id /\ call'[c].earlier = call[c].earlier /\ call'[c].begun = call[c].begun
        /\ call'[c].attempt = call[c].attempt /\ call'[c].refused = call[c].refused
    BY <2>2, CallTypes DEF Record
  <2>4. Unread(call[c].earlier) /\ call[c].id \notin pending
    BY <1>1 DEF StdioInv, Once, Registered, At
  <2>5. Locked'
    BY <1>1, <1>3, <2>1, <2>2, <2>3, CallTypes DEF StdioInv, Locked
  <2>6. ~Answered(c)' /\ Refused(c)' /\ Current' = Current
    BY <1>1, <2>1, <2>3 DEF StdioInv, Answered, Refused, Current, procVars, At
  <2>7. \A d \in Callers : ~Answered(d)'
    BY <1>1, <2>1, <2>6, CallTypes DEF Answered
  <2>8. NoneLeftOver(c)'
    BY <2>7 DEF NoneLeftOver
  <2>9. SecondIsServed(c)'
    BY <1>1, <1>3, <2>1, <2>3 DEF SecondIsServed, Past, Sending, At
  <2>10. initRes \in BOOLEAN /\ closed \in BOOLEAN /\ calls \in Nat
    BY DEF StdioInv, TypeOK
  <2>11. \A d \in Callers : d # c => (initMu' = d <=> initMu = d)
    BY <1>1, <2>1, CallTypes
  <2> QED BY <1>1, <1>3, <2>1, <2>2, <2>3, <2>4, <2>5, <2>6, <2>8, <2>9, <2>10, <2>11, ProcessStays, CallerAlone
<1> QED BY <1>2, <1>3

LEMMA GiveUpKeeps ==
    ASSUME StdioInv, NEW c \in Callers, GiveUp(c)
    PROVE  StdioInv'
<1>1. /\ End(c, FALSE) /\ pending' = pending \ {call[c].id}
      /\ UNCHANGED <<procVars, hand, seq, chan, exits, ran>>
      /\ UNCHANGED <<initRes, closed, calls>>
  BY DEF GiveUp, history
<1> QED BY <1>1, ProcessStays, EndKeeps

LEMMA ReceiveKeeps ==
    ASSUME StdioInv, NEW c \in Callers, Receive(c)
    PROVE  StdioInv'
<1>1. /\ At(c, "wait") /\ chan[c] # "empty"
      /\ UNCHANGED <<procVars, hand, seq, chan, exits, ran>>
      /\ UNCHANGED <<initRes, closed, calls, pending>>
  BY DEF Receive, history
<1>2. call[c].id \notin pending
  BY <1>1 DEF StdioInv, Registered
<1>3. ASSUME NEW refused \in BOOLEAN, End(c, refused), refused => exits > call[c].begun
      PROVE  StdioInv'
  <2>1. pending' \subseteq pending \ {call[c].id}
    BY <1>1, <1>2
  <2> QED BY <1>1, <1>3, <2>1, ProcessStays, EndKeeps
<1>4. ASSUME NEW pc \in {"notify", "reset"}, GoTo(c, pc),
             IF pc = "notify" THEN initMu = c /\ chan[c] = "ok" /\ UNCHANGED initMu
             ELSE Retried(c) /\ initMu' = Released(c)
      PROVE  StdioInv'
  <2>1. call' = [call EXCEPT ![c].pc = pc]
    BY <1>4 DEF GoTo
  <2>2. /\ \A d \in Callers : d # c => call'[d] = call[d]
        /\ call'[c] = [call[c] EXCEPT !.pc = pc]
        /\ call' \in [Callers -> Record]
    BY <2>1, CallTypes DEF Record
  <2>3. /\ call'[c].pc = pc
        /\ call'[c].id = call[c].id /\ call'[c].earlier = call[c].earlier /\ call'[c].begun = call[c].begun
        /\ call'[c].attempt = call[c].attempt /\ call'[c].refused = call[c].refused
    BY <2>2, CallTypes DEF Record
  <2>4. Unread(call[c].earlier) /\ (pc = "reset" => Unread(call[c].id))
    BY <1>1, <1>4 DEF StdioInv, Once, Retried
  <2>5. /\ \A d \in Callers : d # c => (initMu' = d <=> initMu = d)
        /\ initMu' = (IF pc = "reset" /\ initMu = c THEN Nobody ELSE initMu)
        /\ \A d \in Callers : initMu' = d => initMu = d
        /\ initMu' \in Callers \cup {Nobody}
    BY <1>4, CallTypes DEF Released, Handshaking, StdioInv, TypeOK
  <2>6. Locked'
    <3>1. /\ Locked /\ initRes' = initRes
          /\ call'[c].pc \in {"notify", "set"} => initMu' = c
          /\ initMu' = c => call'[c].pc \in {"notify", "set"}
          /\ initMu' # Nobody => initMu # Nobody
          /\ call'[c].pc = "reset" => call'[c].method = "call"
      BY <1>1, <1>4, <2>2, <2>3, <2>5, CallTypes DEF StdioInv, Record, Retried
    <3>2. call'[c].pc \in {"notify", "reset"}
      BY <2>3
    <3>3. \A d \in Callers : d # c => call'[d] = call[d] /\ (initMu' = d <=> initMu = d)
      BY <2>2, <2>5
    <3> QED BY <3>1, <3>2, <3>3 DEF Locked
  <2>7. Answered(c)' => Answered(c)
    BY <1>1, <1>4, <2>3, <2>5 DEF Answered, At, Retried
  <2>8. \A d \in Callers : Answered(d)' => Answered(d)
    BY <1>1, <1>4, <2>2, <2>5, <2>7 DEF Answered, At
  <2>9. Current' = Current
    BY <1>1 DEF Current, procVars
  <2>10. NoneLeftOver(c)'
    <3>1. CASE initMu = c /\ pc = "reset"
      <4>1. \A d \in Callers : ~Answered(d)'
        BY <2>5, <3>1, CallTypes DEF Answered
      <4> QED BY <4>1 DEF NoneLeftOver
    <3>2. CASE ~(initMu = c /\ pc = "reset")
      <4>1. Past(c)' => Past(c)
        BY <1>1, <1>4, <2>3, <2>5, <3>2 DEF Past, At, Retried
      <4> QED BY <2>8, <2>9, <4>1 DEF StdioInv, NoneLeftOver
    <3> QED BY <3>1, <3>2
  <2>11. Refused(c)'
    BY <1>1, <2>3 DEF StdioInv, Refused
  <2>12. SecondIsServed(c)'
    <3>1. Past(c)' /\ call'[c].attempt = 2 => Past(c) /\ call[c].attempt = 2
      BY <1>1, <2>3 DEF Past, At
    <3> QED BY <1>1, <2>3, <2>9, <3>1 DEF StdioInv, SecondIsServed, Sending, At
  <2>13. initRes \in BOOLEAN /\ closed \in BOOLEAN /\ calls \in Nat
    BY DEF StdioInv, TypeOK
  <2>14. Answered(c)' => \A d \in Callers : Past(d) => Current
    BY <2>7 DEF StdioInv, NoneLeftOver
  <2> QED BY <1>1, <1>2, <1>4, <2>2, <2>3, <2>4, <2>5, <2>6, <2>10, <2>11, <2>12, <2>13, <2>14,
             ProcessStays, CallerAlone
<1>5. CASE initMu = c /\ chan[c] = "ok"
  BY <1>1, <1>4, <1>5 DEF Receive, Handshaking
<1>6. CASE ~(initMu = c /\ chan[c] = "ok") /\ Retried(c)
  BY <1>1, <1>4, <1>6 DEF Receive, Handshaking
<1>7. CASE ~(initMu = c /\ chan[c] = "ok") /\ ~Retried(c)
  <2>1. End(c, initMu # c /\ chan[c] = "notInitialized")
    BY <1>1, <1>7 DEF Receive, Handshaking
  <2>2. ASSUME initMu # c, chan[c] = "notInitialized" PROVE exits > call[c].begun
    <3>1. call[c].attempt = 2
      <4>1. call[c].method = "call"
        BY <1>1, <2>2 DEF StdioInv, Locked, At
      <4> QED BY <1>1, <1>7, <2>2, <4>1, CallTypes DEF Retried, Record
    <3>2. ~Past(c)
      BY <1>1, <2>2, <3>1 DEF StdioInv, SecondIsServed
    <3> QED BY <1>1, <3>1, <3>2, CallTypes DEF Past, At
  <2> QED BY <1>3, <2>1, <2>2
<1> QED BY <1>5, <1>6, <1>7

LEMMA ResetKeeps ==
    ASSUME StdioInv, NEW c \in Callers, Reset(c)
    PROVE  StdioInv'
<1> DEFINE again == [call[c] EXCEPT !.pc = "check", !.attempt = 2, !.earlier = call[c].id]
<1>1. /\ At(c, "reset") /\ initRes' = FALSE /\ call' = [call EXCEPT ![c] = again]
      /\ UNCHANGED <<procVars, hand, seq, chan, exits, ran>>
      /\ UNCHANGED <<pending, closed, calls, initMu>>
  BY CallTypes DEF Reset, history
<1>2. /\ again \in Record /\ again.pc = "check" /\ again.attempt = 2 /\ again.earlier = call[c].id
      /\ again.id = call[c].id /\ again.begun = call[c].begun /\ again.refused = call[c].refused
      /\ again.method = call[c].method
  BY CallTypes DEF Record
<1> HIDE DEF again
<1>3. /\ \A d \in Callers : d # c => call'[d] = call[d]
      /\ call'[c] = again /\ call' \in [Callers -> Record]
  BY <1>1, <1>2, CallTypes
<1>4. Unread(call[c].id) /\ call[c].id \notin pending
  BY <1>1 DEF StdioInv, Once, Registered, At
<1>5. Locked' /\ initMu # c
  BY <1>1, <1>2, <1>3, CallTypes DEF StdioInv, Locked, At
<1>6. ~Answered(c)' /\ Refused(c)' /\ Current' = Current
  BY <1>1, <1>2, <1>3, <1>5 DEF StdioInv, Answered, Refused, Current, procVars
<1>7. \A d \in Callers : Answered(d)' => Answered(d)
  BY <1>1, <1>3, <1>6 DEF Answered, At
<1>8. Past(c)' => Past(c)
  BY <1>1, <1>2, <1>3, <1>5 DEF Past, At
<1>9. NoneLeftOver(c)'
  BY <1>6, <1>7, <1>8 DEF StdioInv, NoneLeftOver
<1>10. SecondIsServed(c)'
  BY <1>1, <1>2, <1>3 DEF SecondIsServed, Sending, At
<1>11. /\ initMu \in Callers \cup {Nobody} /\ closed \in BOOLEAN /\ calls \in Nat
  BY DEF StdioInv, TypeOK
<1> QED BY <1>1, <1>2, <1>3, <1>4, <1>5, <1>6, <1>9, <1>10, <1>11, ProcessStays, CallerAlone

LEMMA SetInitResKeeps ==
    ASSUME StdioInv, NEW c \in Callers, SetInitRes(c)
    PROVE  StdioInv'
<1>1. /\ At(c, "set") /\ initRes' = TRUE /\ Initialized(c)
      /\ UNCHANGED <<procVars, hand, seq, chan, exits, ran>>
      /\ UNCHANGED <<pending, closed, calls>>
  BY DEF SetInitRes, history
<1> QED BY <1>1, InitializedKeeps

(* Steps of the process, and Close: no call is touched.                    *)
LEMMA ProcessAlone ==
    ASSUME StdioInv, ProcessGoesOn, closed' \in BOOLEAN,
           UNCHANGED <<hand, initRes, initMu, seq, pending, call, chan, history>>
    PROVE  StdioInv'
<1> USE DEF StdioInv
<1>1. /\ input' \subseteq input /\ output' \subseteq output
      /\ UNCHANGED <<hand, initRes, initMu, seq, pending, call, chan, calls, exits, ran>>
  BY DEF ProcessGoesOn, history
<1>2. TypeOK'
  BY <1>1 DEF TypeOK, ProcessGoesOn
<1>3. Registered'
  BY <1>1 DEF Registered, At, ProcessGoesOn
<1>4. Once'
  BY <1>1 DEF Once, At, Unread
<1>5. Locked'
  BY <1>1 DEF Locked
<1>6. Process' /\ (Current => Current')
  BY DEF ProcessGoesOn
<1>7. ASSUME NEW c \in Callers
      PROVE  NoneLeftOver(c)' /\ SecondIsServed(c)' /\ Refused(c)'
  <2>1. /\ (Past(c)' <=> Past(c)) /\ (Sending(c)' <=> Sending(c)) /\ (At(c, "wait")' <=> At(c, "wait"))
        /\ \A d \in Callers : Answered(d)' <=> Answered(d)
    BY <1>1 DEF Past, Sending, At, Answered
  <2>2. NoneLeftOver(c)'
    BY <1>6, <2>1 DEF NoneLeftOver
  <2>3. SecondIsServed(c)'
    BY <1>1, <1>6, <2>1 DEF SecondIsServed
  <2>4. Refused(c)'
    BY <1>1 DEF Refused
  <2> QED BY <2>2, <2>3, <2>4
<1> QED BY <1>2, <1>3, <1>4, <1>5, <1>6, <1>7

LEMMA ExitKeeps ==
    ASSUME StdioInv, Exit
    PROVE  StdioInv'
  BY ProcessDies, ProcessAlone DEF Exit, StdioInv, TypeOK

LEMMA StopReadingKeeps ==
    ASSUME StdioInv, StopReading
    PROVE  StdioInv'
<1>1. ProcessGoesOn
  BY DEF StopReading, StdioInv, TypeOK, Process, Current, ProcessGoesOn
<1> QED BY <1>1, ProcessAlone DEF StopReading, StdioInv, TypeOK

LEMMA CloseKeeps ==
    ASSUME StdioInv, Close
    PROVE  StdioInv'
  BY ProcessStays, ProcessAlone DEF Close

LEMMA WriteFailsKeeps ==
    ASSUME StdioInv, NEW c \in Callers, WriteFails(c)
    PROVE  StdioInv'
<1>1. /\ End(c, FALSE) /\ pending' = pending \ {call[c].id}
      /\ UNCHANGED <<hand, seq, chan, exits, ran>>
      /\ UNCHANGED <<initRes, closed, calls>>
  BY DEF WriteFails, history
<1>2. ProcessGoesOn
  BY <1>1, ProcessStays, ProcessDies DEF WriteFails, DiesRunning
<1> QED BY <1>1, <1>2, EndKeeps

LEMMA NotifyKeeps ==
    ASSUME StdioInv, NEW c \in Callers, Notify(c)
    PROVE  StdioInv'
<1>1. /\ At(c, "notify") /\ call' = [call EXCEPT ![c].pc = "set"]
      /\ UNCHANGED <<hand, seq, chan, exits, ran>>
      /\ UNCHANGED <<pending, initMu, closed, calls>>
  BY DEF Notify, GoTo, history
<1>2. ProcessGoesOn /\ initRes' \in BOOLEAN /\ (initRes' => initRes)
  BY <1>1, ProcessStarts, ProcessDies DEF Notify, DiesRunning, StdioInv, TypeOK
<1>3. /\ \A d \in Callers : d # c => call'[d] = call[d]
      /\ call'[c] = [call[c] EXCEPT !.pc = "set"]
      /\ call' \in [Callers -> Record]
  BY <1>1, CallTypes DEF Record
<1>4. /\ call'[c].pc = "set"
      /\ call'[c].id = call[c].id /\ call'[c].earlier = call[c].earlier /\ call'[c].begun = call[c].begun
      /\ call'[c].attempt = call[c].attempt /\ call'[c].refused = call[c].refused
  BY <1>3, CallTypes DEF Record
<1>5. Unread(call[c].earlier) /\ call[c].id \notin pending /\ initMu = c
  BY <1>1 DEF StdioInv, Once, Registered, Locked, At
<1>6. Locked'
  BY <1>1, <1>2, <1>3, <1>4, <1>5, CallTypes DEF StdioInv, Locked
<1>7. Answered(c) /\ (Past(c)' => Past(c)) /\ (Current => Current')
  BY <1>1, <1>2, <1>4, <1>5 DEF Answered, Past, At, ProcessGoesOn
<1>8. \A d \in Callers : Past(d) => Current
  BY <1>7 DEF StdioInv, NoneLeftOver
<1>9. NoneLeftOver(c)' /\ SecondIsServed(c)' /\ Refused(c)'
  BY <1>1, <1>4, <1>5, <1>7, <1>8 DEF StdioInv, NoneLeftOver, SecondIsServed, Sending, Refused, At
<1>10. initMu \in Callers \cup {Nobody} /\ closed \in BOOLEAN /\ calls \in Nat
  BY DEF StdioInv, TypeOK
<1> QED BY <1>1, <1>2, <1>3, <1>4, <1>5, <1>6, <1>8, <1>9, <1>10, CallerAlone

LEMMA RegisterKeeps ==
    ASSUME StdioInv, NEW c \in Callers, Register(c)
    PROVE  StdioInv'
<1> USE DEF StdioInv
<1>1. /\ At(c, "send")
      /\ UNCHANGED <<hand, closed, calls, exits, ran>>
  BY DEF Register, history
<1>2. CASE NoProcess /\ End(c, FALSE) /\ UNCHANGED <<seq, pending, chan>>
  <2>1. call[c].id \notin pending
    BY <1>1 DEF Registered, At
  <2>2. ProcessGoesOn /\ initRes' = initRes
    BY <1>1, <1>2, ProcessStarts DEF NoProcess
  <2> QED BY <1>1, <1>2, <2>1, <2>2, EndKeeps
<1>3. CASE /\ HaveProcess
           /\ seq' = seq + 1 /\ pending' = pending \cup {seq'}
           /\ call' = [call EXCEPT ![c].pc = "write", ![c].id = seq']
           /\ chan' = [chan EXCEPT ![c] = "empty"]
           /\ UNCHANGED initMu
  <2> DEFINE sent == [call[c] EXCEPT !.pc = "write", !.id = seq']
  <2>1. /\ seq \in Nat /\ seq' = seq + 1 /\ seq' \notin 0 .. seq
        /\ 0 .. seq \subseteq 0 .. seq' /\ 1 .. seq \subseteq 1 .. seq' /\ seq' \in 1 .. seq'
    BY <1>3, CallTypes
  <2>2. /\ call' = [call EXCEPT ![c] = sent]
        /\ sent.pc = "write" /\ sent.id = seq' /\ sent.earlier = call[c].earlier /\ sent.begun = call[c].begun
        /\ sent.attempt = call[c].attempt /\ sent.refused = call[c].refused
        /\ sent.method = call[c].method
        /\ sent \in Record'
    BY <1>1, <1>3, <2>1, CallTypes DEF Record
  <2> HIDE DEF sent
  <2>3. /\ call'[c] = sent /\ \A d \in Callers : d # c => call'[d] = call[d] /\ chan'[d] = chan[d]
        /\ chan'[c] = "empty" /\ call' \in [Callers -> Record']
        /\ chan' \in [Callers -> Answers \cup {"empty", "exited"}]
    BY <1>1, <1>3, <2>1, <2>2, CallTypes DEF Record, TypeOK
  <2>4. /\ ProcessGoesOn /\ initRes' \in BOOLEAN /\ (initRes' => initRes) /\ running'
        /\ input' \subseteq input /\ output' \subseteq output /\ (Current => Current')
    BY <1>1, <1>3, ProcessStarts DEF HaveProcess, ProcessGoesOn, procVars
  <2>5. TypeOK'
    BY <1>1, <1>3, <2>1, <2>3, <2>4 DEF TypeOK, Record, ProcessGoesOn
  <2>6. /\ pending \subseteq 1 .. seq /\ ran \subseteq 1 .. seq /\ hand.id \in 0 .. seq
        /\ \A r \in input : r.id \in 0 .. seq
        /\ \A a \in output : a.id \in 0 .. seq
        /\ \A d \in Callers : call[d].id \in 0 .. seq /\ call[d].earlier \in 0 .. seq
    <3>1. \A d \in Callers : call[d].id \in 0 .. seq /\ call[d].earlier \in 0 .. seq
      BY CallTypes
    <3> QED BY <2>1, <3>1 DEF TypeOK, NoAnswer
  <2>7. Registered'
    BY <1>1, <1>3, <2>1, <2>2, <2>3, <2>4, <2>6 DEF Registered, At
  <2>8. Once'
    <3>1. ASSUME NEW d \in Callers, (At(d, "wait") /\ initMu # d)'
          PROVE  \A r \in input' : r.id = call'[d].id => r.method = "call"
      <4>1. d # c /\ At(d, "wait") /\ initMu # d /\ call'[d] = call[d]
        BY <1>3, <2>2, <2>3, <3>1 DEF At
      <4> QED BY <2>4, <4>1 DEF Once
    <3>2. /\ \A r \in input' : r.id \notin ran'
          /\ \A r, s \in input' : r.id = s.id => r = s
          /\ \A a \in output' \cup {hand'} :
                /\ \A r \in input' : r.id # a.id
                /\ a.answer = "notInitialized" => a.id \notin ran'
      BY <1>1, <2>4 DEF Once
    <3>3. ASSUME NEW d \in Callers
          PROVE  /\ Unread(call[d].earlier)'
                 /\ At(d, "write")' => /\ Unread(call[d].id)'
                                       /\ \A a \in output' \cup {hand'} : a.id # call'[d].id
                 /\ At(d, "reset")' => Unread(call[d].id)'
                 /\ (At(d, "wait") /\ chan[d] = "notInitialized")' => Unread(call[d].id)'
      BY <1>1, <2>1, <2>2, <2>3, <2>4, <2>6 DEF Once, Unread, At
    <3> QED BY <3>1, <3>2, <3>3 DEF Once
  <2>9. Locked'
    BY <1>1, <1>3, <2>2, <2>3, <2>4 DEF Locked, At
  <2>10. Process'
    BY <2>4 DEF ProcessGoesOn
  <2>11. ASSUME NEW d \in Callers
         PROVE  NoneLeftOver(d)' /\ SecondIsServed(d)' /\ Refused(d)'
    <3>1. \A e \in Callers : Answered(e)' => Answered(e)
      BY <1>3, <2>2, <2>3 DEF Answered, At
    <3>2. /\ call'[d].begun = call[d].begun /\ call'[d].attempt = call[d].attempt
          /\ call'[d].refused = call[d].refused /\ (Past(d)' => Past(d)) /\ (Sending(d)' => Sending(d))
          /\ (At(d, "wait")' => At(d, "wait") /\ d # c /\ call'[d] = call[d] /\ chan'[d] = chan[d])
      BY <1>1, <1>3, <2>2, <2>3 DEF Past, Sending, At
    <3>3. NoneLeftOver(d)'
      BY <2>4, <3>1, <3>2 DEF NoneLeftOver
    <3>4. SecondIsServed(d)'
      BY <1>1, <1>3, <2>4, <3>2 DEF SecondIsServed
    <3>5. Refused(d)'
      BY <1>1, <3>2 DEF Refused
    <3> QED BY <3>3, <3>4, <3>5
  <2> QED BY <2>5, <2>7, <2>8, <2>9, <2>10, <2>11
<1> QED BY <1>2, <1>3 DEF Register

LEMMA WriteKeeps ==
    ASSUME StdioInv, NEW c \in Callers, Write(c)
    PROVE  StdioInv'
<1> USE DEF StdioInv
<1> DEFINE request == [id |-> call[c].id, method |-> IF Handshaking(c) THEN "initialize" ELSE "call"]
<1>1. /\ At(c, "write") /\ running /\ alive
      /\ input' = input \cup {request}
      /\ call' = [call EXCEPT ![c].pc = "wait"]
      /\ UNCHANGED <<running, alive, reading, served, output, hand, initRes, initMu, seq,
                     pending, closed, chan, calls, exits, ran>>
  BY DEF Write, GoTo, history
<1>2. /\ \A d \in Callers : d # c => call'[d] = call[d]
      /\ call'[c] = [call[c] EXCEPT !.pc = "wait"]
      /\ call' \in [Callers -> Record]
  BY <1>1, CallTypes DEF Record
<1>3. /\ call'[c].pc = "wait"
      /\ call'[c].id = call[c].id /\ call'[c].earlier = call[c].earlier /\ call'[c].begun = call[c].begun
      /\ call'[c].attempt = call[c].attempt /\ call'[c].refused = call[c].refused
      /\ call'[c].method = call[c].method
  BY <1>2, CallTypes DEF Record
<1>4. /\ call[c].id \in 1 .. seq /\ call[c].id # call[c].earlier
      /\ chan[c] \in {"empty", "exited"}
  BY <1>1, CallTypes DEF Registered, At
<1>5. request.id = call[c].id /\ request \in [id : 1 .. seq, method : {"initialize", "call"}]
  BY <1>4
<1> HIDE DEF request
<1>6. /\ Unread(call[c].id)
      /\ \A a \in output \cup {hand} : a.id # call[c].id
  BY <1>1 DEF Once
<1>7. TypeOK'
  BY <1>1, <1>2, <1>5 DEF TypeOK, Record
<1>8. Registered'
  BY <1>1, <1>2, <1>3, <1>4, <1>6 DEF Registered, At
<1>9. \A d \in Callers : /\ call[d].earlier # call[c].id
                         /\ d # c => call[d].id # call[c].id
  BY <1>4, CallTypes DEF Registered
<1>10. Once'
  <2>1. \A id \in Nat : id # call[c].id => (Unread(id)' <=> Unread(id))
    BY <1>1, <1>5 DEF Unread
  <2>2. \A r \in input' : r.id \notin ran'
    BY <1>1, <1>5, <1>6 DEF Once, Unread
  <2>3. \A r, s \in input' : r.id = s.id => r = s
    BY <1>1, <1>5, <1>6 DEF Once, Unread
  <2>4. \A a \in output' \cup {hand'} : /\ \A r \in input' : r.id # a.id
                                        /\ a.answer = "notInitialized" => a.id \notin ran'
    BY <1>1, <1>5, <1>6 DEF Once, Unread
  <2>5. ASSUME NEW d \in Callers
        PROVE  /\ Unread(call[d].earlier)'
               /\ At(d, "write")' => /\ Unread(call[d].id)'
                                     /\ \A a \in output' \cup {hand'} : a.id # call'[d].id
               /\ At(d, "reset")' => Unread(call[d].id)'
               /\ (At(d, "wait") /\ chan[d] = "notInitialized")' => Unread(call[d].id)'
    <3>1. /\ call[d].earlier \in Nat /\ call[d].id \in Nat
          /\ d # c => call'[d] = call[d]
          /\ call'[d].earlier = call[d].earlier
      <4>1. call[d].earlier \in Nat /\ call[d].id \in Nat
        BY CallTypes
      <4> QED BY <1>2, <1>3, <4>1
    <3>2. Unread(call[d].earlier)'
      BY <1>1, <1>5, <1>9, <3>1 DEF Once, Unread
    <3>3. CASE d = c
      BY <1>1, <1>3, <1>4, <3>2, <3>3 DEF At
    <3>4. CASE d # c
      <4>1. call'[d] = call[d] /\ (Unread(call[d].id) => Unread(call[d].id)')
        BY <1>1, <1>2, <1>5, <1>9, <3>4 DEF Unread
      <4> QED BY <1>1, <3>2, <4>1 DEF Once, At
    <3> QED BY <3>3, <3>4
  <2>6. ASSUME NEW d \in Callers, (At(d, "wait") /\ initMu # d)', NEW r \in input', r.id = call'[d].id
        PROVE  r.method = "call"
    <3>1. CASE d = c
      <4>1. r = request
        BY <1>1, <1>3, <1>6, <2>6, <3>1 DEF Unread
      <4> QED BY <1>1, <2>6, <3>1, <4>1 DEF request, Handshaking
    <3>2. CASE d # c
      <4>1. call'[d] = call[d] /\ At(d, "wait") /\ initMu # d /\ r \in input
        BY <1>1, <1>2, <1>5, <1>9, <2>6, <3>2 DEF At
      <4> QED BY <2>6, <4>1 DEF Once
    <3> QED BY <3>1, <3>2
  <2> QED BY <2>2, <2>3, <2>4, <2>5, <2>6 DEF Once
<1>11. Locked'
  BY <1>1, <1>2, <1>3 DEF Locked, At
<1>12. Process' /\ Current' = Current
  BY <1>1 DEF Process, Current
<1>13. ASSUME NEW d \in Callers
       PROVE  NoneLeftOver(d)' /\ SecondIsServed(d)' /\ Refused(d)'
  <2>1. \A e \in Callers : Answered(e)' => Answered(e)
    BY <1>1, <1>2, <1>3, <1>4 DEF Answered, At
  <2>2. /\ call'[d].begun = call[d].begun /\ call'[d].attempt = call[d].attempt /\ call'[d].id = call[d].id
        /\ call'[d].refused = call[d].refused /\ (Past(d)' => Past(d)) /\ (Sending(d)' => Sending(d))
        /\ (At(d, "wait")' => d = c \/ At(d, "wait"))
    BY <1>1, <1>2, <1>3 DEF Past, Sending, At
  <2>3. NoneLeftOver(d)'
    BY <1>12, <2>1, <2>2 DEF NoneLeftOver
  <2>4. SecondIsServed(d)'
    BY <1>1, <1>4, <1>6, <1>12, <2>2 DEF SecondIsServed
  <2>5. Refused(d)'
    BY <1>1, <2>2 DEF Refused
  <2> QED BY <2>3, <2>4, <2>5
<1> QED BY <1>7, <1>8, <1>10, <1>11, <1>12, <1>13

LEMMA HandleKeeps ==
    ASSUME StdioInv, NEW request \in input, NEW answer \in Answers, Handle(request, answer)
    PROVE  StdioInv'
<1> USE DEF StdioInv
<1> DEFINE given == [id |-> request.id, answer |-> answer]
<1>1. /\ alive /\ running
      /\ input' = input \ {request}
      /\ output' \in {output, output \cup {given}}
      /\ served' = (served \/ (request.method = "initialize" /\ answer = "ok"))
      /\ ran' \in {ran, ran \cup {request.id}}
      /\ UNCHANGED <<running, alive, reading, hand, initRes, initMu, seq, pending, closed, call, chan,
                     calls, exits>>
  BY DEF Handle, Process
<1>2. /\ answer = "notInitialized" => ran' = ran /\ (served => request.method = "initialize")
      /\ answer = "ok" => served'
      /\ answer \in {"ok", "error", "notInitialized"}
  BY DEF Handle, Answers
<1>3. request.id \in 1 .. seq /\ request.id \notin ran /\ request \in [id : 1 .. seq, method : {"initialize", "call"}]
  BY DEF TypeOK, Once
<1>4. given.id = request.id /\ given.answer = answer /\ given \in [id : 1 .. seq, answer : Answers]
  BY <1>3
<1> HIDE DEF given
<1>5. /\ served' \in BOOLEAN /\ (served => served')
      /\ \A r \in input' : r \in input /\ r.id # request.id
  BY <1>1 DEF Once
<1>6. TypeOK'
  BY <1>1, <1>3, <1>4, <1>5 DEF TypeOK
<1>7. Registered'
  BY <1>1 DEF Registered, At
<1>8. \A id \in Nat : Unread(id) => Unread(id)' /\ id # request.id
  BY <1>1 DEF Unread
<1>9. Once'
  <2>1. \A r \in input' : r.id \notin ran'
    BY <1>1, <1>5 DEF Once
  <2>2. \A r, s \in input' : r.id = s.id => r = s
    BY <1>5 DEF Once
  <2>3. ASSUME NEW a \in output' \cup {hand'}
        PROVE  /\ \A r \in input' : r.id # a.id
               /\ a.answer = "notInitialized" => a.id \notin ran'
    <3>1. CASE a = given
      BY <1>2, <1>3, <1>4, <1>5, <3>1
    <3>2. CASE a \in output \cup {hand}
      BY <1>1, <1>5, <3>2 DEF Once
    <3> QED BY <1>1, <3>1, <3>2
  <2>4. ASSUME NEW d \in Callers
        PROVE  /\ Unread(call[d].earlier)'
               /\ At(d, "write")' => /\ Unread(call[d].id)'
                                     /\ \A a \in output' \cup {hand'} : a.id # call'[d].id
               /\ At(d, "reset")' => Unread(call[d].id)'
               /\ (At(d, "wait") /\ chan[d] = "notInitialized")' => Unread(call[d].id)'
    <3>1. call[d].earlier \in Nat /\ call[d].id \in Nat
      BY CallTypes
    <3>2. /\ Unread(call[d].earlier) => Unread(call[d].earlier)'
          /\ Unread(call[d].id) => Unread(call[d].id)' /\ call[d].id # request.id
      BY <1>1, <1>8, <3>1
    <3> QED BY <1>1, <1>4, <3>2 DEF Once, At
  <2>5. ASSUME NEW d \in Callers, (At(d, "wait") /\ initMu # d)'
        PROVE  \A r \in input' : r.id = call'[d].id => r.method = "call"
    BY <1>1, <1>5, <2>5 DEF Once, At
  <2> QED BY <2>1, <2>2, <2>3, <2>4, <2>5 DEF Once
<1>10. Locked'
  BY <1>1 DEF Locked
<1>11. Current => Current'
  BY <1>1, <1>5 DEF Current
<1>12. Process'
  BY <1>1, <1>2, <1>4, <1>5, <1>11 DEF Process, Current
<1>13. ASSUME NEW d \in Callers
       PROVE  NoneLeftOver(d)' /\ SecondIsServed(d)' /\ Refused(d)'
  <2>1. /\ (Past(d)' <=> Past(d)) /\ (Sending(d)' <=> Sending(d)) /\ (At(d, "wait")' <=> At(d, "wait"))
        /\ \A e \in Callers : Answered(e)' <=> Answered(e)
    BY <1>1 DEF Past, Sending, At, Answered
  <2>2. NoneLeftOver(d)'
    BY <1>11, <2>1 DEF NoneLeftOver
  <2>3. SecondIsServed(d)'
    <3>1. Past(d) /\ call[d].attempt = 2 /\ Sending(d) => served
      BY <1>1 DEF SecondIsServed, Current
    <3>2. ASSUME At(d, "wait"), initMu # d, served, NEW a \in output' \cup {hand'}, a.id = call[d].id
          PROVE  a \in output \cup {hand} \/ a.answer # "notInitialized"
      <4>1. a.id = request.id => request.method = "call"
        BY <3>2 DEF Once
      <4> QED BY <1>1, <1>2, <1>4, <3>2, <4>1
    <3> QED BY <1>1, <1>11, <2>1, <3>1, <3>2 DEF SecondIsServed, Sending, At
  <2>4. Refused(d)'
    BY <1>1 DEF Refused
  <2> QED BY <2>2, <2>3, <2>4
<1> QED BY <1>6, <1>7, <1>9, <1>10, <1>12, <1>13

LEMMA TakeKeeps ==
    ASSUME StdioInv, NEW answer \in output, Take(answer)
    PROVE  StdioInv'
<1> USE DEF StdioInv
<1>1. /\ running /\ hand = NoAnswer
      /\ output' = output \ {answer}
      /\ hand' = IF answer.id \in pending THEN answer ELSE NoAnswer
      /\ pending' = pending \ {answer.id}
      /\ UNCHANGED <<running, alive, reading, served, input, initRes, initMu, seq, closed, call, chan,
                     calls, exits, ran>>
  BY DEF Take, history
<1>2. /\ \A a \in output' \cup {hand'} : a \in output \cup {hand}
      /\ hand' \in output \/ hand'.id = 0
  BY <1>1 DEF NoAnswer
<1>3. TypeOK'
  BY <1>1 DEF TypeOK
<1>4. Registered'
  <2>1. hand'.id \notin pending' /\ (hand'.id = 0 \/ hand'.id \in pending)
    BY <1>1, CallersAssumption DEF TypeOK, NoAnswer
  <2> QED BY <1>1, <2>1 DEF Registered, At
<1>5. Once'
  BY <1>1, <1>2 DEF Once, At, Unread
<1>6. Locked'
  BY <1>1 DEF Locked
<1>7. Process' /\ Current' = Current
  BY <1>1, <1>2 DEF Process, Current
<1>8. ASSUME NEW d \in Callers
      PROVE  NoneLeftOver(d)' /\ SecondIsServed(d)' /\ Refused(d)'
  <2>1. /\ (Past(d)' <=> Past(d)) /\ (Sending(d)' <=> Sending(d)) /\ (At(d, "wait")' <=> At(d, "wait"))
        /\ \A e \in Callers : Answered(e)' <=> Answered(e)
    BY <1>1 DEF Past, Sending, At, Answered
  <2>2. NoneLeftOver(d)'
    BY <1>7, <2>1 DEF NoneLeftOver
  <2>3. SecondIsServed(d)'
    BY <1>1, <1>2, <1>7, <2>1 DEF SecondIsServed
  <2>4. Refused(d)'
    BY <1>1 DEF Refused
  <2> QED BY <2>2, <2>3, <2>4
<1> QED BY <1>3, <1>4, <1>5, <1>6, <1>7, <1>8

LEMMA DeliverKeeps ==
    ASSUME StdioInv, Deliver
    PROVE  StdioInv'
<1> USE DEF StdioInv
<1>1. /\ chan' = [c \in Callers |-> IF call[c].id = hand.id /\ At(c, "wait") THEN hand.answer ELSE chan[c]]
      /\ hand # NoAnswer /\ hand' = NoAnswer
      /\ UNCHANGED <<running, alive, reading, served, input, output, initRes, initMu, seq, pending, closed,
                     call, calls, exits, ran>>
  BY DEF Deliver, Sent, procVars, history
<1>2. hand \in [id : 1 .. seq, answer : Answers] /\ hand'.id = 0 /\ hand'.answer = "none"
  BY <1>1 DEF TypeOK, NoAnswer
<1>3. \A c \in Callers : \/ chan'[c] = chan[c]
                         \/ call[c].id = hand.id /\ At(c, "wait") /\ chan'[c] = hand.answer
  BY <1>1
<1>4. TypeOK'
  BY <1>1, <1>2 DEF TypeOK
<1>5. Registered'
  <2>1. 0 \notin pending
    BY DEF TypeOK
  <2>2. \A c \in Callers : (call[c].id \in pending \/ At(c, "write")) => chan'[c] = chan[c]
    BY <1>3 DEF Registered, At
  <2> QED BY <1>1, <1>2, <2>1, <2>2 DEF Registered, At
<1>6. Once'
  <2>1. hand.answer = "notInitialized" => Unread(hand.id)
    BY DEF Once, Unread
  <2>2. \A r \in input : r.id # 0
    BY DEF TypeOK
  <2>3. \A c \in Callers : At(c, "write") => call[c].id # 0
    BY DEF Registered, At
  <2> QED BY <1>1, <1>2, <1>3, <2>1, <2>2, <2>3 DEF Once, At, Unread
<1>7. Locked'
  BY <1>1 DEF Locked
<1>8. Process' /\ Current' = Current
  BY <1>1, <1>2 DEF Process, Current
<1>9. ASSUME NEW d \in Callers
      PROVE  NoneLeftOver(d)' /\ SecondIsServed(d)' /\ Refused(d)'
  <2>1. /\ (Past(d)' <=> Past(d)) /\ (Sending(d)' <=> Sending(d)) /\ (At(d, "wait")' <=> At(d, "wait"))
        /\ \A e \in Callers : Answered(e)' => Answered(e) \/ hand.answer = "ok"
    BY <1>1, <1>3 DEF Past, Sending, At, Answered
  <2>2. NoneLeftOver(d)'
    BY <1>8, <2>1 DEF NoneLeftOver, Process
  <2>3. SecondIsServed(d)'
    BY <1>1, <1>2, <1>3, <1>8, <2>1 DEF SecondIsServed
  <2>4. Refused(d)'
    BY <1>1 DEF Refused
  <2> QED BY <2>2, <2>3, <2>4
<1> QED BY <1>4, <1>5, <1>6, <1>7, <1>8, <1>9

LEMMA CleanupKeeps ==
    ASSUME StdioInv, Cleanup
    PROVE  StdioInv'
<1> USE DEF StdioInv
<1>1. /\ ~alive /\ hand = NoAnswer /\ output = {}
      /\ running' = FALSE /\ reading' = FALSE /\ initRes' = FALSE /\ exits' = exits + 1
      /\ pending' = {}
      /\ chan' = [c \in Callers |-> IF call[c].id \in pending THEN "exited" ELSE chan[c]]
      /\ UNCHANGED <<alive, served, input, output, hand, initMu, seq, closed, call, calls, ran>>
  BY DEF Cleanup, ReadToEnd
<1>2. exits \in Nat /\ exits' \in Nat /\ 0 .. exits \subseteq 0 .. exits'
      /\ \A c \in Callers : exits' > call[c].begun
  BY <1>1, CallTypes DEF TypeOK
<1>3. \A c \in Callers : chan'[c] = chan[c] \/ chan'[c] = "exited"
  BY <1>1
<1>4. TypeOK'
  <2>1. call' \in [Callers -> Record']
    <3>1. call \in [Callers -> Record] /\ call' = call /\ seq' = seq
      BY <1>1 DEF TypeOK, Record
    <3>2. Record \subseteq Record'
      BY <1>2, <3>1 DEF Record
    <3> QED BY <3>1, <3>2
  <2> QED BY <1>1, <1>2, <2>1 DEF TypeOK, Record
<1>5. Registered'
  BY <1>1, <1>3 DEF Registered, At, NoAnswer
<1>6. Once'
  BY <1>1, <1>3 DEF Once, At, Unread
<1>7. Locked'
  BY <1>1 DEF Locked
<1>8. Process'
  BY <1>1 DEF Process, NoAnswer
<1>9. ASSUME NEW d \in Callers
      PROVE  NoneLeftOver(d)' /\ SecondIsServed(d)' /\ Refused(d)'
  <2>1. ~Past(d)' /\ Refused(d)'
    BY <1>1, <1>2, CallTypes DEF Past, Refused
  <2> QED BY <2>1 DEF NoneLeftOver, SecondIsServed
<1> QED BY <1>4, <1>5, <1>6, <1>7, <1>8, <1>9

----------------------------------------------------------------------------
LEMMA InitStdioInv ==
    ASSUME Init
    PROVE  StdioInv
<1>1. /\ running = FALSE /\ alive = FALSE /\ reading = FALSE /\ served = FALSE
      /\ input = {} /\ output = {} /\ hand = NoAnswer
      /\ initRes = FALSE /\ initMu = Nobody /\ seq = 0 /\ pending = {} /\ closed = FALSE
      /\ calls = 0 /\ exits = 0 /\ ran = {}
      /\ chan = [c \in Callers |-> "empty"]
  BY DEF Init
<1>2. \A c \in Callers : /\ call[c] = Call("idle", "call") /\ call[c].pc = "idle" /\ call[c].id = 0
                         /\ call[c].attempt = 1 /\ call[c].earlier = 0 /\ call[c].refused = FALSE
  BY DEF Init, Call
<1>3. TypeOK
  <2>1. Call("idle", "call") \in Record
    BY <1>1 DEF Call, Record
  <2>2. call \in [Callers -> Record]
    BY <2>1 DEF Init
  <2> QED BY <1>1, <2>2 DEF TypeOK, Record
<1>4. Registered
  BY <1>1, <1>2 DEF Registered, At
<1>5. Once
  BY <1>1, <1>2 DEF Once, At, Unread, NoAnswer
<1>6. Locked /\ Process
  BY <1>1, <1>2, CallersAssumption DEF Locked, Process, NoAnswer
<1>7. \A c \in Callers : NoneLeftOver(c) /\ SecondIsServed(c) /\ Refused(c)
  BY <1>1, <1>2 DEF NoneLeftOver, SecondIsServed, Refused, Past, At
<1> QED BY <1>3, <1>4, <1>5, <1>6, <1>7 DEF StdioInv

LEMMA NextKeepsStdioInv ==
    ASSUME StdioInv, [Next]_vars
    PROVE  StdioInv'
<1>1. ASSUME NEW c \in Callers, CallerStep(c) \/ \E method \in {"initialize", "call"} : Begin(c, method)
      PROVE  StdioInv'
  BY <1>1, BeginKeeps, CheckKeeps, LockInitKeeps, RegisterKeeps, WriteKeeps, WriteFailsKeeps, GiveUpKeeps,
     ReceiveKeeps, ResetKeeps, NotifyKeeps, SetInitResKeeps DEF CallerStep
<1>2. CASE UNCHANGED vars
  <2>1. UNCHANGED <<procVars, hand, closed>> /\ UNCHANGED <<hand, initRes, initMu, seq, pending, call, chan, history>>
    BY <1>2 DEF vars
  <2>2. ProcessGoesOn /\ closed' \in BOOLEAN
    BY <2>1, ProcessStays DEF StdioInv, TypeOK
  <2> QED BY <2>1, <2>2, ProcessAlone
<1> QED BY <1>1, <1>2, HandleKeeps, TakeKeeps, DeliverKeeps, StopReadingKeeps, CleanupKeeps, ExitKeeps,
           CloseKeeps DEF Next

----------------------------------------------------------------------------
(* The inductive invariant of the client.                                  *)
THEOREM StdioInvariant == Spec => []StdioInv
<1>1. Init => StdioInv
  BY InitStdioInv
<1>2. StdioInv /\ [Next]_vars => StdioInv'
  BY NextKeepsStdioInv
<1> QED BY <1>1, <1>2, PTL DEF Spec

(* Type correctness of the client, of its process and of its callers.      *)
THEOREM StdioIsWellTyped == Spec => []TypeOK
<1>1. StdioInv => TypeOK
  BY DEF StdioInv
<1> QED BY <1>1, StdioInvariant, PTL

(* While a call is in the map of channels there is a process: readResponses *)
(* empties the map in the step that forgets the process.                    *)
THEOREM NobodyWaitsForever == Spec => []NobodyIsForgotten
<1>1. StdioInv => NobodyIsForgotten
  BY DEF StdioInv, Registered, NobodyIsForgotten
<1> QED BY <1>1, StdioInvariant, PTL

(* readResponses never finds a channel full, with mu held or without.      *)
THEOREM SendsDoNotBlock == Spec => []NoSendBlocks
<1>1. StdioInv => NoSendBlocks
  BY DEF StdioInv, Registered, NoSendBlocks
<1> QED BY <1>1, StdioInvariant, PTL

(* sendRequest makes a call a second time only if the first request was    *)
(* refused, and then no process carries out both, however many there were. *)
THEOREM RetriesRunOnce == Spec => []RunsAtMostOnce
<1>1. StdioInv => RunsAtMostOnce
  BY DEF StdioInv, Once, Unread, RunsAtMostOnce
<1> QED BY <1>1, StdioInvariant, PTL

(* The one retry of sendRequest is enough unless a process exits: initRes  *)
(* may say of a new process what was true of an old one, and once only.    *)
THEOREM RefusalsMeanExit == Spec => []NotInitializedMeansExit
<1>1. StdioInv => NotInitializedMeansExit
  BY DEF StdioInv, Refused, NotInitializedMeansExit
<1> QED BY <1>1, StdioInvariant, PTL

=============================================================================

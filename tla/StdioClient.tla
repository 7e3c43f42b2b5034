----------------------------- MODULE StdioClient -----------------------------
(***************************************************************************)
(* client.StdioClient (internal/mcp/client/stdio.go): calls of an MCP      *)
(* server that runs as a subprocess.  A call starts the process when there *)
(* is none, makes the initialize handshake when nobody has, registers a    *)
(* channel under a fresh id, writes its request and waits for the channel  *)
(* or the end of its context.  One goroutine per process takes the answers *)
(* out of the map of channels; when the process has gone it forgets the    *)
(* process and tells everyone who is still waiting.                        *)
(*                                                                         *)
(* Each section under mu is one step.  initMu is held for a whole          *)
(* handshake, and waiting for it does not end with the context.  Processes *)
(* are told apart by the number of exits before them.                      *)
(***************************************************************************)
EXTENDS Naturals, FiniteSets

CONSTANTS
    Callers,        \* goroutines that call the client, one call at a time each
    Nobody,
    MaxCalls,       \* bound on the calls
    MaxExits        \* after so many exits a process ends only by Close

ASSUME CallersAssumption == Nobody \notin Callers
ASSUME BoundsAssumption == MaxCalls \in Nat /\ MaxExits \in Nat

VARIABLES
    running,    \* c.cmd, and with it c.stdin, is not nil
    alive,      \* that process has not ended
    reading,    \* its stdout is being read
    served,     \* it has answered initialize
    input, output,      \* requests it has not read, answers nobody has read
    hand,       \* the answer whose channel the reader has taken
    initRes, initMu, seq, pending, closed,
    call, chan, \* the call each caller makes, and the channel of its request
    calls,      \* made so far
    exits, ran  \* history: exits the client has seen, requests that were carried out

procVars == <<running, alive, reading, served, input, output>>
history == <<calls, exits, ran>>
vars == <<procVars, hand, initRes, initMu, seq, pending, closed, call, chan, history>>

NoAnswer == [id |-> 0, answer |-> "none"]

(* id is the request made last, earlier the one that was answered by "not  *)
(* initialized", begun the exits seen when the call began; refused, if it   *)
(* returned that answer to its own request.                                *)
Call(pc, method) ==
    [pc |-> pc, method |-> method, attempt |-> 1, id |-> 0, earlier |-> 0,
     begun |-> exits, refused |-> FALSE]

Answers == {"ok", "error", "notInitialized"}

TypeOK ==
    /\ running \in BOOLEAN /\ alive \in BOOLEAN /\ reading \in BOOLEAN /\ served \in BOOLEAN
    /\ seq \in Nat /\ calls \in Nat /\ exits \in Nat
    /\ input \subseteq [id : 1 .. seq, method : {"initialize", "call"}]
    /\ output \subseteq [id : 1 .. seq, answer : Answers]
    /\ hand \in [id : 1 .. seq, answer : Answers] \cup {NoAnswer}
    /\ initRes \in BOOLEAN /\ initMu \in Callers \cup {Nobody} /\ closed \in BOOLEAN
    /\ pending \subseteq 1 .. seq /\ ran \subseteq 1 .. seq
    /\ call \in [Callers ->
                    [pc : {"idle", "check", "lock", "send", "write", "wait", "reset", "notify", "set"},
                     method : {"initialize", "call"}, attempt : {1, 2},
                     id : 0 .. seq, earlier : 0 .. seq, begun : 0 .. exits, refused : BOOLEAN]]
    /\ chan \in [Callers -> Answers \cup {"empty", "exited"}]

Init ==
    /\ running = FALSE /\ alive = FALSE /\ reading = FALSE /\ served = FALSE
    /\ input = {} /\ output = {} /\ hand = NoAnswer
    /\ initRes = FALSE /\ initMu = Nobody /\ seq = 0 /\ pending = {} /\ closed = FALSE
    /\ calls = 0 /\ exits = 0 /\ ran = {}
    /\ call = [c \in Callers |-> Call("idle", "call")]
    /\ chan = [c \in Callers |-> "empty"]

----------------------------------------------------------------------------
(* A call.                                                                 *)

At(c, pc) == call[c].pc = pc
GoTo(c, pc) == call' = [call EXCEPT ![c].pc = pc]
Handshaking(c) == initMu = c

Released(c) == IF Handshaking(c) THEN Nobody ELSE initMu

(* The call returns; a handshake that it made is over, well or not.        *)
End(c, refused) ==
    /\ call' = [call EXCEPT ![c].pc = "idle", ![c].refused = refused]
    /\ initMu' = Released(c)

(* sendRequest, or Initialize.                                             *)
Begin(c, method) ==
    /\ At(c, "idle") /\ calls < MaxCalls
    /\ calls' = calls + 1
    /\ call' = [call EXCEPT ![c] = Call(IF method = "call" THEN "check" ELSE "lock", method)]
    /\ UNCHANGED <<procVars, hand, initRes, initMu, seq, pending, closed, chan, exits, ran>>

(* ensureInitialized looks at initRes without initMu.                      *)
Check(c) ==
    /\ At(c, "check")
    /\ GoTo(c, IF initRes THEN "send" ELSE "lock")
    /\ UNCHANGED <<procVars, hand, initRes, initMu, seq, pending, closed, chan, history>>

(* The client is initialized: a call sends its own request.                *)
Initialized(c) ==
    IF call[c].method = "call" THEN GoTo(c, "send") /\ initMu' = Nobody ELSE End(c, FALSE)

LockInit(c) ==
    /\ At(c, "lock") /\ initMu = Nobody
    /\ IF initRes THEN Initialized(c) ELSE initMu' = c /\ GoTo(c, "send")
    /\ UNCHANGED <<procVars, hand, initRes, seq, pending, closed, chan, history>>

(* ensureProcessLocked: the process that runs, or a new one that nobody    *)
(* has initialized.                                                        *)
HaveProcess ==
    \/ running /\ UNCHANGED <<procVars, initRes>>
    \/ /\ ~running /\ ~closed
       /\ running' = TRUE /\ alive' = TRUE /\ reading' = TRUE /\ served' = FALSE
       /\ input' = {} /\ output' = {} /\ initRes' = FALSE

(* It is an error when the client is closed, or the process does not start.*)
NoProcess == ~running /\ UNCHANGED <<procVars, initRes>>

Register(c) ==
    /\ At(c, "send")
    /\ \/ /\ HaveProcess
          /\ seq' = seq + 1 /\ pending' = pending \cup {seq'}
          /\ call' = [call EXCEPT ![c].pc = "write", ![c].id = seq']
          /\ chan' = [chan EXCEPT ![c] = "empty"]
          /\ UNCHANGED initMu
       \/ NoProcess /\ End(c, FALSE) /\ UNCHANGED <<seq, pending, chan>>
    /\ UNCHANGED <<hand, closed, history>>

(* The write goes to the process of that moment, whoever it was meant for. *)
Write(c) ==
    /\ At(c, "write") /\ running /\ alive /\ ~closed
    /\ input' = input \cup {[id |-> call[c].id, method |-> IF Handshaking(c) THEN "initialize" ELSE "call"]}
    /\ GoTo(c, "wait")
    /\ UNCHANGED <<running, alive, reading, served, output, hand, initRes, initMu, seq,
                   pending, closed, chan, history>>

(* The process is gone; what it has written stays.                         *)
Dies ==
    /\ alive' = FALSE /\ served' = FALSE /\ input' = {}
    /\ UNCHANGED <<running, reading, output>>

DiesRunning == running /\ exits < MaxExits /\ Dies

(* After five seconds without progress the process is killed.              *)
WriteFails(c) ==
    /\ At(c, "write")
    /\ UNCHANGED procVars \/ DiesRunning
    /\ pending' = pending \ {call[c].id}
    /\ End(c, FALSE)
    /\ UNCHANGED <<hand, initRes, seq, closed, chan, history>>

(* The context ends: its deadline, or the caller's.                        *)
GiveUp(c) ==
    /\ At(c, "wait")
    /\ pending' = pending \ {call[c].id}
    /\ End(c, FALSE)
    /\ UNCHANGED <<procVars, hand, initRes, seq, closed, chan, history>>

(* sendRequest makes the call again, whichever of its requests the server  *)
(* has refused so, its own or that of its handshake; Initialize does not.  *)
Retried(c) ==
    chan[c] = "notInitialized" /\ call[c].method = "call" /\ call[c].attempt = 1

(* Mutated form: a call that the exit of the process ended is made again.  *)
ReceiveRetriesExited(c) ==
    /\ At(c, "wait") /\ chan[c] # "empty"
    /\ IF Handshaking(c) /\ chan[c] = "ok" THEN GoTo(c, "notify") /\ UNCHANGED initMu
       ELSE IF Retried(c) \/ (chan[c] = "exited" /\ call[c].attempt = 1)
       THEN GoTo(c, "reset") /\ initMu' = Released(c)
       ELSE End(c, ~Handshaking(c) /\ chan[c] = "notInitialized")
    /\ UNCHANGED <<procVars, hand, initRes, seq, pending, closed, chan, history>>

Receive(c) ==
    /\ At(c, "wait") /\ chan[c] # "empty"
    /\ IF Handshaking(c) /\ chan[c] = "ok" THEN GoTo(c, "notify") /\ UNCHANGED initMu
       ELSE IF Retried(c) THEN GoTo(c, "reset") /\ initMu' = Released(c)
       ELSE End(c, ~Handshaking(c) /\ chan[c] = "notInitialized")
    /\ UNCHANGED <<procVars, hand, initRes, seq, pending, closed, chan, history>>

(* Mutated form: what initialize returned is kept.                         *)
ResetKeepsInitRes(c) ==
    /\ At(c, "reset")
    /\ UNCHANGED initRes
    /\ call' = [call EXCEPT ![c].pc = "check", ![c].attempt = 2, ![c].earlier = call[c].id]
    /\ UNCHANGED <<procVars, hand, initMu, seq, pending, closed, chan, history>>

(* The server was not initialized: once more, from the handshake on.       *)
Reset(c) ==
    /\ At(c, "reset")
    /\ initRes' = FALSE
    /\ call' = [call EXCEPT ![c].pc = "check", ![c].attempt = 2, ![c].earlier = call[c].id]
    /\ UNCHANGED <<procVars, hand, initMu, seq, pending, closed, chan, history>>

(* sendNotification; it too starts a process when there is none, and what  *)
(* becomes of it does not matter.                                          *)
Notify(c) ==
    /\ At(c, "notify")
    /\ GoTo(c, "set")
    /\ \/ HaveProcess
       \/ NoProcess
       \/ DiesRunning /\ UNCHANGED initRes
    /\ UNCHANGED <<hand, initMu, seq, pending, closed, chan, history>>

(* Mutated form: initMu is not released.                                   *)
SetInitResKeepsLock(c) ==
    /\ At(c, "set")
    /\ initRes' = TRUE
    /\ GoTo(c, IF call[c].method = "call" THEN "send" ELSE "idle") /\ UNCHANGED initMu
    /\ UNCHANGED <<procVars, hand, seq, pending, closed, chan, history>>

SetInitRes(c) ==
    /\ At(c, "set")
    /\ initRes' = TRUE
    /\ Initialized(c)
    /\ UNCHANGED <<procVars, hand, seq, pending, closed, chan, history>>

CallerStep(c) ==
    \/ Check(c) \/ LockInit(c) \/ Register(c) \/ Write(c) \/ WriteFails(c)
    \/ GiveUp(c) \/ Receive(c) \/ Reset(c) \/ Notify(c) \/ SetInitRes(c)

----------------------------------------------------------------------------
(* The server.                                                             *)

(* It refuses calls until it has granted initialize, and it may never      *)
(* answer.  A server that waits for notifications/initialized too is not   *)
(* told apart: that is written before initRes is set.  "ok" to a call is   *)
(* its result, good or bad.                                                *)
Handle(request, answer) ==
    /\ alive /\ request \in input
    /\ answer \in IF request.method = "initialize" THEN Answers
                 ELSE IF served THEN {"ok"} ELSE {"notInitialized"}
    /\ input' = input \ {request}
    /\ output' = IF reading THEN output \cup {[id |-> request.id, answer |-> answer]} ELSE output
    /\ served' = (served \/ (request.method = "initialize" /\ answer = "ok"))
    /\ ran' = IF request.method = "call" /\ served THEN ran \cup {request.id} ELSE ran
    /\ UNCHANGED <<running, alive, reading, hand, initRes, initMu, seq, pending, closed, call, chan,
                   calls, exits>>

Exit ==
    /\ running /\ alive /\ (exits < MaxExits \/ closed)
    /\ Dies
    /\ UNCHANGED <<hand, initRes, initMu, seq, pending, closed, call, chan, history>>

----------------------------------------------------------------------------
(* readResponses, and Close.                                               *)

(* Mutated form: the channel is left in the map.                           *)
TakeLeavesChannel(answer) ==
    /\ running /\ reading /\ hand = NoAnswer /\ answer \in output
    /\ output' = output \ {answer}
    /\ hand' = IF answer.id \in pending THEN answer ELSE NoAnswer
    /\ pending' = pending
    /\ UNCHANGED <<running, alive, reading, served, input, initRes, initMu, seq, closed, call, chan, history>>

Take(answer) ==
    /\ running /\ reading /\ hand = NoAnswer /\ answer \in output
    /\ output' = output \ {answer}
    /\ hand' = IF answer.id \in pending THEN answer ELSE NoAnswer
    /\ pending' = pending \ {answer.id}
    /\ UNCHANGED <<running, alive, reading, served, input, initRes, initMu, seq, closed, call, chan, history>>

Sent(id, answer) ==
    chan' = [c \in Callers |-> IF call[c].id = id /\ At(c, "wait") THEN answer ELSE chan[c]]

Deliver ==
    /\ hand # NoAnswer
    /\ Sent(hand.id, hand.answer)
    /\ hand' = NoAnswer
    /\ UNCHANGED <<procVars, initRes, initMu, seq, pending, closed, call, history>>

(* A line of more than 10 MB ends the loop, and not the process.           *)
StopReading ==
    /\ running /\ reading /\ hand = NoAnswer
    /\ reading' = FALSE /\ output' = {}
    /\ UNCHANGED <<running, alive, served, input, hand, initRes, initMu, seq, pending, closed,
                   call, chan, history>>

ReadToEnd == running /\ ~alive /\ hand = NoAnswer /\ output = {}

(* Mutated form: those who wait are not told.                              *)
CleanupLeavesPending ==
    /\ ReadToEnd
    /\ running' = FALSE /\ reading' = FALSE /\ initRes' = FALSE /\ exits' = exits + 1
    /\ UNCHANGED <<alive, served, input, output, hand, initMu, seq, pending, chan, closed, call, calls, ran>>

(* cmd.Wait has returned.                                                  *)
Cleanup ==
    /\ ReadToEnd
    /\ running' = FALSE /\ reading' = FALSE /\ initRes' = FALSE /\ exits' = exits + 1
    /\ pending' = {}
    /\ chan' = [c \in Callers |-> IF call[c].id \in pending THEN "exited" ELSE chan[c]]
    /\ UNCHANGED <<alive, served, input, output, hand, initMu, seq, closed, call, calls, ran>>

(* It closes stdin and kills the process, which ends some time later.      *)
Close ==
    /\ ~closed
    /\ closed' = TRUE
    /\ UNCHANGED <<procVars, hand, initRes, initMu, seq, pending, call, chan, history>>

----------------------------------------------------------------------------
Next ==
    \/ \E c \in Callers : CallerStep(c) \/ \E method \in {"initialize", "call"} : Begin(c, method)
    \/ \E request \in input, answer \in Answers : Handle(request, answer)
    \/ \E answer \in output : Take(answer)
    \/ Deliver \/ StopReading \/ Cleanup \/ Exit \/ Close

(* Goroutines run, and contexts end: every provider has a timeout.         *)
Fairness == \A c \in Callers : WF_vars(CallerStep(c))

Spec == Init /\ [][Next]_vars /\ Fairness

----------------------------------------------------------------------------
(* Properties.                                                             *)

(* Whoever waits in the map of channels has a process to wait for: no exit *)
(* leaves a call behind that nobody will ever answer.                      *)
NobodyIsForgotten == pending # {} => running

(* A channel holds one message.  The reader, who sends with mu held when   *)
(* the process has gone, never finds one full.                             *)
NoSendBlocks ==
    \A c \in Callers :
        (At(c, "wait") /\ call[c].id \in pending \cup {hand.id}) => chan[c] = "empty"

(* The retry after "not initialized" never has a tool run twice, whichever *)
(* processes have read the two requests.                                   *)
RunsAtMostOnce ==
    \A c \in Callers : ~(call[c].earlier # call[c].id /\ {call[c].earlier, call[c].id} \subseteq ran)

(* A call is told that the server is not initialized only if a process     *)
(* exited under it: a handshake that outlived its process is repaired by   *)
(* the one retry.                                                          *)
NotInitializedMeansExit ==
    \A c \in Callers : call[c].refused => exits > call[c].begun

(* Every call returns, behind a server that hangs, a handshake of another  *)
(* caller and a reader that has stopped.                                   *)
CallsEnd == \A c \in Callers : ~At(c, "idle") ~> At(c, "idle")
=============================================================================

------------------------------ MODULE Session ------------------------------
(***************************************************************************)
(* The life of a debug session: the request loop of                        *)
(* cmd/dap-adapter/main.go, the runtime it starts and stops, and the state *)
(* of the server in internal/dap/adapter/server.go.  Three goroutines:     *)
(* main reads requests, answers them and stops the runtime; run is the     *)
(* receive loop of the dispatcher; the bridge turns messages of the        *)
(* interpreter into DAP events.  main and the bridge share Server.mu and   *)
(* the writer of the DAP messages.                                         *)
(*                                                                         *)
(* Of a request only its effect on the session matters: launch stands for  *)
(* attach too, disconnect for terminate, and control for every request     *)
(* that sends a command to the interpreter while it holds Server.mu        *)
(* (continue, next, stepIn, stepOut, pause, threads).  Of a message:       *)
(* whether the dispatcher may write its queue before it passes the message *)
(* on (prompt), the bridge makes an event of it, possibly with deferred    *)
(* breakpoints to send first (stop), or ends the session (fatal).          *)
(***************************************************************************)
EXTENDS Integers, Sequences, FiniteSets, SequencesExt

CONSTANTS
    MaxRequests,    \* bound: requests of the client
    MaxMessages,    \* bound: messages of the interpreter
    Capacity        \* room in the channel of the bridge

ASSUME BoundsAssumption ==
    /\ MaxRequests \in Nat /\ MaxMessages \in Nat
    /\ Capacity \in Nat \ {0}

VARIABLES
    state,          \* Server.state
    controller,     \* rideController is not nil
    started,        \* rideRuntime.dispatcher is not nil
    conn,           \* the connection of the harness
    peer,           \* whether the interpreter still holds its end of it
    cancelled,      \* runCtx
    subscribed,     \* the dispatcher knows the channel of the bridge
    line,           \* messages of the interpreter not read yet
    events,         \* the channel of the bridge
    main, request,  \* where main stands, and the request it handles
    success, follow, \* the response it will write, and the events after it
    run, message, snapshot, \* where run stands, its message, whether it publishes it
    bridge, taken, outbound, \* where the bridge stands, its message and its events
    writer, nextSeq, number, \* dapWriter.mu and nextSeq; the number drawn
    output,         \* the DAP messages written to the client, summed up
    client,         \* no write to the client has failed yet
    requests,       \* number of requests read
    messages,       \* number of messages the interpreter has sent
    gaveUp          \* history: waitForDone timed out

server  == <<state, controller>>
link    == <<conn, peer>>
mains   == <<main, request, success, follow, requests, gaveUp>>
runs    == <<run, message, snapshot>>
bridges == <<bridge, taken, outbound>>
writing == <<writer, nextSeq, number, output, client>>
vars == <<server, started, link, cancelled, subscribed, line, events, mains, runs,
          bridges, writing, messages>>

Commands  == {"initialize", "launch", "configurationDone", "control", "disconnect"}
Messages  == {"prompt", "stop", "fatal"}
Events    == {"initialized", "output", "stopped", "terminated"}
Writers   == {"main", "bridge"}
NoRequest == [id |-> 0, command |-> "initialize", late |-> FALSE]

NoOutput  == [count |-> 0, answers |-> 0, last |-> [seq |-> 0, event |-> "initialized"],
              greeted |-> FALSE, ended |-> FALSE]

\* Where main stops the runtime.
Stopping == {"stop", "close", "cancel", "waitRun", "waitBridge"}

Request == [id : 0..MaxRequests, command : Commands, late : BOOLEAN]
Written == [seq : Nat, event : Events] \cup
           [seq : Nat, to : Request, success : BOOLEAN]

\* How many messages and responses have been written, the last one, and whether
\* the client has been greeted (initialize answered) and told of the end.
Output == [count : Nat, answers : Nat, last : Written, greeted : BOOLEAN, ended : BOOLEAN]

TypeOK ==
    /\ state \in {"created", "initialized", "attached", "terminated"}
    /\ controller \in BOOLEAN /\ started \in BOOLEAN
    /\ conn \in {"none", "open", "closed"} /\ peer \in BOOLEAN
    /\ cancelled \in BOOLEAN /\ subscribed \in BOOLEAN
    /\ line \in Seq(Messages) /\ events \in Seq(Messages)
    /\ main \in {"read", "start", "handle", "configure", "send", "respond", "follow", "done"}
                \cup Stopping
    /\ request \in Request /\ success \in BOOLEAN /\ follow \in Seq(Events)
    /\ run \in {"none", "top", "read", "flush", "publish", "ended"}
    /\ message \in Messages /\ snapshot \in BOOLEAN
    /\ bridge \in {"none", "idle", "handle", "send", "write", "ended"}
    /\ taken \in Messages /\ outbound \in Seq(Events)
    /\ writer \in Writers \cup {"free"} /\ nextSeq \in Nat
    /\ number \in [Writers -> Nat]
    /\ output \in Output /\ client \in BOOLEAN
    /\ requests \in 0..MaxRequests /\ messages \in 0..MaxMessages
    /\ gaveUp \in BOOLEAN

Init ==
    /\ state = "created" /\ controller = FALSE /\ started = FALSE
    /\ conn = "none" /\ peer = FALSE
    /\ cancelled = FALSE /\ subscribed = FALSE
    /\ line = <<>> /\ events = <<>>
    /\ main = "read" /\ request = NoRequest /\ success = FALSE /\ follow = <<>>
    /\ run = "none" /\ message = "prompt" /\ snapshot = FALSE
    /\ bridge = "none" /\ taken = "prompt" /\ outbound = <<>>
    /\ writer = "free" /\ nextSeq = 1 /\ number = [w \in Writers |-> 0]
    /\ output = NoOutput /\ client = TRUE
    /\ requests = 0 /\ messages = 0 /\ gaveUp = FALSE

-----------------------------------------------------------------------------
(* The interpreter (external).                *)

InterpreterSends ==
    /\ peer /\ conn = "open" /\ messages < MaxMessages
    /\ \E m \in Messages : line' = Append(line, m)
    /\ messages' = messages + 1
    /\ UNCHANGED <<server, started, link, cancelled, subscribed, events, mains, runs,
                   bridges, writing>>

InterpreterLeaves ==
    /\ peer
    /\ peer' = FALSE
    /\ UNCHANGED <<server, started, conn, cancelled, subscribed, line, events, mains, runs,
                   bridges, writing, messages>>

\* A write to the interpreter blocks until the interpreter takes it or the
\* connection ends.
Broken == conn = "closed" \/ ~peer

-----------------------------------------------------------------------------
(* The writer of the DAP messages. *)

Mut_Draw(w) ==
    /\ writer = "free"
    /\ number' = [number EXCEPT ![w] = nextSeq]
    /\ nextSeq' = nextSeq + 1
    /\ UNCHANGED <<writer, output, client>>

\* A number is drawn and the message written under dapWriter.mu.
Draw(w) ==
    /\ writer = "free"
    /\ writer' = w
    /\ number' = [number EXCEPT ![w] = nextSeq]
    /\ nextSeq' = nextSeq + 1
    /\ UNCHANGED <<output, client>>

Drawn(w) == number[w] # 0

EventNamed(e, w)     == [seq |-> number[w], event |-> e]
ResponseTo(r, ok, w) == [seq |-> number[w], to |-> r, success |-> ok]
IsResponse(m) == "to" \in DOMAIN m

WithMessage(m) ==
    [count   |-> output.count + 1,
     answers |-> IF IsResponse(m) THEN output.answers + 1 ELSE output.answers,
     last    |-> m,
     greeted |-> output.greeted \/ (IsResponse(m) /\ m.success /\ m.to.command = "initialize"),
     ended   |-> output.ended \/ (~IsResponse(m) /\ m.event = "terminated")]

\* A write fails when the client has gone, and then so do all later ones.
Put(w, m) ==
    /\ Drawn(w)
    /\ \/ client /\ output' = WithMessage(m) /\ UNCHANGED client
       \/ client' = FALSE /\ UNCHANGED output
    /\ number' = [number EXCEPT ![w] = 0]
    /\ writer' = "free"
    /\ UNCHANGED nextSeq

-----------------------------------------------------------------------------
(* main: requests. *)

Rest == <<cancelled, subscribed, line, events, runs, bridges, messages>>

\* Server.mu is held by main while a control command is written, and by nobody
\* between two other steps.
MutexFree == main # "send"

Mut_Startable(command) == command = "launch" /\ ~started

\* CanLaunchOrAttach and started, of main's loop
Startable(command) == command = "launch" /\ state = "initialized" /\ ~started

ReadRequest ==
    /\ main = "read" /\ requests < MaxRequests
    /\ requests' = requests + 1
    /\ \E c \in Commands :
          /\ request' = [id |-> requests', command |-> c, late |-> output.ended]
          /\ main' = IF Startable(c) THEN "start" ELSE "handle"
    /\ success' = FALSE
    /\ UNCHANGED <<server, started, link, Rest, follow, gaveUp, writing>>

\* The input ends or cannot be decoded: main returns through the deferred stop.
InputEnds ==
    /\ main = "read"
    /\ main' = "stop"
    /\ UNCHANGED <<server, started, link, Rest, request, success, follow, requests,
                   gaveUp, writing>>

Respond(ok, then) ==
    /\ success' = ok /\ follow' = then
    /\ main' = "respond"
    /\ UNCHANGED <<request, requests, gaveUp>>

Proceed(place) ==
    /\ main' = place
    /\ UNCHANGED <<request, success, follow, requests, gaveUp>>

\* rideRuntime.start: the goroutines run, and the server has its controller,
\* before the server hears of the request.
StartSucceeds ==
    /\ main = "start"
    /\ conn' = "open" /\ peer' = TRUE
    /\ subscribed' = TRUE /\ controller' = TRUE /\ started' = TRUE
    /\ run' = "top" /\ bridge' = "idle"
    /\ Proceed("handle")
    /\ UNCHANGED <<state, cancelled, line, events, message, snapshot, taken, outbound,
                   writing, messages>>

StartFails ==
    /\ main = "start"
    /\ Respond(FALSE, <<>>)
    /\ UNCHANGED <<server, started, link, Rest, writing>>

Mut_Accepted(command) ==
    CASE command = "initialize"        -> state = "created"
      [] command = "launch"            -> state # "created"
      [] command = "configurationDone" -> state = "attached"
      [] command = "control"           -> state = "attached" /\ controller
      [] command = "disconnect"        -> state # "terminated"

\* HandleRequest: the states in which a request is accepted
Accepted(command) ==
    CASE command = "initialize"        -> state = "created"
      [] command = "launch"            -> state = "initialized"
      [] command = "configurationDone" -> state = "attached"
      [] command = "control"           -> state = "attached" /\ controller
      [] command = "disconnect"        -> state # "terminated"

NextState(command) ==
    CASE command = "initialize" -> "initialized"
      [] command = "launch"     -> "attached"
      [] command = "disconnect" -> "terminated"
      [] OTHER                  -> state

Handle ==
    /\ main = "handle"
    /\ LET c == request.command IN
       \/ /\ ~Accepted(c)
          /\ Respond(FALSE, <<>>)
          /\ UNCHANGED state
       \/ /\ Accepted(c)
          /\ state' = NextState(c)
          /\ CASE c = "configurationDone" -> Proceed("configure")
               [] c = "control"           -> Proceed("send")
               [] c = "initialize"        -> Respond(TRUE, <<"initialized">>)
               [] OTHER                   -> Respond(TRUE, <<>>)
    /\ UNCHANGED <<controller, started, link, Rest, writing>>

\* executeConfiguredLaunchExpression: it writes, and waits with a timer (see
\* Executions).
Configured ==
    /\ main = "configure"
    /\ \E ok \in BOOLEAN : Respond(ok, <<>>)
    /\ UNCHANGED <<server, started, link, Rest, writing>>

\* A control command is written, held in the dispatcher's queue or not sent for
\* want of an active window; it fails when the connection is broken.
ControlSent ==
    /\ main = "send"
    /\ \E ok \in BOOLEAN : Respond(ok, <<>>)
    /\ UNCHANGED <<server, started, link, Rest, writing>>

MainDraws ==
    /\ main = "respond" \/ (main = "follow" /\ follow # <<>>)
    /\ ~Drawn("main")
    /\ Draw("main")
    /\ UNCHANGED <<server, started, link, Rest, mains>>

AfterResponse ==
    IF request.command = "disconnect" /\ success /\ follow = <<>> THEN "stop" ELSE "follow"

\* A write that fails makes main return, through the deferred stop.
WriteResponse ==
    /\ main = "respond"
    /\ Put("main", ResponseTo(request, success, "main"))
    /\ Proceed(IF client' THEN AfterResponse ELSE "stop")
    /\ UNCHANGED <<server, started, link, Rest>>

WriteFollowing ==
    /\ main = "follow" /\ follow # <<>>
    /\ Put("main", EventNamed(Head(follow), "main"))
    /\ follow' = Tail(follow)
    /\ main' = IF client' THEN "follow" ELSE "stop"
    /\ UNCHANGED <<server, started, link, Rest, request, success, requests, gaveUp>>

NextRequest ==
    /\ main = "follow" /\ follow = <<>>
    /\ Proceed("read")
    /\ UNCHANGED <<server, started, link, Rest, writing>>

-----------------------------------------------------------------------------
(* main: rideRuntime.stop. *)

Forget ==
    /\ main = "stop"
    /\ started' = FALSE /\ controller' = FALSE /\ subscribed' = FALSE
    /\ Proceed(IF started THEN "close" ELSE "done")
    /\ UNCHANGED <<state, link, cancelled, line, events, runs, bridges, messages, writing>>

Mut_CloseHarness ==
    /\ main = "close"
    /\ UNCHANGED conn
    /\ Proceed("cancel")
    /\ UNCHANGED <<server, started, peer, Rest, writing>>

CloseHarness ==
    /\ main = "close"
    /\ conn' = "closed"
    /\ Proceed("cancel")
    /\ UNCHANGED <<server, started, peer, Rest, writing>>

Cancel ==
    /\ main = "cancel"
    /\ cancelled' = TRUE
    /\ Proceed("waitRun")
    /\ UNCHANGED <<server, started, link, subscribed, line, events, runs, bridges, messages, writing>>

Mut_Awaited(place) == IF place = "waitRun" THEN run = "ended" ELSE TRUE

\* runDone and bridgeDone
Awaited(place) == IF place = "waitRun" THEN run = "ended" ELSE bridge = "ended"

AfterWait(place) == IF place = "waitRun" THEN "waitBridge" ELSE "done"

WaitEnds ==
    /\ main \in {"waitRun", "waitBridge"}
    /\ Awaited(main)
    /\ Proceed(AfterWait(main))
    /\ UNCHANGED <<server, started, link, Rest, writing>>

WaitTimesOut ==
    /\ main \in {"waitRun", "waitBridge"}
    /\ main' = AfterWait(main)
    /\ gaveUp' = TRUE
    /\ UNCHANGED <<server, started, link, Rest, request, success, follow, requests, writing>>

-----------------------------------------------------------------------------
(* run: the receive loop of the dispatcher. *)

Others == <<server, started, link, cancelled, mains, bridges, writing, messages>>

\* The context is looked at and the reader of the connection is taken.
RunLoops ==
    /\ run = "top"
    /\ run' = IF cancelled \/ conn = "closed" THEN "ended" ELSE "read"
    /\ UNCHANGED <<Others, subscribed, line, events, message, snapshot>>

\* A message that has arrived is read even if the connection has been closed.
RunReads ==
    /\ run = "read" /\ line # <<>>
    /\ message' = Head(line) /\ line' = Tail(line)
    /\ \/ message' = "prompt" /\ run' = "flush" /\ UNCHANGED snapshot
       \/ run' = "publish" /\ snapshot' = subscribed
    /\ UNCHANGED <<Others, subscribed, events>>

RunReadFails ==
    /\ run = "read" /\ Broken
    /\ line = <<>> \/ conn = "closed"
    /\ run' = "ended"
    /\ UNCHANGED <<Others, subscribed, line, events, message, snapshot>>

\* The queue is written, or a write fails and the rest is kept.
RunFlushes ==
    /\ run = "flush"
    /\ run' = "publish" /\ snapshot' = subscribed
    /\ UNCHANGED <<Others, subscribed, line, events, message>>

\* A message is lost to a subscriber that has no room for it.
RunPublishes ==
    /\ run = "publish"
    /\ run' = "top"
    /\ events' = IF snapshot /\ Len(events) < Capacity THEN Append(events, message) ELSE events
    /\ message' = "prompt" /\ snapshot' = FALSE
    /\ UNCHANGED <<Others, subscribed, line>>

-----------------------------------------------------------------------------
(* The bridge. *)

\* select chooses freely between a message and the end of the context.
BridgeTakes ==
    /\ bridge = "idle" /\ events # <<>>
    /\ taken' = Head(events) /\ events' = Tail(events)
    /\ bridge' = "handle"
    /\ UNCHANGED <<server, started, link, cancelled, subscribed, line, mains, runs,
                   outbound, writing, messages>>

BridgeEnds ==
    /\ bridge = "idle" /\ cancelled
    /\ bridge' = "ended"
    /\ UNCHANGED <<server, started, link, cancelled, subscribed, line, events, mains, runs,
                   taken, outbound, writing, messages>>

Mut_EventsOf(m) == <<m>>

EventsOf(m) ==
    CASE m = "prompt" -> <<>>
      [] m = "fatal"  -> <<"output", "terminated">>
      [] OTHER        -> <<"stopped">>

Mut_BridgeHandles ==
    /\ bridge = "handle"
    /\ state' = IF taken = "fatal" THEN "terminated" ELSE state
    /\ outbound' = IF MutexFree THEN EventsOf(taken) ELSE <<>>
    /\ bridge' = "write" /\ taken' = "prompt"
    /\ UNCHANGED <<controller, started, link, cancelled, subscribed, line, events, mains,
                   runs, writing, messages>>

\* HandleRidePayload
BridgeHandles ==
    /\ bridge = "handle" /\ MutexFree
    /\ state' = IF taken = "fatal" THEN "terminated" ELSE state
    /\ outbound' = EventsOf(taken)
    /\ bridge' = "write" \/ (taken = "stop" /\ bridge' = "send")
    /\ taken' = "prompt"
    /\ UNCHANGED <<controller, started, link, cancelled, subscribed, line, events, mains,
                   runs, writing, messages>>

\* executeOutboundIntents, outside the mutex
BridgeSends ==
    /\ bridge = "send"
    /\ bridge' = "write"
    /\ UNCHANGED <<server, started, link, cancelled, subscribed, line, events, mains, runs,
                   taken, outbound, writing, messages>>

BridgeDraws ==
    /\ bridge = "write" /\ outbound # <<>> /\ ~Drawn("bridge")
    /\ Draw("bridge")
    /\ UNCHANGED <<server, started, link, cancelled, subscribed, line, events, mains, runs,
                   bridges, messages>>

BridgeWrites ==
    /\ bridge = "write" /\ outbound # <<>>
    /\ Put("bridge", EventNamed(Head(outbound), "bridge"))
    /\ outbound' = Tail(outbound)
    /\ UNCHANGED <<server, started, link, cancelled, subscribed, line, events, mains, runs,
                   bridge, taken, messages>>

BridgeLoops ==
    /\ bridge = "write" /\ outbound = <<>>
    /\ bridge' = "idle"
    /\ UNCHANGED <<server, started, link, cancelled, subscribed, line, events, mains, runs,
                   taken, outbound, writing, messages>>

-----------------------------------------------------------------------------
Outside == InterpreterSends \/ InterpreterLeaves

Stop ==
    Forget \/ CloseHarness \/ Cancel \/ WaitEnds \/ WaitTimesOut

Serve == Handle \/ MainDraws \/ WriteResponse \/ WriteFollowing \/ NextRequest

\* main calls the interpreter, or writes to it.
Calls == StartSucceeds \/ StartFails \/ Configured \/ ControlSent

RunStep == RunLoops \/ RunReads \/ RunReadFails \/ RunFlushes \/ RunPublishes

BridgeStep ==
    \/ BridgeTakes \/ BridgeEnds \/ BridgeHandles \/ BridgeSends
    \/ BridgeDraws \/ BridgeWrites \/ BridgeLoops

Next == Outside \/ ReadRequest \/ InputEnds \/ Serve \/ Calls \/ Stop \/ RunStep \/ BridgeStep

Spec == Init /\ [][Next]_vars

(***************************************************************************)
(* Fairness.  A goroutine that can go on does, the timers of a stop        *)
(* expire, and a write to a broken connection fails.  Nothing is assumed   *)
(* of the interpreter: it may be silent, keep the connection open and take *)
(* nothing that is written to it, so that a control command, the link or   *)
(* launch expression, a flush or a save of the bridge may never return.    *)
(* Nothing is assumed of the client, except that it takes what is written  *)
(* to it or closes the stream.                                             *)
(***************************************************************************)
Fairness ==
    /\ WF_vars(Serve) /\ WF_vars(Stop)
    /\ WF_vars(RunLoops \/ RunReads \/ RunReadFails \/ RunPublishes)
    /\ WF_vars(BridgeTakes \/ BridgeHandles \/ BridgeDraws \/ BridgeWrites \/ BridgeLoops)
    /\ WF_vars(BridgeEnds)
    /\ WF_vars(Broken /\ RunFlushes) /\ WF_vars(Broken /\ BridgeSends)
    /\ WF_vars(Broken /\ Configured) /\ WF_vars(Broken /\ ControlSent)

FairSpec == Spec /\ Fairness

-----------------------------------------------------------------------------
(* Properties. *)

GoroutinesEnded == run \in {"none", "ended"} /\ bridge \in {"none", "ended"}

\* However the program ends, by disconnect, at the end of its input or when a
\* message cannot be written, and whatever the other goroutines were doing, it
\* leaves no connection open and the server without a controller; and no
\* goroutine that could write to the client, unless it gave up waiting.
CleanEnd ==
    main = "done" =>
        /\ conn # "open" /\ ~started /\ ~controller
        /\ ~gaveUp => GoroutinesEnded

\* The messages written to the client are numbered in the order in which they
\* are written, and its requests are answered in their order and once each,
\* however the events of the bridge fall between.
OutputOrdered ==
    /\ output.last.seq = output.count
    /\ IsResponse(output.last) => output.last.to.id = output.answers

\* Nothing the interpreter sends becomes an event before the client has the
\* answer to initialize.
NoEarlyEvent == output.count > 0 /\ ~IsResponse(output.last) => output.greeted

\* Once the client has been told that the session has terminated, no request it
\* sends afterwards succeeds.
NoSuccessAfterTerminated ==
    IsResponse(output.last) /\ output.last.to.late => ~output.last.success

\* When the runtime is stopped its goroutines end, even if the interpreter sends
\* nothing and keeps the connection open, or takes nothing of what they write:
\* the wait for them does not depend on its timeout.
GoroutinesEnd == main \in Stopping ~> GoroutinesEnded

\* A fatal signal that has been passed to the bridge is reported to the client,
\* unless the session is being stopped, the client has gone, or main or the
\* bridge hangs in a write that the interpreter does not take.
FatalReported ==
    ([]<>(main # "send") /\ []<>(bridge # "send")) =>
        ("fatal" \in Range(events) ~>
            output.ended \/ main \in Stopping \cup {"done"} \/ ~client)

=============================================================================

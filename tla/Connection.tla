---------------------------- MODULE Connection ----------------------------
(***************************************************************************)
(* The connection to the interpreter: the harness that starts a process    *)
(* group, dials, shakes hands and tears all of it down again               *)
(* (internal/integration/harness), the settings it starts from             *)
(* (internal/runtime/config), and the client that frames payloads          *)
(* (internal/ride/transport).                                              *)
(*                                                                         *)
(* main executes Harness.Start, writes commands and executes               *)
(* Harness.Close; once the connection is there, the bridge writes commands *)
(* too and run reads.  A frame goes out in three writes (length, magic,    *)
(* payload) under writeMu, a read is under readMu, and Close takes neither *)
(* of them, so it may fall between the writes of a frame.  run is the only *)
(* reader, so readMu is never waited for and is not kept here.             *)
(*                                                                         *)
(* Frames are numbered: the greeting of the handshake first, in its order, *)
(* then the commands in the order in which callers issue them.             *)
(***************************************************************************)
EXTENDS Integers, Sequences

CONSTANTS
    MaxCommands,    \* bound: commands written after the handshake
    MaxMessages     \* bound: frames of the interpreter

ASSUME BoundsAssumption == MaxCommands \in Nat /\ MaxMessages \in Nat

VARIABLES
    request,        \* launch or attach
    setting,        \* where a launch command is set (nowhere, environment, request);
                    \* not used once the configuration is read
    main, step,     \* where main stands, and in the handshake
    leader, child,  \* the shell of the launch command and what it started
    stubborn,       \* the processes that do not end at SIGTERM
    unsignalled,    \* history: SIGTERM missed the child: its shell had gone when the
                    \* group was stopped, or started it only after the signal
    conn,           \* the connection, and Client.conn
    transcript,     \* the transcript file
    broken,         \* a write has failed: the connection takes no more
    peer,           \* the interpreter holds its end
    inbound, messages, \* frames of the interpreter not read yet, and their number
    run,            \* where the reader stands
    bridge,         \* whether the bridge is in WritePayload
    writeMu,        \* who holds it
    frame, part,    \* per writer: the frame it writes, and the parts written
    commands,       \* number of commands issued
    out             \* parts of frames the interpreter has received

config  == <<request, setting>>
group   == <<leader, child, stubborn, unsignalled>>
stream  == <<broken, writeMu, frame, part, out>>
partner == <<peer, inbound, messages>>
vars == <<config, main, step, group, conn, transcript, partner, run, bridge, stream, commands>>

Writers == {"main", "bridge"}
Nobody  == "nobody"

\* SupportedProtocols, UsingProtocol, Identify, Connect, GetWindowLayout
Greetings == 5
Frames    == 1..(Greetings + MaxCommands)
Parts     == 3      \* length, magic, payload

\* What InitializeSession does, in its order.
Handshake == <<"read", "write", "write", "read", "write", "write", "write">>
Expected(s) == IF s = 1 THEN "supported" ELSE "using"
GreetingAt(s) == <<0, 1, 2, 2, 3, 4, 5>>[s]   \* the writes up to step s
Shaken == Len(Handshake) + 1

Inbound == {"supported", "using", "message", "invalid"}
Piece   == [frame : Frames, part : 1..Parts]
Process == {"none", "running", "ended"}

\* Where main tears down, after a failure or in Close.
Teardown == {"closeConn", "closeTranscript", "stopGroup", "waitLeader", "kill", "reap"}

TypeOK ==
    /\ request \in {"launch", "attach"} /\ setting \in {"none", "environment", "explicit"}
    /\ main \in {"config", "launch", "dial", "open", "handshake", "ready", "ended"} \cup Teardown
    /\ step \in 1..Shaken
    /\ leader \in Process /\ child \in Process
    /\ stubborn \in SUBSET {"leader", "child"} /\ unsignalled \in BOOLEAN
    /\ conn \in {"none", "open", "closed"} /\ transcript \in {"none", "open", "closed"}
    /\ broken \in BOOLEAN /\ peer \in BOOLEAN
    /\ inbound \in Seq(Inbound) /\ messages \in 0..MaxMessages
    /\ run \in {"none", "top", "read", "ended"} /\ bridge \in BOOLEAN
    /\ writeMu \in Writers \cup {Nobody}
    /\ frame \in [Writers -> Frames \cup {0}]
    /\ part \in [Writers -> 0..Parts]
    /\ commands \in 0..MaxCommands
    /\ out \in Seq(Piece)

Init ==
    /\ request \in {"launch", "attach"} /\ setting \in {"none", "environment", "explicit"}
    /\ main = "config" /\ step = 1
    /\ leader = "none" /\ child = "none" /\ unsignalled = FALSE
    /\ stubborn = {}
    /\ conn = "none" /\ transcript = "none" /\ broken = FALSE
    /\ peer = FALSE /\ inbound = <<>> /\ messages = 0
    /\ run = "none" /\ bridge = FALSE
    /\ writeMu = Nobody
    /\ frame = [w \in Writers |-> 0] /\ part = [w \in Writers |-> 0]
    /\ commands = 0 /\ out = <<>>

-----------------------------------------------------------------------------
(* The interpreter and its processes (external). *)

PeerSends ==
    /\ peer /\ conn = "open" /\ messages < MaxMessages
    /\ \E m \in Inbound : inbound' = Append(inbound, m)
    /\ messages' = messages + 1
    /\ UNCHANGED <<config, main, step, group, conn, transcript, peer, run, bridge, stream, commands>>

PeerLeaves ==
    /\ peer
    /\ peer' = FALSE
    /\ UNCHANGED <<config, main, step, group, conn, transcript, inbound, messages, run, bridge,
                   stream, commands>>

Elsewhere == <<config, main, step, conn, transcript, partner, run, bridge, stream, commands>>

LeaderForks ==
    /\ leader = "running" /\ child = "none"
    /\ child' = "running"
    /\ unsignalled' = (main \in {"waitLeader", "kill"})
    /\ UNCHANGED <<Elsewhere, leader, stubborn>>

LeaderExits ==
    /\ leader = "running"
    /\ leader' = "ended"
    /\ UNCHANGED <<Elsewhere, child, stubborn, unsignalled>>

-----------------------------------------------------------------------------
(* Client.WritePayload. *)

Mut_Lock(w) == UNCHANGED writeMu

Lock(w) ==
    /\ writeMu = Nobody
    /\ writeMu' = w

\* The mutex is taken and the connection is there.
BeginFrame(w, f) ==
    /\ part[w] = 0 /\ conn = "open"
    /\ Lock(w)
    /\ frame' = [frame EXCEPT ![w] = f]
    /\ part' = [part EXCEPT ![w] = 1]
    /\ UNCHANGED <<broken, out>>

InFrame(w) == part[w] # 0

\* The next of the three writes succeeds.  It does also when the interpreter
\* has gone and nobody knows it yet, and then what was written is lost.
Takes(w) ==
    /\ InFrame(w) /\ conn = "open" /\ ~broken
    /\ out' = IF peer THEN Append(out, [frame |-> frame[w], part |-> part[w]]) ELSE out

Mut_LastPart(w) == part[w] > Parts

LastPart(w) == part[w] = Parts

WritePart(w) ==
    /\ Takes(w) /\ ~LastPart(w)
    /\ part' = [part EXCEPT ![w] = @ + 1]
    /\ UNCHANGED <<broken, writeMu, frame>>

Unlock(w) ==
    /\ writeMu' = Nobody
    /\ part' = [part EXCEPT ![w] = 0]
    /\ frame' = [frame EXCEPT ![w] = 0]

EndFrame(w) ==
    /\ Takes(w) /\ LastPart(w)
    /\ Unlock(w)
    /\ UNCHANGED broken

\* A write fails when this end is closed or the other has gone, and then so do
\* all later ones.
FrameFails(w) ==
    /\ InFrame(w)
    /\ conn # "open" \/ ~peer \/ broken
    /\ Unlock(w)
    /\ broken' = TRUE
    /\ UNCHANGED out

\* ErrNoConnection
NoConnection(w) == part[w] = 0 /\ conn # "open" /\ writeMu = Nobody

-----------------------------------------------------------------------------
(* main: Harness.Start. *)

Proceed(place) ==
    /\ main' = place
    /\ UNCHANGED <<config, step>>

\* FromRequest: an attach does not inherit a launch command.
LaunchCommand == setting # "none" /\ request = "launch"

\* It fails without an address, on a setting that cannot be parsed, and for an
\* attach that asks for a launch command itself.
ReadConfig ==
    /\ main = "config"
    /\ \/ main' = "ended"
       \/ /\ ~(request = "attach" /\ setting = "explicit")
          /\ main' = IF LaunchCommand THEN "launch" ELSE "dial"
    /\ setting' = "none"
    /\ UNCHANGED <<request, step, group, conn, transcript, partner, run, bridge, stream, commands>>

StartLaunchCommand ==
    /\ main = "launch"
    /\ \/ leader' = "running" /\ stubborn' \in SUBSET {"leader", "child"} /\ Proceed("dial")
       \/ UNCHANGED <<leader, stubborn>> /\ Proceed("ended")
    /\ UNCHANGED <<child, unsignalled, conn, transcript, partner, run, bridge, stream,
                   commands>>

DialSucceeds ==
    /\ main = "dial"
    /\ conn' = "open" /\ peer' = TRUE
    /\ Proceed("open")
    /\ UNCHANGED <<group, transcript, inbound, messages, run, bridge, stream, commands>>

Mut_DialTimesOut ==
    /\ main = "dial"
    /\ Proceed("ended")
    /\ UNCHANGED <<group, conn, transcript, partner, run, bridge, stream, commands>>

DialTimesOut ==
    /\ main = "dial"
    /\ Proceed("stopGroup")
    /\ UNCHANGED <<group, conn, transcript, partner, run, bridge, stream, commands>>

OpenTranscript ==
    /\ main = "open"
    /\ \/ transcript' = "open" /\ Proceed("handshake")
       \/ transcript' = transcript /\ Proceed("closeConn")
    /\ UNCHANGED <<group, conn, partner, run, bridge, stream, commands>>

Shaking(op) == main = "handshake" /\ step < Shaken /\ Handshake[step] = op

NextStep ==
    /\ step' = step + 1
    /\ UNCHANGED <<config, main>>

ShakeReads ==
    /\ Shaking("read") /\ inbound # <<>>
    /\ inbound' = Tail(inbound)
    /\ IF Head(inbound) = Expected(step) THEN NextStep ELSE Proceed("closeConn")
    /\ UNCHANGED <<group, conn, transcript, peer, messages, run, bridge, stream, commands>>

ShakeReadFails ==
    /\ Shaking("read") /\ inbound = <<>> /\ ~peer
    /\ Proceed("closeConn")
    /\ UNCHANGED <<group, conn, transcript, partner, run, bridge, stream, commands>>

ShakeWrites ==
    /\ Shaking("write")
    /\ \/ BeginFrame("main", GreetingAt(step)) /\ UNCHANGED <<config, main, step>>
       \/ WritePart("main") /\ UNCHANGED <<config, main, step>>
       \/ EndFrame("main") /\ NextStep
       \/ FrameFails("main") /\ Proceed("closeConn")
    /\ UNCHANGED <<group, conn, transcript, partner, run, bridge, commands>>

Mut_HandshakeEnds == main = "handshake" /\ step = Shaken - 1

HandshakeEnds == main = "handshake" /\ step = Shaken

\* The client is given to the dispatcher: run and the bridge may use it.
StartReturns ==
    /\ HandshakeEnds
    /\ run' = "top"
    /\ Proceed("ready")
    /\ UNCHANGED <<group, conn, transcript, partner, bridge, stream, commands>>

-----------------------------------------------------------------------------
(* Commands and messages. *)

Others == <<config, step, group, conn, transcript, partner, run>>

Issue(w) ==
    /\ commands < MaxCommands
    /\ commands' = commands + 1
    /\ BeginFrame(w, Greetings + commands')

MainWrites ==
    /\ main = "ready"
    /\ \/ Issue("main")
       \/ (WritePart("main") \/ EndFrame("main") \/ FrameFails("main")) /\ UNCHANGED commands
    /\ UNCHANGED <<Others, main, bridge>>

\* The bridge starts a command while the session lasts and ends it whenever it can.
BridgeCalls ==
    /\ run # "none" /\ ~bridge /\ commands < MaxCommands
    /\ bridge' = TRUE
    /\ UNCHANGED <<Others, main, stream, commands>>

BridgeBegins ==
    /\ bridge
    /\ Issue("bridge")
    /\ UNCHANGED <<Others, main, bridge>>

\* The connection has gone, or the bound on commands is reached.
BridgeRefused ==
    /\ bridge
    /\ NoConnection("bridge") \/ (part["bridge"] = 0 /\ commands = MaxCommands)
    /\ bridge' = FALSE
    /\ UNCHANGED <<Others, main, stream, commands>>

BridgeWrites ==
    /\ bridge
    /\ \/ WritePart("bridge") /\ UNCHANGED bridge
       \/ (EndFrame("bridge") \/ FrameFails("bridge")) /\ bridge' = FALSE
    /\ UNCHANGED <<Others, main, commands>>

Reading == <<config, main, step, group, conn, transcript, peer, messages, bridge, stream, commands>>

\* ReadPayload takes the reader of the connection.
RunBegins ==
    /\ run = "top"
    /\ run' = IF conn = "open" THEN "read" ELSE "ended"
    /\ UNCHANGED <<Reading, inbound>>

\* A frame with a wrong length or magic is an error, and ends the loop.
RunReads ==
    /\ run = "read" /\ inbound # <<>>
    /\ inbound' = Tail(inbound)
    /\ run' = IF Head(inbound) = "invalid" THEN "ended" ELSE "top"
    /\ UNCHANGED Reading

RunReadFails ==
    /\ run = "read" /\ (conn = "closed" \/ (inbound = <<>> /\ ~peer))
    /\ run' = "ended"
    /\ UNCHANGED <<Reading, inbound>>

-----------------------------------------------------------------------------
(* main: Harness.Close and what Start does after a failure. *)

Kept == <<partner, run, bridge, stream, commands>>

Close ==
    /\ main = "ready" /\ ~InFrame("main")
    /\ Proceed("closeConn")
    /\ UNCHANGED <<group, conn, transcript, Kept>>

Mut_CloseConn ==
    /\ main = "closeConn" /\ run # "read"
    /\ conn' = "closed"
    /\ Proceed("closeTranscript")
    /\ UNCHANGED <<group, transcript, Kept>>

\* Client.Close waits for no reader or writer.
CloseConn ==
    /\ main = "closeConn"
    /\ conn' = "closed"
    /\ Proceed("closeTranscript")
    /\ UNCHANGED <<group, transcript, Kept>>

CloseTranscript ==
    /\ main = "closeTranscript"
    /\ transcript' = IF transcript = "open" THEN "closed" ELSE transcript
    /\ Proceed("stopGroup")
    /\ UNCHANGED <<group, conn, Kept>>

After(p, name) == IF p = "running" /\ name \notin stubborn THEN "ended" ELSE p

\* stopLaunchCommand: SIGTERM to the group.  If the leader has ended, the field
\* ProcessState may have been set by the goroutine that waits for it, and then
\* no signal is sent.
StopGroup ==
    /\ main = "stopGroup"
    /\ \/ leader = "none" /\ Proceed("ended") /\ UNCHANGED group
       \/ /\ leader # "none"
          /\ leader' = After(leader, "leader") /\ child' = After(child, "child")
          /\ Proceed("waitLeader")
          /\ UNCHANGED <<stubborn, unsignalled>>
       \/ /\ leader = "ended"
          /\ unsignalled' = TRUE
          /\ Proceed("reap")
          /\ UNCHANGED <<leader, child, stubborn>>
    /\ UNCHANGED <<conn, transcript, Kept>>

LeaderWaited ==
    /\ main = "waitLeader" /\ leader = "ended"
    /\ Proceed("ended")
    /\ UNCHANGED <<group, conn, transcript, Kept>>

\* After launchStopTimeout, SIGKILL to the group.
WaitTimesOut ==
    /\ main = "waitLeader"
    /\ Proceed("kill")
    /\ UNCHANGED <<group, conn, transcript, Kept>>

Kill ==
    /\ main = "kill"
    /\ leader' = "ended"
    /\ child' = IF child = "running" THEN "ended" ELSE child
    /\ Proceed("reap")
    /\ UNCHANGED <<stubborn, unsignalled, conn, transcript, Kept>>

Reap ==
    /\ main = "reap" /\ leader = "ended"
    /\ Proceed("ended")
    /\ UNCHANGED <<group, conn, transcript, Kept>>

-----------------------------------------------------------------------------
Outside == PeerSends \/ PeerLeaves \/ LeaderForks \/ LeaderExits

Start ==
    \/ ReadConfig \/ StartLaunchCommand \/ DialSucceeds \/ DialTimesOut \/ OpenTranscript
    \/ ShakeReads \/ ShakeReadFails \/ ShakeWrites \/ StartReturns

Use == MainWrites \/ BridgeCalls \/ BridgeBegins \/ BridgeRefused \/ BridgeWrites

ReadStep == RunBegins \/ RunReads \/ RunReadFails

TearDown ==
    \/ CloseConn \/ CloseTranscript \/ StopGroup \/ LeaderWaited \/ WaitTimesOut
    \/ Kill \/ Reap

Next == Outside \/ Start \/ Use \/ ReadStep \/ Close \/ TearDown

Spec == Init /\ [][Next]_vars

(***************************************************************************)
(* Fairness.  A goroutine that is not blocked goes on, timers expire.      *)
(* Nothing is assumed of the interpreter: it may send nothing and take     *)
(* nothing, so a read or a write is sure to end only when the connection   *)
(* does, and nothing makes main call Close.                                *)
(***************************************************************************)
Fairness ==
    /\ WF_vars(TearDown)
    /\ WF_vars(ReadStep)
    /\ WF_vars(BridgeBegins) /\ WF_vars(BridgeRefused)
    /\ WF_vars(conn # "open" /\ BridgeWrites)

FairSpec == Spec /\ Fairness

-----------------------------------------------------------------------------
(* Properties. *)

\* The interpreter receives whole frames, one after the other, except for the
\* last one it gets: two writers never mix their frames, and nothing follows a
\* frame that was cut off by Close or by an error.
WholeFrames ==
    \A i \in DOMAIN out :
        /\ out[i].part = 1 + ((i - 1) % Parts)
        /\ out[i].part > 1 => out[i].frame = out[i - 1].frame

\* No command reaches the interpreter before the whole greeting, in its order.
GreetingFirst ==
    \A i \in DOMAIN out :
        ((i - 1) \div Parts) < Greetings => out[i].frame = 1 + ((i - 1) \div Parts)

\* Whatever fails, and wherever in Start, nothing is left of it, and nothing is
\* left after Close: no connection, no transcript, no shell; and nothing the
\* shell has started, unless SIGTERM missed it or it ignores SIGTERM while the
\* shell obeys it.  An attach starts nothing.
NothingLeft ==
    /\ main = "ended" =>
         /\ conn # "open" /\ transcript # "open" /\ leader # "running"
         /\ child = "running" => unsignalled \/ "child" \in stubborn
    /\ request = "attach" => leader = "none"

\* Close, and Start once it fails, come to their end, and so do a reader and a
\* writer that were in the middle of a call, although the interpreter may hold
\* the connection open, send nothing and take nothing.
TeardownEnds ==
    main \in Teardown ~>
        main = "ended" /\ run \in {"none", "ended"} /\ ~InFrame("bridge")

=============================================================================

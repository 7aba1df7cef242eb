-------------------------- MODULE ConnectionProofs --------------------------
(***************************************************************************)
(* Proofs about Connection: type correctness, whole frames, the greeting   *)
(* before every command, and what a failed start or Close leaves behind.   *)
(***************************************************************************)
EXTENDS Connection, TLAPS

\* What the writers and main do to the frames, each step by its action.
LEMMA Steps ==
    ASSUME [Next]_vars
    PROVE  \/ Outside \/ Start \/ Use \/ ReadStep \/ Close \/ TearDown
           \/ UNCHANGED vars
BY DEF Next

-----------------------------------------------------------------------------
(* Types. *)

TypedStream ==
    /\ broken \in BOOLEAN /\ writeMu \in Writers \cup {Nobody}
    /\ frame \in [Writers -> Frames \cup {0}] /\ part \in [Writers -> 0..Parts]
    /\ out \in Seq(Piece)

LEMMA FramesTyped ==
    /\ Frames \subseteq Nat /\ 0 \notin Frames
    /\ \A s \in 1..(Shaken - 1) : Handshake[s] = "write" => GreetingAt(s) \in Frames
    /\ \A n \in 1..MaxCommands : Greetings + n \in Frames
BY BoundsAssumption DEF Frames, Greetings, GreetingAt, Handshake, Shaken

LEMMA BeginTyped ==
    ASSUME TypedStream, NEW w \in Writers, NEW f \in Frames, BeginFrame(w, f)
    PROVE  TypedStream'
BY DEF TypedStream, BeginFrame, Lock, Parts

LEMMA TakesTyped ==
    ASSUME TypedStream, NEW w \in Writers, Takes(w), frame[w] \in Frames
    PROVE  out' \in Seq(Piece)
<1>1. part[w] \in 1..Parts
  BY DEF TypedStream, Takes, InFrame, Parts
<1>2. [frame |-> frame[w], part |-> part[w]] \in Piece
  BY <1>1 DEF Piece
<1> QED
  BY <1>2 DEF TypedStream, Takes

LEMMA WriteTyped ==
    ASSUME TypedStream, NEW w \in Writers, WritePart(w), frame[w] \in Frames
    PROVE  TypedStream'
<1>1. out' \in Seq(Piece)
  BY TakesTyped DEF WritePart
<1>2. part[w] \in 0..Parts /\ part[w] # Parts
  BY DEF TypedStream, WritePart, LastPart
<1> QED
  BY <1>1, <1>2 DEF TypedStream, WritePart, Parts

LEMMA UnlockTyped ==
    ASSUME TypedStream, NEW w \in Writers, Unlock(w)
    PROVE  /\ writeMu' \in Writers \cup {Nobody}
           /\ frame' \in [Writers -> Frames \cup {0}] /\ part' \in [Writers -> 0..Parts]
BY DEF TypedStream, Unlock, Parts

LEMMA EndTyped ==
    ASSUME TypedStream, NEW w \in Writers, EndFrame(w), frame[w] \in Frames
    PROVE  TypedStream'
<1>1. out' \in Seq(Piece)
  BY TakesTyped DEF EndFrame
<1> QED
  BY <1>1, UnlockTyped DEF TypedStream, EndFrame

LEMMA FailsTyped ==
    ASSUME TypedStream, NEW w \in Writers, FrameFails(w)
    PROVE  TypedStream'
<1>1. broken' \in BOOLEAN
  BY DEF FrameFails
<1> QED
  BY <1>1, UnlockTyped DEF TypedStream, FrameFails

\* A writer in a frame has a frame.
HasFrame == \A w \in Writers : part[w] # 0 => frame[w] \in Frames

LEMMA HasFrameBegin ==
    ASSUME TypedStream, HasFrame, NEW w \in Writers, NEW f \in Frames, BeginFrame(w, f)
    PROVE  HasFrame'
BY DEF TypedStream, HasFrame, BeginFrame

LEMMA HasFrameGoesOn ==
    ASSUME TypedStream, HasFrame, NEW w \in Writers,
           WritePart(w) \/ EndFrame(w) \/ FrameFails(w)
    PROVE  HasFrame'
BY DEF TypedStream, HasFrame, WritePart, EndFrame, FrameFails, Takes, InFrame, Unlock

LEMMA FrameTyped ==
    ASSUME TypedStream, HasFrame, NEW w \in Writers,
           WritePart(w) \/ EndFrame(w) \/ FrameFails(w)
    PROVE  TypedStream' /\ HasFrame'
<1>1. part[w] # 0
  BY DEF WritePart, EndFrame, FrameFails, Takes, InFrame
<1>2. frame[w] \in Frames
  BY <1>1 DEF HasFrame
<1> QED
  BY <1>2, WriteTyped, EndTyped, FailsTyped, HasFrameGoesOn

LEMMA StreamSame ==
    ASSUME TypedStream, HasFrame, UNCHANGED stream
    PROVE  TypedStream' /\ HasFrame'
BY DEF TypedStream, HasFrame, stream

Typed == TypeOK /\ HasFrame

LEMMA TypedParts == Typed <=> TypeOK /\ TypedStream /\ HasFrame
BY DEF Typed, TypeOK, TypedStream

LEMMA TypeInit == Init => Typed
<1> SUFFICES ASSUME Init PROVE Typed
  OBVIOUS
<1>1. <<>> \in Seq(Inbound) /\ <<>> \in Seq(Piece)
  OBVIOUS
<1>2. 1 \in 1..Shaken
  BY DEF Shaken, Handshake
<1>3. 0 \in 0..MaxMessages /\ 0 \in 0..MaxCommands /\ 0 \in 0..Parts
  BY BoundsAssumption DEF Parts
<1>4. FALSE \in BOOLEAN
  OBVIOUS
<1>5. TypeOK
  BY <1>1, <1>2, <1>3, <1>4 DEF Init, TypeOK, Process
<1>6. HasFrame
  BY DEF Init, HasFrame
<1> QED
  BY <1>5, <1>6 DEF Typed

LEMMA TailTyped ==
    ASSUME Typed, inbound' = inbound \/ (inbound # <<>> /\ inbound' = Tail(inbound))
    PROVE  inbound' \in Seq(Inbound)
<1>1. inbound \in Seq(Inbound)
  BY DEF Typed, TypeOK
<1> QED
  BY <1>1

LEMMA OutsideTyped ==
    ASSUME Typed, Outside
    PROVE  Typed'
<1>1. TypedStream /\ HasFrame
  BY TypedParts
<1>2. UNCHANGED stream
  BY DEF Outside, PeerSends, PeerLeaves, LeaderForks, LeaderExits, Elsewhere
<1>3. TypedStream' /\ HasFrame'
  BY <1>1, <1>2, StreamSame
<1>4. (main \in {"waitLeader", "kill"}) \in BOOLEAN /\ FALSE \in BOOLEAN
  OBVIOUS
<1>5. inbound' \in Seq(Inbound) /\ messages' \in 0..MaxMessages
  <2>1. CASE PeerSends
    <3>1. PICK m \in Inbound : inbound' = Append(inbound, m)
      BY <2>1 DEF PeerSends
    <3>2. inbound' \in Seq(Inbound)
      BY <3>1 DEF Typed, TypeOK
    <3> QED
      BY <2>1, <3>2, BoundsAssumption DEF PeerSends, Typed, TypeOK
  <2>2. CASE PeerLeaves \/ LeaderForks \/ LeaderExits
    BY <2>2 DEF PeerLeaves, LeaderForks, LeaderExits, Elsewhere, partner, Typed, TypeOK
  <2> QED
    BY <2>1, <2>2 DEF Outside
<1>6. leader' \in Process /\ child' \in Process /\ stubborn' \in SUBSET {"leader", "child"}
  BY DEF Outside, PeerSends, PeerLeaves, LeaderForks, LeaderExits, group,
     Typed, TypeOK, Process
<1>7. unsignalled' \in BOOLEAN
  BY <1>4 DEF Outside, PeerSends, PeerLeaves, LeaderForks, LeaderExits, group,
     Typed, TypeOK
<1>8. peer' \in BOOLEAN
  <2>1. CASE PeerLeaves
    <3>1. peer' = FALSE
      BY <2>1 DEF PeerLeaves
    <3> QED
      BY <3>1
  <2>2. CASE PeerSends \/ LeaderForks \/ LeaderExits
    BY <2>2 DEF PeerSends, LeaderForks, LeaderExits, Elsewhere, partner, Typed, TypeOK
  <2> QED
    BY <2>1, <2>2 DEF Outside
<1>9. UNCHANGED <<config, main, step, conn, transcript, run, bridge, commands>>
  BY DEF Outside, PeerSends, PeerLeaves, LeaderForks, LeaderExits, Elsewhere
<1>10. TypeOK'
  BY <1>3, <1>5, <1>6, <1>7, <1>8, <1>9 DEF TypedStream, config, Typed, TypeOK
<1> QED
  BY <1>3, <1>10 DEF Typed


LEMMA ShakeWriteTyped ==
    ASSUME Typed, ShakeWrites
    PROVE  Typed'
<1>1. TypedStream /\ HasFrame
  BY TypedParts
<1>2. GreetingAt(step) \in Frames
  <2>1. step \in 1..(Shaken - 1) /\ Handshake[step] = "write"
    BY DEF ShakeWrites, Shaking, Typed, TypeOK, Shaken, Handshake
  <2> QED
    BY <2>1, FramesTyped
<1>3. TypedStream' /\ HasFrame'
  <2>1. CASE BeginFrame("main", GreetingAt(step))
    BY <1>1, <1>2, <2>1, BeginTyped, HasFrameBegin DEF Writers
  <2>2. CASE WritePart("main") \/ EndFrame("main") \/ FrameFails("main")
    BY <1>1, <2>2, FrameTyped DEF Writers
  <2> QED
    BY <2>1, <2>2 DEF ShakeWrites
<1>4. step' \in 1..Shaken /\ main' \in {"handshake", "closeConn"} /\ UNCHANGED config
  BY DEF ShakeWrites, Shaking, NextStep, Proceed, config, Typed, TypeOK, Shaken, Handshake
<1>5. UNCHANGED <<group, conn, transcript, partner, run, bridge, commands>>
  BY DEF ShakeWrites
<1>6. TypeOK'
  BY <1>3, <1>4, <1>5 DEF TypedStream, config, group, partner, Typed, TypeOK, Teardown
<1> QED
  BY <1>3, <1>6 DEF Typed

StartStep ==
    \/ ReadConfig \/ StartLaunchCommand \/ DialSucceeds \/ DialTimesOut \/ OpenTranscript
    \/ ShakeReads \/ ShakeReadFails \/ StartReturns

LEMMA StartStepTyped ==
    ASSUME Typed, StartStep
    PROVE  Typed'
<1> USE DEF StartStep, ReadConfig, StartLaunchCommand, DialSucceeds, DialTimesOut,
        OpenTranscript, ShakeReads, ShakeReadFails, StartReturns, Proceed, NextStep
<1>1. TypedStream /\ HasFrame
  BY TypedParts
<1>2. UNCHANGED stream
  OBVIOUS
<1>3. TypedStream' /\ HasFrame'
  BY <1>1, <1>2, StreamSame
<1>4. request' \in {"launch", "attach"} /\ setting' \in {"none", "environment", "explicit"}
  BY DEF config, Typed, TypeOK
<1>5. main' \in {"config", "launch", "dial", "open", "handshake", "ready", "ended"} \cup Teardown
  BY DEF Typed, TypeOK, Teardown, Shaking
<1>6. step' \in 1..Shaken
  BY DEF Typed, TypeOK, Shaking, Shaken, Handshake
<1>7. leader' \in Process /\ child' \in Process /\ stubborn' \in SUBSET {"leader", "child"}
  BY DEF Typed, TypeOK, Process, group
<1>8. unsignalled' \in BOOLEAN /\ broken' \in BOOLEAN /\ bridge' \in BOOLEAN /\ commands' \in 0..MaxCommands
  BY DEF Typed, TypeOK, stream, group
<1>9. conn' \in {"none", "open", "closed"} /\ transcript' \in {"none", "open", "closed"}
  BY DEF Typed, TypeOK
<1>10. run' \in {"none", "top", "read", "ended"}
  BY DEF Typed, TypeOK
<1>11. inbound' \in Seq(Inbound) /\ messages' \in 0..MaxMessages
  <2>1. inbound' = inbound \/ (inbound # <<>> /\ inbound' = Tail(inbound))
    BY DEF partner
  <2>2. messages' = messages
    BY DEF partner
  <2> QED
    BY <2>1, <2>2, TailTyped DEF Typed, TypeOK
<1>12. peer' \in BOOLEAN
  <2>1. CASE DialSucceeds
    <3>1. peer' = TRUE
      BY <2>1
    <3> QED
      BY <3>1
  <2>2. CASE ~DialSucceeds
    BY <2>2 DEF partner, Typed, TypeOK
  <2> QED
    BY <2>1, <2>2
<1>13. TypeOK'
  BY <1>3, <1>4, <1>5, <1>6, <1>7, <1>8, <1>9, <1>10, <1>11, <1>12 DEF TypedStream, TypeOK
<1> QED
  BY <1>3, <1>13 DEF Typed

LEMMA UseTyped ==
    ASSUME Typed, Use
    PROVE  Typed'
<1>1. TypedStream /\ HasFrame
  BY TypedParts
<1>2. ASSUME NEW w \in Writers, Issue(w)
      PROVE  TypedStream' /\ HasFrame' /\ commands' \in 0..MaxCommands
  <2>1. commands' \in 1..MaxCommands
    BY <1>2, BoundsAssumption DEF Issue, Typed, TypeOK
  <2>2. Greetings + commands' \in Frames
    BY <2>1, FramesTyped
  <2> QED
    BY <1>1, <1>2, <2>1, <2>2, BeginTyped, HasFrameBegin DEF Issue
<1>3. ASSUME NEW w \in Writers, WritePart(w) \/ EndFrame(w) \/ FrameFails(w)
      PROVE  TypedStream' /\ HasFrame'
  BY <1>1, <1>3, FrameTyped
<1>4. TypedStream' /\ HasFrame' /\ commands' \in 0..MaxCommands
  <2>1. CASE MainWrites
    BY <2>1, <1>2, <1>3 DEF MainWrites, Writers, Typed, TypeOK
  <2>2. CASE BridgeBegins
    BY <2>2, <1>2 DEF BridgeBegins, Writers
  <2>3. CASE BridgeWrites
    BY <2>3, <1>3 DEF BridgeWrites, Writers, Typed, TypeOK
  <2>4. CASE BridgeCalls \/ BridgeRefused
    BY <2>4, <1>1, StreamSame DEF BridgeCalls, BridgeRefused, Typed, TypeOK
  <2> QED
    BY <2>1, <2>2, <2>3, <2>4 DEF Use
<1>5. bridge' \in BOOLEAN
  <2>1. bridge' = TRUE \/ bridge' = FALSE \/ bridge' = bridge
    BY DEF Use, MainWrites, BridgeCalls, BridgeBegins, BridgeRefused, BridgeWrites
  <2>2. bridge \in BOOLEAN
    BY DEF Typed, TypeOK
  <2> QED
    BY <2>1, <2>2
<1>6. UNCHANGED <<Others, main>>
  BY DEF Use, MainWrites, BridgeCalls, BridgeBegins, BridgeRefused, BridgeWrites
<1>7. TypeOK'
  BY <1>4, <1>5, <1>6 DEF TypedStream, Others, config, group, partner, Typed, TypeOK
<1> QED
  BY <1>4, <1>7 DEF Typed

LEMMA ReadTyped ==
    ASSUME Typed, ReadStep
    PROVE  Typed'
<1>1. run' \in {"none", "top", "read", "ended"}
  BY DEF ReadStep, RunBegins, RunReads, RunReadFails
<1>2. inbound' \in Seq(Inbound)
  <2>1. inbound' = inbound \/ (inbound # <<>> /\ inbound' = Tail(inbound))
    BY DEF ReadStep, RunBegins, RunReads, RunReadFails
  <2> QED
    BY <2>1, TailTyped
<1>3. UNCHANGED Reading
  BY DEF ReadStep, RunBegins, RunReads, RunReadFails
<1>4. TypedStream /\ HasFrame
  BY TypedParts
<1>5. TypedStream' /\ HasFrame'
  BY <1>3, <1>4, StreamSame DEF Reading
<1>6. TypeOK'
  BY <1>1, <1>2, <1>3, <1>5 DEF Reading, config, group, TypedStream, Typed, TypeOK
<1> QED
  BY <1>5, <1>6 DEF Typed

LEMMA TearDownTyped ==
    ASSUME Typed, Close \/ TearDown
    PROVE  Typed'
<1> USE DEF TearDown, Close, CloseConn, CloseTranscript, StopGroup, LeaderWaited, WaitTimesOut,
        Kill, Reap, Proceed
<1>1. UNCHANGED Kept
  OBVIOUS
<1>2. TypedStream /\ HasFrame
  BY TypedParts
<1>3. TypedStream' /\ HasFrame'
  BY <1>1, <1>2, StreamSame DEF Kept
<1>4. main' \in {"ended"} \cup Teardown /\ UNCHANGED <<config, step>>
  BY DEF Teardown
<1>5. leader' \in Process /\ child' \in Process /\ stubborn' \in SUBSET {"leader", "child"}
  BY DEF group, Typed, TypeOK, Process, After
<1>6. unsignalled' \in BOOLEAN
  <2>1. unsignalled' = TRUE \/ unsignalled' = unsignalled
    BY DEF group
  <2>2. unsignalled \in BOOLEAN
    BY DEF Typed, TypeOK
  <2> QED
    BY <2>1, <2>2
<1>7. conn' \in {"none", "open", "closed"} /\ transcript' \in {"none", "open", "closed"}
  BY DEF Typed, TypeOK
<1>8. TypeOK'
  BY <1>1, <1>3, <1>4, <1>5, <1>6, <1>7 DEF Kept, config, partner, TypedStream, Typed, TypeOK
<1> QED
  BY <1>3, <1>8 DEF Typed

LEMMA TypeStep == Typed /\ [Next]_vars => Typed'
<1> SUFFICES ASSUME Typed, [Next]_vars PROVE Typed'
  OBVIOUS
<1>1. CASE UNCHANGED vars
  <2>1. UNCHANGED stream
    BY <1>1 DEF vars
  <2>2. TypedStream' /\ HasFrame'
    BY <2>1, TypedParts, StreamSame
  <2>3. TypeOK'
    BY <1>1, <2>2 DEF vars, config, group, partner, TypedStream, Typed, TypeOK
  <2> QED
    BY <2>2, <2>3 DEF Typed
<1>2. CASE Start
  BY <1>2, ShakeWriteTyped, StartStepTyped DEF Start, StartStep
<1> QED
  BY <1>1, <1>2, Steps, OutsideTyped, UseTyped, ReadTyped, TearDownTyped

\* Every variable keeps its type.
THEOREM TypeCorrect == Spec => []TypeOK
<1>1. Typed => TypeOK
  BY DEF Typed
<1> QED
  BY <1>1, TypeInit, TypeStep, PTL DEF Spec

-----------------------------------------------------------------------------
(* What is left.                                                            *)

ChildSignalled == child = "running" => unsignalled \/ "child" \in stubborn

\* What has been torn down by the place where main stands.
LeftInv ==
    /\ main \in {"config", "launch"} => leader = "none"
    /\ leader = "none" => child = "none"
    /\ main \in {"config", "launch", "dial"} => conn = "none"
    /\ main \in {"config", "launch", "dial", "open"} => transcript = "none"
    /\ main \in {"closeTranscript", "stopGroup", "waitLeader", "kill", "reap", "ended"} =>
         conn # "open"
    /\ main \in {"stopGroup", "waitLeader", "kill", "reap", "ended"} => transcript # "open"
    /\ main \in {"waitLeader", "kill"} => leader # "none" /\ ChildSignalled
    /\ main \in {"reap", "ended"} => leader # "running" /\ ChildSignalled
    /\ request = "attach" => leader = "none"
    /\ main = "launch" => request = "launch"

LEMMA LeftInit == Init => LeftInv
BY DEF Init, LeftInv

LEMMA LeftStep == LeftInv /\ [Next]_vars => LeftInv'
<1> SUFFICES ASSUME LeftInv, [Next]_vars PROVE LeftInv'
  OBVIOUS
<1> USE DEF LeftInv, ChildSignalled
<1>1. CASE PeerSends \/ PeerLeaves
  BY <1>1 DEF PeerSends, PeerLeaves, config, group
<1>2. CASE LeaderForks
  BY <1>2 DEF LeaderForks, Elsewhere, config
<1>3. CASE LeaderExits
  BY <1>3 DEF LeaderExits, Elsewhere, config
<1>4. CASE ReadConfig
  BY <1>4 DEF ReadConfig, LaunchCommand, group
<1>5. CASE StartLaunchCommand
  BY <1>5 DEF StartLaunchCommand, Proceed, config
<1>6. CASE DialSucceeds
  BY <1>6 DEF DialSucceeds, Proceed, config, group
<1>7. CASE DialTimesOut
  BY <1>7 DEF DialTimesOut, Proceed, config, group
<1>8. CASE OpenTranscript
  BY <1>8 DEF OpenTranscript, Proceed, config, group
<1>9. CASE ShakeReads
  BY <1>9 DEF ShakeReads, Shaking, NextStep, Proceed, config, group
<1>10. CASE ShakeReadFails
  BY <1>10 DEF ShakeReadFails, Shaking, Proceed, config, group
<1>11. CASE ShakeWrites
  BY <1>11 DEF ShakeWrites, Shaking, NextStep, Proceed, config, group
<1>12. CASE StartReturns
  BY <1>12 DEF StartReturns, HandshakeEnds, Proceed, config, group
<1>13. CASE Use
  BY <1>13 DEF Use, MainWrites, BridgeCalls, BridgeBegins, BridgeRefused, BridgeWrites, Others,
               config, group
<1>14. CASE ReadStep
  BY <1>14 DEF ReadStep, RunBegins, RunReads, RunReadFails, Reading, config, group
<1>15. CASE Close
  BY <1>15 DEF Close, Proceed, config, group
<1>16. CASE CloseConn \/ CloseTranscript
  BY <1>16 DEF CloseConn, CloseTranscript, Proceed, config, group
<1>17. CASE StopGroup
  BY <1>17 DEF StopGroup, After, Proceed, config, group
<1>18. CASE LeaderWaited \/ WaitTimesOut \/ Reap
  BY <1>18 DEF LeaderWaited, WaitTimesOut, Reap, Proceed, config, group
<1>19. CASE Kill
  BY <1>19 DEF Kill, Proceed, config
<1>20. CASE UNCHANGED vars
  BY <1>20 DEF vars, config, group
<1> QED
  BY <1>1, <1>2, <1>3, <1>4, <1>5, <1>6, <1>7, <1>8, <1>9, <1>10, <1>11, <1>12, <1>13, <1>14,
     <1>15, <1>16, <1>17, <1>18, <1>19, <1>20, Steps DEF Outside, Start, TearDown

\* Wherever Start fails, and after Close, nothing is left of it.
THEOREM LeavesNothing == Spec => []NothingLeft
<1>1. LeftInv => NothingLeft
  BY DEF LeftInv, ChildSignalled, NothingLeft
<1> QED
  BY <1>1, LeftInit, LeftStep, PTL DEF Spec

-----------------------------------------------------------------------------
(* Frames.                                                                  *)

\* What is written now will be received.
Alive == conn = "open" /\ ~broken /\ peer

Owner == \A w \in Writers : part[w] # 0 <=> writeMu = w

\* As long as the interpreter receives what is written, it has all the parts
\* that were written of the current frame, and whole frames before it.
Place ==
    Alive =>
      /\ writeMu = Nobody => Len(out) % Parts = 0
      /\ \A w \in Writers : writeMu = w =>
            /\ Len(out) % Parts = part[w] - 1
            /\ part[w] > 1 => out[Len(out)].frame = frame[w]

Early ==
    /\ main \in {"config", "launch", "dial"} =>
         conn = "none" /\ ~broken /\ writeMu = Nobody /\ out = <<>>
    /\ main \in {"config", "launch", "dial", "open", "handshake"} => run = "none" /\ ~bridge

FrameInv == Owner /\ Place /\ Early /\ WholeFrames

StreamInv == Owner /\ Place /\ WholeFrames

LEMMA NextPart ==
    ASSUME NEW n \in Nat
    PROVE  /\ n % 3 \in 0..2
           /\ n % 3 # 2 => (n + 1) % 3 = (n % 3) + 1
           /\ n % 3 = 2 => (n + 1) % 3 = 0
OBVIOUS

LEMMA FreeMutex ==
    ASSUME TypedStream
    PROVE  /\ \A w \in Writers : w # Nobody
           /\ Owner => (writeMu = Nobody <=> \A w \in Writers : part[w] = 0)
BY DEF TypedStream, Owner, Writers, Nobody

LEMMA BeginWhole ==
    ASSUME TypedStream, StreamInv, NEW w \in Writers, NEW f \in Frames, BeginFrame(w, f),
           conn' = conn, peer' = peer
    PROVE  StreamInv'
<1>1. writeMu = Nobody /\ writeMu' = w /\ out' = out /\ broken' = broken
  BY DEF BeginFrame, Lock
<1>2. part' = [part EXCEPT ![w] = 1] /\ part \in [Writers -> 0..Parts]
  BY DEF BeginFrame, TypedStream
<1>3. Owner'
  BY <1>1, <1>2, FreeMutex DEF Owner, StreamInv
<1>4. Place'
  BY <1>1, <1>2, FreeMutex DEF Place, Alive, StreamInv
<1>5. WholeFrames'
  BY <1>1 DEF WholeFrames, StreamInv
<1> QED
  BY <1>3, <1>4, <1>5 DEF StreamInv

\* One more part.
LEMMA TakesWhole ==
    ASSUME TypedStream, StreamInv, NEW w \in Writers, Takes(w), frame[w] \in Frames
    PROVE  /\ WholeFrames'
           /\ peer => /\ Len(out') = Len(out) + 1
                      /\ Len(out) % Parts = part[w] - 1
                      /\ out'[Len(out')].frame = frame[w]
           /\ ~peer => out' = out
<1>1. writeMu = w /\ conn = "open" /\ ~broken /\ part[w] \in 1..Parts
  BY DEF Takes, InFrame, Owner, StreamInv, TypedStream, Parts
<1>2. out \in Seq(Piece) /\ Len(out) \in Nat /\ DOMAIN out = 1..Len(out)
  BY DEF TypedStream
<1>3. CASE ~peer
  <2>1. out' = out
    BY <1>3 DEF Takes
  <2> QED
    BY <1>3, <2>1 DEF WholeFrames, StreamInv
<1>4. CASE peer
  <2> DEFINE p == [frame |-> frame[w], part |-> part[w]]
  <2>1. p \in Piece
    BY <1>1 DEF Piece
  <2>2. out' = Append(out, p)
    BY <1>4 DEF Takes
  <2>3. /\ Len(out') = Len(out) + 1 /\ out'[Len(out) + 1] = p
        /\ \A i \in 1..Len(out) : out'[i] = out[i]
        /\ DOMAIN out' = 1..(Len(out) + 1)
    BY <1>2, <2>1, <2>2
  <2>4. /\ Len(out) % Parts = part[w] - 1
        /\ part[w] > 1 => out[Len(out)].frame = frame[w]
    BY <1>1, <1>4, FreeMutex DEF Place, Alive, StreamInv
  <2>5. part[w] > 1 => Len(out) \in 1..Len(out)
    BY <1>1, <1>2, <2>4 DEF Parts
  <2>6. ASSUME NEW i \in DOMAIN out'
        PROVE  /\ out'[i].part = 1 + ((i - 1) % Parts)
               /\ out'[i].part > 1 => out'[i].frame = out'[i - 1].frame
    <3>1. CASE i \in 1..Len(out)
      <4>1. /\ out[i].part = 1 + ((i - 1) % Parts)
            /\ out[i].part > 1 => out[i].frame = out[i - 1].frame
        BY <1>2, <3>1 DEF WholeFrames, StreamInv
      <4>2. out[i].part > 1 => i - 1 \in 1..Len(out)
        BY <1>2, <3>1, <4>1 DEF Parts
      <4> QED
        BY <2>3, <3>1, <4>1, <4>2
    <3>2. CASE i = Len(out) + 1
      <4>1. i - 1 = Len(out) /\ out'[i] = p
        BY <1>2, <2>3, <3>2
      <4> QED
        BY <1>1, <2>3, <2>4, <2>5, <4>1 DEF Parts
    <3> QED
      BY <1>2, <2>3, <2>6, <3>1, <3>2
  <2>7. WholeFrames'
    BY <2>6 DEF WholeFrames
  <2> QED
    BY <1>2, <1>4, <2>3, <2>4, <2>7
<1> QED
  BY <1>3, <1>4

LEMMA GoesOnWhole ==
    ASSUME TypedStream, StreamInv, NEW w \in Writers, frame[w] \in Frames,
           WritePart(w) \/ EndFrame(w) \/ FrameFails(w),
           conn' = conn, peer' = peer
    PROVE  StreamInv'
<1>1. writeMu = w /\ part[w] \in 1..Parts /\ part \in [Writers -> 0..Parts]
  BY DEF WritePart, EndFrame, FrameFails, Takes, InFrame, Owner, StreamInv, TypedStream, Parts
<1>2. \A v \in Writers : v # w => part[v] = 0
  BY <1>1 DEF Owner, StreamInv
<1>3. Len(out) \in Nat
  BY DEF TypedStream
<1>4. CASE WritePart(w)
  <2>1. /\ writeMu' = w /\ broken' = broken /\ frame' = frame
        /\ part' = [part EXCEPT ![w] = @ + 1] /\ part[w] # Parts
    BY <1>1, <1>4 DEF WritePart, LastPart
  <2>2. Owner'
    BY <1>1, <1>2, <2>1 DEF Owner, Parts
  <2>3. Place'
    <3>1. SUFFICES ASSUME Alive PROVE Len(out') % Parts = part[w] /\ out'[Len(out')].frame = frame[w]
      BY <1>1, <2>1, FreeMutex DEF Place, Alive
    <3>2. Takes(w) /\ peer
      BY <1>4, <3>1 DEF WritePart, Alive
    <3>3. /\ Len(out') = Len(out) + 1 /\ Len(out) % Parts = part[w] - 1
          /\ out'[Len(out')].frame = frame[w]
      BY <3>2, TakesWhole
    <3>4. part[w] \in {1, 2}
      BY <1>1, <2>1 DEF Parts
    <3> QED
      BY <1>3, <3>3, <3>4, NextPart DEF Parts
  <2> QED
    BY <1>4, <2>2, <2>3, TakesWhole DEF WritePart, StreamInv
<1>5. CASE EndFrame(w)
  <2>1. /\ writeMu' = Nobody /\ broken' = broken
        /\ part' = [part EXCEPT ![w] = 0] /\ part[w] = Parts
    BY <1>5 DEF EndFrame, Unlock, LastPart
  <2>2. Owner'
    BY <1>1, <1>2, <2>1, FreeMutex DEF Owner
  <2>3. Place'
    <3>1. SUFFICES ASSUME Alive PROVE Len(out') % Parts = 0
      BY <2>1, FreeMutex DEF Place, Alive
    <3> QED
      BY <1>1, <1>3, <1>5, <2>1, <3>1, TakesWhole, NextPart DEF Alive, EndFrame, Parts
  <2> QED
    BY <1>5, <2>2, <2>3, TakesWhole DEF EndFrame, StreamInv
<1>6. CASE FrameFails(w)
  <2>1. /\ writeMu' = Nobody /\ broken' = TRUE /\ out' = out
        /\ part' = [part EXCEPT ![w] = 0]
    BY <1>6 DEF FrameFails, Unlock
  <2>2. Owner'
    BY <1>1, <1>2, <2>1, FreeMutex DEF Owner
  <2>3. Place'
    BY <2>1 DEF Place, Alive
  <2>4. WholeFrames'
    BY <2>1 DEF WholeFrames, StreamInv
  <2> QED
    BY <2>2, <2>3, <2>4 DEF StreamInv
<1> QED
  BY <1>4, <1>5, <1>6

\* Steps that write nothing: the connection may end, but it begins only once,
\* before anything is written.
LEMMA SilentWhole ==
    ASSUME StreamInv, UNCHANGED stream, Alive' => Alive \/ (out = <<>> /\ writeMu = Nobody)
    PROVE  StreamInv'
<1>1. Owner' /\ WholeFrames'
  BY DEF stream, Owner, WholeFrames, StreamInv
<1>2. Place'
  <2>1. CASE Alive
    BY <2>1 DEF stream, Place, StreamInv
  <2>2. CASE out = <<>> /\ writeMu = Nobody
    <3>1. \A w \in Writers : w # Nobody
      BY DEF Writers, Nobody
    <3>2. Len(out) % Parts = 0
      BY <2>2 DEF Parts
    <3> QED
      BY <2>2, <3>1, <3>2 DEF stream, Place
  <2>3. CASE ~Alive'
    BY <2>3 DEF Place
  <2> QED
    BY <2>1, <2>2, <2>3
<1> QED
  BY <1>1, <1>2 DEF StreamInv

LEMMA FrameInit == Init => FrameInv
<1> SUFFICES ASSUME Init PROVE FrameInv
  OBVIOUS
<1>1. Owner
  BY DEF Init, Owner, Writers, Nobody
<1>2. Place /\ Early
  BY DEF Init, Place, Alive, Early
<1>3. WholeFrames
  BY DEF Init, WholeFrames
<1> QED
  BY <1>1, <1>2, <1>3 DEF FrameInv

\* A step writes nothing, or it is one step of one writer.
LEMMA WriterSteps ==
    ASSUME Typed, [Next]_vars
    PROVE  \/ UNCHANGED stream
           \/ \E w \in Writers :
                /\ conn' = conn /\ peer' = peer
                /\ \/ \E f \in Frames : BeginFrame(w, f)
                   \/ WritePart(w) \/ EndFrame(w) \/ FrameFails(w)
<1>1. CASE Outside
  BY <1>1 DEF Outside, PeerSends, PeerLeaves, LeaderForks, LeaderExits, Elsewhere
<1>2. CASE Start
  <2>1. CASE ShakeWrites
    <3>1. conn' = conn /\ peer' = peer
      BY <2>1 DEF ShakeWrites, partner
    <3>2. step \in 1..(Shaken - 1) /\ Handshake[step] = "write"
      BY <2>1 DEF ShakeWrites, Shaking, Typed, TypeOK, Shaken, Handshake
    <3>3. GreetingAt(step) \in Frames
      BY <3>2, FramesTyped
    <3> QED
      BY <2>1, <3>1, <3>3 DEF ShakeWrites, Writers
  <2>2. CASE ~ShakeWrites
    BY <1>2, <2>2 DEF Start, ReadConfig, StartLaunchCommand, DialSucceeds, DialTimesOut,
                      OpenTranscript, ShakeReads, ShakeReadFails, StartReturns
  <2> QED
    BY <2>1, <2>2
<1>3. CASE Use
  <2>1. CASE BridgeCalls \/ BridgeRefused
    BY <2>1 DEF BridgeCalls, BridgeRefused
  <2>2. CASE MainWrites \/ BridgeBegins \/ BridgeWrites
    <3>1. conn' = conn /\ peer' = peer
      BY <2>2 DEF MainWrites, BridgeBegins, BridgeWrites, Others, partner
    <3>2. ASSUME NEW w \in Writers, Issue(w)
          PROVE  \E f \in Frames : BeginFrame(w, f)
      <4>1. commands' \in 1..MaxCommands
        BY <3>2, BoundsAssumption DEF Issue, Typed, TypeOK
      <4> QED
        BY <3>2, <4>1, FramesTyped DEF Issue
    <3> QED
      BY <2>2, <3>1, <3>2 DEF MainWrites, BridgeBegins, BridgeWrites, Writers
  <2> QED
    BY <1>3, <2>1, <2>2 DEF Use
<1>4. CASE ReadStep
  BY <1>4 DEF ReadStep, RunBegins, RunReads, RunReadFails, Reading
<1>5. CASE Close \/ TearDown
  BY <1>5 DEF Close, TearDown, CloseConn, CloseTranscript, StopGroup, LeaderWaited,
              WaitTimesOut, Kill, Reap, Kept
<1>6. CASE UNCHANGED vars
  BY <1>6 DEF vars
<1> QED
  BY <1>1, <1>2, <1>3, <1>4, <1>5, <1>6, Steps

\* The connection begins in DialSucceeds only.
LEMMA AliveBegins ==
    ASSUME Typed, [Next]_vars, UNCHANGED stream, Alive'
    PROVE  Alive \/ main = "dial"
<1>1. (conn' = conn \/ conn' = "closed" \/ main = "dial")
      /\ (peer' = peer \/ peer' = FALSE \/ main = "dial")
  <2>1. CASE Outside
    BY <2>1 DEF Outside, PeerSends, PeerLeaves, LeaderForks, LeaderExits, Elsewhere, partner
  <2>2. CASE Start
    BY <2>2 DEF Start, ReadConfig, StartLaunchCommand, DialSucceeds, DialTimesOut,
                OpenTranscript, ShakeReads, ShakeReadFails, ShakeWrites, StartReturns, partner
  <2>3. CASE Use
    BY <2>3 DEF Use, MainWrites, BridgeCalls, BridgeBegins, BridgeRefused, BridgeWrites, Others,
                partner
  <2>4. CASE ReadStep
    BY <2>4 DEF ReadStep, RunBegins, RunReads, RunReadFails, Reading
  <2>5. CASE Close \/ TearDown
    BY <2>5 DEF Close, TearDown, CloseConn, CloseTranscript, StopGroup, LeaderWaited,
                WaitTimesOut, Kill, Reap, Kept, partner
  <2>6. CASE UNCHANGED vars
    BY <2>6 DEF vars, partner
  <2> QED
    BY <2>1, <2>2, <2>3, <2>4, <2>5, <2>6, Steps
<1>2. broken' = broken
  BY DEF stream
<1> QED
  BY <1>1, <1>2 DEF Alive

LEMMA EarlyStep ==
    ASSUME Typed, Early, [Next]_vars
    PROVE  Early'
<1> USE DEF Early
<1>1. CASE Outside
  BY <1>1 DEF Outside, PeerSends, PeerLeaves, LeaderForks, LeaderExits, Elsewhere, stream
<1>2. CASE Start
  BY <1>2 DEF Start, ReadConfig, StartLaunchCommand, DialSucceeds, DialTimesOut, OpenTranscript,
              ShakeReads, ShakeReadFails, ShakeWrites, StartReturns, HandshakeEnds, Shaking,
              NextStep, Proceed, stream
<1>3. CASE Use
  <2>1. UNCHANGED <<main, run, conn>>
    BY <1>3 DEF Use, MainWrites, BridgeCalls, BridgeBegins, BridgeRefused, BridgeWrites, Others
  <2>2. main \notin {"config", "launch", "dial", "open", "handshake"}
    BY <1>3 DEF Use, MainWrites, BridgeCalls, BridgeBegins, BridgeRefused, BridgeWrites
  <2> QED
    BY <2>1, <2>2
<1>4. CASE ReadStep
  BY <1>4 DEF ReadStep, RunBegins, RunReads, RunReadFails, Reading, stream
<1>5. CASE Close \/ TearDown
  BY <1>5 DEF Close, TearDown, CloseConn, CloseTranscript, StopGroup, LeaderWaited,
              WaitTimesOut, Kill, Reap, Kept, Proceed, stream
<1>6. CASE UNCHANGED vars
  BY <1>6 DEF vars, stream
<1> QED
  BY <1>1, <1>2, <1>3, <1>4, <1>5, <1>6, Steps

LEMMA FrameStep == Typed /\ FrameInv /\ [Next]_vars => FrameInv'
<1> SUFFICES ASSUME Typed, FrameInv, [Next]_vars PROVE FrameInv'
  OBVIOUS
<1>1. TypedStream /\ HasFrame /\ StreamInv /\ Early
  BY TypedParts DEF FrameInv, StreamInv
<1>2. Early'
  BY <1>1, EarlyStep
<1>3. StreamInv'
  <2>1. CASE UNCHANGED stream
    <3>1. Alive' => Alive \/ (out = <<>> /\ writeMu = Nobody)
      BY <1>1, <2>1, AliveBegins DEF Early
    <3> QED
      BY <1>1, <2>1, <3>1, SilentWhole
  <2>2. ASSUME NEW w \in Writers, conn' = conn, peer' = peer,
               \/ \E f \in Frames : BeginFrame(w, f)
               \/ WritePart(w) \/ EndFrame(w) \/ FrameFails(w)
        PROVE  StreamInv'
    <3>1. CASE \E f \in Frames : BeginFrame(w, f)
      BY <1>1, <2>2, <3>1, BeginWhole
    <3>2. CASE WritePart(w) \/ EndFrame(w) \/ FrameFails(w)
      <4>1. part[w] # 0
        BY <3>2 DEF WritePart, EndFrame, FrameFails, Takes, InFrame
      <4>2. frame[w] \in Frames
        BY <1>1, <4>1 DEF HasFrame
      <4> QED
        BY <1>1, <2>2, <3>2, <4>2, GoesOnWhole
    <3> QED
      BY <2>2, <3>1, <3>2
  <2> QED
    BY <2>1, <2>2, WriterSteps
<1> QED
  BY <1>2, <1>3 DEF FrameInv, StreamInv

\* The interpreter receives whole frames, except for the last one.
THEOREM FramesWhole == Spec => []WholeFrames
<1>1. Init => Typed /\ FrameInv
  BY TypeInit, FrameInit
<1>2. Typed /\ FrameInv /\ [Next]_vars => (Typed /\ FrameInv)'
  BY TypeStep, FrameStep
<1>3. FrameInv => WholeFrames
  BY DEF FrameInv
<1> QED
  BY <1>1, <1>2, <1>3, PTL DEF Spec

-----------------------------------------------------------------------------
(* The greeting.                                                            *)

\* The number of greetings written before step s.
Before(s) == <<0, 0, 1, 2, 2, 3, 4, 5>>[s]

InTime ==
    /\ main \in {"config", "launch", "dial", "open"} => out = <<>> /\ step = 1
    /\ main = "handshake" /\ part["main"] # 0 =>
         step < Shaken /\ Handshake[step] = "write" /\ frame["main"] = GreetingAt(step)
    /\ Alive /\ main = "handshake" =>
         Len(out) = Parts * Before(step) + (IF part["main"] = 0 THEN 0 ELSE part["main"] - 1)

\* Nobody but main writes before Start returns, and main only in the handshake.
GreetInv ==
    /\ run = "none" => ~bridge /\ part["bridge"] = 0
    /\ main \notin {"handshake", "ready"} => part["main"] = 0
    /\ main = "handshake" => run = "none"
    /\ main = "ready" => run # "none"
    /\ Alive /\ run # "none" => Len(out) >= Parts * Greetings
    /\ InTime
    /\ GreetingFirst

LEMMA GreetInit == Init => GreetInv
BY DEF Init, GreetInv, InTime, Alive, GreetingFirst, Writers

\* The part that is received belongs to the greeting that is due, or to none.
LEMMA TakesInTime ==
    ASSUME TypedStream, GreetingFirst, NEW w \in Writers, Takes(w), frame[w] \in Frames,
           peer => Len(out) >= Parts * Greetings \/ frame[w] = 1 + (Len(out) \div Parts)
    PROVE  /\ GreetingFirst'
           /\ peer => Len(out') = Len(out) + 1
<1>1. CASE ~peer
  <2>1. out' = out
    BY <1>1 DEF Takes
  <2> QED
    BY <1>1, <2>1 DEF GreetingFirst
<1>2. CASE peer
  <2> DEFINE p == [frame |-> frame[w], part |-> part[w]]
  <2>1. part[w] \in 1..Parts /\ out \in Seq(Piece)
    BY DEF TypedStream, Takes, InFrame, Parts
  <2>2. p \in Piece
    BY <2>1 DEF Piece
  <2>3. out' = Append(out, p)
    BY <1>2 DEF Takes
  <2>4. /\ Len(out') = Len(out) + 1 /\ out'[Len(out) + 1] = p
        /\ \A i \in 1..Len(out) : out'[i] = out[i]
        /\ DOMAIN out' = 1..(Len(out) + 1) /\ DOMAIN out = 1..Len(out) /\ Len(out) \in Nat
    BY <2>1, <2>2, <2>3
  <2>5. Len(out) >= 15 => ~((Len(out) \div 3) < 5)
    BY <2>4
  <2>6. ((Len(out) + 1 - 1) \div Parts) < Greetings => p.frame = 1 + ((Len(out) + 1 - 1) \div Parts)
    BY <1>2, <2>4, <2>5 DEF Parts, Greetings
  <2>7. ASSUME NEW i \in DOMAIN out'
        PROVE  ((i - 1) \div Parts) < Greetings => out'[i].frame = 1 + ((i - 1) \div Parts)
    <3>1. CASE i \in 1..Len(out)
      BY <2>4, <3>1 DEF GreetingFirst
    <3>2. CASE i = Len(out) + 1
      BY <2>4, <2>6, <3>2
    <3> QED
      BY <2>4, <2>7, <3>1, <3>2
  <2> QED
    BY <2>4, <2>7 DEF GreetingFirst
<1> QED
  BY <1>1, <1>2

\* What the handshake writes.
LEMMA Due ==
    /\ \A s \in 1..Shaken : Before(s) \in 0..Greetings
    /\ \A s \in 1..(Shaken - 1) :
         /\ Handshake[s] = "write" =>
              GreetingAt(s) = 1 + Before(s) /\ Before(s + 1) = 1 + Before(s)
         /\ Handshake[s] = "read" => Before(s + 1) = Before(s)
    /\ Before(1) = 0 /\ Before(Shaken) = Greetings
BY DEF Shaken, Handshake, GreetingAt, Before, Greetings

LEMMA Quotient ==
    ASSUME NEW b \in Nat, NEW k \in {0, 1, 2}
    PROVE  (3 * b + k) \div 3 = b
OBVIOUS

LEMMA SilentGreets ==
    ASSUME Typed, FrameInv, GreetInv, [Next]_vars, UNCHANGED stream
    PROVE  GreetInv'
<1>1. GreetingFirst' /\ out' = out /\ part' = part /\ frame' = frame
  BY DEF stream, GreetingFirst, GreetInv
<1>2. Alive' => Alive \/ (main = "dial" /\ run = "none")
  BY AliveBegins DEF FrameInv, Early
<1>3. step \in 1..Shaken
  BY DEF Typed, TypeOK
<1> USE DEF GreetInv, InTime
<1>4. CASE Outside
  <2>1. UNCHANGED <<main, step, run, bridge>>
    BY <1>4 DEF Outside, PeerSends, PeerLeaves, LeaderForks, LeaderExits, Elsewhere
  <2> QED
    BY <1>1, <1>2, <2>1
<1>5. CASE Start
  <2>1. CASE ReadConfig \/ StartLaunchCommand \/ DialSucceeds \/ DialTimesOut
    BY <1>1, <1>2, <2>1 DEF ReadConfig, StartLaunchCommand, DialSucceeds, DialTimesOut, Proceed
  <2>2. CASE OpenTranscript
    <3>1. run = "none" /\ out = <<>> /\ step = 1 /\ part["main"] = 0
      BY <2>2 DEF OpenTranscript, FrameInv, Early
    <3>2. Len(out) = 0
      BY <3>1
    <3> QED
      BY <1>1, <1>2, <2>2, <3>1, <3>2, Due DEF OpenTranscript, Proceed, Parts
  <2>3. CASE ShakeReads
    <3>1. part["main"] = 0 /\ step < Shaken /\ Handshake[step] = "read" /\ main = "handshake"
      BY <2>3 DEF ShakeReads, Shaking
    <3>2. Before(step + 1) = Before(step)
      BY <1>3, <3>1, Due DEF Shaken, Handshake
    <3> QED
      BY <1>1, <1>2, <2>3, <3>1, <3>2 DEF ShakeReads, NextStep, Proceed
  <2>4. CASE ShakeReadFails
    <3>1. part["main"] = 0 /\ main = "handshake"
      BY <2>4 DEF ShakeReadFails, Shaking
    <3> QED
      BY <1>1, <1>2, <2>4, <3>1 DEF ShakeReadFails, Proceed
  <2>5. CASE ShakeWrites
    <3>1. ~BeginFrame("main", GreetingAt(step)) /\ ~WritePart("main") /\ ~EndFrame("main")
          /\ ~FrameFails("main")
      BY DEF stream, BeginFrame, WritePart, EndFrame, FrameFails, Takes, InFrame, Unlock, Lock,
             Typed, TypeOK, Parts, Writers
    <3> QED
      BY <2>5, <3>1 DEF ShakeWrites
  <2>6. CASE StartReturns
    <3>1. main = "handshake" /\ step = Shaken /\ part["main"] = 0 /\ run' # "none"
      BY <2>6 DEF StartReturns, HandshakeEnds, Typed, TypeOK
    <3>2. Before(step) = Greetings
      BY <3>1, Due
    <3>3. Alive => Len(out) = Parts * Greetings + 0
      BY <3>1, <3>2
    <3>4. ASSUME Alive PROVE Len(out) >= Parts * Greetings
      <4>1. Len(out) = 3 * 5 + 0
        BY <3>3, <3>4 DEF Parts, Greetings
      <4> HIDE DEF GreetInv, InTime
      <4> QED
        BY <4>1 DEF Parts, Greetings
    <3> QED
      BY <1>1, <1>2, <2>6, <3>1, <3>4 DEF StartReturns, Proceed
  <2> QED
    BY <1>5, <2>1, <2>2, <2>3, <2>4, <2>5, <2>6 DEF Start
<1>6. CASE Use
  <2>1. UNCHANGED <<main, step, run>>
    BY <1>6 DEF Use, MainWrites, BridgeCalls, BridgeBegins, BridgeRefused, BridgeWrites, Others
  <2>2. run = "none" => ~bridge'
    BY <1>6 DEF Use, MainWrites, BridgeCalls, BridgeBegins, BridgeRefused, BridgeWrites
  <2> QED
    BY <1>1, <1>2, <2>1, <2>2
<1>7. CASE ReadStep
  <2>1. UNCHANGED <<main, step, bridge>> /\ run # "none" /\ run' # "none"
    BY <1>7 DEF ReadStep, RunBegins, RunReads, RunReadFails, Reading
  <2> QED
    BY <1>1, <1>2, <2>1
<1>8. CASE Close \/ TearDown
  <2>1. UNCHANGED <<run, bridge>> /\ main' \in Teardown \cup {"ended"}
    BY <1>8 DEF Close, TearDown, CloseConn, CloseTranscript, StopGroup, LeaderWaited,
                WaitTimesOut, Kill, Reap, Kept, Proceed, Teardown
  <2>2. part["main"] = 0 /\ main # "dial"
    BY <1>8 DEF Close, TearDown, CloseConn, CloseTranscript, StopGroup, LeaderWaited,
                WaitTimesOut, Kill, Reap, InFrame
  <2> QED
    BY <1>1, <1>2, <2>1, <2>2 DEF Teardown
<1>9. CASE UNCHANGED vars
  BY <1>1, <1>2, <1>9 DEF vars
<1> QED
  BY <1>4, <1>5, <1>6, <1>7, <1>8, <1>9, Steps

\* What a step of a writer does to its frame and to what is received.
LEMMA WriterKeeps ==
    ASSUME TypedStream, Owner, NEW w \in Writers, NEW v \in Writers, v # w,
           \/ \E f \in Frames : BeginFrame(w, f)
           \/ WritePart(w) \/ EndFrame(w) \/ FrameFails(w)
    PROVE  part'[v] = part[v] /\ frame'[v] = frame[v] /\ part[v] = 0
BY DEF TypedStream, Owner, BeginFrame, WritePart, EndFrame, FrameFails, Takes, InFrame, Unlock,
       Lock, Writers, Nobody

\* A writer after the greeting: what is received does not shrink.
LEMMA LaterGreets ==
    ASSUME TypedStream, HasFrame, GreetingFirst, NEW w \in Writers,
           conn' = conn, peer' = peer,
           Alive => Len(out) >= Parts * Greetings,
           \/ \E f \in Frames : BeginFrame(w, f)
           \/ WritePart(w) \/ EndFrame(w) \/ FrameFails(w)
    PROVE  GreetingFirst' /\ (Alive' => Len(out') >= Parts * Greetings)
<1>1. CASE \E f \in Frames : BeginFrame(w, f)
  BY <1>1 DEF BeginFrame, GreetingFirst, Alive
<1>2. CASE WritePart(w) \/ EndFrame(w)
  <2>1. Takes(w) /\ broken' = broken
    BY <1>2 DEF WritePart, EndFrame
  <2>2. frame[w] \in Frames /\ Len(out) \in Nat
    BY <2>1 DEF HasFrame, Takes, InFrame, TypedStream
  <2>3. peer => Len(out) >= Parts * Greetings
    BY <2>1 DEF Takes, Alive
  <2>4. GreetingFirst' /\ (peer => Len(out') = Len(out) + 1)
    BY <2>1, <2>2, <2>3, TakesInTime
  <2> QED
    BY <2>1, <2>2, <2>3, <2>4 DEF Alive, Parts, Greetings
<1>3. CASE FrameFails(w)
  BY <1>3 DEF FrameFails, GreetingFirst, Alive
<1> QED
  BY <1>1, <1>2, <1>3

\* A step of main in the handshake.
LEMMA ShakeGreets ==
    ASSUME Typed, FrameInv, GreetInv, ShakeWrites
    PROVE  GreetInv'
<1>1. TypedStream /\ HasFrame
  BY TypedParts
<1>2. /\ main = "handshake" /\ step \in 1..(Shaken - 1) /\ Handshake[step] = "write"
      /\ step < Shaken
      /\ run = "none" /\ ~bridge /\ part["bridge"] = 0
  BY DEF ShakeWrites, Shaking, Typed, TypeOK, Shaken, Handshake, GreetInv
<1>3. GreetingAt(step) = 1 + Before(step) /\ Before(step + 1) = 1 + Before(step)
      /\ Before(step) \in 0..Greetings
  BY <1>2, Due DEF Shaken, Handshake
<1>4. UNCHANGED <<conn, peer, run, bridge>>
  BY DEF ShakeWrites, partner
<1>5. "main" \in Writers /\ "bridge" \in Writers /\ "bridge" # "main" /\ Len(out) \in Nat
      /\ part \in [Writers -> 0..Parts] /\ frame \in [Writers -> Frames \cup {0}]
  BY <1>1 DEF Writers, TypedStream
<1>6. GreetingAt(step) \in Frames
  BY <1>2, FramesTyped
<1>7. part'["bridge"] = 0
  BY <1>1, <1>2, <1>5, <1>6, WriterKeeps DEF ShakeWrites, FrameInv
<1>8. CASE BeginFrame("main", GreetingAt(step)) /\ UNCHANGED <<config, main, step>>
  <2>1. out' = out /\ part'["main"] = 1 /\ frame'["main"] = GreetingAt(step) /\ part["main"] = 0
        /\ broken' = broken
    BY <1>5, <1>8 DEF BeginFrame
  <2>2. InTime'
    BY <1>2, <1>4, <1>5, <1>8, <2>1 DEF InTime, GreetInv, Alive
  <2>3. GreetingFirst'
    BY <2>1 DEF GreetingFirst, GreetInv
  <2> QED
    BY <1>2, <1>4, <1>7, <1>8, <2>2, <2>3 DEF GreetInv
<1>9. ASSUME Takes("main")
      PROVE  /\ GreetingFirst' /\ frame["main"] = GreetingAt(step) /\ part["main"] \in 1..Parts
             /\ peer => /\ Len(out') = Len(out) + 1
                        /\ Len(out) = Parts * Before(step) + part["main"] - 1
  <2>1. part["main"] \in 1..Parts /\ frame["main"] = GreetingAt(step)
    BY <1>2, <1>5, <1>9 DEF Takes, InFrame, Parts, GreetInv, InTime
  <2>2. peer => Alive
    BY <1>9 DEF Takes, Alive
  <2>3. peer => Len(out) = Parts * Before(step) + (part["main"] - 1)
    BY <1>2, <2>1, <2>2 DEF GreetInv, InTime, Parts
  <2>4. Before(step) \in Nat /\ part["main"] - 1 \in {0, 1, 2}
    BY <1>3, <2>1 DEF Parts, Greetings
  <2>5. (3 * Before(step) + (part["main"] - 1)) \div 3 = Before(step)
    BY <2>4, Quotient
  <2>6. peer => frame["main"] = 1 + (Len(out) \div Parts)
    BY <1>3, <2>1, <2>3, <2>5 DEF Parts
  <2>7. GreetingFirst' /\ (peer => Len(out') = Len(out) + 1)
    BY <1>1, <1>5, <1>6, <1>9, <2>1, <2>6, TakesInTime DEF GreetInv
  <2> QED
    BY <2>1, <2>3, <2>4, <2>7 DEF Parts
<1>10. CASE WritePart("main") /\ UNCHANGED <<config, main, step>>
  <2>1. /\ part'["main"] = part["main"] + 1 /\ frame' = frame /\ broken' = broken
        /\ Takes("main")
    BY <1>5, <1>10 DEF WritePart
  <2>2. part["main"] \in 1..Parts
    BY <1>9, <2>1
  <2>3. Alive' => Len(out') = Parts * Before(step) + (part'["main"] - 1)
    <3>1. peer => /\ Len(out') = Len(out) + 1
                  /\ Len(out) = Parts * Before(step) + part["main"] - 1
      BY <1>9, <2>1
    <3>2. Alive' => peer
      BY <1>4 DEF Alive
    <3>3. Parts * Before(step) \in Nat
      BY <1>3 DEF Parts, Greetings
    <3> QED
      BY <2>1, <2>2, <3>1, <3>2, <3>3 DEF Parts
  <2>4. InTime'
    BY <1>2, <1>9, <1>10, <2>1, <2>2, <2>3 DEF InTime, Parts
  <2> QED
    BY <1>2, <1>4, <1>7, <1>9, <1>10, <2>1, <2>4 DEF GreetInv
<1>11. CASE EndFrame("main") /\ NextStep
  <2>1. /\ part'["main"] = 0 /\ part["main"] = 3 /\ broken' = broken /\ Takes("main")
        /\ step' = step + 1 /\ main' = main
    BY <1>5, <1>11 DEF EndFrame, Unlock, LastPart, NextStep, Parts
  <2>2. Alive' => Len(out') = Parts * Before(step + 1)
    <3>1. peer => /\ Len(out') = Len(out) + 1
                  /\ Len(out) = Parts * Before(step) + part["main"] - 1
      BY <1>9, <2>1
    <3>2. Alive' => peer
      BY <1>4 DEF Alive
    <3>3. Alive' => Len(out') = Parts * Before(step) + 3
      BY <1>3, <2>1, <3>1, <3>2 DEF Parts, Greetings
    <3> QED
      BY <1>3, <2>1, <3>3 DEF Alive, Parts, Greetings
  <2>3. InTime'
    BY <1>2, <1>3, <2>1, <2>2 DEF InTime, Parts, Greetings
  <2> QED
    BY <1>2, <1>4, <1>7, <1>9, <2>1, <2>3 DEF GreetInv
<1>12. CASE FrameFails("main") /\ Proceed("closeConn")
  <2>1. part'["main"] = 0 /\ out' = out /\ main' = "closeConn"
    BY <1>5, <1>12 DEF FrameFails, Unlock, Proceed
  <2>2. GreetingFirst' /\ InTime'
    BY <2>1 DEF GreetingFirst, GreetInv, InTime
  <2> QED
    BY <1>2, <1>4, <1>7, <2>1, <2>2 DEF GreetInv
<1> QED
  BY <1>8, <1>10, <1>11, <1>12 DEF ShakeWrites

LEMMA GreetStep == Typed /\ FrameInv /\ GreetInv /\ [Next]_vars => GreetInv'
<1> SUFFICES ASSUME Typed, FrameInv, GreetInv, [Next]_vars PROVE GreetInv'
  OBVIOUS
<1>1. TypedStream /\ HasFrame /\ Owner
  BY TypedParts DEF FrameInv
<1>2. CASE MainWrites \/ BridgeBegins \/ BridgeWrites
  <2>1. UNCHANGED <<main, step, run, conn, peer>> /\ (main = "ready" \/ bridge)
    BY <1>2 DEF MainWrites, BridgeBegins, BridgeWrites, Others, partner
  <2>2. run # "none" /\ main \notin {"config", "launch", "dial", "open", "handshake"}
    BY <2>1 DEF GreetInv, FrameInv, Early
  <2>3. PICK w \in Writers :
          /\ w = "main" => main = "ready"
          /\ \/ \E f \in Frames : BeginFrame(w, f)
             \/ WritePart(w) \/ EndFrame(w) \/ FrameFails(w)
    <3>1. ASSUME NEW w \in Writers, Issue(w)
          PROVE  \E f \in Frames : BeginFrame(w, f)
      <4>1. commands' \in 1..MaxCommands
        BY <3>1, BoundsAssumption DEF Issue, Typed, TypeOK
      <4> QED
        BY <3>1, <4>1, FramesTyped DEF Issue
    <3> QED
      BY <1>2, <3>1 DEF MainWrites, BridgeBegins, BridgeWrites, Writers
  <2>4. Alive => Len(out) >= Parts * Greetings
    BY <2>2 DEF GreetInv
  <2>5. GreetingFirst' /\ (Alive' => Len(out') >= Parts * Greetings)
    BY <1>1, <2>1, <2>3, <2>4, LaterGreets DEF GreetInv
  <2>6. main \notin {"handshake", "ready"} => part'["main"] = 0
    BY <1>1, <2>3, WriterKeeps DEF Writers
  <2>7. InTime'
    BY <2>1, <2>2 DEF InTime
  <2> QED
    BY <2>1, <2>2, <2>5, <2>6, <2>7 DEF GreetInv
<1>3. CASE ~ShakeWrites /\ ~(MainWrites \/ BridgeBegins \/ BridgeWrites)
  <2>1. UNCHANGED stream
    <3>1. CASE Outside
      BY <3>1 DEF Outside, PeerSends, PeerLeaves, LeaderForks, LeaderExits, Elsewhere
    <3>2. CASE Start
      BY <1>3, <3>2 DEF Start, ReadConfig, StartLaunchCommand, DialSucceeds, DialTimesOut,
                        OpenTranscript, ShakeReads, ShakeReadFails, StartReturns
    <3>3. CASE Use
      BY <1>3, <3>3 DEF Use, BridgeCalls, BridgeRefused
    <3>4. CASE ReadStep
      BY <3>4 DEF ReadStep, RunBegins, RunReads, RunReadFails, Reading
    <3>5. CASE Close \/ TearDown
      BY <3>5 DEF Close, TearDown, CloseConn, CloseTranscript, StopGroup, LeaderWaited,
                  WaitTimesOut, Kill, Reap, Kept
    <3>6. CASE UNCHANGED vars
      BY <3>6 DEF vars
    <3> QED
      BY <3>1, <3>2, <3>3, <3>4, <3>5, <3>6, Steps
  <2> QED
    BY <2>1, SilentGreets
<1> QED
  BY <1>2, <1>3, ShakeGreets

\* No command reaches the interpreter before the whole greeting, in its order.
THEOREM GreetedBeforeCommands == Spec => []GreetingFirst
<1>1. Init => Typed /\ FrameInv /\ GreetInv
  BY TypeInit, FrameInit, GreetInit
<1>2. Typed /\ FrameInv /\ GreetInv /\ [Next]_vars => (Typed /\ FrameInv /\ GreetInv)'
  BY TypeStep, FrameStep, GreetStep
<1>3. GreetInv => GreetingFirst
  BY DEF GreetInv
<1> QED
  BY <1>1, <1>2, <1>3, PTL DEF Spec

=============================================================================

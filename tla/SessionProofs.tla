--------------------------- MODULE SessionProofs ---------------------------
(***************************************************************************)
(* Proofs about Session: type correctness, the end of the program, and the *)
(* order of what is written to the client.                                 *)
(***************************************************************************)
EXTENDS Session, TLAPS

\* The disjuncts of Next, by the goroutine that takes the step.
MainStep ==
    \/ ReadRequest \/ InputEnds \/ StartSucceeds \/ StartFails \/ Handle \/ Configured
    \/ ControlSent \/ MainDraws \/ WriteResponse \/ WriteFollowing \/ NextRequest

LEMMA Steps ==
    ASSUME [Next]_vars
    PROVE  Outside \/ MainStep \/ Stop \/ RunStep \/ BridgeStep \/ UNCHANGED vars
BY DEF Next, Serve, Calls, MainStep

-----------------------------------------------------------------------------
(* Types. *)

LEMMA NoRequestTyped == NoRequest \in Request
BY BoundsAssumption DEF NoRequest, Request, Commands

LEMMA MessagesTyped ==
    ASSUME number \in [Writers -> Nat], NEW w \in Writers
    PROVE  /\ \A e \in Events : EventNamed(e, w) \in Written
           /\ \A r \in Request, ok \in BOOLEAN : ResponseTo(r, ok, w) \in Written
BY DEF EventNamed, ResponseTo, Written

LEMMA OutputTyped ==
    ASSUME output \in Output, NEW m \in Written
    PROVE  WithMessage(m) \in Output
<1>1. /\ output.count \in Nat /\ output.answers \in Nat
      /\ output.greeted \in BOOLEAN /\ output.ended \in BOOLEAN
  BY DEF Output
<1>2. output.count + 1 \in Nat /\ output.answers + 1 \in Nat
  BY <1>1
<1>3. CASE IsResponse(m)
  <2>1. m.success \in BOOLEAN
    BY <1>3 DEF IsResponse, Written
  <2> QED
    BY <1>1, <1>2, <1>3, <2>1 DEF WithMessage, Output
<1>4. CASE ~IsResponse(m)
  BY <1>1, <1>2, <1>4 DEF WithMessage, Output
<1> QED
  BY <1>3, <1>4

TypedWriting ==
    /\ writer \in Writers \cup {"free"} /\ nextSeq \in Nat
    /\ number \in [Writers -> Nat]
    /\ output \in Output /\ client \in BOOLEAN

LEMMA PutTyped ==
    ASSUME TypeOK, NEW w \in Writers, NEW m \in Written, Put(w, m)
    PROVE  TypedWriting'
<1>1. output' \in Output
  BY OutputTyped DEF TypeOK, Put
<1>2. client' = FALSE \/ client' = client
  BY DEF Put
<1>3. client' \in BOOLEAN
  BY <1>2 DEF TypeOK
<1> QED
  BY <1>1, <1>3 DEF TypeOK, TypedWriting, Put

LEMMA DrawTyped ==
    ASSUME TypeOK, NEW w \in Writers, Draw(w)
    PROVE  TypedWriting'
BY DEF TypeOK, TypedWriting, Draw

LEMMA TypeInit == Init => TypeOK
<1> SUFFICES ASSUME Init PROVE TypeOK
  OBVIOUS
<1>1. NoOutput \in Output
  BY DEF NoOutput, Output, Written, Events
<1>2. /\ controller \in BOOLEAN /\ started \in BOOLEAN /\ peer \in BOOLEAN
      /\ cancelled \in BOOLEAN /\ subscribed \in BOOLEAN /\ success \in BOOLEAN
      /\ snapshot \in BOOLEAN /\ gaveUp \in BOOLEAN
  BY DEF Init
<1>3. output \in Output /\ number \in [Writers -> Nat]
  BY <1>1 DEF Init
<1> QED
  BY <1>2, <1>3, NoRequestTyped, BoundsAssumption DEF Init, TypeOK, Messages

LEMMA TypeStep == TypeOK /\ [Next]_vars => TypeOK'
<1> SUFFICES ASSUME TypeOK, [Next]_vars PROVE TypeOK'
  OBVIOUS
<1> USE DEF TypeOK, server, link, mains, runs, bridges, writing
<1>1. CASE Outside
  <2>1. CASE InterpreterSends
    <3>1. line' \in Seq(Messages) /\ messages' \in 0..MaxMessages
      BY <2>1, BoundsAssumption DEF InterpreterSends
    <3> QED
      BY <2>1, <3>1 DEF InterpreterSends
  <2>2. CASE InterpreterLeaves
    <3>1. peer' \in BOOLEAN
      BY <2>2 DEF InterpreterLeaves
    <3> QED
      BY <2>2, <3>1 DEF InterpreterLeaves
  <2> QED
    BY <1>1, <2>1, <2>2 DEF Outside
<1>2. CASE MainStep
  <2>1. CASE ReadRequest
    <3>1. output.ended \in BOOLEAN
      BY DEF Output
    <3>2. requests' \in 0..MaxRequests /\ request' \in Request
      BY <2>1, <3>1, BoundsAssumption DEF ReadRequest, Request
    <3>3. success' \in BOOLEAN
      BY <2>1 DEF ReadRequest
    <3> QED
      BY <2>1, <3>2, <3>3 DEF ReadRequest, Rest
  <2>2. CASE InputEnds
    BY <2>2 DEF InputEnds, Rest, Stopping
  <2>3. CASE StartSucceeds
    BY <2>3 DEF StartSucceeds, Proceed
  <2>4. CASE StartFails
    <3>1. success' \in BOOLEAN
      BY <2>4 DEF StartFails, Respond
    <3> QED
      BY <2>4, <3>1 DEF StartFails, Respond, Rest
  <2>5. CASE Handle
    <3>1. request.command \in Commands
      BY DEF Request
    <3>2. state' \in {"created", "initialized", "attached", "terminated"}
      BY <2>5 DEF Handle, NextState
    <3>3. \/ Proceed("configure") \/ Proceed("send")
          \/ Respond(FALSE, <<>>) \/ Respond(TRUE, <<>>)
          \/ Respond(TRUE, <<"initialized">>)
      BY <2>5 DEF Handle
    <3>4. success' \in BOOLEAN
      BY <3>3 DEF Respond, Proceed
    <3>5. /\ main' \in {"configure", "send", "respond"}
          /\ follow' \in Seq(Events) /\ request' = request
          /\ requests' = requests /\ gaveUp' = gaveUp
      <4>1. <<>> \in Seq(Events) /\ <<"initialized">> \in Seq(Events)
        BY DEF Events
      <4> QED
        BY <3>3, <4>1 DEF Respond, Proceed
    <3> QED
      BY <2>5, <3>2, <3>4, <3>5 DEF Handle, Rest
  <2>6. CASE Configured
    BY <2>6 DEF Configured, Respond, Rest
  <2>7. CASE ControlSent
    BY <2>7 DEF ControlSent, Respond, Rest
  <2>8. CASE MainDraws
    BY <2>8, DrawTyped DEF MainDraws, TypedWriting, Rest, Writers
  <2>9. CASE WriteResponse
    <3>1. TypedWriting'
      BY <2>9, PutTyped, MessagesTyped DEF WriteResponse, Writers
    <3> QED
      BY <2>9, <3>1 DEF WriteResponse, Proceed, AfterResponse, TypedWriting, Rest, Stopping
  <2>10. CASE WriteFollowing
    <3>1. Head(follow) \in Events /\ Tail(follow) \in Seq(Events)
      BY <2>10 DEF WriteFollowing
    <3>2. TypedWriting'
      BY <2>10, <3>1, PutTyped, MessagesTyped DEF WriteFollowing, Writers
    <3> QED
      BY <2>10, <3>1, <3>2 DEF WriteFollowing, TypedWriting, Rest, Stopping
  <2>11. CASE NextRequest
    BY <2>11 DEF NextRequest, Proceed, Rest
  <2> QED
    BY <1>2, <2>1, <2>2, <2>3, <2>4, <2>5, <2>6, <2>7, <2>8, <2>9, <2>10, <2>11 DEF MainStep
<1>3. CASE Stop
  <2>1. CASE Forget
    <3>1. started' \in BOOLEAN /\ controller' \in BOOLEAN /\ subscribed' \in BOOLEAN
      BY <2>1 DEF Forget
    <3> QED
      BY <2>1, <3>1 DEF Forget, Proceed, Stopping
  <2>2. CASE CloseHarness \/ WaitEnds
    BY <2>2 DEF CloseHarness, WaitEnds, AfterWait, Proceed, Rest, Stopping
  <2>3. CASE Cancel
    BY <2>3 DEF Cancel, Proceed, Stopping
  <2>4. CASE WaitTimesOut
    BY <2>4 DEF WaitTimesOut, AfterWait, Rest, Stopping
  <2> QED
    BY <1>3, <2>1, <2>2, <2>3, <2>4 DEF Stop
<1>4. CASE RunStep
  <2>1. CASE RunLoops \/ RunReadFails \/ RunFlushes
    BY <2>1 DEF RunLoops, RunReadFails, RunFlushes, Others
  <2>2. CASE RunReads
    <3>1. Head(line) \in Messages /\ Tail(line) \in Seq(Messages)
      BY <2>2 DEF RunReads
    <3> QED
      BY <2>2, <3>1 DEF RunReads, Others
  <2>3. CASE RunPublishes
    <3>1. events' \in Seq(Messages)
      BY <2>3 DEF RunPublishes
    <3>2. snapshot' \in BOOLEAN
      BY <2>3 DEF RunPublishes
    <3> QED
      BY <2>3, <3>1, <3>2 DEF RunPublishes, Others, Messages
  <2> QED
    BY <1>4, <2>1, <2>2, <2>3 DEF RunStep
<1>5. CASE BridgeStep
  <2>1. CASE BridgeTakes
    <3>1. Head(events) \in Messages /\ Tail(events) \in Seq(Messages)
      BY <2>1 DEF BridgeTakes
    <3> QED
      BY <2>1, <3>1 DEF BridgeTakes
  <2>2. CASE BridgeHandles
    <3>1. EventsOf(taken) \in Seq(Events)
      <4>1. /\ <<>> \in Seq(Events) /\ <<"stopped">> \in Seq(Events)
            /\ <<"output", "terminated">> \in Seq(Events)
        BY DEF Events
      <4> QED
        BY <4>1 DEF EventsOf
    <3> QED
      BY <2>2, <3>1 DEF BridgeHandles, Messages
  <2>3. CASE BridgeEnds \/ BridgeSends \/ BridgeLoops
    BY <2>3 DEF BridgeEnds, BridgeSends, BridgeLoops
  <2>4. CASE BridgeDraws
    BY <2>4, DrawTyped DEF BridgeDraws, TypedWriting, Writers
  <2>5. CASE BridgeWrites
    <3>1. Head(outbound) \in Events /\ Tail(outbound) \in Seq(Events)
      BY <2>5 DEF BridgeWrites
    <3>2. TypedWriting'
      BY <2>5, <3>1, PutTyped, MessagesTyped DEF BridgeWrites, Writers
    <3> QED
      BY <2>5, <3>1, <3>2 DEF BridgeWrites, TypedWriting
  <2> QED
    BY <1>5, <2>1, <2>2, <2>3, <2>4, <2>5 DEF BridgeStep
<1>6. CASE UNCHANGED vars
  BY <1>6 DEF vars
<1> QED
  BY <1>1, <1>2, <1>3, <1>4, <1>5, <1>6, Steps

\* Every reachable state of the session is well typed, for any bounds.
THEOREM TypeCorrect == Spec => []TypeOK
BY TypeInit, TypeStep, PTL DEF Spec

-----------------------------------------------------------------------------
(* The end of the program.                                                  *)

Serving ==
    {"read", "start", "handle", "configure", "send", "respond", "follow", "stop"}

\* Without a runtime there is nothing to close; main gives up only where it
\* waits, and it waits with the connection closed.
EndInv ==
    /\ main \in Serving =>
         /\ ~gaveUp
         /\ ~started => /\ conn = "none" /\ run = "none" /\ bridge = "none"
                        /\ ~controller
    /\ main \notin Serving => ~started /\ ~controller
    /\ main \in {"cancel", "waitRun", "waitBridge"} => conn = "closed"
    /\ main \in {"close", "cancel", "waitRun"} => ~gaveUp
    /\ main = "waitBridge" => gaveUp \/ run = "ended"
    /\ CleanEnd

LEMMA EndInit == Init => EndInv
BY DEF Init, EndInv, Serving, CleanEnd

LEMMA EndStep == TypeOK /\ EndInv /\ [Next]_vars => EndInv'
<1> SUFFICES ASSUME TypeOK, EndInv, [Next]_vars PROVE EndInv'
  OBVIOUS
<1> USE DEF EndInv, Serving, CleanEnd, GoroutinesEnded, server, link, mains, runs, bridges
<1>1. CASE Outside
  BY <1>1 DEF Outside, InterpreterSends, InterpreterLeaves
<1>2. CASE MainStep
  <2>1. CASE ReadRequest \/ InputEnds
    BY <2>1 DEF ReadRequest, InputEnds, Rest
  <2>2. CASE StartSucceeds
    BY <2>2 DEF StartSucceeds, Proceed
  <2>3. CASE StartFails \/ Configured \/ ControlSent
    BY <2>3 DEF StartFails, Configured, ControlSent, Respond, Rest
  <2>4. CASE Handle
    BY <2>4 DEF Handle, Respond, Proceed, Rest
  <2>5. CASE MainDraws
    BY <2>5 DEF MainDraws, Rest
  <2>6. CASE WriteResponse
    BY <2>6 DEF WriteResponse, Proceed, AfterResponse, Rest
  <2>7. CASE WriteFollowing
    BY <2>7 DEF WriteFollowing, Rest
  <2>8. CASE NextRequest
    BY <2>8 DEF NextRequest, Proceed, Rest
  <2> QED
    BY <1>2, <2>1, <2>2, <2>3, <2>4, <2>5, <2>6, <2>7, <2>8 DEF MainStep
<1>3. CASE Stop
  <2>1. CASE Forget
    BY <2>1 DEF Forget, Proceed
  <2>2. CASE CloseHarness
    BY <2>2 DEF CloseHarness, Proceed, Rest
  <2>3. CASE Cancel
    BY <2>3 DEF Cancel, Proceed
  <2>4. CASE WaitEnds
    BY <2>4 DEF WaitEnds, Awaited, AfterWait, Proceed, Rest
  <2>5. CASE WaitTimesOut
    BY <2>5 DEF WaitTimesOut, AfterWait, Rest
  <2> QED
    BY <1>3, <2>1, <2>2, <2>3, <2>4, <2>5 DEF Stop
<1>4. CASE RunStep
  BY <1>4 DEF RunStep, RunLoops, RunReads, RunReadFails, RunFlushes, RunPublishes, Others
<1>5. CASE BridgeStep
  BY <1>5 DEF BridgeStep, BridgeTakes, BridgeEnds, BridgeHandles, BridgeSends,
              BridgeDraws, BridgeWrites, BridgeLoops
<1>6. CASE UNCHANGED vars
  BY <1>6 DEF vars
<1> QED
  BY <1>1, <1>2, <1>3, <1>4, <1>5, <1>6, Steps

\* However the program ends, it leaves no connection open and no goroutine,
\* unless it gave up waiting for one.
THEOREM EndsClean == Spec => []CleanEnd
<1>1. Init => TypeOK /\ EndInv
  BY TypeInit, EndInit
<1>2. TypeOK /\ EndInv /\ [Next]_vars => (TypeOK /\ EndInv)'
  BY TypeStep, EndStep
<1>3. EndInv => CleanEnd
  BY DEF EndInv
<1> QED
  BY <1>1, <1>2, <1>3, PTL DEF Spec

-----------------------------------------------------------------------------
(* The order of what is written.                                            *)

\* Whoever holds the writer has drawn the number of the next message.
NumberInv ==
    /\ nextSeq > 0
    /\ \A w \in Writers : number[w] # 0 <=> writer = w
    /\ client => nextSeq = output.count + (IF writer = "free" THEN 1 ELSE 2)
    /\ \A w \in Writers : client /\ writer = w => number[w] = output.count + 1
    /\ output.last.seq = output.count

\* Every request read before the one that main handles has been answered.
AnswerInv ==
    /\ client /\ main \in {"start", "handle", "configure", "send", "respond"} =>
         requests = output.answers + 1 /\ request.id = requests
    /\ client /\ main \in {"read", "follow"} => requests = output.answers
    /\ IsResponse(output.last) => output.last.to.id = output.answers

LEMMA MessageFields ==
    ASSUME NEW m \in Written
    PROVE  /\ WithMessage(m).count = output.count + 1 /\ WithMessage(m).last = m
           /\ IsResponse(m) => WithMessage(m).answers = output.answers + 1
           /\ ~IsResponse(m) => WithMessage(m).answers = output.answers
BY DEF WithMessage

LEMMA Contents ==
    ASSUME NEW w \in Writers
    PROVE  /\ \A e \in Events : EventNamed(e, w).seq = number[w] /\ ~IsResponse(EventNamed(e, w))
           /\ \A r \in Request, ok \in BOOLEAN :
                /\ ResponseTo(r, ok, w).seq = number[w] /\ IsResponse(ResponseTo(r, ok, w))
                /\ ResponseTo(r, ok, w).to = r /\ ResponseTo(r, ok, w).success = ok
BY DEF EventNamed, ResponseTo, IsResponse

LEMMA NumberInit == Init => NumberInv
BY DEF Init, NumberInv, NoOutput, Writers

LEMMA DrawNumbers ==
    ASSUME TypeOK, NumberInv, NEW w \in Writers, ~Drawn(w), Draw(w)
    PROVE  NumberInv'
<1>1. nextSeq \in Nat /\ output.count \in Nat /\ nextSeq > 0
  BY DEF TypeOK, NumberInv, Output
<1>2. \A v \in Writers : v # "free"
  BY DEF Writers
<1>3. \A v \in Writers : number'[v] # 0 <=> writer' = v
  <2>1. /\ writer = "free" /\ writer' = w /\ number' = [number EXCEPT ![w] = nextSeq]
        /\ DOMAIN number = Writers
    BY DEF TypeOK, Draw
  <2>2. \A v \in Writers : number[v] = 0
    BY <1>2, <2>1 DEF NumberInv
  <2> QED
    BY <1>1, <2>1, <2>2
<1>4. client => nextSeq' = output.count + 2 /\ number'[w] = output.count + 1
  BY <1>1, <1>2 DEF TypeOK, NumberInv, Draw
<1>5. writer' = w /\ nextSeq' > 0 /\ output' = output /\ client' = client
  BY <1>1 DEF Draw
<1> QED
  BY <1>2, <1>3, <1>4, <1>5 DEF NumberInv

LEMMA PutNumbers ==
    ASSUME TypeOK, NumberInv, NEW w \in Writers, NEW m \in Written, Put(w, m),
           m.seq = number[w]
    PROVE  NumberInv'
<1>1. nextSeq \in Nat /\ output.count \in Nat /\ writer = w /\ w # "free"
  BY DEF TypeOK, NumberInv, Output, Put, Drawn, Writers
<1>2. \A v \in Writers : number'[v] = 0
  BY <1>1 DEF TypeOK, NumberInv, Put
<1>3. writer' = "free" /\ nextSeq' = nextSeq
  BY DEF Put
<1>4. \A v \in Writers : v # "free"
  BY DEF Writers
<1>5. CASE client /\ output' = WithMessage(m)
  <2>1. output'.count = output.count + 1 /\ output'.last = m
    BY <1>5, MessageFields
  <2>2. number[w] = output.count + 1 /\ nextSeq = output.count + 2
    BY <1>1, <1>5 DEF NumberInv
  <2> QED
    BY <1>1, <1>2, <1>3, <1>4, <2>1, <2>2 DEF NumberInv
<1>6. CASE client' = FALSE /\ output' = output
  BY <1>2, <1>3, <1>4, <1>6 DEF NumberInv
<1> QED
  BY <1>5, <1>6 DEF Put

\* What main and the bridge write next is a message with their number.
LEMMA Writing ==
    ASSUME TypeOK
    PROVE  /\ "main" \in Writers /\ "bridge" \in Writers
           /\ /\ ResponseTo(request, success, "main") \in Written
              /\ IsResponse(ResponseTo(request, success, "main"))
              /\ ResponseTo(request, success, "main").seq = number["main"]
           /\ follow # <<>> =>
                /\ EventNamed(Head(follow), "main") \in Written
                /\ ~IsResponse(EventNamed(Head(follow), "main"))
                /\ EventNamed(Head(follow), "main").seq = number["main"]
           /\ outbound # <<>> =>
                /\ EventNamed(Head(outbound), "bridge") \in Written
                /\ ~IsResponse(EventNamed(Head(outbound), "bridge"))
                /\ EventNamed(Head(outbound), "bridge").seq = number["bridge"]
<1>1. "main" \in Writers /\ "bridge" \in Writers
  BY DEF Writers
<1>2. /\ follow # <<>> => Head(follow) \in Events
      /\ outbound # <<>> => Head(outbound) \in Events
  BY DEF TypeOK
<1>3. request \in Request /\ success \in BOOLEAN /\ number \in [Writers -> Nat]
  BY DEF TypeOK
<1> QED
  BY <1>1, <1>2, <1>3, MessagesTyped, Contents

LEMMA NumberStep == TypeOK /\ NumberInv /\ [Next]_vars => NumberInv'
<1> SUFFICES ASSUME TypeOK, NumberInv, [Next]_vars PROVE NumberInv'
  OBVIOUS
<1>1. CASE WriteResponse
  BY <1>1, PutNumbers, Writing DEF WriteResponse
<1>2. CASE WriteFollowing
  BY <1>2, PutNumbers, Writing DEF WriteFollowing
<1>3. CASE BridgeWrites
  BY <1>3, PutNumbers, Writing DEF BridgeWrites
<1>4. CASE MainDraws
  BY <1>4, DrawNumbers, Writing DEF MainDraws
<1>5. CASE BridgeDraws
  BY <1>5, DrawNumbers, Writing DEF BridgeDraws
<1>6. ASSUME UNCHANGED writing PROVE NumberInv'
  BY <1>6 DEF writing, NumberInv
<1>7. \/ WriteResponse \/ WriteFollowing \/ BridgeWrites \/ MainDraws \/ BridgeDraws
      \/ UNCHANGED writing
  <2>1. CASE Outside
    BY <2>1 DEF Outside, InterpreterSends, InterpreterLeaves
  <2>2. CASE MainStep
    BY <2>2 DEF MainStep, ReadRequest, InputEnds, StartSucceeds, StartFails, Handle,
                Configured, ControlSent, NextRequest
  <2>3. CASE Stop
    BY <2>3 DEF Stop, Forget, CloseHarness, Cancel, WaitEnds, WaitTimesOut
  <2>4. CASE RunStep
    BY <2>4 DEF RunStep, RunLoops, RunReads, RunReadFails, RunFlushes, RunPublishes, Others
  <2>5. CASE BridgeStep
    BY <2>5 DEF BridgeStep, BridgeTakes, BridgeEnds, BridgeHandles, BridgeSends, BridgeLoops
  <2>6. CASE UNCHANGED vars
    BY <2>6 DEF vars
  <2> QED
    BY <2>1, <2>2, <2>3, <2>4, <2>5, <2>6, Steps
<1> QED
  BY <1>1, <1>2, <1>3, <1>4, <1>5, <1>6, <1>7

LEMMA AnswerInit == Init => AnswerInv
BY DEF Init, AnswerInv, NoOutput, IsResponse

LEMMA AnswerStep == TypeOK /\ AnswerInv /\ [Next]_vars => AnswerInv'
<1> SUFFICES ASSUME TypeOK, AnswerInv, [Next]_vars PROVE AnswerInv'
  OBVIOUS
<1>0. output.answers \in Nat /\ requests \in Nat
  BY BoundsAssumption DEF TypeOK, Output
<1> USE <1>0 DEF AnswerInv
<1>1. CASE Outside
  BY <1>1 DEF Outside, InterpreterSends, InterpreterLeaves, mains, writing
<1>2. CASE MainStep
  <2>1. CASE ReadRequest
    BY <2>1 DEF ReadRequest, writing
  <2>2. CASE InputEnds
    BY <2>2 DEF InputEnds, writing
  <2>3. CASE StartSucceeds
    BY <2>3 DEF StartSucceeds, Proceed, writing
  <2>4. CASE StartFails \/ Configured \/ ControlSent
    BY <2>4 DEF StartFails, Configured, ControlSent, Respond, writing
  <2>5. CASE Handle
    BY <2>5 DEF Handle, Respond, Proceed, writing
  <2>6. CASE MainDraws
    BY <2>6 DEF MainDraws, Draw, mains
  <2>7. CASE WriteResponse
    <3> DEFINE m == ResponseTo(request, success, "main")
    <3>1. m \in Written /\ IsResponse(m) /\ m.to = request
      BY Writing DEF ResponseTo
    <3>2. (client /\ output' = WithMessage(m)) \/ (client' = FALSE /\ output' = output)
      BY <2>7 DEF WriteResponse, Put
    <3>3. (client' => client) /\ requests' = requests /\ request' = request /\ main = "respond"
      BY <2>7 DEF WriteResponse, Put, Proceed
    <3>4. main' \in {"stop", "follow"}
      BY <2>7 DEF WriteResponse, Proceed, AfterResponse
    <3> QED
      BY <3>1, <3>2, <3>3, <3>4, MessageFields
  <2>8. CASE WriteFollowing
    <3> DEFINE m == EventNamed(Head(follow), "main")
    <3>1. m \in Written /\ ~IsResponse(m)
      BY <2>8, Writing DEF WriteFollowing
    <3>2. (client /\ output' = WithMessage(m)) \/ (client' = FALSE /\ output' = output)
      BY <2>8 DEF WriteFollowing, Put
    <3>3. (client' => client) /\ requests' = requests /\ request' = request /\ main = "follow"
      BY <2>8 DEF WriteFollowing, Put
    <3>4. main' \in {"stop", "follow"}
      BY <2>8 DEF WriteFollowing
    <3> QED
      BY <3>1, <3>2, <3>3, <3>4, MessageFields
  <2>9. CASE NextRequest
    BY <2>9 DEF NextRequest, Proceed, writing
  <2> QED
    BY <1>2, <2>1, <2>2, <2>3, <2>4, <2>5, <2>6, <2>7, <2>8, <2>9 DEF MainStep
<1>3. CASE Stop
  BY <1>3 DEF Stop, Forget, CloseHarness, Cancel, WaitEnds, WaitTimesOut, AfterWait,
              Proceed, writing
<1>4. CASE RunStep
  BY <1>4 DEF RunStep, RunLoops, RunReads, RunReadFails, RunFlushes, RunPublishes, Others,
              mains, writing
<1>5. CASE BridgeStep
  <2>1. CASE BridgeWrites
    <3> DEFINE m == EventNamed(Head(outbound), "bridge")
    <3>1. m \in Written /\ ~IsResponse(m)
      BY <2>1, Writing DEF BridgeWrites
    <3>2. (client /\ output' = WithMessage(m)) \/ (client' = FALSE /\ output' = output)
      BY <2>1 DEF BridgeWrites, Put
    <3>3. (client' => client) /\ UNCHANGED mains
      BY <2>1 DEF BridgeWrites, Put
    <3> QED
      BY <3>1, <3>2, <3>3, MessageFields DEF mains
  <2>2. CASE BridgeDraws
    BY <2>2 DEF BridgeDraws, Draw, mains
  <2>3. CASE BridgeTakes \/ BridgeEnds \/ BridgeHandles \/ BridgeSends \/ BridgeLoops
    BY <2>3 DEF BridgeTakes, BridgeEnds, BridgeHandles, BridgeSends, BridgeLoops, mains, writing
  <2> QED
    BY <1>5, <2>1, <2>2, <2>3 DEF BridgeStep
<1>6. CASE UNCHANGED vars
  BY <1>6 DEF vars, mains, writing
<1> QED
  BY <1>1, <1>2, <1>3, <1>4, <1>5, <1>6, Steps

\* Messages are numbered in the order in which they are written, and requests
\* are answered in their order and once each.
THEOREM Ordered == Spec => []OutputOrdered
<1>1. Init => TypeOK /\ NumberInv /\ AnswerInv
  BY TypeInit, NumberInit, AnswerInit
<1>2. TypeOK /\ NumberInv /\ AnswerInv /\ [Next]_vars => (TypeOK /\ NumberInv /\ AnswerInv)'
  BY TypeStep, NumberStep, AnswerStep
<1>3. NumberInv /\ AnswerInv => OutputOrdered
  BY DEF NumberInv, AnswerInv, OutputOrdered
<1> QED
  BY <1>1, <1>2, <1>3, PTL DEF Spec

-----------------------------------------------------------------------------
(* The beginning and the end, as the client sees them.                      *)

\* The client has had the answer to initialize, or will never see another.
Greeted == output.greeted \/ ~client

GreetInv ==
    /\ state \in {"initialized", "attached"} =>
         Greeted \/ (main = "respond" /\ request.command = "initialize" /\ success)
    /\ bridge # "none" \/ main = "start" => Greeted
    /\ main = "respond" /\ follow # <<>> => request.command = "initialize" /\ success
    /\ main = "follow" /\ follow # <<>> => Greeted
    /\ NoEarlyEvent

LEMMA GreetFields ==
    ASSUME NEW m \in Written
    PROVE  /\ output.greeted => WithMessage(m).greeted
           /\ IsResponse(m) /\ m.success /\ m.to.command = "initialize" =>
                WithMessage(m).greeted
BY DEF WithMessage

LEMMA GreetInit == Init => GreetInv
BY DEF Init, GreetInv, NoEarlyEvent, NoOutput

LEMMA GreetStep == TypeOK /\ GreetInv /\ [Next]_vars => GreetInv'
<1> SUFFICES ASSUME TypeOK, GreetInv, [Next]_vars PROVE GreetInv'
  OBVIOUS
<1> USE DEF GreetInv, Greeted, NoEarlyEvent
<1>1. CASE Outside
  BY <1>1 DEF Outside, InterpreterSends, InterpreterLeaves, server, mains,
              bridges, writing
<1>2. CASE MainStep
  <2>1. CASE ReadRequest
    BY <2>1 DEF ReadRequest, Startable, server, bridges, Rest, writing
  <2>2. CASE InputEnds
    BY <2>2 DEF InputEnds, server, bridges, Rest, writing
  <2>3. CASE StartSucceeds
    BY <2>3 DEF StartSucceeds, Proceed, writing
  <2>4. CASE StartFails \/ Configured \/ ControlSent
    BY <2>4 DEF StartFails, Configured, ControlSent, Respond, server, bridges, Rest, writing
  <2>5. CASE Handle
    <3>1. UNCHANGED <<bridges, writing, request>> /\ main = "handle"
      BY <2>5 DEF Handle, Respond, Proceed, Rest
    <3>2. CASE ~Accepted(request.command)
      BY <2>5, <3>1, <3>2 DEF Handle, Respond, bridges, writing
    <3>3. CASE Accepted(request.command) /\ request.command = "initialize"
      BY <2>5, <3>1, <3>3 DEF Handle, Respond, NextState, bridges, writing
    <3>4. CASE Accepted(request.command) /\ request.command # "initialize"
      <4>1. state' \in {"initialized", "attached"} => state \in {"initialized", "attached"}
        BY <2>5, <3>4 DEF Handle, NextState, Accepted, TypeOK, Request, Commands
      <4>2. main' \in {"configure", "send"} \/ (main' = "respond" /\ follow' = <<>>)
        BY <2>5, <3>4 DEF Handle, Respond, Proceed
      <4> QED
        BY <3>1, <4>1, <4>2 DEF bridges, writing
    <3> QED
      BY <3>2, <3>3, <3>4
  <2>6. CASE MainDraws
    BY <2>6 DEF MainDraws, Draw, server, mains, bridges, Rest
  <2>7. CASE WriteResponse
    <3> DEFINE m == ResponseTo(request, success, "main")
    <3>1. m \in Written /\ IsResponse(m) /\ m.to = request /\ m.success = success
      BY Writing DEF ResponseTo
    <3>2. (client /\ output' = WithMessage(m)) \/ (client' = FALSE /\ output' = output)
      BY <2>7 DEF WriteResponse, Put
    <3>3. (client' => client) /\ main = "respond" /\ UNCHANGED <<state, bridge, request, follow>>
      BY <2>7 DEF WriteResponse, Put, Proceed, server, bridges, Rest
    <3>4. main' \in {"stop", "follow"}
      BY <2>7 DEF WriteResponse, Proceed, AfterResponse
    <3> QED
      BY <3>1, <3>2, <3>3, <3>4, MessageFields, GreetFields
  <2>8. CASE WriteFollowing
    <3> DEFINE m == EventNamed(Head(follow), "main")
    <3>1. m \in Written /\ Greeted
      BY <2>8, Writing DEF WriteFollowing
    <3>2. (client /\ output' = WithMessage(m)) \/ (client' = FALSE /\ output' = output)
      BY <2>8 DEF WriteFollowing, Put
    <3>3. (client' => client) /\ main = "follow" /\ UNCHANGED <<state, bridge>>
      BY <2>8 DEF WriteFollowing, Put, server, bridges, Rest
    <3>4. main' \in {"stop", "follow"}
      BY <2>8 DEF WriteFollowing
    <3> QED
      BY <3>1, <3>2, <3>3, <3>4, MessageFields, GreetFields
  <2>9. CASE NextRequest
    BY <2>9 DEF NextRequest, Proceed, server, bridges, Rest, writing
  <2> QED
    BY <1>2, <2>1, <2>2, <2>3, <2>4, <2>5, <2>6, <2>7, <2>8, <2>9 DEF MainStep
<1>3. CASE Stop
  BY <1>3 DEF Stop, Forget, CloseHarness, Cancel, WaitEnds, WaitTimesOut, AfterWait,
              Proceed, server, bridges, Rest, writing
<1>4. CASE RunStep
  BY <1>4 DEF RunStep, RunLoops, RunReads, RunReadFails, RunFlushes, RunPublishes, Others,
              server, mains, bridges, writing
<1>5. CASE BridgeStep
  <2>1. CASE BridgeWrites
    <3> DEFINE m == EventNamed(Head(outbound), "bridge")
    <3>1. m \in Written /\ Greeted
      BY <2>1, Writing DEF BridgeWrites
    <3>2. (client /\ output' = WithMessage(m)) \/ (client' = FALSE /\ output' = output)
      BY <2>1 DEF BridgeWrites, Put
    <3>3. (client' => client) /\ UNCHANGED mains /\ UNCHANGED <<state, bridge>>
      BY <2>1 DEF BridgeWrites, Put, server
    <3> QED
      BY <3>1, <3>2, <3>3, MessageFields, GreetFields DEF mains
  <2>2. CASE BridgeDraws
    BY <2>2 DEF BridgeDraws, Draw, server, mains, bridges
  <2>3. CASE BridgeTakes \/ BridgeEnds \/ BridgeHandles \/ BridgeSends \/ BridgeLoops
    BY <2>3 DEF BridgeTakes, BridgeEnds, BridgeHandles, BridgeSends, BridgeLoops, server,
                mains, writing
  <2> QED
    BY <1>5, <2>1, <2>2, <2>3 DEF BridgeStep
<1>6. CASE UNCHANGED vars
  BY <1>6 DEF vars, server, mains, bridges, writing
<1> QED
  BY <1>1, <1>2, <1>3, <1>4, <1>5, <1>6, Steps

\* Nothing the interpreter sends becomes an event before the client has the
\* answer to initialize.
THEOREM GreetedFirst == Spec => []NoEarlyEvent
<1>1. Init => TypeOK /\ GreetInv
  BY TypeInit, GreetInit
<1>2. TypeOK /\ GreetInv /\ [Next]_vars => (TypeOK /\ GreetInv)'
  BY TypeStep, GreetStep
<1>3. GreetInv => NoEarlyEvent
  BY DEF GreetInv
<1> QED
  BY <1>1, <1>2, <1>3, PTL DEF Spec

\* The client knows of the end only when the server does, and a request that
\* was read after that is not accepted.
LateInv ==
    /\ request.late => output.ended
    /\ output.ended => state = "terminated"
    /\ \A i \in DOMAIN outbound : outbound[i] = "terminated" => state = "terminated"
    /\ \A i \in DOMAIN follow : follow[i] # "terminated"
    /\ main \in {"configure", "send"} => ~request.late
    /\ main = "respond" /\ request.late => ~success
    /\ NoSuccessAfterTerminated

LEMMA EndedFields ==
    ASSUME NEW m \in Written
    PROVE  /\ output.ended => WithMessage(m).ended
           /\ WithMessage(m).ended => output.ended \/ (~IsResponse(m) /\ m.event = "terminated")
BY DEF WithMessage

LEMMA LateInit == Init => LateInv
BY DEF Init, LateInv, NoSuccessAfterTerminated, NoRequest, NoOutput, IsResponse

LEMMA LateStep == TypeOK /\ LateInv /\ [Next]_vars => LateInv'
<1> SUFFICES ASSUME TypeOK, LateInv, [Next]_vars PROVE LateInv'
  OBVIOUS
<1> USE DEF LateInv, NoSuccessAfterTerminated
<1>1. CASE Outside
  BY <1>1 DEF Outside, InterpreterSends, InterpreterLeaves, server, mains,
              bridges, writing
<1>2. CASE MainStep
  <2>1. CASE ReadRequest
    BY <2>1 DEF ReadRequest, Startable, server, bridges, Rest, writing
  <2>2. CASE InputEnds
    BY <2>2 DEF InputEnds, server, bridges, Rest, writing
  <2>3. CASE StartSucceeds
    BY <2>3 DEF StartSucceeds, Proceed, writing
  <2>4. CASE StartFails
    BY <2>4 DEF StartFails, Respond, server, bridges, Rest, writing
  <2>5. CASE Configured \/ ControlSent
    BY <2>5 DEF Configured, ControlSent, Respond, server, bridges, Rest, writing
  <2>6. CASE Handle
    <3>1. UNCHANGED <<bridges, writing, request>> /\ main = "handle"
      BY <2>6 DEF Handle, Respond, Proceed, Rest
    <3>2. CASE ~Accepted(request.command)
      BY <2>6, <3>1, <3>2 DEF Handle, Respond, bridges, writing
    <3>3. CASE Accepted(request.command)
      <4>1. state # "terminated" /\ ~request.late
        BY <3>3 DEF Accepted, TypeOK, Request, Commands
      <4>2. \A i \in DOMAIN follow' : follow'[i] # "terminated"
        BY <2>6, <3>3 DEF Handle, Respond, Proceed
      <4> QED
        BY <3>1, <4>1, <4>2 DEF bridges, writing
    <3> QED
      BY <3>2, <3>3
  <2>7. CASE MainDraws
    BY <2>7 DEF MainDraws, Draw, server, mains, bridges, Rest
  <2>8. CASE WriteResponse
    <3> DEFINE m == ResponseTo(request, success, "main")
    <3>1. m \in Written /\ IsResponse(m) /\ m.to = request /\ m.success = success
      BY Writing DEF ResponseTo
    <3>2. (client /\ output' = WithMessage(m)) \/ (client' = FALSE /\ output' = output)
      BY <2>8 DEF WriteResponse, Put
    <3>3. main = "respond" /\ UNCHANGED <<state, outbound, request, follow>>
      BY <2>8 DEF WriteResponse, Put, Proceed, server, bridges, Rest
    <3>4. main' \in {"stop", "follow"}
      BY <2>8 DEF WriteResponse, Proceed, AfterResponse
    <3> QED
      BY <3>1, <3>2, <3>3, <3>4, MessageFields, EndedFields
  <2>9. CASE WriteFollowing
    <3> DEFINE m == EventNamed(Head(follow), "main")
    <3>1. m \in Written /\ ~IsResponse(m) /\ m.event # "terminated"
      BY <2>9, Writing DEF WriteFollowing, EventNamed, TypeOK
    <3>2. (client /\ output' = WithMessage(m)) \/ (client' = FALSE /\ output' = output)
      BY <2>9 DEF WriteFollowing, Put
    <3>3. UNCHANGED <<state, outbound, request>>
      BY <2>9 DEF WriteFollowing, Put, server, bridges, Rest
    <3>4. main' \in {"stop", "follow"} /\ follow' = Tail(follow) /\ follow # <<>>
      BY <2>9 DEF WriteFollowing
    <3>5. \A i \in DOMAIN follow' : follow'[i] # "terminated"
      BY <3>4 DEF TypeOK
    <3> QED
      BY <3>1, <3>2, <3>3, <3>4, <3>5, MessageFields, EndedFields
  <2>10. CASE NextRequest
    BY <2>10 DEF NextRequest, Proceed, server, bridges, Rest, writing
  <2> QED
    BY <1>2, <2>1, <2>2, <2>3, <2>4, <2>5, <2>6, <2>7, <2>8, <2>9, <2>10 DEF MainStep
<1>3. CASE Stop
  BY <1>3 DEF Stop, Forget, CloseHarness, Cancel, WaitEnds, WaitTimesOut, AfterWait,
              Proceed, server, bridges, Rest, writing
<1>4. CASE RunStep
  BY <1>4 DEF RunStep, RunLoops, RunReads, RunReadFails, RunFlushes, RunPublishes, Others,
              server, mains, bridges, writing
<1>5. CASE BridgeStep
  <2>1. CASE BridgeWrites
    <3> DEFINE m == EventNamed(Head(outbound), "bridge")
    <3>1. m \in Written /\ ~IsResponse(m) /\ m.event = Head(outbound) /\ outbound # <<>>
      BY <2>1, Writing DEF BridgeWrites, EventNamed
    <3>2. (client /\ output' = WithMessage(m)) \/ (client' = FALSE /\ output' = output)
      BY <2>1 DEF BridgeWrites, Put
    <3>3. UNCHANGED mains /\ UNCHANGED state /\ outbound' = Tail(outbound)
      BY <2>1 DEF BridgeWrites, Put, server
    <3>4. Head(outbound) = outbound[1] /\ 1 \in DOMAIN outbound
      BY <3>1 DEF TypeOK
    <3>5. \A i \in DOMAIN outbound' : i + 1 \in DOMAIN outbound /\ outbound'[i] = outbound[i + 1]
      BY <3>1, <3>3 DEF TypeOK
    <3> QED
      BY <3>1, <3>2, <3>3, <3>4, <3>5, MessageFields, EndedFields DEF mains
  <2>2. CASE BridgeDraws
    BY <2>2 DEF BridgeDraws, Draw, server, mains, bridges
  <2>3. CASE BridgeHandles
    <3>1. \A i \in DOMAIN outbound' : outbound'[i] = "terminated" => taken = "fatal"
      BY <2>3 DEF BridgeHandles, EventsOf, TypeOK, Messages
    <3>2. state' = "terminated" \/ (taken # "fatal" /\ state' = state)
      BY <2>3 DEF BridgeHandles
    <3> QED
      BY <2>3, <3>1, <3>2 DEF BridgeHandles, mains, writing
  <2>4. CASE BridgeTakes \/ BridgeEnds \/ BridgeSends \/ BridgeLoops
    BY <2>4 DEF BridgeTakes, BridgeEnds, BridgeSends, BridgeLoops, server, mains, bridges,
                writing
  <2> QED
    BY <1>5, <2>1, <2>2, <2>3, <2>4 DEF BridgeStep
<1>6. CASE UNCHANGED vars
  BY <1>6 DEF vars, server, mains, bridges, writing
<1> QED
  BY <1>1, <1>2, <1>3, <1>4, <1>5, <1>6, Steps

\* Once the client has been told of the end, no request it sends succeeds.
THEOREM NothingSucceedsAfterwards == Spec => []NoSuccessAfterTerminated
<1>1. Init => TypeOK /\ LateInv
  BY TypeInit, LateInit
<1>2. TypeOK /\ LateInv /\ [Next]_vars => (TypeOK /\ LateInv)'
  BY TypeStep, LateStep
<1>3. LateInv => NoSuccessAfterTerminated
  BY DEF LateInv
<1> QED
  BY <1>1, <1>2, <1>3, PTL DEF Spec

=============================================================================

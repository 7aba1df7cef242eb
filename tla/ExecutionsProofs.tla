-------------------------- MODULE ExecutionsProofs --------------------------
(***************************************************************************)
(* Proofs about Executions: type correctness, that an answered evaluate    *)
(* leaves no waiter behind and has the output of its own Execute, that the *)
(* launch expression is sent once, after a link expression, and that the   *)
(* wait for the link expression ends when it has been executed.            *)
(***************************************************************************)
EXTENDS Executions, FiniteSetTheorems, SequenceTheorems, TLAPS

\* The disjuncts of Next, for a proof step each.
LEMMA Steps ==
    ASSUME [Next]_vars
    PROVE  \/ Interpreter \/ Receive \/ Refuse \/ ConfigurationDone
           \/ SendLink \/ WaitLink \/ LinkTimesOut \/ SendLaunch
           \/ Evaluate \/ SendExecute \/ GetResult \/ EvaluateTimesOut \/ ForgetEvaluate
           \/ HandlePayload \/ Reconnect \/ UNCHANGED vars
BY DEF Next, MainStep

-----------------------------------------------------------------------------
(* Types. *)

LEMMA MessagesTyped ==
    /\ M("busy") \in Message /\ M("ready") \in Message
    /\ M("error") \in Message /\ M("fatal") \in Message
    /\ \A id \in Ids \cup {Other} : [type |-> "output", of |-> id] \in Message
    /\ \A m \in Message : m.type = "output" => m.of \in Ids \cup {Other}
BY DEF Message, M

LEMMA IdsTyped ==
    /\ None \notin Ids /\ Other \notin Ids /\ Ids \subseteq Nat
    /\ \A n \in 0..MaxExecutes : n < MaxExecutes => n + 1 \in Ids /\ n + 1 \in 0..MaxExecutes
BY BoundsAssumption DEF Ids, None, Other

LEMMA EmptyTyped ==
    /\ <<>> \in Seq(Message) /\ <<>> \in Seq(Ids) /\ <<>> \in Outputs
    /\ NoRepl \in Pending /\ NoResult \in Result /\ NoReply \in Reply
BY DEF Outputs, Pending, Result, Reply, NoRepl, NoResult, NoReply

\* What main keeps while it waits, and what it answers.
TypedMain ==
    /\ main \in {"idle", "link", "wait", "launch", "execute", "repl", "expired"}
    /\ current \in Ids \cup {None}
    /\ subscription \in Seq(Message) /\ sawBusyPrompt \in BOOLEAN
    /\ clean \in BOOLEAN /\ reply \in Reply
    /\ main \notin {"link", "wait"} => subscription = <<>> /\ ~sawBusyPrompt

LEMMA TypeInit == Init => TypeOK
<1> SUFFICES ASSUME Init PROVE TypeOK
  OBVIOUS
<1>1. TypedMain
  BY EmptyTyped DEF Init, TypedMain
<1>2. replEvaluate \in Pending /\ waiter \in Result
  BY EmptyTyped DEF Init
<1>3. /\ bridge \in Seq(Message) /\ line \in Seq(Message)
      /\ held \in Seq(Ids) /\ wire \in Seq(Ids)
  BY EmptyTyped DEF Init
<1>4. /\ sent \in 0..MaxExecutes /\ others \in 0..MaxOthers
      /\ errors \in 0..MaxErrors /\ requests \in 0..MaxRequests
  BY BoundsAssumption DEF Init
<1> QED
  BY <1>1, <1>2, <1>3, <1>4 DEF Init, TypeOK, TypedMain

LEMMA AnswerTyped ==
    ASSUME TypeOK, NEW to \in {"nothing", "configurationDone", "evaluate"},
           NEW success \in BOOLEAN, NEW outputs \in Outputs, Answer(to, success, outputs)
    PROVE  TypedMain'
BY EmptyTyped DEF TypeOK, TypedMain, Answer, Reply

LEMMA FailTyped ==
    ASSUME TypeOK, NEW to \in {"nothing", "configurationDone", "evaluate"}, Fail(to)
    PROVE  TypedMain'
BY EmptyTyped, AnswerTyped DEF Fail

LEMMA AcceptedTyped ==
    ASSUME TypeOK, Accepted
    PROVE  /\ sent' \in 0..MaxExecutes /\ sent' \in Ids
           /\ held' \in Seq(Ids) /\ wire' \in Seq(Ids)
<1>1. sent' \in 0..MaxExecutes /\ sent' \in Ids
  BY BoundsAssumption DEF TypeOK, Accepted, Ids
<1>2. held \in Seq(Ids) /\ wire \in Seq(Ids)
  BY DEF TypeOK
<1>3. Append(held, sent') \in Seq(Ids) /\ Append(wire, sent') \in Seq(Ids)
  BY <1>1, <1>2
<1>4. \/ held' = Append(held, sent') /\ wire' = wire
      \/ wire' = Append(wire, sent') /\ held' = held
  BY DEF Accepted
<1> QED
  BY <1>1, <1>2, <1>3, <1>4

LEMMA ResultTyped ==
    ASSUME NEW r \in Result
    PROVE  r.outputs \in Outputs /\ (~r.canceled) \in BOOLEAN
BY DEF Result

LEMMA OutputTyped ==
    ASSUME NEW p \in Pending, NEW id \in Ids \cup {Other}
    PROVE  [p EXCEPT !.outputs = Append(@, id)] \in Pending
<1>1. p.outputs \in Outputs
  BY DEF Pending
<1>2. Append(p.outputs, id) \in Outputs
  BY <1>1 DEF Outputs
<1> QED
  BY <1>2 DEF Pending

LEMMA CompleteTyped ==
    ASSUME TypeOK, NEW canceled \in BOOLEAN, CompleteRepl(canceled)
    PROVE  replEvaluate' \in Pending /\ waiter' \in Result
<1>1. replEvaluate \in Pending /\ waiter \in Result
  BY DEF TypeOK
<1>2. replEvaluate.outputs \in Outputs
  BY <1>1 DEF Pending
<1>3. [ready |-> TRUE, canceled |-> canceled, outputs |-> replEvaluate.outputs] \in Result
  BY <1>2 DEF Result
<1> QED
  BY <1>1, <1>3, EmptyTyped DEF CompleteRepl, repl

LEMMA TypeStep == TypeOK /\ [Next]_vars => TypeOK'
<1> SUFFICES ASSUME TypeOK, [Next]_vars PROVE TypeOK'
  OBVIOUS
<1> USE DEF TypeOK
<1>1. CASE Greet
  BY <1>1, MessagesTyped DEF Greet, Emit, Adapter, config, repl, waiting, history
<1>2. CASE Start
  BY <1>2, MessagesTyped DEF Start, Emit, Adapter, config, repl, waiting, history
<1>3. CASE StartOther
  <2>1. others' \in 0..MaxOthers
    BY <1>3, BoundsAssumption DEF StartOther
  <2>2. clean' = FALSE
    BY <1>3 DEF StartOther
  <2>3. line' \in Seq(Message)
    BY <1>3, MessagesTyped DEF StartOther, Emit
  <2> QED
    BY <1>3, <2>1, <2>2, <2>3, MessagesTyped DEF StartOther, Emit, Adapter, config, repl, waiting, history
<1>4. CASE Error
  <2>1. errors' \in 0..MaxErrors
    BY <1>4, BoundsAssumption DEF Error
  <2>2. failed' \in SUBSET Ids
    BY <1>4 DEF Error
  <2> QED
    BY <1>4, <2>1, <2>2, MessagesTyped DEF Error, Emit, Adapter, config, repl, waiting
<1>5. CASE Finish
  BY <1>5, MessagesTyped DEF Finish, Emit, Adapter, config, repl, waiting
<1>6. CASE Disconnect
  BY <1>6, MessagesTyped DEF Disconnect, Emit, Adapter, config, repl, waiting, history
<1>7. CASE Receive
  <2> DEFINE m == Head(line)
  <2>1. m \in Message /\ line' \in Seq(Message)
    BY <1>7 DEF Receive
  <2>2. bridge' \in Seq(Message) /\ subscription' \in Seq(Message)
    BY <1>7, <2>1 DEF Receive
  <2>3. held' \in Seq(Ids) /\ wire' \in Seq(Ids)
    <3>1. CASE Flush
      <4>1. PICK n \in 0..Len(held) : /\ wire' = wire \o SubSeq(held, 1, n)
                                     /\ held' = SubSeq(held, n + 1, Len(held))
        BY <3>1 DEF Flush
      <4>2. SubSeq(held, 1, n) \in Seq(Ids) /\ SubSeq(held, n + 1, Len(held)) \in Seq(Ids)
        OBVIOUS
      <4> QED
        BY <4>1, <4>2
    <3>2. CASE held' = <<>> /\ UNCHANGED wire
      BY <3>2
    <3>3. CASE UNCHANGED <<held, wire>>
      BY <3>3
    <3> QED
      BY <1>7, <3>1, <3>2, <3>3 DEF Receive
  <2>4. busy' \in BOOLEAN
    BY <1>7 DEF Receive
  <2> QED
    <3>1. UNCHANGED <<main, sawBusyPrompt>>
      BY <1>7 DEF Receive
    <3>2. main' \notin {"link", "wait"} => subscription' = <<>> /\ ~sawBusyPrompt'
      BY <1>7, <3>1 DEF Receive, Subscribed
    <3> QED
      <4>1. TypedMain'
        BY <1>7, <2>2, <3>1, <3>2 DEF Receive, TypedMain
      <4> QED
        BY <1>7, <2>1, <2>2, <2>3, <2>4, <4>1 DEF Receive, TypedMain, config, repl, history
<1>8. CASE Refuse
  <2>1. TypedMain'
    BY <1>8, FailTyped DEF Refuse
  <2>2. requests' \in 0..MaxRequests
    BY <1>8, BoundsAssumption DEF Refuse, Request
  <2> QED
    BY <1>8, <2>1, <2>2 DEF Refuse, Request, TypedMain, outside, config, interpreter, queues, repl, history
<1>9. CASE ConfigurationDone
  <2>1. TypedMain' /\ launchRan' \in BOOLEAN
    <3>1. CASE Answer("configurationDone", TRUE, <<>>) /\ launchRan' = TRUE
      BY <3>1, AnswerTyped, EmptyTyped
    <3>2. CASE /\ GoTo(IF autoLink THEN "link" ELSE "launch")
               /\ UNCHANGED <<current, launchRan, clean>>
      <4>1. main = "idle"
        BY <1>9 DEF ConfigurationDone, Request
      <4> QED
        BY <3>2, <4>1, EmptyTyped DEF GoTo, TypedMain
    <3> QED
      BY <1>9, <3>1, <3>2 DEF ConfigurationDone
  <2>2. requests' \in 0..MaxRequests
    BY <1>9, BoundsAssumption DEF ConfigurationDone, Request
  <2> QED
    BY <1>9, <2>1, <2>2
       DEF ConfigurationDone, TypedMain, outside, config, interpreter, queues, repl, history
<1>10. CASE SendLink
  <2>1. CASE LinkSent("wait")
    <3>1. sent' \in 0..MaxExecutes /\ held' \in Seq(Ids) /\ wire' \in Seq(Ids)
      BY <2>1, AcceptedTyped DEF LinkSent
    <3>2. TypedMain' /\ links' \in SUBSET Ids
      BY <2>1, AcceptedTyped, EmptyTyped DEF LinkSent, LinkUndisturbed, GoTo, TypedMain
    <3> QED
      BY <1>10, <3>1, <3>2 DEF SendLink, TypedMain, outside, config, interpreter, repl
  <2>2. CASE Refused /\ Fail("configurationDone") /\ UNCHANGED links
    <3>1. TypedMain'
      BY <2>2, FailTyped
    <3> QED
      BY <1>10, <2>2, <3>1
         DEF SendLink, Refused, TypedMain, outside, config, interpreter, queues, repl
  <2> QED
    BY <1>10, <2>1, <2>2 DEF SendLink
<1>11. CASE WaitLink
  <2>1. TypedMain' /\ launchRan' \in BOOLEAN
    <3>1. CASE Fail("configurationDone") /\ UNCHANGED launchRan
      BY <3>1, FailTyped
    <3>2. CASE Answer("configurationDone", TRUE, <<>>) /\ launchRan' = TRUE
      BY <3>2, AnswerTyped, EmptyTyped
    <3>3. CASE /\ main' = "launch" /\ subscription' = <<>> /\ sawBusyPrompt' = FALSE
               /\ UNCHANGED <<current, launchRan, reply, clean>>
      BY <3>3, EmptyTyped DEF TypedMain
    <3>4. CASE /\ subscription # <<>> /\ subscription' = Tail(subscription)
               /\ sawBusyPrompt' = (sawBusyPrompt \/ Head(subscription).type = "busy")
               /\ UNCHANGED <<main, current, launchRan, reply, clean>>
      BY <3>4 DEF TypedMain
    <3> QED
      BY <1>11, <3>1, <3>2, <3>3, <3>4 DEF WaitLink
  <2> QED
    BY <1>11, <2>1 DEF WaitLink, TypedMain, outside, config, interpreter, queues, repl, history
<1>12. CASE LinkTimesOut
  BY <1>12, FailTyped DEF LinkTimesOut, TypedMain, outside, config, interpreter, queues, repl, history
<1>13. CASE SendLaunch
  <2>1. TypedMain'
    BY <1>13, FailTyped, AnswerTyped, EmptyTyped DEF SendLaunch
  <2>2. /\ sent' \in 0..MaxExecutes /\ held' \in Seq(Ids) /\ wire' \in Seq(Ids)
        /\ launched' \in SUBSET Ids /\ launchRan' \in BOOLEAN
    BY <1>13, AcceptedTyped DEF SendLaunch, Refused, queues
  <2> QED
    BY <1>13, <2>1, <2>2 DEF SendLaunch, TypedMain, outside, config, interpreter, repl
<1>14. CASE Evaluate
  <2>1. replEvaluate' \in Pending /\ waiter' \in Result
    BY <1>14, EmptyTyped DEF Evaluate, Pending
  <2>2. TypedMain'
    BY <1>14, EmptyTyped DEF Evaluate, Request, Quiet, GoTo, TypedMain
  <2>3. requests' \in 0..MaxRequests
    BY <1>14, BoundsAssumption DEF Evaluate, Request
  <2> QED
    BY <1>14, <2>1, <2>2, <2>3
       DEF Evaluate, TypedMain, outside, config, interpreter, queues, history
<1>15. CASE SendExecute
  <2>1. TypedMain'
    <3>1. CASE Fail("evaluate")
      BY <3>1, FailTyped
    <3>2. CASE Accepted /\ current' = sent' /\ GoTo("repl") /\ UNCHANGED clean
      <4>1. main = "execute"
        BY <1>15 DEF SendExecute
      <4> QED
        BY <3>2, <4>1, AcceptedTyped, EmptyTyped DEF GoTo, TypedMain
    <3> QED
      BY <1>15, <3>1, <3>2 DEF SendExecute
  <2>2. sent' \in 0..MaxExecutes /\ held' \in Seq(Ids) /\ wire' \in Seq(Ids)
    BY <1>15, AcceptedTyped DEF SendExecute, Refused, queues
  <2>3. replEvaluate' \in Pending
    BY <1>15, EmptyTyped DEF SendExecute
  <2> QED
    BY <1>15, <2>1, <2>2, <2>3 DEF SendExecute, TypedMain, outside, config, interpreter, history
<1>16. CASE GetResult
  <2>1. waiter.outputs \in Outputs /\ (~waiter.canceled) \in BOOLEAN
    BY ResultTyped
  <2>2. TypedMain'
    BY <1>16, <2>1, AnswerTyped DEF GetResult
  <2> QED
    BY <1>16, <2>2, EmptyTyped
       DEF GetResult, TypedMain, outside, config, interpreter, queues, history
<1>17. CASE EvaluateTimesOut
  BY <1>17, EmptyTyped
     DEF EvaluateTimesOut, GoTo, outside, config, interpreter, queues, repl, history
<1>18. CASE ForgetEvaluate
  BY <1>18, FailTyped, EmptyTyped
     DEF ForgetEvaluate, TypedMain, outside, config, interpreter, queues, history
<1>19. CASE HandlePayload
  <2> DEFINE m == Head(bridge)
  <2>1. m \in Message /\ bridge' \in Seq(Message) /\ terminated' \in BOOLEAN
    BY <1>19 DEF HandlePayload
  <2>2. replEvaluate' \in Pending /\ waiter' \in Result
    <3>1. CASE CompleteRepl(m.type = "fatal")
      BY <3>1, CompleteTyped
    <3>2. CASE /\ m.type = "output" /\ UNCHANGED waiter
               /\ replEvaluate' = [replEvaluate EXCEPT !.outputs = Append(@, m.of)]
      <4>1. m.of \in Ids \cup {Other}
        BY <2>1, <3>2, MessagesTyped
      <4> QED
        BY <3>2, <4>1, OutputTyped
    <3>3. CASE UNCHANGED repl
      BY <3>3 DEF repl
    <3> QED
      BY <1>19, <3>1, <3>2, <3>3 DEF HandlePayload
  <2> QED
    BY <1>19, <2>1, <2>2 DEF HandlePayload, config, interpreter, queues, waiting, history
<1>20. CASE Reconnect
  <2>1. replEvaluate' \in Pending /\ terminated' \in BOOLEAN
    BY <1>20, EmptyTyped DEF Reconnect
  <2> QED
    BY <1>20, <2>1 DEF Reconnect, config, interpreter, queues, waiting, history
<1>21. CASE UNCHANGED vars
  BY <1>21 DEF vars, outside, config, interpreter, queues, repl, waiting, history
<1> QED
  BY <1>1, <1>2, <1>3, <1>4, <1>5, <1>6, <1>7, <1>8, <1>9, <1>10, <1>11, <1>12, <1>13, <1>14,
     <1>15, <1>16, <1>17, <1>18, <1>19, <1>20, <1>21, Steps DEF Interpreter

\* Every variable of the adapter and of the interpreter keeps its type.
THEOREM TypeCorrect == Spec => []TypeOK
BY TypeInit, TypeStep, PTL DEF Spec

-----------------------------------------------------------------------------
(* No waiter is left behind. *)

\* An evaluate is pending only while main is with it, and not any more when its
\* result is there: main need not clear it when it takes the result.
PendingWhileWaiting ==
    /\ main \in {"execute", "repl", "expired"} \/ ~replEvaluate.pending
    /\ waiter.ready => ~replEvaluate.pending

LEMMA PendingInit == Init => PendingWhileWaiting
BY DEF Init, NoRepl, NoResult, PendingWhileWaiting

LEMMA PendingStep == PendingWhileWaiting /\ [Next]_vars => PendingWhileWaiting'
<1> SUFFICES ASSUME PendingWhileWaiting, [Next]_vars PROVE PendingWhileWaiting'
  OBVIOUS
<1> USE DEF PendingWhileWaiting
<1>1. CASE Interpreter
  BY <1>1 DEF Interpreter, Greet, Start, StartOther, Error, Finish, Disconnect,
              Adapter, repl, waiting
<1>2. CASE Receive
  BY <1>2 DEF Receive, repl
<1>3. CASE Refuse
  BY <1>3 DEF Refuse, Request, repl, Fail, Answer
<1>4. CASE ConfigurationDone
  BY <1>4 DEF ConfigurationDone, Request, Admitted, repl
<1>5. CASE SendLink
  BY <1>5 DEF SendLink, LinkSent, GoTo, Fail, Answer, repl
<1>6. CASE WaitLink
  BY <1>6 DEF WaitLink, Fail, Answer, repl
<1>7. CASE LinkTimesOut
  BY <1>7 DEF LinkTimesOut, repl
<1>8. CASE SendLaunch
  BY <1>8 DEF SendLaunch, Fail, Answer, repl
<1>9. CASE Evaluate
  BY <1>9 DEF Evaluate, GoTo, NoResult
<1>10. CASE SendExecute
  BY <1>10 DEF SendExecute, GoTo, Fail, Answer, NoRepl
<1>11. CASE GetResult
  BY <1>11 DEF GetResult, Answer, NoResult
<1>12. CASE EvaluateTimesOut
  BY <1>12 DEF EvaluateTimesOut, GoTo, repl
<1>13. CASE ForgetEvaluate
  BY <1>13 DEF ForgetEvaluate, NoRepl, NoResult
<1>14. CASE HandlePayload
  BY <1>14 DEF HandlePayload, CompleteRepl, NoRepl, repl, waiting
<1>15. CASE Reconnect
  BY <1>15 DEF Reconnect, NoRepl, waiting
<1>16. CASE UNCHANGED vars
  BY <1>16 DEF vars, repl, waiting
<1> QED
  BY <1>1, <1>2, <1>3, <1>4, <1>5, <1>6, <1>7, <1>8, <1>9, <1>10, <1>11, <1>12, <1>13,
     <1>14, <1>15, <1>16, Steps

\* handleEvaluateRequest: between two requests no repl evaluate is pending, so
\* none is refused for an earlier one.
THEOREM NoWaiter == Spec => []NoWaiterLeft
<1>1. PendingWhileWaiting => NoWaiterLeft
  BY DEF PendingWhileWaiting, NoWaiterLeft
<1> QED
  BY <1>1, PendingInit, PendingStep, PTL DEF Spec

-----------------------------------------------------------------------------
(* The launch expression is sent once. *)

\* While one may still be sent, none has been.
OneLaunch ==
    /\ launched = {} \/ \E id \in Nat : launched = {id}
    /\ main \in {"link", "wait", "launch"} => ~launchRan
    /\ ~launchRan => launched = {}

LEMMA LaunchInit == Init => OneLaunch
BY DEF Init, OneLaunch

LEMMA LaunchStep == TypeOK /\ OneLaunch /\ [Next]_vars => OneLaunch'
<1> SUFFICES ASSUME TypeOK, OneLaunch, [Next]_vars PROVE OneLaunch'
  OBVIOUS
<1> USE DEF OneLaunch
<1>1. CASE Interpreter
  BY <1>1 DEF Interpreter, Greet, Start, StartOther, Error, Finish, Disconnect,
              Adapter, waiting, history
<1>2. CASE Receive
  BY <1>2 DEF Receive, history
<1>3. CASE Refuse
  BY <1>3 DEF Refuse, Fail, Answer, history
<1>4. CASE ConfigurationDone
  BY <1>4 DEF ConfigurationDone, NothingToRun, GoTo, Answer, history
<1>5. CASE SendLink
  BY <1>5 DEF SendLink, LinkSent, GoTo, Fail, Answer
<1>6. CASE WaitLink
  BY <1>6 DEF WaitLink, Fail, Answer, history
<1>7. CASE LinkTimesOut
  BY <1>7 DEF LinkTimesOut, Fail, Answer, history
<1>8. CASE SendLaunch
  <2>1. launched = {} /\ ~launchRan
    BY <1>8 DEF SendLaunch
  <2>2. CASE Accepted /\ launched' = launched \cup {sent'} /\ launchRan' = TRUE /\ main' = "idle"
    <3>1. sent' \in Nat
      BY <2>2, BoundsAssumption DEF Accepted, TypeOK
    <3> QED
      BY <2>1, <2>2, <3>1
  <2>3. CASE UNCHANGED <<launched, launchRan>> /\ main' = "idle"
    BY <2>1, <2>3
  <2> QED
    BY <1>8, <2>2, <2>3 DEF SendLaunch, Fail, Answer
<1>9. CASE Evaluate
  BY <1>9 DEF Evaluate, GoTo, history
<1>10. CASE SendExecute
  BY <1>10 DEF SendExecute, GoTo, Fail, Answer, history
<1>11. CASE GetResult
  BY <1>11 DEF GetResult, Answer, history
<1>12. CASE EvaluateTimesOut
  BY <1>12 DEF EvaluateTimesOut, GoTo, history
<1>13. CASE ForgetEvaluate
  BY <1>13 DEF ForgetEvaluate, Fail, Answer, history
<1>14. CASE HandlePayload
  BY <1>14 DEF HandlePayload, waiting, history
<1>15. CASE Reconnect
  BY <1>15 DEF Reconnect, waiting, history
<1>16. CASE UNCHANGED vars
  BY <1>16 DEF vars, waiting, history
<1> QED
  BY <1>1, <1>2, <1>3, <1>4, <1>5, <1>6, <1>7, <1>8, <1>9, <1>10, <1>11, <1>12, <1>13,
     <1>14, <1>15, <1>16, Steps

\* executeConfiguredLaunchExpression: however often configurationDone is sent,
\* fails or times out, at most one launch expression is sent.
THEOREM LaunchOnce == Spec => []LaunchedOnce
<1>1. OneLaunch => LaunchedOnce
  <2> SUFFICES ASSUME OneLaunch PROVE Cardinality(launched) <= 1
    BY DEF LaunchedOnce
  <2>1. CASE launched = {}
    <3>1. Cardinality(launched) = 0
      BY <2>1, FS_EmptySet
    <3> QED
      BY <3>1
  <2>2. CASE \E id \in Nat : launched = {id}
    <3>1. Cardinality(launched) = 1
      BY <2>2, FS_Singleton
    <3> QED
      BY <3>1
  <2> QED
    BY <2>1, <2>2 DEF OneLaunch
<1>2. TypeOK /\ OneLaunch /\ [Next]_vars => OneLaunch'
  BY LaunchStep
<1> QED
  BY <1>1, <1>2, LaunchInit, TypeCorrect, PTL DEF Spec

-----------------------------------------------------------------------------
(* Sequences: what the operations of the queues do to the elements.        *)

LEMMA SeqAppend ==
    ASSUME NEW S, NEW q \in Seq(S), NEW x \in S
    PROVE  /\ Append(q, x) \in Seq(S) /\ Len(Append(q, x)) = Len(q) + 1
           /\ DOMAIN Append(q, x) = 1..(Len(q) + 1) /\ DOMAIN q = 1..Len(q) /\ Len(q) \in Nat
           /\ \A i \in 1..Len(q) : Append(q, x)[i] = q[i]
           /\ Append(q, x)[Len(q) + 1] = x
  OBVIOUS

LEMMA SeqTail ==
    ASSUME NEW S, NEW q \in Seq(S), q # <<>>
    PROVE  /\ Tail(q) \in Seq(S) /\ Len(Tail(q)) = Len(q) - 1 /\ Len(q) \in Nat \ {0}
           /\ DOMAIN Tail(q) = 1..(Len(q) - 1) /\ DOMAIN q = 1..Len(q)
           /\ \A i \in 1..(Len(q) - 1) : Tail(q)[i] = q[i + 1]
           /\ Head(q) = q[1] /\ q[1] \in S
  OBVIOUS

LEMMA SeqConcat ==
    ASSUME NEW S, NEW q \in Seq(S), NEW r \in Seq(S)
    PROVE  /\ q \o r \in Seq(S) /\ Len(q \o r) = Len(q) + Len(r)
           /\ Len(q) \in Nat /\ Len(r) \in Nat
           /\ DOMAIN (q \o r) = 1..(Len(q) + Len(r))
           /\ DOMAIN q = 1..Len(q) /\ DOMAIN r = 1..Len(r)
           /\ \A i \in 1..Len(q) : (q \o r)[i] = q[i]
           /\ \A i \in 1..Len(r) : (q \o r)[Len(q) + i] = r[i]
           /\ \A i \in (Len(q) + 1)..(Len(q) + Len(r)) : (q \o r)[i] = r[i - Len(q)]
  OBVIOUS

LEMMA AppendRange ==
    ASSUME NEW S, NEW q \in Seq(S), NEW x \in S
    PROVE  /\ Range(Append(q, x)) = Range(q) \cup {x}
           /\ IsInjective(q) /\ x \notin Range(q) => IsInjective(Append(q, x))
<1> DEFINE n == Len(q)
           r == Append(q, x)
<1>1. /\ n \in Nat /\ DOMAIN q = 1..n /\ DOMAIN r = 1..(n + 1) /\ r[n + 1] = x
      /\ \A i \in 1..n : r[i] = q[i]
  BY SeqAppend
<1> HIDE DEF n, r
<1>2. \A i \in 1..(n + 1) : i \in 1..n \/ i = n + 1
  BY <1>1
<1>3. Range(r) = Range(q) \cup {x}
  <2>1. \A i \in 1..(n + 1) : r[i] \in Range(q) \cup {x}
    BY <1>1, <1>2 DEF Range
  <2>2. \A i \in 1..n : q[i] \in Range(r)
    BY <1>1 DEF Range
  <2>3. x \in Range(r)
    BY <1>1 DEF Range
  <2> QED
    BY <1>1, <2>1, <2>2, <2>3 DEF Range
<1>4. IsInjective(q) /\ x \notin Range(q) => IsInjective(r)
  BY <1>1, <1>2 DEF IsInjective, Range
<1> QED
  BY <1>3, <1>4 DEF r

LEMMA TailRange ==
    ASSUME NEW S, NEW q \in Seq(S), q # <<>>
    PROVE  /\ Range(q) = Range(Tail(q)) \cup {Head(q)}
           /\ IsInjective(q) => IsInjective(Tail(q)) /\ Head(q) \notin Range(Tail(q))
<1> DEFINE n == Len(q)
           r == Tail(q)
<1>1. /\ n \in Nat \ {0} /\ DOMAIN q = 1..n /\ DOMAIN r = 1..(n - 1) /\ Head(q) = q[1]
      /\ \A i \in 1..(n - 1) : r[i] = q[i + 1]
  BY SeqTail
<1> HIDE DEF n, r
<1>2. \A i \in 1..n : i = 1 \/ (i - 1 \in 1..(n - 1) /\ (i - 1) + 1 = i)
  BY <1>1
<1>3. \A i \in 1..(n - 1) : i + 1 \in 1..n /\ i + 1 # 1
  BY <1>1
<1>4. Range(q) = Range(r) \cup {Head(q)}
  <2>1. \A i \in 1..n : q[i] \in Range(r) \cup {Head(q)}
    <3> TAKE i \in 1..n
    <3>1. CASE i = 1
      BY <1>1, <3>1
    <3>2. CASE i # 1
      <4>1. i - 1 \in 1..(n - 1) /\ r[i - 1] = q[i]
        BY <1>1, <1>2, <3>2
      <4> QED
        BY <1>1, <4>1 DEF Range
    <3> QED
      BY <3>1, <3>2
  <2>2. \A i \in 1..(n - 1) : r[i] \in Range(q)
    BY <1>1, <1>3 DEF Range
  <2>3. Head(q) \in Range(q)
    BY <1>1 DEF Range
  <2> QED
    BY <1>1, <2>1, <2>2, <2>3 DEF Range
<1>5. ASSUME IsInjective(q) PROVE IsInjective(r) /\ Head(q) \notin Range(r)
  <2>1. \A i, j \in 1..n : q[i] = q[j] => i = j
    BY <1>1, <1>5 DEF IsInjective
  <2>2. IsInjective(r)
    <3> SUFFICES ASSUME NEW i \in 1..(n - 1), NEW j \in 1..(n - 1), r[i] = r[j] PROVE i = j
      BY <1>1 DEF IsInjective
    <3>1. i + 1 \in 1..n /\ j + 1 \in 1..n /\ q[i + 1] = q[j + 1]
      BY <1>1, <1>3
    <3>2. i + 1 = j + 1
      BY <2>1, <3>1
    <3> QED
      BY <3>2
  <2>3. Head(q) \notin Range(r)
    <3> SUFFICES ASSUME NEW i \in 1..(n - 1), r[i] = q[1] PROVE FALSE
      BY <1>1 DEF Range
    <3>1. i + 1 \in 1..n /\ i + 1 # 1 /\ q[i + 1] = q[1] /\ 1 \in 1..n
      BY <1>1, <1>3
    <3> QED
      BY <2>1, <3>1
  <2> QED
    BY <2>2, <2>3
<1> QED
  BY <1>4, <1>5 DEF r

LEMMA ConcatRange ==
    ASSUME NEW S, NEW q \in Seq(S), NEW r \in Seq(S)
    PROVE  /\ Range(q \o r) = Range(q) \cup Range(r)
           /\ IsInjective(q) /\ IsInjective(r) /\ Range(q) \cap Range(r) = {}
                 => IsInjective(q \o r)
<1> DEFINE n == Len(q)
           m == Len(r)
           c == q \o r
<1>1. /\ n \in Nat /\ m \in Nat /\ DOMAIN q = 1..n /\ DOMAIN r = 1..m /\ DOMAIN c = 1..(n + m)
      /\ \A i \in 1..n : c[i] = q[i]
      /\ \A i \in 1..m : c[n + i] = r[i]
      /\ \A i \in (n + 1)..(n + m) : c[i] = r[i - n]
  BY SeqConcat
<1> HIDE DEF n, m, c
<1>2. \A i \in 1..(n + m) : i \in 1..n \/ (i \in (n + 1)..(n + m) /\ i - n \in 1..m)
  BY <1>1
<1>3. \A i \in 1..m : n + i \in 1..(n + m)
  BY <1>1
<1>4. Range(c) = Range(q) \cup Range(r)
  <2>1. \A i \in 1..(n + m) : c[i] \in Range(q) \cup Range(r)
    BY <1>1, <1>2 DEF Range
  <2>2. \A i \in 1..n : q[i] \in Range(c)
    BY <1>1 DEF Range
  <2>3. \A i \in 1..m : r[i] \in Range(c)
    BY <1>1, <1>3 DEF Range
  <2> QED
    BY <1>1, <2>1, <2>2, <2>3 DEF Range
<1>5. ASSUME IsInjective(q), IsInjective(r), Range(q) \cap Range(r) = {} PROVE IsInjective(c)
  <2> SUFFICES ASSUME NEW i \in 1..(n + m), NEW j \in 1..(n + m), c[i] = c[j] PROVE i = j
    BY <1>1 DEF IsInjective
  <2>1. CASE i \in 1..n /\ j \in 1..n
    BY <1>1, <1>5, <2>1 DEF IsInjective
  <2>2. CASE i \notin 1..n /\ j \notin 1..n
    <3>1. i - n \in 1..m /\ j - n \in 1..m /\ r[i - n] = r[j - n]
      BY <1>1, <1>2, <2>2
    <3>2. i - n = j - n
      BY <1>1, <1>5, <3>1 DEF IsInjective
    <3> QED
      BY <1>1, <3>2
  <2>3. ASSUME NEW x \in 1..n, NEW y \in 1..(n + m), y \notin 1..n PROVE c[x] # c[y]
    <3>1. c[x] = q[x] /\ q[x] \in Range(q)
      BY <1>1 DEF Range
    <3>2. c[y] = r[y - n] /\ y - n \in 1..m
      BY <1>1, <1>2, <2>3
    <3>3. r[y - n] \in Range(r)
      BY <1>1, <3>2 DEF Range
    <3> QED
      BY <1>5, <3>1, <3>2, <3>3
  <2> QED
    BY <2>1, <2>2, <2>3
<1> QED
  BY <1>4, <1>5 DEF c

\* A queue split in two.
LEMMA SplitRange ==
    ASSUME NEW S, NEW q \in Seq(S), NEW n \in 0..Len(q)
    PROVE  LET a == SubSeq(q, 1, n)
               b == SubSeq(q, n + 1, Len(q))
           IN /\ a \in Seq(S) /\ b \in Seq(S) /\ q = a \o b
              /\ Range(q) = Range(a) \cup Range(b)
              /\ IsInjective(q) => /\ IsInjective(a) /\ IsInjective(b)
                                   /\ Range(a) \cap Range(b) = {}
<1> DEFINE m == Len(q)
           a == SubSeq(q, 1, n)
           b == SubSeq(q, n + 1, Len(q))
<1>1. /\ m \in Nat /\ n \in 0..m /\ DOMAIN q = 1..m
      /\ a \in Seq(S) /\ Len(a) = n /\ DOMAIN a = 1..n
      /\ \A i \in 1..n : a[i] = q[i]
      /\ b \in Seq(S) /\ Len(b) = m - n /\ DOMAIN b = 1..(m - n)
      /\ \A i \in 1..(m - n) : b[i] = q[n + i]
  OBVIOUS
<1> HIDE DEF m, a, b
<1>2. q = a \o b
  <2>1. a \o b \in Seq(S) /\ Len(a \o b) = n + (m - n)
    BY <1>1, SeqConcat
  <2>2. \A i \in 1..m : (a \o b)[i] = q[i]
    <3> TAKE i \in 1..m
    <3>1. CASE i \in 1..n
      BY <1>1, <3>1, SeqConcat
    <3>2. CASE i \notin 1..n
      <4>1. i \in (n + 1)..(n + (m - n)) /\ i - n \in 1..(m - n) /\ n + (i - n) = i
        BY <1>1, <3>2
      <4>2. \A k \in 1..(m - n) : (a \o b)[n + k] = b[k]
        <5>1. \A k \in 1..Len(b) : (a \o b)[Len(a) + k] = b[k]
          BY <1>1, SeqConcat
        <5> QED
          BY <1>1, <5>1
      <4>3. (a \o b)[i] = b[i - n]
        BY <4>1, <4>2
      <4> QED
        BY <1>1, <4>1, <4>3
    <3> QED
      BY <3>1, <3>2
  <2>3. n + (m - n) = m
    BY <1>1
  <2> QED
    BY <1>1, <2>1, <2>2, <2>3, SeqEqual DEF m
<1>3. Range(q) = Range(a) \cup Range(b)
  BY <1>1, <1>2, ConcatRange
<1>4. ASSUME IsInjective(q)
      PROVE  IsInjective(a) /\ IsInjective(b) /\ Range(a) \cap Range(b) = {}
  <2>1. \A i, j \in 1..m : q[i] = q[j] => i = j
    BY <1>1, <1>4 DEF IsInjective
  <2>2. /\ \A i \in 1..n : i \in 1..m
        /\ \A i \in 1..(m - n) : n + i \in 1..m /\ n + i \notin 1..n
    BY <1>1
  <2>3. IsInjective(a)
    BY <1>1, <2>1, <2>2 DEF IsInjective
  <2>4. IsInjective(b)
    <3> SUFFICES ASSUME NEW i \in 1..(m - n), NEW j \in 1..(m - n), b[i] = b[j] PROVE i = j
      BY <1>1 DEF IsInjective
    <3>1. n + i = n + j
      BY <1>1, <2>1, <2>2
    <3> QED
      BY <1>1, <3>1
  <2>5. Range(a) \cap Range(b) = {}
    <3> SUFFICES ASSUME NEW i \in 1..n, NEW j \in 1..(m - n), a[i] = b[j] PROVE FALSE
      BY <1>1 DEF Range
    <3>1. q[i] = q[n + j]
      BY <1>1
    <3> QED
      BY <2>1, <2>2, <3>1
  <2> QED
    BY <2>3, <2>4, <2>5
<1> QED
  BY <1>1, <1>2, <1>3, <1>4 DEF a, b

-----------------------------------------------------------------------------
(* An Execute is in one place, and is executed once.                       *)

Queued == Range(wire) \cup Range(held)

Once ==
    /\ IsInjective(wire) /\ IsInjective(held) /\ Range(wire) \cap Range(held) = {}
    /\ running \notin Queued \cup ended /\ ended \cap Queued = {}
    /\ failed \subseteq ended \cup {running}
    /\ \A id \in Queued \cup ended \cup ({running} \cap Ids) : id <= sent

LEMMA QueuedTyped == ASSUME TypeOK PROVE Queued \subseteq Ids
<1>1. wire \in Seq(Ids) /\ held \in Seq(Ids)
  BY DEF TypeOK
<1> QED
  BY <1>1 DEF Queued, Range

\* What the dispatcher accepts is new.
LEMMA AcceptedQueued ==
    ASSUME TypeOK, Accepted
    PROVE  /\ sent \in Nat /\ sent' = sent + 1 /\ sent' \in Ids
           /\ \/ /\ busy /\ held' = Append(held, sent') /\ wire' = wire
                 /\ Range(held') = Range(held) \cup {sent'}
                 /\ IsInjective(held) /\ sent' \notin Range(held) => IsInjective(held')
              \/ /\ ~busy /\ wire' = Append(wire, sent') /\ held' = held
                 /\ Range(wire') = Range(wire) \cup {sent'}
                 /\ IsInjective(wire) /\ sent' \notin Range(wire) => IsInjective(wire')
           /\ Queued' = Queued \cup {sent'}
<1>1. wire \in Seq(Ids) /\ held \in Seq(Ids) /\ sent' \in Ids
  BY AcceptedTyped DEF TypeOK
<1>2. sent \in Nat /\ sent' = sent + 1
  BY BoundsAssumption DEF TypeOK, Accepted
<1>3. \/ /\ busy /\ held' = Append(held, sent') /\ wire' = wire
         /\ Range(held') = Range(held) \cup {sent'}
         /\ IsInjective(held) /\ sent' \notin Range(held) => IsInjective(held')
      \/ /\ ~busy /\ wire' = Append(wire, sent') /\ held' = held
         /\ Range(wire') = Range(wire) \cup {sent'}
         /\ IsInjective(wire) /\ sent' \notin Range(wire) => IsInjective(wire')
  <2> DEFINE id == sent'
  <2>1. /\ Range(Append(held, id)) = Range(held) \cup {id}
        /\ IsInjective(held) /\ id \notin Range(held) => IsInjective(Append(held, id))
    BY <1>1, AppendRange
  <2>2. /\ Range(Append(wire, id)) = Range(wire) \cup {id}
        /\ IsInjective(wire) /\ id \notin Range(wire) => IsInjective(Append(wire, id))
    BY <1>1, AppendRange
  <2>3. \/ busy /\ held' = Append(held, id) /\ wire' = wire
        \/ ~busy /\ wire' = Append(wire, id) /\ held' = held
    BY Zenon DEF Accepted
  <2> HIDE DEF id
  <2>4. CASE busy /\ held' = Append(held, id) /\ wire' = wire
    BY <2>1, <2>4 DEF id
  <2>5. CASE ~busy /\ wire' = Append(wire, id) /\ held' = held
    BY <2>2, <2>5 DEF id
  <2> QED
    BY <2>3, <2>4, <2>5
<1>4. Queued' = Queued \cup {sent'}
  BY <1>3 DEF Queued
<1> QED
  BY <1>1, <1>2, <1>3, <1>4

LEMMA OnceAccepted ==
    ASSUME TypeOK, Once, Accepted, UNCHANGED <<running, ended, failed>>
    PROVE  Once'
<1>1. \A id \in Queued \cup ended \cup ({running} \cap Ids) : id \in Nat /\ id <= sent
  BY QueuedTyped, IdsTyped DEF Once, TypeOK
<1>2. sent \in Nat /\ sent' = sent + 1 /\ sent' \in Ids
  BY AcceptedQueued
<1>3. sent' \notin Queued \cup ended \cup {running}
  BY <1>1, <1>2
<1>4. IsInjective(wire') /\ IsInjective(held') /\ Range(wire') \cap Range(held') = {}
  BY <1>3, AcceptedQueued DEF Once, Queued
<1>5. Queued' = Queued \cup {sent'}
  BY AcceptedQueued
<1>6. \A id \in Queued' \cup ended' \cup ({running'} \cap Ids) : id <= sent'
  <2>1. \A id \in Queued \cup ended \cup ({running} \cap Ids) : id <= sent'
    BY <1>1, <1>2
  <2> QED
    BY <1>2, <1>5, <2>1
<1> QED
  BY <1>3, <1>4, <1>5, <1>6 DEF Once

\* Passing on what is held does not change what is queued; dropping it does.
LEMMA ReceiveQueued ==
    ASSUME TypeOK, Receive
    PROVE  /\ Queued' = Queued \/ (Drops(Head(line)) /\ held' = <<>> /\ wire' = wire)
           /\ IsInjective(wire) /\ IsInjective(held) /\ Range(wire) \cap Range(held) = {} =>
                 IsInjective(wire') /\ IsInjective(held') /\ Range(wire') \cap Range(held') = {}
           /\ Queued' \subseteq Queued
<1>1. wire \in Seq(Ids) /\ held \in Seq(Ids)
  BY DEF TypeOK
<1>2. CASE Flush
  <2>1. PICK n \in 0..Len(held) : /\ wire' = wire \o SubSeq(held, 1, n)
                                  /\ held' = SubSeq(held, n + 1, Len(held))
    BY <1>2 DEF Flush
  <2> DEFINE a == SubSeq(held, 1, n)
             b == SubSeq(held, n + 1, Len(held))
  <2>2. /\ a \in Seq(Ids) /\ b \in Seq(Ids) /\ Range(held) = Range(a) \cup Range(b)
        /\ IsInjective(held) => /\ IsInjective(a) /\ IsInjective(b)
                                /\ Range(a) \cap Range(b) = {}
    BY <1>1, SplitRange
  <2>3. wire' = wire \o a /\ held' = b
    BY <2>1
  <2> HIDE DEF a, b
  <2>4. /\ Range(wire \o a) = Range(wire) \cup Range(a)
        /\ IsInjective(wire) /\ IsInjective(a) /\ Range(wire) \cap Range(a) = {}
              => IsInjective(wire \o a)
    BY <1>1, <2>2, ConcatRange
  <2> QED
    BY <2>2, <2>3, <2>4 DEF Queued
<1>3. CASE Drops(Head(line)) /\ held' = <<>> /\ UNCHANGED wire
  <2>1. Range(<<>>) = {} /\ IsInjective(<<>>)
    BY DEF Range, IsInjective
  <2> QED
    BY <1>3, <2>1 DEF Queued
<1>4. CASE UNCHANGED <<held, wire>>
  BY <1>4 DEF Queued
<1> QED
  BY <1>2, <1>3, <1>4 DEF Receive

\* What the interpreter takes from the wire.
LEMMA StartTakes ==
    ASSUME TypeOK, Start
    PROVE  /\ running = None /\ greeted /\ running' = Head(wire) /\ wire' = Tail(wire)
           /\ wire # <<>> /\ running' = wire[1] /\ running' \in Ids
           /\ Range(wire) = Range(wire') \cup {running'} /\ held' = held
           /\ IsInjective(wire) => IsInjective(wire') /\ running' \notin Range(wire')
<1>1. /\ running = None /\ greeted /\ running' = Head(wire) /\ wire' = Tail(wire)
      /\ wire # <<>> /\ wire \in Seq(Ids) /\ held' = held
  BY DEF Start, TypeOK, Adapter
<1> QED
  BY <1>1, SeqTail, TailRange

LEMMA OnceStep == ASSUME TypeOK, Once, [Next]_vars PROVE Once'
<1>1. ASSUME UNCHANGED <<wire, held, running, ended, failed, sent>> PROVE Once'
  BY <1>1 DEF Once, Queued
<1>2. CASE Greet \/ Disconnect
  BY <1>1, <1>2 DEF Greet, Disconnect, Adapter, history
<1>3. CASE Start
  <2>1. /\ running = None /\ running' \in Ids /\ Range(wire) = Range(wire') \cup {running'}
        /\ IsInjective(wire') /\ running' \notin Range(wire') /\ held' = held
    BY <1>3, StartTakes DEF Once
  <2>2. ended' = ended /\ failed' = failed /\ sent' = sent
    BY <1>3 DEF Start, Adapter, history
  <2>3. failed \subseteq ended
    BY <2>1, IdsTyped DEF Once, TypeOK
  <2>4. Queued = Queued' \cup {running'}
    BY <2>1 DEF Queued
  <2> QED
    BY <2>1, <2>2, <2>3, <2>4 DEF Once, Queued
<1>4. CASE StartOther
  <2>1. /\ UNCHANGED <<wire, held, ended, failed, sent>> /\ running = None /\ running' = Other
    BY <1>4 DEF StartOther, Adapter, history
  <2>2. failed \subseteq ended /\ Other \notin Queued \cup ended
    BY <2>1, IdsTyped, QueuedTyped DEF Once, TypeOK
  <2> QED
    BY <2>1, <2>2, IdsTyped DEF Once, Queued
<1>5. CASE Error
  BY <1>5 DEF Error, Adapter, Once, Queued
<1>6. CASE Finish
  <2>1. /\ UNCHANGED <<wire, held, failed, sent>> /\ running' = None
        /\ ended' = ended \cup ({running} \cap Ids)
    BY <1>6 DEF Finish, Adapter
  <2>2. None \notin Queued \cup ended' /\ None \notin Ids
    BY <2>1, IdsTyped, QueuedTyped DEF TypeOK
  <2>3. failed \subseteq Ids
    BY DEF TypeOK
  <2> QED
    BY <2>1, <2>2, <2>3 DEF Once, Queued
<1>7. CASE Receive
  <2>1. UNCHANGED <<running, ended, failed, sent>>
    BY <1>7 DEF Receive, history
  <2> QED
    BY <1>7, <2>1, ReceiveQueued DEF Once
<1>8. CASE SendLink \/ SendLaunch \/ SendExecute
  <2>1. UNCHANGED <<running, ended, failed>>
    BY <1>8 DEF SendLink, SendLaunch, SendExecute, outside, interpreter, history
  <2>2. CASE Accepted
    BY <2>1, <2>2, OnceAccepted
  <2>3. CASE Refused
    BY <1>1, <2>1, <2>3 DEF Refused, queues
  <2> QED
    BY <1>8, <2>2, <2>3 DEF SendLink, LinkSent, SendLaunch, SendExecute
<1>9. CASE \/ Refuse \/ ConfigurationDone \/ WaitLink \/ LinkTimesOut \/ Evaluate
           \/ GetResult \/ EvaluateTimesOut \/ ForgetEvaluate \/ HandlePayload \/ Reconnect
  BY <1>1, <1>9 DEF Refuse, ConfigurationDone, WaitLink, LinkTimesOut, Evaluate, GetResult,
     EvaluateTimesOut, ForgetEvaluate, HandlePayload, Reconnect, outside, interpreter, queues,
     history
<1>10. CASE UNCHANGED vars
  BY <1>1, <1>10 DEF vars, outside, interpreter, queues, history
<1> QED
  BY <1>2, <1>3, <1>4, <1>5, <1>6, <1>7, <1>8, <1>9, <1>10, Steps DEF Interpreter

LEMMA OnceInvariant == Spec => [](TypeOK /\ Once)
<1>1. Init => Once
  <2>1. Range(<<>>) = {} /\ IsInjective(<<>>)
    BY DEF Range, IsInjective
  <2> QED
    BY <2>1, IdsTyped DEF Init, Once, Queued
<1> QED
  BY <1>1, OnceStep, TypeInit, TypeStep, PTL DEF Spec

-----------------------------------------------------------------------------
(* An answered repl evaluate has the output of its own Execute. *)

\* The messages that the bridge has not handled.
Stream == bridge \o line

Noise(m) == m.type \in {"busy", "error", "fatal"}

\* The Execute has not been finished, or not been sent: nothing that is under way
\* is of another.
Untouched ==
    /\ replEvaluate.outputs = <<>>
    /\ greeted /\ running \in {None, current} /\ Queued \subseteq {current}
    /\ \A i \in 1..Len(Stream) : Noise(Stream[i])

\* It has been: its output and the prompt after it are the next to be handled ...
Done ==
    /\ replEvaluate.outputs = <<>>
    /\ \E k \in 1..Len(Stream) :
          /\ Stream[k] = [type |-> "output", of |-> current]
          /\ k + 1 \in 1..Len(Stream) /\ Stream[k + 1].type = "ready"
          /\ \A i \in 1..(k - 1) : Noise(Stream[i])

\* ... or the prompt is.
Reported ==
    /\ replEvaluate.outputs = <<current>>
    /\ 1 \in 1..Len(Stream) /\ Stream[1].type = "ready"

Sending == clean /\ main = "execute" =>
    /\ replEvaluate.pending => Untouched
    /\ waiter.ready => waiter.canceled

Expecting == clean /\ main = "repl" =>
    /\ replEvaluate.pending => Untouched \/ Done \/ Reported
    /\ waiter.ready /\ ~waiter.canceled => waiter.outputs = <<current>>

NoneAwaited == main \in {"idle", "execute", "link"} => current = None

ReplInv == NoneAwaited /\ Sending /\ Expecting /\ ReplAnswerComplete

LEMMA StreamTyped ==
    ASSUME TypeOK
    PROVE  /\ bridge \in Seq(Message) /\ line \in Seq(Message) /\ Stream \in Seq(Message)
           /\ Len(Stream) \in Nat
<1>1. bridge \in Seq(Message) /\ line \in Seq(Message)
  BY DEF TypeOK
<1> QED
  BY <1>1, SeqConcat DEF Stream

LEMMA EmittedStream ==
    ASSUME TypeOK, NEW ms \in Seq(Message), Emit(ms), bridge' = bridge
    PROVE  Stream' = Stream \o ms
<1>1. line' = line \o ms
  BY DEF Emit
<1>2. bridge \o (line \o ms) = (bridge \o line) \o ms
  <2>1. bridge \in Seq(Message) /\ line \in Seq(Message)
    BY StreamTyped
  <2>2. (bridge \o line) \o ms = bridge \o (line \o ms)
    BY <2>1, ConcatAssociative
  <2> QED
    BY <2>2
<1> QED
  BY <1>1, <1>2 DEF Stream

LEMMA HeadThenTail ==
    ASSUME NEW S, NEW q \in Seq(S), q # <<>>
    PROVE  q = <<Head(q)>> \o Tail(q) /\ Head(q) \in S
<1> DEFINE h == <<Head(q)>>
           t == Tail(q)
           c == h \o t
<1>1. /\ t \in Seq(S) /\ Len(t) = Len(q) - 1 /\ Len(q) \in Nat \ {0}
      /\ \A i \in 1..(Len(q) - 1) : t[i] = q[i + 1]
      /\ Head(q) = q[1] /\ q[1] \in S
  BY SeqTail
<1>2. h \in Seq(S) /\ Len(h) = 1 /\ h[1] = q[1]
  BY <1>1
<1> HIDE DEF h, t
<1>3. /\ c \in Seq(S) /\ Len(c) = Len(h) + Len(t)
      /\ \A i \in 1..Len(h) : c[i] = h[i]
      /\ \A i \in (Len(h) + 1)..(Len(h) + Len(t)) : c[i] = t[i - Len(h)]
  <2>1. h \in Seq(S) /\ t \in Seq(S)
    BY <1>1, <1>2
  <2> QED
    BY <2>1, SeqConcat
<1> HIDE DEF c
<1>4. /\ c \in Seq(S) /\ Len(c) = 1 + (Len(q) - 1)
      /\ \A i \in 1..1 : c[i] = h[i]
      /\ \A i \in (1 + 1)..(1 + (Len(q) - 1)) : c[i] = t[i - 1]
  BY <1>1, <1>2, <1>3
<1>5. \A i \in 1..Len(c) : c[i] = q[i]
  <2> TAKE i \in 1..Len(c)
  <2>1. CASE i = 1
    BY <1>2, <1>4, <2>1
  <2>2. CASE i # 1
    <3>1. i \in (1 + 1)..(1 + (Len(q) - 1)) /\ i - 1 \in 1..(Len(q) - 1) /\ (i - 1) + 1 = i
      BY <1>1, <1>4, <2>2
    <3> QED
      BY <1>1, <1>4, <3>1
  <2> QED
    BY <2>1, <2>2
<1>6. Len(c) = Len(q)
  BY <1>1, <1>4
<1>7. c = q
  BY <1>4, <1>5, <1>6, SeqEqual
<1> QED
  BY <1>1, <1>7 DEF c, h, t

LEMMA ReceivedStream ==
    ASSUME TypeOK, Receive
    PROVE  Stream' = Stream
<1> DEFINE h == <<Head(line)>>
           t == Tail(line)
<1>1. bridge \in Seq(Message) /\ line \in Seq(Message) /\ line # <<>>
  BY StreamTyped DEF Receive
<1>2. line = h \o t /\ Head(line) \in Message /\ t \in Seq(Message)
  BY <1>1, HeadThenTail, SeqTail
<1>3. h \in Seq(Message)
  BY <1>2
<1>4. bridge' = bridge \o h /\ line' = t
  BY <1>1, <1>2, AppendIsConcat DEF Receive
<1> HIDE DEF h, t
<1>5. (bridge \o h) \o t = bridge \o (h \o t)
  BY <1>1, <1>2, <1>3, ConcatAssociative
<1> QED
  BY <1>2, <1>4, <1>5 DEF Stream

LEMMA HandledStream ==
    ASSUME TypeOK, HandlePayload
    PROVE  /\ Head(bridge) = Stream[1] /\ Stream[1] \in Message
           /\ Len(Stream) \in Nat \ {0} /\ Len(Stream') = Len(Stream) - 1
           /\ \A i \in 1..(Len(Stream) - 1) : Stream'[i] = Stream[i + 1]
<1> DEFINE h == <<Head(bridge)>>
           t == Tail(bridge)
<1>1. bridge \in Seq(Message) /\ line \in Seq(Message) /\ bridge # <<>>
  BY StreamTyped DEF HandlePayload
<1>2. bridge = h \o t /\ Head(bridge) \in Message /\ t \in Seq(Message)
  BY <1>1, HeadThenTail, SeqTail
<1>3. h \in Seq(Message) /\ Len(h) = 1 /\ h[1] = Head(bridge)
  BY <1>2
<1>4. bridge' = t /\ line' = line
  BY DEF HandlePayload, interpreter
<1> HIDE DEF h, t
<1>5. Stream = h \o (t \o line) /\ Stream' = t \o line
  <2>1. (h \o t) \o line = h \o (t \o line)
    BY <1>1, <1>2, <1>3, ConcatAssociative
  <2> QED
    BY <1>2, <1>4, <2>1 DEF Stream
<1> DEFINE r == t \o line
<1>6. r \in Seq(Message) /\ Len(r) \in Nat
  BY <1>1, <1>2, SeqConcat
<1> HIDE DEF r
<1>7. /\ Len(h \o r) = 1 + Len(r) /\ (h \o r)[1] = h[1]
      /\ \A i \in 1..Len(r) : (h \o r)[1 + i] = r[i]
  <2>1. /\ Len(h \o r) = Len(h) + Len(r)
        /\ \A i \in 1..Len(h) : (h \o r)[i] = h[i]
        /\ \A i \in 1..Len(r) : (h \o r)[Len(h) + i] = r[i]
    BY <1>3, <1>6, SeqConcat
  <2> QED
    BY <1>3, <2>1
<1>8. Stream = h \o r /\ Stream' = r
  BY <1>5 DEF r
<1>9. Len(Stream) = 1 + Len(r) /\ Stream[1] = h[1]
  BY <1>7, <1>8
<1>10. /\ Len(Stream) \in Nat \ {0} /\ Len(Stream') = Len(Stream) - 1
  BY <1>6, <1>8, <1>9
<1>11. \A i \in 1..(Len(Stream) - 1) : Stream'[i] = Stream[i + 1]
  <2> TAKE i \in 1..(Len(Stream) - 1)
  <2>1. i \in 1..Len(r) /\ 1 + i = i + 1
    BY <1>6, <1>9
  <2> QED
    BY <1>7, <1>8, <2>1
<1> QED
  BY <1>2, <1>3, <1>9, <1>10, <1>11

\* What has been reported stays so when more is sent.
LEMMA MoreSent ==
    ASSUME TypeOK, NEW ms \in Seq(Message), Stream' = Stream \o ms,
           UNCHANGED <<replEvaluate, current>>
    PROVE  /\ Done => Done'
           /\ Reported => Reported'
           /\ Untouched /\ (\A i \in 1..Len(ms) : Noise(ms[i])) =>
                 \A i \in 1..Len(Stream') : Noise(Stream'[i])
<1> DEFINE n == Len(Stream)
           m == Len(ms)
<1>1. /\ n \in Nat /\ m \in Nat /\ Len(Stream') = n + m
      /\ \A i \in 1..n : Stream'[i] = Stream[i]
      /\ \A i \in (n + 1)..(n + m) : Stream'[i] = ms[i - n]
  BY StreamTyped, SeqConcat
<1>2. \A i \in 1..n : i \in 1..(n + m)
  BY <1>1
<1>3. \A i \in 1..(n + m) : i \in 1..n \/ (i \in (n + 1)..(n + m) /\ i - n \in 1..m)
  BY <1>1
<1> HIDE DEF n, m
<1>4. ASSUME Done PROVE Done'
  <2>1. PICK k \in 1..n :
          /\ Stream[k] = [type |-> "output", of |-> current]
          /\ k + 1 \in 1..n /\ Stream[k + 1].type = "ready"
          /\ \A i \in 1..(k - 1) : Noise(Stream[i])
    BY <1>4 DEF Done, n
  <2>2. \A i \in 1..(k - 1) : i \in 1..n
    BY <1>1
  <2>3. /\ k \in 1..(n + m) /\ k + 1 \in 1..(n + m)
        /\ Stream'[k] = [type |-> "output", of |-> current']
        /\ Stream'[k + 1].type = "ready"
        /\ \A i \in 1..(k - 1) : Noise(Stream'[i])
    BY <1>1, <1>2, <2>1, <2>2
  <2> QED
    BY <1>1, <1>4, <2>3 DEF Done, Noise
<1>5. ASSUME Reported PROVE Reported'
  BY <1>1, <1>2, <1>5 DEF Reported, n
<1>6. ASSUME Untouched, \A i \in 1..Len(ms) : Noise(ms[i])
      PROVE  \A i \in 1..Len(Stream') : Noise(Stream'[i])
  <2>1. \A i \in 1..n : Noise(Stream[i])
    BY <1>6 DEF Untouched, n
  <2>2. \A i \in 1..m : Noise(ms[i])
    BY <1>6 DEF m
  <2> QED
    BY <1>1, <1>3, <2>1, <2>2
<1> QED
  BY <1>4, <1>5, <1>6

\* The messages of one step of the interpreter.
LEMMA MessageSequences ==
    /\ \A m \in Message : <<m>> \in Seq(Message) /\ Len(<<m>>) = 1 /\ <<m>>[1] = m
    /\ \A m, n \in Message : /\ <<m, n>> \in Seq(Message) /\ Len(<<m, n>>) = 2
                             /\ <<m, n>>[1] = m /\ <<m, n>>[2] = n
OBVIOUS

\* A message that is neither output nor the end of an Execute.
LEMMA NoiseSent ==
    ASSUME TypeOK, NEW m \in Message, Emit(<<m>>), UNCHANGED <<bridge, replEvaluate, current>>
    PROVE  /\ Done => Done'
           /\ Reported => Reported'
           /\ Untouched /\ Noise(m) => \A i \in 1..Len(Stream') : Noise(Stream'[i])
<1> DEFINE ms == <<m>>
<1>1. ms \in Seq(Message) /\ Len(ms) = 1 /\ ms[1] = m
  BY MessageSequences
<1>2. Stream' = Stream \o ms
  BY <1>1, EmittedStream
<1>3. Noise(m) => \A i \in 1..Len(ms) : Noise(ms[i])
  BY <1>1
<1> HIDE DEF ms
<1> QED
  BY <1>1, <1>2, <1>3, MoreSent

\* What is queued while nothing has been sent for the evaluate.
LEMMA NothingQueued ==
    ASSUME TypeOK, NoneAwaited, main = "execute", Queued \subseteq {current}
    PROVE  Queued = {} /\ wire = <<>> /\ held = <<>>
<1>1. Queued \subseteq Ids /\ current = None /\ None \notin Ids
  BY QueuedTyped, IdsTyped DEF NoneAwaited
<1>2. Queued = {}
  BY <1>1
<1>3. wire \in Seq(Ids) /\ held \in Seq(Ids)
  BY DEF TypeOK
<1>4. ASSUME NEW q \in Seq(Ids), Range(q) = {} PROVE q = <<>>
  <2> SUFFICES ASSUME q # <<>> PROVE FALSE
    OBVIOUS
  <2>1. 1 \in DOMAIN q
    BY <1>4
  <2> QED
    BY <1>4, <2>1 DEF Range
<1> QED
  BY <1>2, <1>3, <1>4 DEF Queued

LEMMA UntouchedStarts ==
    ASSUME TypeOK, NoneAwaited, Start, Untouched
    PROVE  Untouched' /\ main # "execute"
<1>1. /\ greeted' = greeted /\ UNCHANGED <<bridge, replEvaluate, current, main>>
      /\ Emit(<<M("busy")>>)
  BY DEF Start, Adapter, repl, waiting
<1>2. Queued = Queued' \cup {running'} /\ wire # <<>>
  BY StartTakes DEF Queued
<1>3. main # "execute"
  BY <1>2, NothingQueued DEF Untouched
<1>4. \A i \in 1..Len(Stream') : Noise(Stream'[i])
  <2>1. Noise(M("busy"))
    BY DEF Noise, M
  <2> QED
    BY <1>1, <2>1, MessagesTyped, NoiseSent
<1> QED
  BY <1>1, <1>2, <1>3, <1>4 DEF Untouched

LEMMA UntouchedFinishes ==
    ASSUME TypeOK, NoneAwaited, Finish, Untouched
    PROVE  Done' /\ main # "execute"
<1> DEFINE o == [type |-> "output", of |-> running]
           r == M("ready")
           ms == <<o, r>>
           n == Len(Stream)
<1>1. /\ running = current /\ current # None /\ UNCHANGED <<bridge, replEvaluate, current, main>>
      /\ Emit(ms)
  BY DEF Finish, Adapter, repl, waiting, Untouched
<1>2. main # "execute"
  BY <1>1 DEF NoneAwaited
<1>3. o \in Message /\ r \in Message /\ r.type = "ready"
  <2>1. running \in Ids \cup {Other}
    BY <1>1 DEF TypeOK
  <2> QED
    BY <2>1, MessagesTyped DEF M
<1>4. o = [type |-> "output", of |-> current']
  BY <1>1
<1> HIDE DEF o, r
<1>5. ms \in Seq(Message) /\ Len(ms) = 2 /\ ms[1] = o /\ ms[2] = r
  BY <1>3, MessageSequences
<1> HIDE DEF ms
<1>6. Stream' = Stream \o ms
  BY <1>1, <1>5, EmittedStream
<1>7. /\ n \in Nat /\ Len(Stream \o ms) = n + Len(ms)
      /\ \A i \in 1..n : (Stream \o ms)[i] = Stream[i]
      /\ \A i \in 1..Len(ms) : (Stream \o ms)[n + i] = ms[i]
  <2>1. Stream \in Seq(Message) /\ ms \in Seq(Message)
    BY <1>5, StreamTyped
  <2> QED
    BY <2>1, SeqConcat
<1>8. \A i \in 1..n : Noise(Stream[i])
  BY DEF Untouched
<1> HIDE DEF n
<1>9. /\ Len(Stream') = n + 2 /\ Stream'[n + 1] = o /\ Stream'[n + 2] = r
      /\ \A i \in 1..n : Stream'[i] = Stream[i]
  BY <1>5, <1>6, <1>7
<1>10. replEvaluate'.outputs = <<>>
  BY <1>1 DEF Untouched
<1>11. /\ n + 1 \in 1..Len(Stream') /\ (n + 1) + 1 \in 1..Len(Stream') /\ (n + 1) + 1 = n + 2
       /\ (n + 1) - 1 = n
  BY <1>7, <1>9
<1>12. \A i \in 1..((n + 1) - 1) : Noise(Stream'[i])
  BY <1>8, <1>9, <1>11
<1>13. Stream'[n + 1] = [type |-> "output", of |-> current']
  BY <1>4, <1>9
<1>14. Stream'[(n + 1) + 1].type = "ready"
  BY <1>3, <1>9, <1>11
<1>15. Done'
  <2> DEFINE k == n + 1
  <2>1. /\ k \in 1..Len(Stream') /\ k + 1 \in 1..Len(Stream')
        /\ Stream'[k] = [type |-> "output", of |-> current']
        /\ Stream'[k + 1].type = "ready"
        /\ \A i \in 1..(k - 1) : Noise(Stream'[i])
    BY <1>11, <1>12, <1>13, <1>14
  <2> HIDE DEF k
  <2> QED
    BY <1>10, <2>1 DEF Done, Noise
<1> QED
  BY <1>2, <1>15

\* What the interpreter does while main waits for it.
LEMMA ReplInterpreter ==
    ASSUME TypeOK, ReplInv, Interpreter
    PROVE  ReplInv'
<1> USE DEF ReplInv
<1>1. UNCHANGED <<bridge, replEvaluate, waiter, current, main, reply>>
  BY DEF Interpreter, Greet, Start, StartOther, Error, Finish, Disconnect, Adapter, repl, waiting
<1>2. (NoneAwaited /\ ReplAnswerComplete)'
  BY <1>1 DEF NoneAwaited, ReplAnswerComplete
<1>3. ASSUME /\ clean' => clean
             /\ Done => Done'
             /\ Reported => Reported'
             /\ Untouched => Untouched' \/ (Done' /\ main # "execute")
      PROVE  ReplInv'
  BY <1>1, <1>2, <1>3 DEF Sending, Expecting
<1>4. ASSUME NEW m \in Message, Noise(m), Emit(<<m>>), greeted => greeted',
             clean' => clean, UNCHANGED <<running, wire, held>>
      PROVE  ReplInv'
  <2>1. Untouched => Untouched'
    BY <1>1, <1>4, NoiseSent DEF Untouched, Queued
  <2> QED
    BY <1>1, <1>3, <1>4, <2>1, NoiseSent
<1>5. CASE Greet
  <2>1. ~Untouched
    BY <1>5 DEF Greet, Untouched
  <2>2. \E m \in Message : Emit(<<m>>)
    BY <1>5, MessagesTyped DEF Greet
  <2>3. clean' = clean
    BY <1>5 DEF Greet
  <2> QED
    BY <1>1, <1>3, <2>1, <2>2, <2>3, NoiseSent
<1>6. CASE Start
  <2>1. Emit(<<M("busy")>>) /\ clean' = clean
    BY <1>6 DEF Start
  <2> QED
    BY <1>1, <1>3, <1>6, <2>1, MessagesTyped, NoiseSent, UntouchedStarts
<1>7. CASE StartOther
  <2>1. clean' = FALSE
    BY <1>7 DEF StartOther
  <2> QED
    BY <1>2, <2>1 DEF Sending, Expecting
<1>8. CASE Error
  <2>1. /\ Emit(<<M("error")>>) /\ greeted' = greeted /\ clean' = clean
        /\ UNCHANGED <<running, wire, held>>
    BY <1>8 DEF Error, Adapter
  <2>2. Noise(M("error"))
    BY DEF Noise, M
  <2> QED
    BY <1>4, <2>1, <2>2, MessagesTyped
<1>9. CASE Finish
  <2> DEFINE ms == <<[type |-> "output", of |-> running], M("ready")>>
  <2>1. Emit(ms) /\ clean' = clean
    BY <1>9 DEF Finish
  <2>2. ms \in Seq(Message)
    <3>1. [type |-> "output", of |-> running] \in Message
      BY <1>9, MessagesTyped DEF Finish, TypeOK
    <3> QED
      BY <3>1, MessagesTyped
  <2> HIDE DEF ms
  <2>3. (Done => Done') /\ (Reported => Reported')
    BY <1>1, <2>1, <2>2, EmittedStream, MoreSent
  <2> QED
    BY <1>3, <1>9, <2>1, <2>3, UntouchedFinishes
<1>10. CASE Disconnect
  <2>1. /\ Emit(<<M("fatal")>>) /\ greeted' = greeted /\ clean' = clean
        /\ UNCHANGED <<running, wire, held>>
    BY <1>10 DEF Disconnect, Adapter
  <2>2. Noise(M("fatal"))
    BY DEF Noise, M
  <2> QED
    BY <1>4, <2>1, <2>2, MessagesTyped
<1> QED
  BY <1>5, <1>6, <1>7, <1>8, <1>9, <1>10 DEF Interpreter

\* HandleRidePayload, while a repl evaluate is pending.
LEMMA ReplHandles ==
    ASSUME TypeOK, ReplInv, HandlePayload
    PROVE  ReplInv'
<1> USE DEF ReplInv
<1> DEFINE m == Stream[1]
           n == Len(Stream)
<1>1. /\ UNCHANGED <<main, current, clean, reply, greeted, running, wire, held>>
  BY DEF HandlePayload, interpreter, queues, waiting
<1>2. (NoneAwaited /\ ReplAnswerComplete)'
  BY <1>1 DEF NoneAwaited, ReplAnswerComplete
<1>3. /\ m \in Message /\ n \in Nat \ {0} /\ Len(Stream') = n - 1 /\ Head(bridge) = m
      /\ \A i \in 1..(n - 1) : Stream'[i] = Stream[i + 1]
  BY HandledStream
<1>4. /\ \A i \in 1..(n - 1) : i + 1 \in 1..n
      /\ 1 \in 1..n
  BY <1>3
<1>5. \/ EndsEvaluate(m) /\ CompleteRepl(m.type = "fatal")
      \/ /\ m.type = "output" /\ replEvaluate.pending
         /\ replEvaluate' = [replEvaluate EXCEPT !.outputs = Append(@, m.of)]
         /\ waiter' = waiter
      \/ /\ ~EndsEvaluate(m) /\ UNCHANGED repl
         /\ m.type # "output" \/ ~replEvaluate.pending
  BY <1>3 DEF HandlePayload
<1> HIDE DEF m, n
<1>6. CASE ~replEvaluate.pending
  <2>1. UNCHANGED <<replEvaluate, waiter>>
    BY <1>5, <1>6 DEF CompleteRepl, repl
  <2> QED
    BY <1>1, <1>2, <1>6, <2>1 DEF Sending, Expecting
<1>7. ASSUME replEvaluate.pending, clean, main \in {"execute", "repl"}, Noise(m)
      PROVE  \/ UNCHANGED <<replEvaluate, waiter>>
             \/ ~replEvaluate'.pending /\ waiter'.canceled
  <2>1. CASE m.type = "fatal"
    <3> DEFINE fatal == m.type = "fatal"
    <3>1. CompleteRepl(fatal)
      BY <1>5, <2>1 DEF EndsEvaluate
    <3>2. fatal
      BY <2>1
    <3> HIDE DEF fatal
    <3>3. /\ replEvaluate' = NoRepl
          /\ waiter' = [ready |-> TRUE, canceled |-> fatal, outputs |-> replEvaluate.outputs]
      BY <1>7, <3>1 DEF CompleteRepl
    <3> QED
      BY <3>2, <3>3 DEF NoRepl
  <2>2. CASE m.type \in {"busy", "error"}
    BY <1>5, <2>2 DEF EndsEvaluate, repl
  <2> QED
    BY <1>7, <2>1, <2>2 DEF Noise
<1>8. CASE replEvaluate.pending /\ clean /\ main \in {"execute", "repl"} /\ Untouched
  <2>1. \A i \in 1..n : Noise(Stream[i])
    BY <1>8 DEF Untouched, n
  <2>2. Noise(m)
    BY <1>4, <2>1 DEF m
  <2>3. CASE UNCHANGED <<replEvaluate, waiter>>
    <3>1. \A i \in 1..(n - 1) : Noise(Stream'[i])
      BY <1>3, <1>4, <2>1
    <3>2. Untouched'
      BY <1>1, <1>3, <1>8, <2>3, <3>1 DEF Untouched, Queued, Noise
    <3> QED
      BY <1>1, <1>2, <2>3, <3>2 DEF Sending, Expecting
  <2>4. CASE ~replEvaluate'.pending /\ waiter'.canceled
    BY <1>1, <1>2, <2>4 DEF Sending, Expecting
  <2> QED
    BY <1>7, <1>8, <2>2, <2>3, <2>4
<1>9. CASE replEvaluate.pending /\ clean /\ main = "repl" /\ Done
  <2>1. PICK k \in 1..n : /\ Stream[k] = [type |-> "output", of |-> current]
                          /\ k + 1 \in 1..n /\ Stream[k + 1].type = "ready"
                          /\ \A i \in 1..(k - 1) : Noise(Stream[i])
    BY <1>9 DEF Done, n
  <2>2. replEvaluate.outputs = <<>>
    BY <1>9 DEF Done
  <2>3. CASE k = 1
    <3>1. m = [type |-> "output", of |-> current]
      BY <2>1, <2>3 DEF m
    <3>2. m.type = "output" /\ m.of = current
      BY <3>1
    <3>3. replEvaluate' = [replEvaluate EXCEPT !.outputs = Append(@, m.of)] /\ waiter' = waiter
      BY <1>5, <1>9, <3>2 DEF EndsEvaluate
    <3>4. replEvaluate \in Pending
      BY DEF TypeOK
    <3>5. replEvaluate'.outputs = <<current'>>
      <4>1. replEvaluate'.outputs = Append(<<>>, current)
        BY <2>2, <3>2, <3>3, <3>4 DEF Pending
      <4>2. Append(<<>>, current) = <<current>>
        OBVIOUS
      <4> QED
        BY <1>1, <4>1, <4>2
    <3>6. 1 \in 1..(n - 1) /\ 1 + 1 = k + 1
      BY <1>3, <2>1, <2>3
    <3>7. Stream'[1].type = "ready"
      BY <1>3, <2>1, <3>6
    <3>8. Reported'
      BY <1>3, <3>5, <3>6, <3>7 DEF Reported
    <3> QED
      BY <1>1, <1>2, <1>9, <3>3, <3>8 DEF Sending, Expecting
  <2>4. CASE k # 1
    <3>1. 1 \in 1..(k - 1)
      BY <1>3, <2>1, <2>4
    <3>2. Noise(m)
      BY <2>1, <3>1 DEF m
    <3>3. CASE UNCHANGED <<replEvaluate, waiter>>
      <4> DEFINE j == k - 1
      <4>1. /\ j \in 1..(n - 1) /\ j + 1 \in 1..(n - 1) /\ j + 1 = k
            /\ \A i \in 1..(j - 1) : i \in 1..(n - 1) /\ i + 1 \in 1..(k - 1)
        BY <1>3, <2>1, <2>4
      <4>2. \A i \in 1..(j - 1) : Noise(Stream'[i])
        BY <1>3, <2>1, <4>1
      <4>3. Stream'[j] = Stream[k]
        BY <1>3, <4>1
      <4>4. Stream'[j + 1] = Stream[k + 1]
        BY <1>3, <4>1
      <4>5. Stream'[j] = [type |-> "output", of |-> current'] /\ Stream'[j + 1].type = "ready"
        BY <1>1, <2>1, <4>3, <4>4
      <4> HIDE DEF j
      <4>6. Done'
        BY <1>3, <2>2, <3>3, <4>1, <4>2, <4>5 DEF Done, Noise
      <4> QED
        BY <1>1, <1>2, <1>9, <3>3, <4>6 DEF Sending, Expecting
    <3>4. CASE ~replEvaluate'.pending /\ waiter'.canceled
      BY <1>1, <1>2, <3>4 DEF Sending, Expecting
    <3> QED
      BY <1>7, <1>9, <3>2, <3>3, <3>4
  <2> QED
    BY <2>3, <2>4
<1>10. CASE replEvaluate.pending /\ clean /\ main = "repl" /\ Reported
  <2>1. m.type = "ready" /\ replEvaluate.outputs = <<current>>
    BY <1>10 DEF Reported, m
  <2>2. CompleteRepl(m.type = "fatal")
    BY <1>5, <2>1 DEF EndsEvaluate
  <2>3. ~replEvaluate'.pending /\ waiter'.outputs = <<current>>
    BY <1>10, <2>1, <2>2 DEF CompleteRepl, NoRepl
  <2> QED
    BY <1>1, <1>2, <1>10, <2>3 DEF Sending, Expecting
<1>11. CASE ~clean \/ main \notin {"execute", "repl"}
  BY <1>1, <1>2, <1>11 DEF Sending, Expecting
<1> QED
  BY <1>6, <1>8, <1>9, <1>10, <1>11 DEF Sending, Expecting

LEMMA ReplStep ==
    ASSUME TypeOK, ReplInv, [Next]_vars
    PROVE  ReplInv'
<1> USE DEF ReplInv
<1>1. ASSUME main' \notin {"execute", "repl"}, (NoneAwaited /\ ReplAnswerComplete)'
      PROVE  ReplInv'
  BY <1>1 DEF Sending, Expecting
<1>2. CASE Interpreter
  BY <1>2, ReplInterpreter
<1>3. CASE Receive
  <2>1. /\ UNCHANGED <<main, current, clean, reply, replEvaluate, waiter, greeted, running>>
        /\ Queued' \subseteq Queued /\ Stream' = Stream
    BY <1>3, ReceiveQueued, ReceivedStream DEF Receive, repl
  <2>2. Untouched => Untouched'
    BY <2>1 DEF Untouched, Noise
  <2>3. (Done => Done') /\ (Reported => Reported')
    BY <2>1 DEF Done, Reported, Noise
  <2> QED
    BY <2>1, <2>2, <2>3 DEF NoneAwaited, Sending, Expecting, ReplAnswerComplete
<1>4. CASE Refuse
  BY <1>1, <1>4 DEF Refuse, Fail, Answer, NoneAwaited, ReplAnswerComplete
<1>5. CASE ConfigurationDone
  BY <1>1, <1>5 DEF ConfigurationDone, Request, Answer, GoTo, NoReply, NoneAwaited, ReplAnswerComplete
<1>6. CASE SendLink
  BY <1>1, <1>6 DEF SendLink, LinkSent, GoTo, NoReply, Fail, Answer, NoneAwaited, ReplAnswerComplete
<1>7. CASE WaitLink
  BY <1>1, <1>7 DEF WaitLink, Fail, Answer, NoneAwaited, ReplAnswerComplete
<1>8. CASE LinkTimesOut
  BY <1>1, <1>8 DEF LinkTimesOut, Fail, Answer, NoneAwaited, ReplAnswerComplete
<1>9. CASE SendLaunch
  BY <1>1, <1>9 DEF SendLaunch, Fail, Answer, NoneAwaited, ReplAnswerComplete
<1>10. CASE Evaluate
  <2>1. /\ main = "idle" /\ main' = "execute" /\ current' = current /\ reply' = NoReply
        /\ replEvaluate' = [pending |-> TRUE, outputs |-> <<>>] /\ waiter' = NoResult
        /\ clean' = Quiet /\ UNCHANGED <<bridge, line, greeted, running, wire, held>>
    BY <1>10 DEF Evaluate, Request, GoTo, outside, interpreter, queues
  <2>2. (NoneAwaited /\ ReplAnswerComplete)'
    BY <2>1 DEF NoneAwaited, ReplAnswerComplete, NoReply
  <2>3. ASSUME Quiet PROVE Untouched'
    <3>1. Stream = <<>> \o <<>> /\ Stream' = Stream /\ Queued' = Queued /\ Queued = {}
      BY <2>1, <2>3 DEF Quiet, Stream, Queued, Range
    <3>2. Len(Stream') = 0
      BY <3>1
    <3>3. \A i \in 1..Len(Stream') : Noise(Stream'[i])
      BY <3>2
    <3> QED
      BY <2>1, <2>3, <3>1, <3>3 DEF Quiet, Untouched
  <2> QED
    BY <2>1, <2>2, <2>3 DEF Sending, Expecting, NoResult
<1>11. CASE SendExecute
  <2>1. CASE Accepted /\ current' = sent' /\ GoTo("repl") /\ UNCHANGED <<replEvaluate, clean>>
    <3>1. /\ main = "execute" /\ main' = "repl" /\ reply' = NoReply
          /\ UNCHANGED <<bridge, line, greeted, running, waiter>>
      BY <1>11, <2>1 DEF SendExecute, GoTo, outside, interpreter
    <3>2. (NoneAwaited /\ ReplAnswerComplete)'
      BY <3>1 DEF NoneAwaited, ReplAnswerComplete, NoReply
    <3>3. ASSUME Untouched PROVE Untouched'
      <4>1. Queued = {} /\ running = None
        BY <3>1, <3>3, NothingQueued DEF Untouched, NoneAwaited
      <4>2. Queued' = {current'}
        BY <2>1, <4>1, AcceptedQueued
      <4>3. Stream' = Stream
        BY <3>1 DEF Stream
      <4> QED
        BY <2>1, <3>1, <3>3, <4>1, <4>2, <4>3 DEF Untouched, Noise
    <3> QED
      BY <2>1, <3>1, <3>2, <3>3 DEF Sending, Expecting
  <2>2. CASE Fail("evaluate")
    BY <1>1, <2>2 DEF Fail, Answer, NoneAwaited, ReplAnswerComplete
  <2> QED
    BY <1>11, <2>1, <2>2 DEF SendExecute
<1>12. CASE GetResult
  <2>1. /\ main = "repl" /\ waiter.ready /\ main' = "idle" /\ current' = None
        /\ reply' = [to |-> "evaluate", id |-> current, success |-> ~waiter.canceled,
                     clean |-> clean, outputs |-> waiter.outputs]
    BY <1>12 DEF GetResult, Answer
  <2>2. ReplAnswerComplete'
    BY <2>1 DEF ReplAnswerComplete, Expecting
  <2> QED
    BY <1>1, <2>1, <2>2 DEF NoneAwaited
<1>13. CASE EvaluateTimesOut
  BY <1>1, <1>13 DEF EvaluateTimesOut, GoTo, NoReply, NoneAwaited, ReplAnswerComplete
<1>14. CASE ForgetEvaluate
  BY <1>1, <1>14 DEF ForgetEvaluate, Fail, Answer, NoneAwaited, ReplAnswerComplete
<1>15. CASE HandlePayload
  BY <1>15, ReplHandles
<1>16. CASE Reconnect
  BY <1>16 DEF Reconnect, NoRepl, waiting, NoneAwaited, Sending, Expecting, ReplAnswerComplete
<1>17. CASE UNCHANGED vars
  <2>1. UNCHANGED <<main, current, clean, reply, replEvaluate, waiter, greeted, running,
                    bridge, line, wire, held>>
    BY <1>17 DEF vars, outside, interpreter, queues, repl, waiting
  <2>2. Stream' = Stream /\ Queued' = Queued
    BY <2>1 DEF Stream, Queued
  <2>3. (Untouched => Untouched') /\ (Done => Done') /\ (Reported => Reported')
    BY <2>1, <2>2 DEF Untouched, Done, Reported, Noise
  <2> QED
    BY <2>1, <2>3 DEF NoneAwaited, Sending, Expecting, ReplAnswerComplete
<1> QED
  BY <1>2, <1>3, <1>4, <1>5, <1>6, <1>7, <1>8, <1>9, <1>10, <1>11, <1>12, <1>13, <1>14,
     <1>15, <1>16, <1>17, Steps

\* handleEvaluateRequest and HandleRidePayload: output and prompt reach the waiting
\* evaluate on their own, and yet one that found everything quiet and was not
\* disturbed is answered with the output of its own Execute, all of it and nothing
\* else.
THEOREM ReplComplete == Spec => []ReplAnswerComplete
<1>1. Init => ReplInv
  BY DEF Init, ReplInv, NoneAwaited, Sending, Expecting, ReplAnswerComplete, NoReply
<1>2. TypeOK /\ ReplInv /\ [Next]_vars => ReplInv'
  BY ReplStep
<1>3. ReplInv => ReplAnswerComplete
  BY DEF ReplInv
<1> QED
  BY <1>1, <1>2, <1>3, TypeCorrect, PTL DEF Spec

-----------------------------------------------------------------------------
(* What a queue of messages tells, and how its ends change it. *)

Has(q, types) == \E i \in 1..Len(q) : q[i].type \in types

\* waitForExecuteCompletion, reading q: whether it has then seen the busy prompt,
\* and whether it ends with success.
Begins(q, begun) == begun \/ Has(q, {"busy"})

Ends(q, begun) ==
    \E k \in 1..Len(q) :
       /\ q[k].type = "ready"
       /\ begun \/ \E j \in 1..(k - 1) : q[j].type = "busy"
       /\ \A j \in 1..(k - 1) : q[j].type # "error"

\* A prompt with nothing after it that is heeded and no prompt before it.
OnePrompt(q) ==
    \E i \in 1..Len(q) :
       /\ q[i].type = "ready"
       /\ \A j \in 1..(i - 1) : q[j].type # "ready"
       /\ \A j \in 1..Len(q) : j > i => q[j].type \notin Heeded

\* An error with no prompt before it.
ErrorFirst(q) ==
    \E i \in 1..Len(q) :
       /\ q[i].type = "error"
       /\ \A j \in 1..(i - 1) : q[j].type # "ready"

LEMMA AppendIndex ==
    ASSUME NEW S, NEW q \in Seq(S), NEW x \in S
    PROVE  LET r == Append(q, x)
               n == Len(q)
           IN /\ n \in Nat /\ Len(r) = n + 1 /\ r[n + 1] = x /\ n + 1 \in 1..Len(r)
              /\ \A i \in 1..n : i \in 1..Len(r) /\ r[i] = q[i]
              /\ \A i \in 1..Len(r) : i \in 1..n \/ i = n + 1
              /\ \A k \in 1..n : \A j \in 1..(k - 1) : j \in 1..n
              /\ \A j \in 1..((n + 1) - 1) : j \in 1..n
              /\ \A j \in 1..n : j \in 1..((n + 1) - 1)
<1> DEFINE r == Append(q, x)
           n == Len(q)
<1>1. /\ n \in Nat /\ Len(r) = n + 1 /\ r[n + 1] = x
      /\ \A i \in 1..n : r[i] = q[i]
  BY SeqAppend
<1> HIDE DEF r, n
<1>2. /\ n + 1 \in 1..Len(r)
      /\ \A i \in 1..n : i \in 1..Len(r)
      /\ \A i \in 1..Len(r) : i \in 1..n \/ i = n + 1
      /\ \A k \in 1..n : \A j \in 1..(k - 1) : j \in 1..n
      /\ \A j \in 1..((n + 1) - 1) : j \in 1..n
      /\ \A j \in 1..n : j \in 1..((n + 1) - 1)
  BY <1>1
<1> QED
  BY <1>1, <1>2 DEF r, n

LEMMA TailIndex ==
    ASSUME NEW S, NEW q \in Seq(S), q # <<>>
    PROVE  LET r == Tail(q)
               n == Len(q)
           IN /\ n \in Nat \ {0} /\ Len(r) = n - 1 /\ Head(q) = q[1] /\ q[1] \in S /\ 1 \in 1..n
              /\ r \in Seq(S)
              /\ \A i \in 1..Len(r) : i + 1 \in 1..n /\ r[i] = q[i + 1]
              /\ \A i \in 1..n : i = 1 \/ (i - 1 \in 1..Len(r) /\ r[i - 1] = q[i])
              /\ \A k \in 1..Len(r) : \A j \in 1..(k - 1) : j \in 1..Len(r) /\ j + 1 \in 1..((k + 1) - 1)
              /\ \A k \in 1..n : \A j \in 1..(k - 1) :
                    j \in 1..n /\ (j = 1 \/ j - 1 \in 1..((k - 1) - 1))
              /\ \A k \in 1..n : k # 1 => 1 \in 1..(k - 1)
              /\ \A k \in 1..n : \A j \in 1..((k - 1) - 1) : j + 1 \in 1..(k - 1) /\ j \in 1..Len(r)
<1> DEFINE r == Tail(q)
           n == Len(q)
<1>1. /\ n \in Nat \ {0} /\ Len(r) = n - 1 /\ Head(q) = q[1] /\ q[1] \in S /\ r \in Seq(S)
      /\ \A i \in 1..(n - 1) : r[i] = q[i + 1]
  BY SeqTail
<1> HIDE DEF r, n
<1>2. /\ 1 \in 1..n
      /\ \A i \in 1..Len(r) : i \in 1..(n - 1) /\ i + 1 \in 1..n
      /\ \A i \in 1..n : i = 1 \/ (i - 1 \in 1..(n - 1) /\ i - 1 \in 1..Len(r) /\ (i - 1) + 1 = i)
  BY <1>1
<1>3. /\ \A k \in 1..Len(r) : \A j \in 1..(k - 1) : j \in 1..Len(r) /\ j + 1 \in 1..((k + 1) - 1)
      /\ \A k \in 1..n : \A j \in 1..(k - 1) :
            j \in 1..n /\ (j = 1 \/ j - 1 \in 1..((k - 1) - 1))
  BY <1>1
<1>4. /\ \A k \in 1..n : k # 1 => 1 \in 1..(k - 1)
      /\ \A k \in 1..n : \A j \in 1..((k - 1) - 1) : j + 1 \in 1..(k - 1) /\ j \in 1..Len(r)
  BY <1>1
<1>5. /\ \A i \in 1..Len(r) : r[i] = q[i + 1]
      /\ \A i \in 1..n : i = 1 \/ r[i - 1] = q[i]
  <2>1. \A i \in 1..n : i = 1 \/ r[i - 1] = q[(i - 1) + 1]
    BY <1>1, <1>2
  <2> QED
    BY <1>1, <1>2, <2>1
<1> QED
  BY <1>1, <1>2, <1>3, <1>4, <1>5 DEF r, n

LEMMA HasMore ==
    ASSUME NEW q \in Seq(Message), NEW x \in Message, NEW types
    PROVE  Has(Append(q, x), types) <=> Has(q, types) \/ x.type \in types
<1> DEFINE r == Append(q, x)
           n == Len(q)
<1>1. /\ n \in Nat /\ Len(r) = n + 1 /\ r[n + 1] = x /\ n + 1 \in 1..Len(r)
      /\ \A i \in 1..n : i \in 1..Len(r) /\ r[i] = q[i]
      /\ \A i \in 1..Len(r) : i \in 1..n \/ i = n + 1
  BY AppendIndex
<1>2. /\ Has(r, types) <=> \E i \in 1..Len(r) : r[i].type \in types
      /\ Has(q, types) <=> \E i \in 1..n : q[i].type \in types
  BY DEF Has
<1> HIDE DEF r, n
<1>3. Has(r, types) <=> Has(q, types) \/ x.type \in types
  BY <1>1, <1>2
<1> QED
  BY <1>3 DEF r

LEMMA HasRest ==
    ASSUME NEW q \in Seq(Message), q # <<>>, NEW types
    PROVE  Has(q, types) <=> Head(q).type \in types \/ Has(Tail(q), types)
<1> DEFINE r == Tail(q)
           n == Len(q)
           h == Head(q)
<1>1. /\ h = q[1] /\ 1 \in 1..n
      /\ \A i \in 1..Len(r) : i + 1 \in 1..n /\ r[i] = q[i + 1]
      /\ \A i \in 1..n : i = 1 \/ (i - 1 \in 1..Len(r) /\ r[i - 1] = q[i])
  BY TailIndex
<1>2. /\ Has(r, types) <=> \E i \in 1..Len(r) : r[i].type \in types
      /\ Has(q, types) <=> \E i \in 1..n : q[i].type \in types
  BY DEF Has
<1> HIDE DEF r, n, h
<1>3. Has(q, types) => h.type \in types \/ Has(r, types)
  BY <1>1, <1>2
<1>4. h.type \in types \/ Has(r, types) => Has(q, types)
  BY <1>1, <1>2
<1> QED
  BY <1>3, <1>4 DEF r, h

LEMMA HasNone == \A types : ~Has(<<>>, types)
BY DEF Has

LEMMA EndsMore ==
    ASSUME NEW q \in Seq(Message), NEW x \in Message, NEW begun \in BOOLEAN
    PROVE  Ends(Append(q, x), begun) <=>
              \/ Ends(q, begun)
              \/ x.type = "ready" /\ Begins(q, begun) /\ ~Has(q, {"error"})
<1> DEFINE r == Append(q, x)
           n == Len(q)
<1>1. /\ n \in Nat /\ Len(r) = n + 1 /\ r[n + 1] = x /\ n + 1 \in 1..Len(r)
      /\ \A i \in 1..n : i \in 1..Len(r) /\ r[i] = q[i]
      /\ \A i \in 1..Len(r) : i \in 1..n \/ i = n + 1
      /\ \A k \in 1..n : \A j \in 1..(k - 1) : j \in 1..n
      /\ \A j \in 1..((n + 1) - 1) : j \in 1..n
      /\ \A j \in 1..n : j \in 1..((n + 1) - 1)
  BY AppendIndex
<1> DEFINE At(s, k) == /\ s[k].type = "ready"
                       /\ begun \/ \E j \in 1..(k - 1) : s[j].type = "busy"
                       /\ \A j \in 1..(k - 1) : s[j].type # "error"
<1>2. /\ Ends(r, begun) <=> \E k \in 1..Len(r) : At(r, k)
      /\ Ends(q, begun) <=> \E k \in 1..n : At(q, k)
  BY DEF Ends
<1>3. Begins(q, begun) <=> begun \/ \E j \in 1..n : q[j].type = "busy"
  BY DEF Begins, Has
<1>4. Has(q, {"error"}) <=> \E j \in 1..n : q[j].type = "error"
  BY DEF Has
<1> HIDE DEF r, n
<1>5. \A k \in 1..n : At(r, k) <=> At(q, k)
  <2> TAKE k \in 1..n
  <2>1. r[k] = q[k] /\ \A j \in 1..(k - 1) : r[j] = q[j]
    BY <1>1
  <2> QED
    BY <2>1
<1>6. At(r, n + 1) <=> x.type = "ready" /\ Begins(q, begun) /\ ~Has(q, {"error"})
  <2> DEFINE k == n + 1
  <2>1. /\ \A j \in 1..(k - 1) : j \in 1..n /\ r[j] = q[j]
        /\ \A j \in 1..n : j \in 1..(k - 1)
        /\ r[k] = x
    BY <1>1
  <2> HIDE DEF k
  <2>2. At(r, k) <=> x.type = "ready" /\ Begins(q, begun) /\ ~Has(q, {"error"})
    BY <1>3, <1>4, <2>1
  <2> QED
    BY <2>2 DEF k
<1> HIDE DEF At
<1>7. Ends(r, begun) <=> Ends(q, begun) \/ At(r, n + 1)
  BY <1>1, <1>2, <1>5
<1> QED
  BY <1>6, <1>7 DEF r

LEMMA EndsRest ==
    ASSUME NEW q \in Seq(Message), q # <<>>, NEW begun \in BOOLEAN
    PROVE  Ends(q, begun) <=>
              \/ Head(q).type = "ready" /\ begun
              \/ /\ Head(q).type # "error"
                 /\ Ends(Tail(q), begun \/ Head(q).type = "busy")
<1> DEFINE r == Tail(q)
           n == Len(q)
           h == Head(q)
           next == begun \/ h.type = "busy"
<1>1. /\ h = q[1] /\ 1 \in 1..n /\ n \in Nat
      /\ \A i \in 1..Len(r) : i + 1 \in 1..n /\ r[i] = q[i + 1]
      /\ \A i \in 1..n : i = 1 \/ (i - 1 \in 1..Len(r) /\ r[i - 1] = q[i])
      /\ \A k \in 1..n : \A j \in 1..(k - 1) :
            j \in 1..n /\ (j = 1 \/ j - 1 \in 1..((k - 1) - 1))
      /\ \A k \in 1..n : k # 1 => 1 \in 1..(k - 1)
      /\ \A k \in 1..n : \A j \in 1..((k - 1) - 1) : j + 1 \in 1..(k - 1) /\ j \in 1..Len(r)
  BY TailIndex
<1> DEFINE At(s, k, b) == /\ s[k].type = "ready"
                          /\ b \/ \E j \in 1..(k - 1) : s[j].type = "busy"
                          /\ \A j \in 1..(k - 1) : s[j].type # "error"
<1>2. /\ Ends(r, next) <=> \E k \in 1..Len(r) : At(r, k, next)
      /\ Ends(q, begun) <=> \E k \in 1..n : At(q, k, begun)
  BY DEF Ends
<1> HIDE DEF r, n, h
<1>3. At(q, 1, begun) <=> h.type = "ready" /\ begun
  <2>1. 1..(1 - 1) = {}
    OBVIOUS
  <2> QED
    BY <1>1, <2>1
<1>4. ASSUME NEW k \in 1..n, k # 1
      PROVE  At(q, k, begun) <=> h.type # "error" /\ At(r, k - 1, next)
  <2>1. /\ r[k - 1] = q[k] /\ 1 \in 1..(k - 1)
        /\ \A j \in 1..((k - 1) - 1) : j + 1 \in 1..(k - 1) /\ r[j] = q[j + 1]
        /\ \A j \in 1..(k - 1) : j = 1 \/ (j - 1 \in 1..((k - 1) - 1) /\ r[j - 1] = q[j])
    BY <1>1, <1>4
  <2>2. (\A j \in 1..(k - 1) : q[j].type # "error") <=>
           h.type # "error" /\ \A j \in 1..((k - 1) - 1) : r[j].type # "error"
    BY <1>1, <2>1
  <2>3. (\E j \in 1..(k - 1) : q[j].type = "busy") <=>
           h.type = "busy" \/ \E j \in 1..((k - 1) - 1) : r[j].type = "busy"
    BY <1>1, <2>1
  <2> QED
    BY <2>1, <2>2, <2>3
<1> HIDE DEF At, next
<1>5. (\E k \in 1..n : k # 1 /\ At(r, k - 1, next)) <=> Ends(r, next)
  <2>1. ASSUME NEW k \in 1..n, k # 1, At(r, k - 1, next) PROVE Ends(r, next)
    BY <1>1, <1>2, <2>1
  <2>2. ASSUME NEW i \in 1..Len(r), At(r, i, next) PROVE \E k \in 1..n : k # 1 /\ At(r, k - 1, next)
    <3>1. i + 1 \in 1..n /\ i + 1 # 1 /\ (i + 1) - 1 = i
      BY <1>1
    <3> QED
      BY <2>2, <3>1
  <2> QED
    BY <1>2, <2>1, <2>2
<1>6. Ends(q, begun) <=> At(q, 1, begun) \/ (h.type # "error" /\ Ends(r, next))
  BY <1>1, <1>2, <1>4, <1>5
<1> QED
  BY <1>3, <1>6 DEF r, h, next

LEMMA PromptMore ==
    ASSUME NEW q \in Seq(Message), NEW x \in Message
    PROVE  /\ ~Has(q, {"ready"}) /\ x.type = "ready" => OnePrompt(Append(q, x))
           /\ ~Has(q, {"ready"}) /\ x.type = "error" => ErrorFirst(Append(q, x))
           /\ ErrorFirst(q) => ErrorFirst(Append(q, x))
<1> DEFINE r == Append(q, x)
           n == Len(q)
<1>1. /\ n \in Nat /\ Len(r) = n + 1 /\ r[n + 1] = x /\ n + 1 \in 1..Len(r)
      /\ \A i \in 1..n : i \in 1..Len(r) /\ r[i] = q[i]
      /\ \A i \in 1..Len(r) : i \in 1..n \/ i = n + 1
      /\ \A k \in 1..n : \A j \in 1..(k - 1) : j \in 1..n
      /\ \A j \in 1..((n + 1) - 1) : j \in 1..n
  BY AppendIndex
<1>2. ~Has(q, {"ready"}) => \A j \in 1..n : q[j].type # "ready"
  BY DEF Has
<1>3. ErrorFirst(q) => \E i \in 1..n : /\ q[i].type = "error"
                                       /\ \A j \in 1..(i - 1) : q[j].type # "ready"
  BY DEF ErrorFirst
<1> HIDE DEF r, n
<1>4. \A j \in 1..Len(r) : ~(j > n + 1)
  BY <1>1
<1>5. ~Has(q, {"ready"}) /\ x.type = "ready" => OnePrompt(r)
  BY <1>1, <1>2, <1>4 DEF OnePrompt
<1>6. ~Has(q, {"ready"}) /\ x.type = "error" => ErrorFirst(r)
  BY <1>1, <1>2 DEF ErrorFirst
<1>7. ErrorFirst(q) => ErrorFirst(r)
  BY <1>1, <1>3 DEF ErrorFirst
<1> QED
  BY <1>5, <1>6, <1>7 DEF r

LEMMA PromptRest ==
    ASSUME NEW q \in Seq(Message), q # <<>>
    PROVE  /\ OnePrompt(q) /\ Head(q).type = "ready" => ~Has(Tail(q), Heeded)
           /\ OnePrompt(q) /\ Head(q).type # "ready" => OnePrompt(Tail(q))
           /\ ErrorFirst(q) /\ Head(q).type # "error" =>
                 Head(q).type # "ready" /\ ErrorFirst(Tail(q))
<1> DEFINE r == Tail(q)
           n == Len(q)
           h == Head(q)
<1>1. /\ h = q[1] /\ 1 \in 1..n /\ n \in Nat
      /\ \A i \in 1..Len(r) : i + 1 \in 1..n /\ r[i] = q[i + 1]
      /\ \A i \in 1..n : i = 1 \/ (i - 1 \in 1..Len(r) /\ r[i - 1] = q[i])
      /\ \A k \in 1..n : k # 1 => 1 \in 1..(k - 1)
      /\ \A k \in 1..n : \A j \in 1..((k - 1) - 1) : j + 1 \in 1..(k - 1) /\ j \in 1..Len(r)
  BY TailIndex
<1>2. OnePrompt(q) => \E i \in 1..n : /\ q[i].type = "ready"
                                      /\ \A j \in 1..(i - 1) : q[j].type # "ready"
                                      /\ \A j \in 1..n : j > i => q[j].type \notin Heeded
  BY DEF OnePrompt
<1>3. ErrorFirst(q) => \E i \in 1..n : /\ q[i].type = "error"
                                       /\ \A j \in 1..(i - 1) : q[j].type # "ready"
  BY DEF ErrorFirst
<1> HIDE DEF r, n, h
<1>4. /\ \A i \in 1..Len(r) : i + 1 > 1
      /\ \A i \in 1..n : \A j \in 1..Len(r) : j > i - 1 => j + 1 > i
  BY <1>1
<1>5. ASSUME OnePrompt(q), h.type = "ready" PROVE ~Has(r, Heeded)
  <2>1. PICK i \in 1..n : /\ q[i].type = "ready"
                          /\ \A j \in 1..(i - 1) : q[j].type # "ready"
                          /\ \A j \in 1..n : j > i => q[j].type \notin Heeded
    BY <1>2, <1>5
  <2>2. i = 1
    BY <1>1, <1>5, <2>1
  <2> QED
    BY <1>1, <1>4, <2>1, <2>2 DEF Has
<1>6. ASSUME OnePrompt(q), h.type # "ready" PROVE OnePrompt(r)
  <2>1. PICK i \in 1..n : /\ q[i].type = "ready"
                          /\ \A j \in 1..(i - 1) : q[j].type # "ready"
                          /\ \A j \in 1..n : j > i => q[j].type \notin Heeded
    BY <1>2, <1>6
  <2>2. i - 1 \in 1..Len(r) /\ r[i - 1].type = "ready"
    BY <1>1, <1>6, <2>1
  <2>3. \A j \in 1..((i - 1) - 1) : r[j].type # "ready"
    BY <1>1, <2>1
  <2>4. \A j \in 1..Len(r) : j > i - 1 => r[j].type \notin Heeded
    BY <1>1, <1>4, <2>1
  <2> QED
    BY <2>2, <2>3, <2>4 DEF OnePrompt
<1>7. ASSUME ErrorFirst(q), h.type # "error" PROVE h.type # "ready" /\ ErrorFirst(r)
  <2>1. PICK i \in 1..n : q[i].type = "error" /\ \A j \in 1..(i - 1) : q[j].type # "ready"
    BY <1>3, <1>7
  <2>2. i # 1 /\ i - 1 \in 1..Len(r) /\ r[i - 1].type = "error" /\ 1 \in 1..(i - 1)
    BY <1>1, <1>7, <2>1
  <2>3. h.type # "ready"
    BY <1>1, <2>1, <2>2
  <2>4. \A j \in 1..((i - 1) - 1) : r[j].type # "ready"
    BY <1>1, <2>1
  <2> QED
    BY <2>2, <2>3, <2>4 DEF ErrorFirst
<1> QED
  BY <1>5, <1>6, <1>7 DEF r, h

-----------------------------------------------------------------------------
(* The wait for the link expression ends with success only when it has been *)
(* executed without an error.                                               *)

\* What waitForExecuteCompletion has read, has in its channel, and will receive.
BegunInChannel == Begins(subscription, sawBusyPrompt)
BegunInAll     == Begins(line, BegunInChannel)
ErrorInChannel == Has(subscription, {"error"})
ErrorInAll     == ErrorInChannel \/ Has(line, {"error"})
EndsInAll      == \/ Ends(subscription, sawBusyPrompt)
                  \/ ~ErrorInChannel /\ Ends(line, BegunInChannel)

Completed(id) == id \in ended \ failed

\* What the wait relies on: only the link expression is under way, a busy prompt
\* that is still to be read is of it unless the interpreter was busy before, and
\* an error of it is still to be read.
Undisturbed ==
    /\ Queued \subseteq {current} /\ (greeted \/ running = None)
    /\ running \in {None, Other, current}
    /\ ~greeted => ~BegunInAll
    /\ BegunInAll => running \in {None, current}
    /\ current \in failed => ErrorInAll
    /\ EndsInAll => Completed(current)

LinkInv ==
    /\ main \in {"idle", "link"} => ~sawBusyPrompt
    /\ main \in {"link", "wait"} => autoLink
    /\ main = "launch" /\ ~autoLink => current = None
    /\ main = "wait" /\ clean => Undisturbed
    /\ LinkCompleted

LEMMA LineTyped ==
    ASSUME TypeOK
    PROVE  /\ line \in Seq(Message) /\ subscription \in Seq(Message)
           /\ sawBusyPrompt \in BOOLEAN /\ BegunInChannel \in BOOLEAN
BY DEF TypeOK, BegunInChannel, Begins

\* One more message on the line.
LEMMA OneMore ==
    ASSUME TypeOK, NEW m \in Message, Emit(<<m>>), UNCHANGED <<subscription, sawBusyPrompt>>
    PROVE  /\ BegunInAll' <=> BegunInAll \/ m.type = "busy"
           /\ ErrorInAll' <=> ErrorInAll \/ m.type = "error"
           /\ EndsInAll' <=> EndsInAll \/ (m.type = "ready" /\ BegunInAll /\ ~ErrorInAll)
<1>1. line' = Append(line, m)
  BY LineTyped, AppendIsConcat DEF Emit
<1>2. /\ Has(line', {"busy"}) <=> Has(line, {"busy"}) \/ m.type = "busy"
      /\ Has(line', {"error"}) <=> Has(line, {"error"}) \/ m.type = "error"
  BY <1>1, LineTyped, HasMore
<1>3. Ends(line', BegunInChannel) <=>
         \/ Ends(line, BegunInChannel)
         \/ m.type = "ready" /\ Begins(line, BegunInChannel) /\ ~Has(line, {"error"})
  BY <1>1, LineTyped, EndsMore
<1>4. BegunInChannel' = BegunInChannel /\ ErrorInChannel' = ErrorInChannel
  BY DEF BegunInChannel, ErrorInChannel, Begins, Has
<1>5. Ends(subscription, sawBusyPrompt)' = Ends(subscription, sawBusyPrompt)
  BY DEF Ends
<1>6. Ends(line, BegunInChannel)' <=> Ends(line', BegunInChannel)
  BY <1>4 DEF Ends
<1>7. Begins(line, BegunInChannel)' <=> BegunInChannel \/ Has(line', {"busy"})
  BY <1>4 DEF Begins, Has
<1>8. Has(line, {"error"})' <=> Has(line', {"error"})
  BY DEF Has
<1> QED
  BY <1>2, <1>3, <1>4, <1>5, <1>6, <1>7, <1>8 DEF BegunInAll, ErrorInAll, EndsInAll, Begins

\* What main receives and what it reads takes nothing away from what is to come.
LEMMA ReceivedSame ==
    ASSUME TypeOK, Receive, main = "wait"
    PROVE  /\ BegunInAll' <=> BegunInAll
           /\ ErrorInAll' <=> ErrorInAll
           /\ EndsInAll' <=> EndsInAll
<1> DEFINE h == Head(line)
<1>1. /\ line # <<>> /\ h \in Message /\ line' = Tail(line) /\ sawBusyPrompt' = sawBusyPrompt
      /\ subscription' = IF h.type \in Heeded THEN Append(subscription, h) ELSE subscription
  BY LineTyped DEF Receive, Subscribed
<1>2. /\ Has(line, {"busy"}) <=> h.type = "busy" \/ Has(line', {"busy"})
      /\ Has(line, {"error"}) <=> h.type = "error" \/ Has(line', {"error"})
  BY <1>1, LineTyped, HasRest
<1>3. \A b \in BOOLEAN :
         Ends(line, b) <=>
            \/ h.type = "ready" /\ b
            \/ h.type # "error" /\ Ends(line', b \/ h.type = "busy")
  BY <1>1, LineTyped, EndsRest
<1> HIDE DEF h
<1>4. /\ Has(line, {"error"})' <=> Has(line', {"error"})
      /\ Begins(line, BegunInChannel)' <=> BegunInChannel' \/ Has(line', {"busy"})
      /\ Begins(line, BegunInChannel) <=> BegunInChannel \/ Has(line, {"busy"})
  BY DEF Begins, Has
<1>5. CASE h.type \in Heeded
  <2>1. subscription' = Append(subscription, h)
    BY <1>1, <1>5
  <2>2. /\ Has(subscription', {"busy"}) <=> Has(subscription, {"busy"}) \/ h.type = "busy"
        /\ Has(subscription', {"error"}) <=> Has(subscription, {"error"}) \/ h.type = "error"
    BY <1>1, <2>1, LineTyped, HasMore
  <2>3. Ends(subscription', sawBusyPrompt) <=>
           \/ Ends(subscription, sawBusyPrompt)
           \/ h.type = "ready" /\ BegunInChannel /\ ~ErrorInChannel
    BY <1>1, <2>1, LineTyped, EndsMore DEF BegunInChannel, ErrorInChannel
  <2>4. BegunInChannel' <=> BegunInChannel \/ h.type = "busy"
    BY <1>1, <2>2 DEF BegunInChannel, Begins, Has
  <2>5. ErrorInChannel' <=> ErrorInChannel \/ h.type = "error"
    BY <2>2 DEF ErrorInChannel, Has
  <2>6. Ends(line, BegunInChannel)' <=> Ends(line', BegunInChannel \/ h.type = "busy")
    <3>1. BegunInChannel' = (BegunInChannel \/ h.type = "busy")
      BY <2>4 DEF BegunInChannel, Begins
    <3> QED
      BY <3>1 DEF Ends
  <2>7. Ends(subscription, sawBusyPrompt)' <=> Ends(subscription', sawBusyPrompt)
    BY <1>1 DEF Ends
  <2>8. Ends(line, BegunInChannel) <=>
            \/ h.type = "ready" /\ BegunInChannel
            \/ h.type # "error" /\ Ends(line', BegunInChannel \/ h.type = "busy")
    BY <1>3, LineTyped
  <2> QED
    BY <1>2, <1>4, <2>3, <2>4, <2>5, <2>6, <2>7, <2>8 DEF BegunInAll, ErrorInAll, EndsInAll
<1>6. CASE h.type \notin Heeded
  <2>1. subscription' = subscription
    BY <1>1, <1>6
  <2>2. h.type \notin {"busy", "ready", "error"}
    BY <1>6 DEF Heeded
  <2>3. BegunInChannel' = BegunInChannel /\ ErrorInChannel' = ErrorInChannel
    BY <1>1, <2>1 DEF BegunInChannel, ErrorInChannel, Begins, Has
  <2>4. /\ Ends(line, BegunInChannel)' <=> Ends(line', BegunInChannel)
        /\ Ends(subscription, sawBusyPrompt)' <=> Ends(subscription, sawBusyPrompt)
    BY <1>1, <2>1, <2>3 DEF Ends
  <2>5. (BegunInChannel \/ h.type = "busy") = BegunInChannel
    BY <2>2, LineTyped
  <2>6. Ends(line, BegunInChannel) <=> Ends(line', BegunInChannel)
    BY <1>3, <2>2, <2>5, LineTyped
  <2> QED
    BY <1>2, <1>4, <2>2, <2>3, <2>4, <2>6 DEF BegunInAll, ErrorInAll, EndsInAll
<1> QED
  BY <1>5, <1>6

LEMMA ReadSame ==
    ASSUME TypeOK, subscription # <<>>, line' = line,
           subscription' = Tail(subscription),
           Head(subscription).type # "error", ~Completes(Head(subscription)),
           sawBusyPrompt' = (sawBusyPrompt \/ Head(subscription).type = "busy")
    PROVE  /\ BegunInAll' <=> BegunInAll
           /\ ErrorInAll' <=> ErrorInAll
           /\ EndsInAll' <=> EndsInAll
<1> DEFINE h == Head(subscription)
<1>1. /\ Has(subscription, {"busy"}) <=> h.type = "busy" \/ Has(subscription', {"busy"})
      /\ Has(subscription, {"error"}) <=> h.type = "error" \/ Has(subscription', {"error"})
  BY LineTyped, HasRest
<1>2. Ends(subscription, sawBusyPrompt) <=>
         \/ h.type = "ready" /\ sawBusyPrompt
         \/ h.type # "error" /\ Ends(subscription', sawBusyPrompt \/ h.type = "busy")
  BY LineTyped, EndsRest
<1>3. h.type # "error" /\ ~(h.type = "ready" /\ sawBusyPrompt)
  BY DEF Completes
<1> HIDE DEF h
<1>4. BegunInChannel' = BegunInChannel
  <2>1. BegunInChannel' <=> sawBusyPrompt \/ h.type = "busy" \/ Has(subscription', {"busy"})
    BY DEF BegunInChannel, Begins, Has, h
  <2> QED
    BY <1>1, <2>1 DEF BegunInChannel, Begins
<1>5. ErrorInChannel' = ErrorInChannel
  BY <1>1, <1>3 DEF ErrorInChannel, Has
<1>6. Ends(subscription, sawBusyPrompt)' <=> Ends(subscription, sawBusyPrompt)
  <2>1. Ends(subscription, sawBusyPrompt)' <=> Ends(subscription', sawBusyPrompt \/ h.type = "busy")
    BY DEF Ends, h
  <2> QED
    BY <1>2, <1>3, <2>1
<1>7. /\ Ends(line, BegunInChannel)' <=> Ends(line, BegunInChannel)
      /\ Begins(line, BegunInChannel)' <=> Begins(line, BegunInChannel)
      /\ Has(line, {"error"})' <=> Has(line, {"error"})
  BY <1>4 DEF Ends, Begins, Has
<1> QED
  BY <1>5, <1>6, <1>7 DEF BegunInAll, ErrorInAll, EndsInAll

\* An Execute that is completed stays so.
LEMMA CompletedStays ==
    ASSUME TypeOK, Once, [Next]_vars
    PROVE  \A id \in Ids : Completed(id) => Completed(id)'
<1>1. ASSUME ended \subseteq ended', failed' = failed
      PROVE  \A id \in Ids : Completed(id) => Completed(id)'
  BY <1>1 DEF Completed
<1>2. CASE Error
  <2>1. ended' = ended /\ failed' = failed \cup ({running} \cap Ids) /\ running \notin ended
    BY <1>2 DEF Error, Once
  <2> QED
    BY <2>1 DEF Completed
<1>3. CASE Greet \/ Start \/ StartOther \/ Finish \/ Disconnect
  BY <1>1, <1>3 DEF Greet, Start, StartOther, Finish, Disconnect, history
<1>4. CASE Receive \/ MainStep \/ HandlePayload \/ Reconnect
  BY <1>1, <1>4 DEF MainStep, Receive, Refuse, ConfigurationDone, SendLink, WaitLink,
     LinkTimesOut, SendLaunch, Evaluate, SendExecute, GetResult, EvaluateTimesOut,
     ForgetEvaluate, HandlePayload, Reconnect, history
<1>5. CASE UNCHANGED vars
  BY <1>1, <1>5 DEF vars, history
<1> QED
  BY <1>2, <1>3, <1>4, <1>5 DEF Next, Interpreter

LEMMA LinkKept ==
    ASSUME TypeOK, Once, LinkInv, [Next]_vars,
           UNCHANGED <<main, current, reply, autoLink, sawBusyPrompt>>, clean' => clean,
           main = "wait" /\ clean /\ Undisturbed => Undisturbed'
    PROVE  LinkInv'
<1>1. current \in Ids \cup {None} /\ reply.id \in Ids \cup {None} /\ None \notin Ids
  BY IdsTyped DEF TypeOK, Reply
<1>2. \A id \in Ids : Completed(id) => Completed(id)'
  BY CompletedStays
<1>3. Completed(current) => Completed(current)'
  BY <1>1, <1>2 DEF Completed, TypeOK
<1>4. Completed(reply.id) => Completed(reply.id)'
  BY <1>1, <1>2 DEF Completed, TypeOK
<1>5. LinkCompleted'
  BY <1>3, <1>4 DEF LinkInv, LinkCompleted, Completed
<1> QED
  BY <1>5 DEF LinkInv

\* What the interpreter does while main waits for the link expression.
LEMMA LinkInterpreter ==
    ASSUME TypeOK, Once, LinkInv, Interpreter
    PROVE  LinkInv'
<1>1. /\ UNCHANGED <<main, current, reply, autoLink, subscription, sawBusyPrompt, held>>
  BY DEF Interpreter, Greet, Start, StartOther, Error, Finish, Disconnect, Adapter, waiting, config
<1>2. [Next]_vars
  BY DEF Next
<1>3. ASSUME clean' = clean, main = "wait", clean, Undisturbed PROVE Undisturbed'
  <2> USE <1>3 DEF Undisturbed
  <2>1. CASE Greet
    <3>1. /\ ~greeted /\ running = None /\ greeted' = TRUE /\ Emit(<<M("ready")>>)
          /\ UNCHANGED <<wire, running, failed, ended>>
      BY <2>1 DEF Greet, history
    <3>2. /\ BegunInAll' <=> BegunInAll \/ M("ready").type = "busy"
          /\ ErrorInAll' <=> ErrorInAll \/ M("ready").type = "error"
          /\ EndsInAll' <=> EndsInAll \/ (M("ready").type = "ready" /\ BegunInAll /\ ~ErrorInAll)
      BY <1>1, <3>1, MessagesTyped, OneMore
    <3>3. M("ready").type = "ready"
      BY DEF M
    <3> QED
      BY <1>1, <3>1, <3>2, <3>3 DEF Queued, Completed
  <2>2. CASE Start
    <3>1. Emit(<<M("busy")>>) /\ UNCHANGED <<failed, ended, greeted>> /\ greeted
      BY <2>2 DEF Start, history
    <3>2. /\ ErrorInAll' <=> ErrorInAll \/ M("busy").type = "error"
          /\ EndsInAll' <=> EndsInAll \/ (M("busy").type = "ready" /\ BegunInAll /\ ~ErrorInAll)
      BY <1>1, <3>1, MessagesTyped, OneMore
    <3>3. M("busy").type = "busy"
      BY DEF M
    <3>4. Queued = Queued' \cup {running'}
      BY <2>2, StartTakes DEF Queued
    <3> QED
      BY <1>1, <3>1, <3>2, <3>3, <3>4 DEF Completed
  <2>3. CASE StartOther
    BY <2>3 DEF StartOther
  <2>4. CASE Error
    <3>1. /\ Emit(<<M("error")>>) /\ UNCHANGED <<wire, running, ended, greeted>>
          /\ failed' = failed \cup ({running} \cap Ids)
      BY <2>4 DEF Error
    <3>2. /\ BegunInAll' <=> BegunInAll \/ M("error").type = "busy"
          /\ ErrorInAll' <=> ErrorInAll \/ M("error").type = "error"
          /\ EndsInAll' <=> EndsInAll \/ (M("error").type = "ready" /\ BegunInAll /\ ~ErrorInAll)
      BY <1>1, <3>1, MessagesTyped, OneMore
    <3>3. M("error").type = "error"
      BY DEF M
    <3>4. running \notin ended
      BY DEF Once
    <3> QED
      BY <1>1, <3>1, <3>2, <3>3, <3>4 DEF Queued, Completed
  <2>5. CASE Finish
    <3> DEFINE o == [type |-> "output", of |-> running]
               r == M("ready")
    <3>1. /\ Emit(<<o, r>>) /\ UNCHANGED <<wire, failed, greeted>> /\ running # None /\ running' = None
          /\ ended' = ended \cup ({running} \cap Ids)
      BY <2>5 DEF Finish
    <3>2. o \in Message /\ r \in Message /\ o.type = "output" /\ r.type = "ready"
      BY <3>1, MessagesTyped DEF M, TypeOK
    <3> HIDE DEF o, r
    <3>3. line' = Append(Append(line, o), r)
      BY <3>1, <3>2, LineTyped DEF Emit
    <3>4. /\ BegunInAll' <=> BegunInAll
          /\ ErrorInAll' <=> ErrorInAll
          /\ EndsInAll' <=> EndsInAll \/ (BegunInAll /\ ~ErrorInAll)
      <4> DEFINE l == Append(line, o)
      <4>1. l \in Seq(Message)
        BY <3>2, LineTyped, SeqAppend
      <4>2. /\ Has(l, {"busy"}) <=> Has(line, {"busy"})
            /\ Has(l, {"error"}) <=> Has(line, {"error"})
        BY <3>2, LineTyped, HasMore
      <4>3. Ends(l, BegunInChannel) <=> Ends(line, BegunInChannel)
        BY <3>2, LineTyped, EndsMore
      <4> HIDE DEF l
      <4>4. line' = Append(l, r)
        BY <3>3 DEF l
      <4>5. /\ Has(line', {"busy"}) <=> Has(l, {"busy"})
            /\ Has(line', {"error"}) <=> Has(l, {"error"})
        BY <3>2, <4>1, <4>4, HasMore
      <4>6. Ends(line', BegunInChannel) <=>
               Ends(l, BegunInChannel) \/ (Begins(l, BegunInChannel) /\ ~Has(l, {"error"}))
        BY <3>2, <4>1, <4>4, LineTyped, EndsMore
      <4>7. BegunInChannel' = BegunInChannel /\ ErrorInChannel' = ErrorInChannel
        BY <1>1 DEF BegunInChannel, ErrorInChannel, Begins, Has
      <4>8. /\ Ends(subscription, sawBusyPrompt)' <=> Ends(subscription, sawBusyPrompt)
            /\ Ends(line, BegunInChannel)' <=> Ends(line', BegunInChannel)
        BY <1>1, <4>7 DEF Ends
      <4>9. /\ Begins(line, BegunInChannel)' <=> BegunInChannel \/ Has(line', {"busy"})
            /\ Has(line, {"error"})' <=> Has(line', {"error"})
        BY <4>7 DEF Begins, Has
      <4> QED
        BY <4>2, <4>3, <4>5, <4>6, <4>7, <4>8, <4>9
           DEF BegunInAll, ErrorInAll, EndsInAll, Begins
    <3>5. current \in Ids \cup {None}
      BY DEF TypeOK
    <3>6. EndsInAll' => Completed(current)'
      <4>1. CASE EndsInAll
        BY <1>1, <3>1, <4>1 DEF Completed
      <4>2. CASE BegunInAll /\ ~ErrorInAll
        BY <1>1, <3>1, <3>5, <4>2 DEF Completed
      <4> QED
        BY <3>4, <4>1, <4>2
    <3> QED
      BY <1>1, <3>1, <3>4, <3>6 DEF Queued, Completed
  <2>6. CASE Disconnect
    <3>1. Emit(<<M("fatal")>>) /\ UNCHANGED <<wire, running, failed, ended, greeted>>
      BY <2>6 DEF Disconnect, history
    <3>2. /\ BegunInAll' <=> BegunInAll \/ M("fatal").type = "busy"
          /\ ErrorInAll' <=> ErrorInAll \/ M("fatal").type = "error"
          /\ EndsInAll' <=> EndsInAll \/ (M("fatal").type = "ready" /\ BegunInAll /\ ~ErrorInAll)
      BY <1>1, <3>1, MessagesTyped, OneMore
    <3>3. M("fatal").type = "fatal"
      BY DEF M
    <3> QED
      BY <1>1, <3>1, <3>2, <3>3 DEF Queued, Completed
  <2> QED
    BY <2>1, <2>2, <2>3, <2>4, <2>5, <2>6 DEF Interpreter
<1>4. clean' = clean \/ clean' = FALSE
  BY DEF Interpreter, Greet, Start, StartOther, Error, Finish, Disconnect
<1>5. CASE clean' = clean
  BY <1>1, <1>2, <1>3, <1>5, LinkKept
<1>6. CASE clean' = FALSE
  <2>1. LinkCompleted'
    <3>1. reply.id \in Ids \cup {None} /\ None \notin Ids /\ reply' = reply
      BY <1>1, IdsTyped DEF TypeOK, Reply
    <3>2. reply.id \in Ids /\ Completed(reply.id) => Completed(reply.id)'
      BY <1>2, <3>1, CompletedStays DEF Completed
    <3>3. Completed(reply.id) => reply.id \in Ids
      BY DEF Completed, TypeOK
    <3> QED
      BY <1>1, <1>6, <3>1, <3>2, <3>3 DEF LinkInv, LinkCompleted, Completed
  <2> QED
    BY <1>1, <1>6, <2>1 DEF LinkInv
<1> QED
  BY <1>4, <1>5, <1>6

\* The link expression is sent: what disturbed the wait would have been seen.
LEMMA LinkSends ==
    ASSUME TypeOK, Once, LinkInv, main = "link", LinkSent("wait"),
           UNCHANGED <<autoLink, greeted, running, line, ended, failed>>
    PROVE  LinkInv'
<1>1. /\ Accepted /\ current' = sent' /\ clean' = LinkUndisturbed /\ main' = "wait"
      /\ reply' = NoReply /\ UNCHANGED <<subscription, sawBusyPrompt>> /\ ~sawBusyPrompt
      /\ autoLink
  BY DEF LinkSent, GoTo, LinkInv
<1>2. ASSUME LinkUndisturbed PROVE Undisturbed'
  <2>1. Queued = {}
    BY <1>2 DEF LinkUndisturbed, Queued, Range
  <2>2. Queued' = {current'} /\ sent \in Nat /\ current' = sent + 1 /\ current' \in Ids
    BY <1>1, <2>1, AcceptedQueued
  <2>3. \A m \in Range(line) \cup Range(subscription) : m.type # "busy"
    BY <1>2 DEF LinkUndisturbed
  <2>4. ASSUME NEW q \in Seq(Message), \A m \in Range(q) : m.type # "busy"
        PROVE  ~Has(q, {"busy"}) /\ ~Ends(q, FALSE)
    <3>1. DOMAIN q = 1..Len(q) /\ Len(q) \in Nat
      OBVIOUS
    <3>2. \A i \in 1..Len(q) : q[i].type # "busy"
      BY <2>4, <3>1 DEF Range
    <3>3. \A k \in 1..Len(q) : \A j \in 1..(k - 1) : j \in 1..Len(q)
      BY <3>1
    <3> QED
      BY <3>2, <3>3 DEF Has, Ends
  <2>5. /\ ~Has(subscription, {"busy"}) /\ ~Has(line, {"busy"})
        /\ ~Ends(subscription, FALSE) /\ ~Ends(line, FALSE)
    BY <2>3, <2>4, LineTyped
  <2>6. ~BegunInChannel' /\ sawBusyPrompt' = FALSE
    BY <1>1, <2>5, LineTyped DEF BegunInChannel, Begins, Has
  <2>7. BegunInChannel' = FALSE
    BY <2>6 DEF BegunInChannel, Begins
  <2>8. ~BegunInAll' /\ ~EndsInAll'
    BY <1>1, <2>5, <2>6, <2>7 DEF BegunInAll, EndsInAll, Begins, Has, Ends
  <2>9. current' \notin failed
    <3>1. \A id \in ended : id \in Nat /\ id <= sent
      BY IdsTyped DEF Once, TypeOK
    <3>2. current' \notin ended
      BY <2>2, <3>1
    <3>3. running \in {None, Other} /\ None \notin Ids /\ Other \notin Ids
      BY <1>2, IdsTyped DEF LinkUndisturbed
    <3> QED
      BY <2>2, <3>2, <3>3 DEF Once
  <2> QED
    BY <1>2, <2>2, <2>8, <2>9 DEF LinkUndisturbed, Undisturbed
<1>3. LinkCompleted'
  BY <1>1 DEF LinkCompleted, NoReply
<1> QED
  BY <1>1, <1>2, <1>3 DEF LinkInv

\* main answers, or does what is not about the link expression.
LEMMA LinkElsewhere ==
    ASSUME UNCHANGED <<autoLink, ended, failed>>, main' \notin {"link", "wait", "launch"},
           main' = "idle" => sawBusyPrompt' = FALSE,
           reply'.to = "configurationDone" /\ reply'.success /\ reply'.clean /\ reply'.id # None =>
              Completed(reply'.id)
    PROVE  LinkInv'
BY DEF LinkInv, LinkCompleted, Completed

LEMMA LinkStep ==
    ASSUME TypeOK, Once, NoneAwaited, LinkInv, [Next]_vars
    PROVE  LinkInv'
<1>1. CASE Interpreter
  BY <1>1, LinkInterpreter
<1>2. CASE Receive
  <2>1. /\ UNCHANGED <<main, current, reply, autoLink, sawBusyPrompt, clean, greeted, running,
                       ended, failed>>
        /\ Queued' \subseteq Queued
    BY <1>2, ReceiveQueued DEF Receive, config, history
  <2>2. ASSUME main = "wait", Undisturbed PROVE Undisturbed'
    BY <1>2, <2>1, <2>2, ReceivedSame DEF Undisturbed, Completed
  <2> QED
    BY <2>1, <2>2, LinkKept
<1>3. CASE Refuse
  BY <1>3, LinkElsewhere DEF Refuse, Fail, Answer, outside, config, history
<1>4. CASE ConfigurationDone
  <2>1. main = "idle" /\ current = None /\ UNCHANGED <<autoLink, ended, failed>>
    BY <1>4 DEF ConfigurationDone, Request, NoneAwaited, outside, config, history
  <2>2. CASE Answer("configurationDone", TRUE, <<>>)
    BY <2>1, <2>2, LinkElsewhere DEF Answer
  <2>3. CASE GoTo(IF autoLink THEN "link" ELSE "launch") /\ UNCHANGED <<current, clean>>
    <3>1. /\ main' = (IF autoLink THEN "link" ELSE "launch") /\ reply' = NoReply
          /\ UNCHANGED <<sawBusyPrompt, current, clean>>
      BY <2>3 DEF GoTo
    <3>2. LinkCompleted'
      BY <2>1, <3>1 DEF LinkCompleted, NoReply
    <3> QED
      BY <2>1, <3>1, <3>2 DEF LinkInv
  <2> QED
    BY <1>4, <2>2, <2>3 DEF ConfigurationDone
<1>5. CASE SendLink
  <2>1. main = "link" /\ UNCHANGED <<autoLink, greeted, running, line, ended, failed>>
    BY <1>5 DEF SendLink, outside, config, interpreter
  <2>2. CASE LinkSent("wait")
    BY <2>1, <2>2, LinkSends
  <2>3. CASE Fail("configurationDone")
    BY <2>1, <2>3, LinkElsewhere DEF Fail, Answer
  <2> QED
    BY <1>5, <2>2, <2>3 DEF SendLink
<1>6. CASE WaitLink
  <2> DEFINE m == Head(subscription)
  <2>1. /\ main = "wait" /\ subscription # <<>> /\ autoLink
        /\ UNCHANGED <<autoLink, greeted, running, line, ended, failed, wire, held>>
    BY <1>6 DEF WaitLink, outside, config, interpreter, queues, history, LinkInv
  <2>2. ASSUME Completes(m), clean PROVE Completed(current)
    <3>1. Ends(subscription, sawBusyPrompt)
      BY <2>1, <2>2, LineTyped, EndsRest DEF Completes
    <3> QED
      BY <2>1, <2>2, <3>1 DEF LinkInv, Undisturbed, EndsInAll
  <2>3. CASE Fail("configurationDone")
    BY <2>1, <2>3, LinkElsewhere DEF Fail, Answer
  <2>4. CASE /\ Completes(m)
             /\ main' = "launch" /\ subscription' = <<>> /\ sawBusyPrompt' = FALSE
             /\ UNCHANGED <<current, launchRan, reply, clean>>
    <3>1. LinkCompleted'
      BY <2>1, <2>2, <2>4 DEF LinkInv, LinkCompleted, Completed
    <3> QED
      BY <2>1, <2>4, <3>1 DEF LinkInv
  <2>5. CASE Completes(m) /\ Answer("configurationDone", TRUE, <<>>)
    BY <2>1, <2>2, <2>5, LinkElsewhere DEF Answer
  <2>6. CASE /\ m.type # "error" /\ ~Completes(m) /\ subscription' = Tail(subscription)
             /\ sawBusyPrompt' = (sawBusyPrompt \/ m.type = "busy")
             /\ UNCHANGED <<main, current, launchRan, reply, clean>>
    <3>1. ASSUME Undisturbed PROVE Undisturbed'
      BY <2>1, <2>6, <3>1, ReadSame DEF Undisturbed, Completed, Queued
    <3>2. LinkCompleted'
      BY <2>1, <2>6 DEF LinkInv, LinkCompleted
    <3> QED
      BY <2>1, <2>6, <3>1, <3>2 DEF LinkInv
  <2> QED
    BY <1>6, <2>3, <2>4, <2>5, <2>6 DEF WaitLink
<1>7. CASE LinkTimesOut
  BY <1>7, LinkElsewhere DEF LinkTimesOut, Fail, Answer, outside, config, history
<1>8. CASE SendLaunch
  <2>1. main = "launch" /\ UNCHANGED <<autoLink, ended, failed>>
    BY <1>8 DEF SendLaunch, outside, config
  <2>2. clean /\ current # None => Completed(current)
    BY <2>1 DEF LinkInv, LinkCompleted, Completed, TypeOK
  <2>3. CASE Answer("configurationDone", TRUE, <<>>)
    BY <2>1, <2>2, <2>3, LinkElsewhere DEF Answer
  <2>4. CASE Fail("configurationDone")
    BY <2>1, <2>4, LinkElsewhere DEF Fail, Answer
  <2> QED
    BY <1>8, <2>3, <2>4 DEF SendLaunch
<1>9. CASE Evaluate
  BY <1>9, LinkElsewhere DEF Evaluate, GoTo, NoReply, outside, config, history
<1>10. CASE SendExecute
  <2>1. UNCHANGED <<autoLink, ended, failed>>
    BY <1>10 DEF SendExecute, outside, config, history
  <2>2. CASE GoTo("repl")
    BY <2>1, <2>2, LinkElsewhere DEF GoTo, NoReply
  <2>3. CASE Fail("evaluate")
    BY <2>1, <2>3, LinkElsewhere DEF Fail, Answer
  <2> QED
    BY <1>10, <2>2, <2>3 DEF SendExecute
<1>11. CASE GetResult
  BY <1>11, LinkElsewhere DEF GetResult, Answer, outside, config, history
<1>12. CASE EvaluateTimesOut
  BY <1>12, LinkElsewhere DEF EvaluateTimesOut, GoTo, NoReply, outside, config, history
<1>13. CASE ForgetEvaluate
  BY <1>13, LinkElsewhere DEF ForgetEvaluate, Fail, Answer, outside, config, history
<1>14. ASSUME UNCHANGED <<main, current, reply, autoLink, sawBusyPrompt, clean, greeted, running,
                          ended, failed, subscription, line, wire, held>>
       PROVE  LinkInv'
  <2>1. /\ BegunInChannel' = BegunInChannel /\ ErrorInAll' = ErrorInAll
        /\ ErrorInChannel' = ErrorInChannel /\ BegunInAll' = BegunInAll
    BY <1>14 DEF BegunInChannel, BegunInAll, ErrorInChannel, ErrorInAll, Begins, Has
  <2>2. EndsInAll' <=> EndsInAll
    BY <1>14, <2>1 DEF EndsInAll, Ends
  <2>3. Undisturbed => Undisturbed'
    BY <1>14, <2>1, <2>2 DEF Undisturbed, Queued, Completed
  <2> QED
    BY <1>14, <2>3 DEF LinkInv, LinkCompleted
<1>15. CASE HandlePayload \/ Reconnect \/ UNCHANGED vars
  BY <1>14, <1>15 DEF HandlePayload, Reconnect, vars, outside, config, interpreter, queues,
     waiting, history
<1> QED
  BY <1>1, <1>2, <1>3, <1>4, <1>5, <1>6, <1>7, <1>8, <1>9, <1>10, <1>11, <1>12, <1>13,
     <1>15, Steps

\* executeRuntimeCommand and waitForExecuteCompletion: whatever the interpreter was
\* doing when the link expression was sent, and whatever prompts were still on their
\* way, the wait ends with success only when the link expression has been executed
\* without an error, unless an earlier Execute is still under way or the interpreter
\* becomes busy by itself.
THEOREM LinkComplete == Spec => []LinkCompleted
<1>1. Init => NoneAwaited /\ LinkInv
  BY DEF Init, NoneAwaited, LinkInv, LinkCompleted, NoReply
<1>2. ReplInv => NoneAwaited
  BY DEF ReplInv
<1>3. Init => ReplInv
  BY DEF Init, ReplInv, NoneAwaited, Sending, Expecting, ReplAnswerComplete, NoReply
<1>4. TypeOK /\ ReplInv /\ [Next]_vars => ReplInv'
  BY ReplStep
<1>5. TypeOK /\ Once /\ NoneAwaited /\ LinkInv /\ [Next]_vars => LinkInv'
  BY LinkStep
<1>6. LinkInv => LinkCompleted
  BY DEF LinkInv
<1> QED
  BY <1>1, <1>2, <1>3, <1>4, <1>5, <1>6, OnceInvariant, PTL DEF Spec

-----------------------------------------------------------------------------
(* The interpreter starts the launch expression after a link expression. *)

\* No link and no launch expression has been started.
Unstarted ==
    /\ autoLink /\ ConfiguredOnly /\ others = 0 /\ ~gone
    /\ links \cap ended = {} /\ launched \cap (ended \cup {running}) = {}
    /\ running \notin links

\* The interpreter is idle and the dispatcher knows; or it will be told; or the
\* interpreter is busy by itself, or has not said what it is.
Calm == greeted /\ running = None /\ ~busy /\ ~Has(line, Heeded)

PromptComing ==
    /\ greeted /\ running = None /\ OnePrompt(line) /\ ~Has(subscription, {"ready"})

Occupied ==
    /\ running = Other \/ (~greeted /\ running = None)
    /\ ~Has(line, {"ready"}) /\ ~Has(subscription, {"ready"})

LinkQueued == links \cap Queued # {}

LinkAhead ==
    \A j \in DOMAIN wire : wire[j] \in launched =>
       held # <<>> \/ \E i \in 1..(j - 1) : wire[i] \in links

\* The wait for a link expression that the dispatcher has dropped ends with the
\* error that dropped it.
LaunchState ==
    /\ Calm \/ (main # "launch" /\ launched = {} /\ (Occupied \/ PromptComing))
    /\ main = "wait" => LinkQueued \/ ErrorFirst(subscription)
    /\ main = "launch" => LinkQueued
    /\ launched \cap Range(held) = {}
    /\ LinkAhead
    /\ ~Has(line, {"fatal"})

LaunchInv == Unstarted => LaunchState

SentOnly == links \cup launched \subseteq 1..sent

LEMMA SentStep ==
    ASSUME TypeOK, SentOnly, [Next]_vars
    PROVE  /\ SentOnly'
           /\ \/ sent' = sent /\ UNCHANGED <<links, launched>>
              \/ /\ sent' = sent + 1 /\ links' \cup launched' \subseteq links \cup launched \cup {sent'}
                 /\ SendExecute => UNCHANGED <<links, launched>>
                 /\ sent \in Nat
<1>1. sent \in Nat
  BY BoundsAssumption DEF TypeOK
<1>2. ASSUME sent' = sent, UNCHANGED <<links, launched>> PROVE SentOnly'
  BY <1>2 DEF SentOnly
<1>3. ASSUME sent' = sent + 1, links' \cup launched' \subseteq links \cup launched \cup {sent'}
      PROVE  SentOnly'
  <2>1. /\ \A id \in 1..sent : id \in 1..(sent + 1)
        /\ sent + 1 \in 1..(sent + 1)
    BY <1>1
  <2> QED
    BY <1>3, <2>1 DEF SentOnly
<1>4. CASE SendLink \/ SendLaunch \/ SendExecute
  <2>1. CASE Accepted
    <3>1. sent' = sent + 1
      BY <2>1 DEF Accepted
    <3>2. /\ links' \cup launched' \subseteq links \cup launched \cup {sent'}
          /\ SendExecute => UNCHANGED <<links, launched>>
      BY <1>4, <2>1 DEF SendLink, LinkSent, SendLaunch, SendExecute, history
    <3> QED
      BY <1>1, <1>3, <3>1, <3>2
  <2>2. CASE ~Accepted
    <3>1. Refused /\ UNCHANGED <<links, launched>>
      BY <1>4, <2>2 DEF SendLink, LinkSent, SendLaunch, SendExecute, history
    <3>2. sent' = sent
      BY <3>1 DEF Refused, queues
    <3> QED
      BY <1>2, <3>1, <3>2
  <2> QED
    BY <2>1, <2>2
<1>5. CASE \/ Interpreter \/ Receive \/ Refuse \/ ConfigurationDone \/ WaitLink \/ LinkTimesOut
           \/ Evaluate \/ GetResult \/ EvaluateTimesOut \/ ForgetEvaluate \/ HandlePayload
           \/ Reconnect \/ UNCHANGED vars
  <2>1. sent' = sent /\ UNCHANGED <<links, launched>>
    BY <1>5 DEF Interpreter, Greet, Start, StartOther, Error, Finish, Disconnect, Adapter,
       Receive, Refuse, ConfigurationDone, WaitLink, LinkTimesOut, Evaluate, GetResult,
       EvaluateTimesOut, ForgetEvaluate, HandlePayload, Reconnect, queues, history, vars
  <2> QED
    BY <1>2, <2>1
<1> QED
  BY <1>4, <1>5, Steps

\* Once started, an expression has been started.
LEMMA UnstartedBefore ==
    ASSUME TypeOK, Once, SentOnly, [Next]_vars, Unstarted'
    PROVE  Unstarted
<1>1. ConfiguredOnly
  <2>1. CASE sent' = sent /\ UNCHANGED <<links, launched>>
    BY <2>1 DEF Unstarted, ConfiguredOnly
  <2>2. CASE /\ sent' = sent + 1 /\ sent \in Nat
             /\ links' \cup launched' \subseteq links \cup launched \cup {sent'}
    <3>1. \A id \in 1..sent : id \in 1..sent' /\ id # sent'
      BY <2>2
    <3>2. 1..sent' \subseteq links' \cup launched'
      BY DEF Unstarted, ConfiguredOnly
    <3> QED
      BY <2>2, <3>1, <3>2 DEF ConfiguredOnly
  <2> QED
    BY <2>1, <2>2, SentStep
<1>2. ASSUME UNCHANGED <<autoLink, others, gone, running, ended>>,
             links \subseteq links', launched \subseteq launched'
      PROVE  Unstarted
  BY <1>1, <1>2 DEF Unstarted
<1>3. CASE Greet \/ Error
  BY <1>2, <1>3 DEF Greet, Error, Adapter, config, history
<1>4. CASE Start
  <2>1. UNCHANGED <<autoLink, others, gone, ended, links, launched>> /\ running = None
    BY <1>4 DEF Start, Adapter, config, history
  <2>2. None \notin launched /\ None \notin links
    BY IdsTyped DEF TypeOK
  <2> QED
    BY <1>1, <2>1, <2>2 DEF Unstarted
<1>5. CASE StartOther
  BY <1>5, BoundsAssumption DEF StartOther, Unstarted, TypeOK
<1>6. CASE Finish
  <2>1. /\ UNCHANGED <<autoLink, others, gone, links, launched>>
        /\ ended' = ended \cup ({running} \cap Ids)
    BY <1>6 DEF Finish, Adapter, config
  <2>2. links \subseteq Ids /\ launched \subseteq Ids
    BY DEF TypeOK
  <2> QED
    BY <1>1, <2>1, <2>2 DEF Unstarted
<1>7. CASE Disconnect
  BY <1>7 DEF Disconnect, Unstarted
<1>8. CASE Receive \/ HandlePayload \/ Reconnect \/ UNCHANGED vars
  BY <1>2, <1>8 DEF Receive, HandlePayload, Reconnect, vars, outside, config, interpreter, history
<1>9. CASE MainStep
  <2>1. UNCHANGED <<autoLink, others, gone, running>>
    BY <1>9 DEF MainStep, Refuse, ConfigurationDone, SendLink, WaitLink, LinkTimesOut,
       SendLaunch, Evaluate, SendExecute, GetResult, EvaluateTimesOut, ForgetEvaluate,
       outside, config, interpreter
  <2>2. ended' = ended /\ links \subseteq links' /\ launched \subseteq launched'
    BY <1>9 DEF MainStep, Refuse, ConfigurationDone, SendLink, LinkSent, WaitLink, LinkTimesOut,
       SendLaunch, Evaluate, SendExecute, GetResult, EvaluateTimesOut, ForgetEvaluate, history
  <2> QED
    BY <1>2, <2>1, <2>2
<1> QED
  BY <1>3, <1>4, <1>5, <1>6, <1>7, <1>8, <1>9 DEF Next, Interpreter

\* While nothing has been started, what is queued is a link or a launch expression,
\* and what runs is neither.
LEMMA ConfiguredQueued ==
    ASSUME TypeOK, Once, Unstarted
    PROVE  Queued \subseteq links \cup launched /\ running \in {None, Other}
<1>1. \A id \in Queued \cup ({running} \cap Ids) : id \in 1..sent
  <2>1. \A id \in Ids : id \in Nat /\ id >= 1
    BY BoundsAssumption DEF Ids
  <2>2. sent \in Nat
    BY BoundsAssumption DEF TypeOK
  <2>3. \A id \in Queued \cup ({running} \cap Ids) : id \in Ids /\ id <= sent
    BY QueuedTyped DEF Once
  <2> QED
    BY <2>1, <2>2, <2>3
<1>2. Queued \cup ({running} \cap Ids) \subseteq links \cup launched
  BY <1>1 DEF Unstarted, ConfiguredOnly
<1> QED
  BY <1>2 DEF Unstarted, TypeOK

LEMMA LaunchSame ==
    ASSUME LaunchState, UNCHANGED <<greeted, running, busy, line, held, wire, links, launched>>,
           \/ UNCHANGED <<main, subscription>>
           \/ main' \notin {"wait", "launch"} /\ subscription' \in {subscription, <<>>}
    PROVE  LaunchState'
<1>1. /\ Has(line, Heeded)' <=> Has(line, Heeded)
      /\ Has(line, {"ready"})' <=> Has(line, {"ready"})
      /\ Has(line, {"fatal"})' <=> Has(line, {"fatal"})
      /\ OnePrompt(line)' <=> OnePrompt(line)
  BY DEF Has, OnePrompt, Heeded
<1>2. Has(subscription, {"ready"})' => Has(subscription, {"ready"})
  BY HasNone DEF Has
<1>3. Calm' = Calm /\ LinkQueued' = LinkQueued /\ LinkAhead' = LinkAhead
  BY <1>1 DEF Calm, LinkQueued, LinkAhead, Queued
<1>4. (Occupied => Occupied') /\ (PromptComing => PromptComing')
  BY <1>1, <1>2 DEF Occupied, PromptComing
<1>5. CASE UNCHANGED <<main, subscription>>
  <2>1. ErrorFirst(subscription)' <=> ErrorFirst(subscription)
    BY <1>5 DEF ErrorFirst
  <2> QED
    BY <1>1, <1>3, <1>4, <1>5, <2>1 DEF LaunchState
<1>6. CASE main' \notin {"wait", "launch"}
  BY <1>1, <1>3, <1>4, <1>6 DEF LaunchState
<1> QED
  BY <1>5, <1>6

\* What the interpreter does: it is idle, or busy by itself until it ends.
LEMMA LaunchInterpreter ==
    ASSUME TypeOK, Once, Unstarted, Unstarted', LaunchState, Interpreter
    PROVE  LaunchState'
<1>1. UNCHANGED <<main, subscription, busy, held, links, launched>>
  BY DEF Interpreter, Greet, Start, StartOther, Error, Finish, Disconnect, Adapter, waiting, history
<1>2. running \in {None, Other} /\ Queued \subseteq links \cup launched
  BY ConfiguredQueued
<1>3. ~Start
  <2> SUFFICES ASSUME Start PROVE FALSE
    OBVIOUS
  <2>1. running' \in links \cup launched
    BY <1>2, StartTakes DEF Queued
  <2> QED
    BY <1>1, <2>1 DEF Unstarted
<1>4. wire' = wire
  BY <1>3 DEF Interpreter, Greet, StartOther, Error, Finish, Disconnect
<1>5. LinkQueued' = LinkQueued /\ LinkAhead' = LinkAhead
  BY <1>1, <1>4 DEF LinkQueued, LinkAhead, Queued
<1>6. ErrorFirst(subscription)' = ErrorFirst(subscription)
  BY <1>1 DEF ErrorFirst
<1>7. Has(subscription, {"ready"})' = Has(subscription, {"ready"})
  BY <1>1 DEF Has
<1>8. ~Calm /\ ~PromptComing /\ Occupied
  <2>1. ~greeted \/ running # None
    <3>1. ~StartOther /\ ~Disconnect
      <4>1. others \in Nat /\ others = 0 /\ others' = 0 /\ gone' = FALSE
        BY BoundsAssumption DEF TypeOK, Unstarted
      <4> QED
        BY <4>1 DEF StartOther, Disconnect
    <3> QED
      BY <1>3, <3>1 DEF Interpreter, Greet, Error, Finish
  <2> QED
    BY <2>1 DEF LaunchState, Calm, PromptComing
<1>9. main # "launch" /\ launched = {}
  BY <1>8 DEF LaunchState
<1>10. ASSUME Occupied' \/ PromptComing', ~Has(line, {"fatal"})' PROVE LaunchState'
  BY <1>1, <1>5, <1>6, <1>9, <1>10 DEF LaunchState
<1>11. CASE Greet
  <2> DEFINE m == M(IF running = None THEN "ready" ELSE "busy")
  <2>1. m \in Message /\ m.type = IF running = None THEN "ready" ELSE "busy"
    BY MessagesTyped DEF M
  <2>2. Emit(<<m>>) /\ running' = running /\ greeted' = TRUE
    BY <1>11 DEF Greet
  <2> HIDE DEF m
  <2>3. line' = Append(line, m)
    BY <2>1, <2>2, LineTyped, AppendIsConcat DEF Emit
  <2>4. \A types : Has(line', types) <=> Has(line, types) \/ m.type \in types
    BY <2>1, <2>3, LineTyped, HasMore
  <2>5. ~Has(line', {"fatal"})
    BY <2>1, <2>4 DEF LaunchState
  <2>6. CASE running = None
    <3>1. OnePrompt(line')
      BY <1>8, <2>1, <2>3, <2>6, LineTyped, PromptMore DEF Occupied
    <3> QED
      BY <1>7, <1>8, <1>10, <2>2, <2>5, <2>6, <3>1 DEF PromptComing, OnePrompt, Has, Occupied
  <2>7. CASE running # None
    <3>1. ~Has(line', {"ready"})
      BY <1>8, <2>1, <2>4, <2>7 DEF Occupied
    <3> QED
      BY <1>2, <1>7, <1>8, <1>10, <2>2, <2>5, <2>7, <3>1 DEF Has, Occupied
  <2> QED
    BY <2>6, <2>7
<1>12. CASE Error
  <2>1. /\ Emit(<<M("error")>>) /\ UNCHANGED <<running, greeted>> /\ running # None
    BY <1>12 DEF Error
  <2>2. line' = Append(line, M("error")) /\ M("error") \in Message /\ M("error").type = "error"
    BY <2>1, LineTyped, MessagesTyped, AppendIsConcat DEF Emit, M
  <2>3. \A types : Has(line', types) <=> Has(line, types) \/ "error" \in types
    BY <2>2, LineTyped, HasMore
  <2>4. ~Has(line', {"ready"}) /\ ~Has(line', {"fatal"})
    BY <1>8, <2>3 DEF LaunchState, Occupied
  <2> QED
    BY <1>7, <1>8, <1>10, <2>1, <2>4 DEF Occupied, Has
<1>13. CASE Finish
  <2> DEFINE o == [type |-> "output", of |-> running]
             r == M("ready")
             l == Append(line, o)
  <2>1. Emit(<<o, r>>) /\ running' = None /\ running # None /\ greeted /\ greeted' = greeted
    BY <1>13 DEF Finish
  <2>2. o \in Message /\ r \in Message /\ o.type = "output" /\ r.type = "ready"
    BY <2>1, MessagesTyped DEF M, TypeOK
  <2> HIDE DEF o, r
  <2>3. l \in Seq(Message) /\ line' = Append(l, r)
    BY <2>1, <2>2, LineTyped DEF Emit
  <2>4. ~Has(l, {"ready"}) /\ ~Has(l, {"fatal"})
    BY <1>8, <2>2, LineTyped, HasMore DEF LaunchState, Occupied
  <2> HIDE DEF l
  <2>5. OnePrompt(line') /\ ~Has(line', {"fatal"})
    BY <2>2, <2>3, <2>4, PromptMore, HasMore
  <2> QED
    BY <1>7, <1>8, <1>10, <2>1, <2>5 DEF Occupied, PromptComing, OnePrompt, Has
<1>14. ~StartOther /\ ~Disconnect
  <2>1. others \in Nat /\ others = 0 /\ others' = 0 /\ gone' = FALSE
    BY BoundsAssumption DEF TypeOK, Unstarted
  <2> QED
    BY <2>1 DEF StartOther, Disconnect
<1> QED
  BY <1>3, <1>11, <1>12, <1>13, <1>14 DEF Interpreter

\* What the dispatcher passes on.
LEMMA LaunchReceives ==
    ASSUME TypeOK, Unstarted, LaunchState, Receive
    PROVE  LaunchState'
<1> DEFINE h == Head(line)
<1>1. /\ line # <<>> /\ h \in Message /\ line' = Tail(line)
      /\ UNCHANGED <<main, greeted, running, links, launched>>
      /\ subscription' = IF Subscribed /\ h.type \in Heeded
                         THEN Append(subscription, h) ELSE subscription
      /\ busy' = IF h.type \in {"busy", "ready"} THEN h.type = "busy" ELSE busy
      /\ ~Drops(h) /\ ~Flushes(h) => UNCHANGED <<held, wire>>
  BY LineTyped DEF Receive, history
<1>2. Queued' = Queued \/ Drops(h)
  BY ReceiveQueued
<1>3. Queued' \subseteq Queued
  BY ReceiveQueued
<1>4. \A types : Has(line, types) <=> h.type \in types \/ Has(line', types)
  BY <1>1, LineTyped, HasRest
<1>5. /\ OnePrompt(line) /\ h.type = "ready" => ~Has(line', Heeded)
      /\ OnePrompt(line) /\ h.type # "ready" => OnePrompt(line')
  BY <1>1, LineTyped, PromptRest
<1> HIDE DEF h
<1>6. h.type # "fatal" /\ ~Has(line', {"fatal"})
  BY <1>4 DEF LaunchState
<1>7. CASE Calm
  <2>1. ~Has(line', Heeded) /\ h.type \notin Heeded
    BY <1>4, <1>7 DEF Calm
  <2>2. ~Drops(h) /\ ~Flushes(h) /\ subscription' = subscription /\ busy' = busy
    BY <1>1, <1>6, <2>1 DEF Drops, Flushes, Heeded
  <2>3. UNCHANGED <<held, wire>>
    BY <1>1, <2>2
  <2>4. Calm'
    BY <1>1, <1>7, <2>1, <2>2 DEF Calm, Has, Heeded
  <2>5. LinkQueued' = LinkQueued /\ LinkAhead' = LinkAhead
    BY <1>1, <2>3 DEF LinkQueued, LinkAhead, Queued
  <2>6. ErrorFirst(subscription)' <=> ErrorFirst(subscription)
    BY <2>2 DEF ErrorFirst
  <2> QED
    BY <1>1, <1>6, <2>3, <2>4, <2>5, <2>6 DEF LaunchState, Has
<1>8. CASE main # "launch" /\ launched = {} /\ (Occupied \/ PromptComing)
  <2>1. launched' \cap Range(held') = {} /\ LinkAhead'
    BY <1>1, <1>8 DEF LinkAhead
  <2>2. ~Has(subscription, {"ready"})
    BY <1>8 DEF Occupied, PromptComing
  <2>3. main = "wait" => LinkQueued' \/ ErrorFirst(subscription')
    <3> SUFFICES ASSUME main = "wait", ~LinkQueued' PROVE ErrorFirst(subscription')
      OBVIOUS
    <3>1. CASE h.type = "error"
      <4>1. subscription' = Append(subscription, h)
        BY <1>1, <3>1 DEF Subscribed, Heeded
      <4> QED
        BY <1>1, <2>2, <3>1, <4>1, LineTyped, PromptMore
    <3>2. CASE h.type # "error"
      <4>1. Queued' = Queued
        BY <1>2, <1>6, <3>2 DEF Drops
      <4>2. ErrorFirst(subscription)
        BY <1>1, <4>1 DEF LaunchState, LinkQueued
      <4>3. subscription' = Append(subscription, h) \/ subscription' = subscription
        BY <1>1
      <4> QED
        BY <1>1, <4>2, <4>3, LineTyped, PromptMore
    <3> QED
      BY <3>1, <3>2
  <2>4. ASSUME Calm' \/ Occupied' \/ PromptComing' PROVE LaunchState'
    <3>1. ErrorFirst(subscription)' <=> ErrorFirst(subscription')
      BY DEF ErrorFirst
    <3>2. Has(line, {"fatal"})' <=> Has(line', {"fatal"})
      BY DEF Has
    <3> QED
      BY <1>1, <1>6, <1>8, <2>1, <2>3, <2>4, <3>1, <3>2 DEF LaunchState
  <2>5. /\ Has(line, {"ready"})' <=> Has(line', {"ready"})
        /\ Has(line, Heeded)' <=> Has(line', Heeded)
        /\ Has(subscription, {"ready"})' <=> Has(subscription', {"ready"})
        /\ OnePrompt(line)' <=> OnePrompt(line')
    BY DEF Has, OnePrompt, Heeded
  <2>6. h.type # "ready" => ~Has(subscription', {"ready"})
    <3>1. subscription' = Append(subscription, h) \/ subscription' = subscription
      BY <1>1
    <3> QED
      BY <1>1, <2>2, <3>1, LineTyped, HasMore
  <2>7. CASE Occupied
    <3>1. ~Has(line', {"ready"}) /\ h.type # "ready"
      BY <1>4, <2>7 DEF Occupied
    <3>2. Occupied'
      BY <1>1, <2>5, <2>6, <2>7, <3>1 DEF Occupied
    <3> QED
      BY <2>4, <3>2
  <2>8. CASE PromptComing /\ h.type # "ready"
    <3>1. PromptComing'
      BY <1>1, <1>5, <2>5, <2>6, <2>8 DEF PromptComing
    <3> QED
      BY <2>4, <3>1
  <2>9. CASE PromptComing /\ h.type = "ready"
    <3>1. busy' = FALSE
      BY <1>1, <2>9
    <3>2. Calm'
      BY <1>1, <1>5, <2>5, <2>9, <3>1 DEF PromptComing, Calm
    <3> QED
      BY <2>4, <3>2
  <2> QED
    BY <1>8, <2>7, <2>8, <2>9
<1> QED
  BY <1>7, <1>8 DEF LaunchState

\* The link expression is new to the queues; no launch expression is in them yet.
LEMMA LaunchLinkSent ==
    ASSUME TypeOK, Once, OneLaunch, SentOnly, Unstarted, LaunchState, main = "link",
           LinkSent("wait"), UNCHANGED <<greeted, running, busy, line, launched>>
    PROVE  LaunchState'
<1>1. /\ launched = {} /\ launched' = {} /\ main' = "wait" /\ links' = links \cup {sent'}
      /\ subscription' = subscription /\ Accepted
  BY DEF OneLaunch, LinkSent, GoTo
<1>2. Queued' = Queued \cup {sent'}
  BY <1>1, AcceptedQueued
<1>3. LinkQueued'
  BY <1>1, <1>2 DEF LinkQueued
<1>4. /\ Has(line, Heeded)' <=> Has(line, Heeded)
      /\ Has(line, {"ready"})' <=> Has(line, {"ready"})
      /\ Has(line, {"fatal"})' <=> Has(line, {"fatal"})
      /\ OnePrompt(line)' <=> OnePrompt(line)
      /\ Has(subscription, {"ready"})' <=> Has(subscription, {"ready"})
  BY <1>1 DEF Has, OnePrompt, Heeded
<1>5. (Calm => Calm') /\ (Occupied => Occupied') /\ (PromptComing => PromptComing')
  BY <1>4 DEF Calm, Occupied, PromptComing
<1>6. LinkAhead' /\ launched' \cap Range(held') = {}
  BY <1>1 DEF LinkAhead
<1> QED
  BY <1>1, <1>3, <1>4, <1>5, <1>6 DEF LaunchState

\* The launch expression is written behind the link expression, or behind a queue
\* that holds it.
LEMMA LaunchSent ==
    ASSUME TypeOK, Once, OneLaunch, Unstarted, LaunchState, main = "launch", main' = "idle",
           Accepted, launched' = launched \cup {sent'},
           UNCHANGED <<greeted, running, busy, line, links>>
    PROVE  LaunchState'
<1>1. launched' = {sent'} /\ Calm /\ LinkQueued
  BY DEF OneLaunch, LaunchState
<1>2. wire' = Append(wire, sent') /\ held' = held /\ sent' \in Ids
  BY <1>1, AcceptedQueued DEF Calm
<1>3. wire \in Seq(Ids) /\ held \in Seq(Ids)
  BY DEF TypeOK
<1>4. sent' \notin Queued
  <2>1. \A id \in Queued : id \in Nat /\ id <= sent
    BY QueuedTyped, IdsTyped DEF Once
  <2>2. sent \in Nat /\ sent' = sent + 1
    BY AcceptedQueued
  <2> QED
    BY <2>1, <2>2
<1>5. launched' \cap Range(held') = {}
  BY <1>1, <1>2, <1>4 DEF Queued
<1>6. LinkAhead'
  <2> DEFINE id == sent'
             n == Len(wire)
             w == Append(wire, id)
  <2>1. /\ n \in Nat /\ DOMAIN w = 1..(n + 1) /\ DOMAIN wire = 1..n /\ w[n + 1] = id
        /\ \A i \in 1..n : w[i] = wire[i]
    BY <1>2, <1>3, SeqAppend
  <2>2. wire' = w /\ launched' = {id} /\ id \notin Queued
    BY <1>1, <1>2, <1>4
  <2> HIDE DEF id, n, w
  <2>3. \A i \in 1..n : wire[i] \in Queued
    BY <2>1 DEF Queued, Range
  <2>4. held' # <<>> \/ \E i \in 1..n : w[i] \in links
    <3>1. CASE links \cap Range(held) # {}
      BY <1>2, <3>1 DEF Range
    <3>2. CASE links \cap Range(wire) # {}
      BY <2>1, <3>2 DEF Range
    <3> QED
      BY <1>1, <3>1, <3>2 DEF LinkQueued, Queued
  <2>5. \A i \in 1..n : i \in 1..((n + 1) - 1)
    BY <2>1
  <2>6. ASSUME NEW j \in 1..(n + 1), w[j] = id PROVE j = n + 1
    <3>1. j \in 1..n \/ j = n + 1
      BY <2>1
    <3> QED
      BY <2>1, <2>2, <2>3, <2>6, <3>1
  <2>7. ASSUME NEW j \in DOMAIN w, w[j] \in {id}
        PROVE  held' # <<>> \/ \E i \in 1..(j - 1) : w[i] \in links
    <3>1. j = n + 1
      BY <2>1, <2>6, <2>7
    <3> QED
      BY <2>4, <2>5, <3>1
  <2> QED
    BY <2>2, <2>7 DEF LinkAhead
<1>7. /\ Calm' /\ LinkQueued' /\ ~Has(line, {"fatal"})'
  <2>1. Queued' = Queued \cup {sent'}
    BY AcceptedQueued
  <2> QED
    BY <1>1, <2>1 DEF Calm, LinkQueued, LaunchState, Has, Heeded
<1> QED
  BY <1>5, <1>6, <1>7 DEF LaunchState

\* waitForExecuteCompletion goes on, or ends with the link expression sent.
LEMMA LaunchWaits ==
    ASSUME TypeOK, OneLaunch, Unstarted, LaunchState, WaitLink
    PROVE  LaunchState'
<1> DEFINE m == Head(subscription)
<1>1. /\ main = "wait" /\ subscription # <<>> /\ launched = {} /\ m \in Message
      /\ UNCHANGED <<greeted, running, busy, line, held, wire, links, launched>>
  BY LineTyped DEF WaitLink, outside, interpreter, queues, history, OneLaunch
<1>2. CASE main' = "idle" /\ subscription' = <<>>
  BY <1>1, <1>2, LaunchSame
<1>3. /\ Has(line, Heeded)' <=> Has(line, Heeded)
      /\ Has(line, {"ready"})' <=> Has(line, {"ready"})
      /\ Has(line, {"fatal"})' <=> Has(line, {"fatal"})
      /\ OnePrompt(line)' <=> OnePrompt(line)
      /\ Has(subscription, {"ready"})' <=> Has(subscription', {"ready"})
      /\ ErrorFirst(subscription)' <=> ErrorFirst(subscription')
  BY <1>1 DEF Has, OnePrompt, Heeded, ErrorFirst
<1>4. LinkQueued' = LinkQueued /\ LinkAhead' /\ launched' \cap Range(held') = {}
  BY <1>1 DEF LinkQueued, LinkAhead, Queued
<1>5. CASE m.type = "ready" /\ main' = "launch" /\ subscription' = <<>>
  <2>1. ErrorFirst(subscription) => m.type # "ready"
    BY <1>1, <1>5, LineTyped, PromptRest
  <2>2. Has(subscription, {"ready"})
    BY <1>1, <1>5, LineTyped, HasRest
  <2>3. Calm /\ LinkQueued
    BY <1>1, <1>5, <2>1, <2>2 DEF LaunchState, Occupied, PromptComing
  <2>4. Calm'
    BY <1>1, <1>3, <2>3 DEF Calm
  <2> QED
    BY <1>3, <1>4, <1>5, <2>3, <2>4 DEF LaunchState
<1>6. CASE m.type # "error" /\ main' = main /\ subscription' = Tail(subscription)
  <2>1. Has(subscription', {"ready"}) => Has(subscription, {"ready"})
    BY <1>1, <1>6, LineTyped, HasRest
  <2>2. ErrorFirst(subscription) => ErrorFirst(subscription')
    BY <1>1, <1>6, LineTyped, PromptRest
  <2>3. (Calm => Calm') /\ (Occupied => Occupied') /\ (PromptComing => PromptComing')
    BY <1>1, <1>3, <2>1 DEF Calm, Occupied, PromptComing
  <2> QED
    BY <1>1, <1>3, <1>4, <1>6, <2>2, <2>3 DEF LaunchState
<1> QED
  BY <1>2, <1>5, <1>6 DEF WaitLink, Fail, Answer, Completes

LEMMA LaunchInvStep ==
    ASSUME TypeOK, Once, OneLaunch, SentOnly, LaunchInv, [Next]_vars
    PROVE  LaunchInv'
<1> SUFFICES ASSUME Unstarted' PROVE LaunchState'
  BY DEF LaunchInv
<1>1. Unstarted /\ LaunchState
  BY UnstartedBefore DEF LaunchInv
<1>2. CASE Interpreter
  BY <1>1, <1>2, LaunchInterpreter
<1>3. CASE Receive
  BY <1>1, <1>3, LaunchReceives
<1>4. CASE SendLink
  <2>1. main = "link" /\ UNCHANGED <<greeted, running, busy, line, launched>>
    BY <1>4 DEF SendLink, outside, interpreter
  <2>2. CASE LinkSent("wait")
    BY <1>1, <2>1, <2>2, LaunchLinkSent
  <2>3. CASE Refused /\ Fail("configurationDone") /\ UNCHANGED links
    BY <1>1, <2>1, <2>3, LaunchSame DEF Refused, Fail, Answer, queues
  <2> QED
    BY <1>4, <2>2, <2>3 DEF SendLink
<1>5. CASE WaitLink
  BY <1>1, <1>5, LaunchWaits
<1>6. CASE SendLaunch
  <2>1. main = "launch" /\ main' = "idle" /\ UNCHANGED <<greeted, running, busy, line, links>>
    BY <1>6 DEF SendLaunch, Fail, Answer, outside, interpreter
  <2>2. CASE Accepted /\ launched' = launched \cup {sent'}
    BY <1>1, <2>1, <2>2, LaunchSent
  <2>3. CASE Refused /\ Fail("configurationDone") /\ UNCHANGED launched
    BY <1>1, <2>1, <2>3, LaunchSame DEF Refused, Fail, Answer, queues
  <2> QED
    BY <1>6, <2>2, <2>3 DEF SendLaunch
<1>7. CASE SendExecute
  <2>1. UNCHANGED <<greeted, running, busy, line, links, launched>>
    BY <1>7 DEF SendExecute, outside, interpreter, history
  <2>2. ~Accepted
    <3> SUFFICES ASSUME Accepted PROVE FALSE
      OBVIOUS
    <3>1. sent \in Nat /\ sent' = sent + 1
      BY AcceptedQueued
    <3>2. 1..sent' \subseteq 1..sent
      BY <2>1 DEF SentOnly, Unstarted, ConfiguredOnly
    <3> QED
      BY <3>1, <3>2
  <2>3. Refused /\ Fail("evaluate")
    BY <1>7, <2>2 DEF SendExecute
  <2> QED
    BY <1>1, <2>1, <2>3, LaunchSame DEF Refused, Fail, Answer, queues
<1>8. ASSUME UNCHANGED <<outside, queues, history>>,
             \/ UNCHANGED <<main, subscription>>
             \/ main' \notin {"wait", "launch"} /\ subscription' \in {subscription, <<>>}
      PROVE  LaunchState'
  BY <1>1, <1>8, LaunchSame DEF outside, interpreter, queues, history
<1>9. CASE ConfigurationDone
  <2>1. autoLink
    BY <1>1 DEF Unstarted
  <2> QED
    BY <1>8, <1>9, <2>1 DEF ConfigurationDone, Answer, GoTo
<1>10. CASE Refuse \/ LinkTimesOut \/ Evaluate \/ GetResult \/ EvaluateTimesOut \/ ForgetEvaluate
  <2>1. main' \notin {"wait", "launch"} /\ subscription' \in {subscription, <<>>}
    BY <1>10 DEF Refuse, LinkTimesOut, Evaluate, GetResult, EvaluateTimesOut, ForgetEvaluate,
       Fail, Answer, GoTo
  <2> QED
    BY <1>8, <1>10, <2>1 DEF Refuse, LinkTimesOut, Evaluate, GetResult, EvaluateTimesOut,
       ForgetEvaluate
<1>11. CASE HandlePayload \/ Reconnect \/ UNCHANGED vars
  <2>1. /\ UNCHANGED <<greeted, running, busy, line, held, wire, links, launched>>
        /\ UNCHANGED <<main, subscription>>
    BY <1>11 DEF HandlePayload, Reconnect, vars, outside, interpreter, queues, waiting, history
  <2> QED
    BY <1>1, <2>1, LaunchSame
<1> QED
  BY <1>2, <1>3, <1>4, <1>5, <1>6, <1>7, <1>9, <1>10, <1>11, Steps

\* What the launch expression finds when the interpreter starts it.
LEMMA LinkWasFirst ==
    ASSUME TypeOK, Once, OneLaunch, LaunchInv, [Next]_vars,
           ConfiguredOnly, others = 0, held = <<>>
    PROVE  LinkFirst
<1> SUFFICES ASSUME autoLink, running' \in launched, running' # running, links \cap ended = {}
             PROVE  FALSE
  BY DEF LinkFirst
<1>1. Start
  <2>1. running' \in Ids
    BY DEF TypeOK
  <2>2. running' # None /\ running' # Other
    BY <2>1, IdsTyped
  <2>3. ~Receive /\ ~MainStep /\ ~HandlePayload /\ ~Reconnect /\ ~(UNCHANGED vars)
    BY DEF Receive, MainStep, Refuse, ConfigurationDone, SendLink, WaitLink, LinkTimesOut,
       SendLaunch, Evaluate, SendExecute, GetResult, EvaluateTimesOut, ForgetEvaluate,
       HandlePayload, Reconnect, outside, interpreter, vars
  <2> QED
    BY <2>2, <2>3 DEF Next, Interpreter, Greet, StartOther, Error, Finish, Disconnect
<1>2. /\ running = None /\ wire # <<>> /\ running' = wire[1] /\ running' \in Range(wire) /\ ~gone
  BY <1>1, StartTakes DEF Start, Emit
<1>3. launched = {running'}
  BY DEF OneLaunch
<1>4. running' \notin ended
  BY <1>2 DEF Once, Queued
<1>5. running \notin links
  BY <1>2, IdsTyped DEF TypeOK
<1>6. Unstarted
  BY <1>2, <1>3, <1>4, <1>5 DEF Unstarted
<1>7. 1 \in DOMAIN wire /\ 1..(1 - 1) = {}
  BY <1>2 DEF TypeOK
<1> QED
  BY <1>2, <1>6, <1>7 DEF LaunchInv, LaunchState, LinkAhead

\* executeConfiguredLaunchExpression: however often configurationDone is sent, and
\* whatever timed out, failed or was dropped by the dispatcher before, the
\* interpreter does not start the launch expression before it has been through a
\* link expression; if it does not become busy by itself, no repl evaluate was sent
\* and no failed write has left an Execute in the dispatcher's queue.
THEOREM LinkRunsFirst == Spec => LinkBeforeLaunch
<1>1. Init => SentOnly /\ LaunchInv
  <2> SUFFICES ASSUME Init PROVE SentOnly /\ LaunchInv
    OBVIOUS
  <2>1. SentOnly
    BY DEF Init, SentOnly
  <2>2. Occupied /\ launched = {} /\ main = "idle" /\ LinkAhead /\ ~Has(line, {"fatal"})
    BY HasNone DEF Init, Occupied, LinkAhead
  <2> QED
    BY <2>1, <2>2 DEF LaunchInv, LaunchState
<1>2. TypeOK /\ SentOnly /\ [Next]_vars => SentOnly'
  BY SentStep
<1>3. TypeOK /\ OneLaunch /\ [Next]_vars => OneLaunch'
  BY LaunchStep
<1>4. TypeOK /\ Once /\ OneLaunch /\ SentOnly /\ LaunchInv /\ [Next]_vars => LaunchInv'
  BY LaunchInvStep
<1>5. TypeOK /\ Once /\ OneLaunch /\ LaunchInv /\ [Next]_vars
         => [ConfiguredOnly /\ others = 0 /\ held = <<>> => LinkFirst]_vars
  BY LinkWasFirst
<1> QED
  BY <1>1, <1>2, <1>3, <1>4, <1>5, OnceInvariant, LaunchInit, PTL DEF Spec, LinkBeforeLaunch

=============================================================================

----------------------------- MODULE Executions -----------------------------
(***************************************************************************)
(* Expressions sent to the interpreter with Execute, and how the adapter   *)
(* learns that they have ended: the link and launch expressions of         *)
(* cmd/dap-adapter/main.go, executed when a configurationDone request      *)
(* succeeds, and evaluate requests in repl context in                      *)
(* internal/dap/adapter/server.go.  Execute has no reply: its end is known *)
(* by a SetPromptType other than 0.                                        *)
(*                                                                         *)
(* The main goroutine sends and waits.  For the link expression it reads   *)
(* prompts from a subscription of its own; for a repl evaluate it waits on *)
(* a channel that the bridge goroutine fills when it handles a prompt, and *)
(* the bridge reads another subscription.  The dispatcher (see Dispatcher) *)
(* is here what the two rely on: it holds an Execute while it knows the    *)
(* interpreter to be busy, drops what it holds on HadError and passes      *)
(* every message to all subscriptions in the order of arrival.             *)
(*                                                                         *)
(* An Execute is its number; the output of one is a single message.        *)
(***************************************************************************)
EXTENDS Integers, Sequences, FiniteSets, SequencesExt

CONSTANTS
    MaxExecutes,    \* bound: Execute commands sent
    MaxOthers,      \* bound: periods the interpreter is busy by itself
    MaxErrors,      \* bound: HadError messages
    MaxRequests,    \* bound: requests
    MaxLag,         \* bound: messages not read yet, on the line and by the bridge
    MayFail,        \* whether SendCommand may return an error
    MayEnd,         \* whether the interpreter may disconnect
    MayReconnect    \* whether someone calls HandleRideReconnect, which no
                    \* code of the repository but the tests does

ASSUME BoundsAssumption ==
    /\ MaxExecutes \in Nat /\ MaxOthers \in Nat /\ MaxErrors \in Nat
    /\ MaxRequests \in Nat /\ MaxLag \in Nat
    /\ MayFail \in BOOLEAN /\ MayEnd \in BOOLEAN /\ MayReconnect \in BOOLEAN

VARIABLES
    autoLink, launches, \* configured: whether there is a link, a launch expression
    launchRan,
    main,               \* where main stands
    current,            \* the Execute main waits for
    subscription,       \* the channel of executeRuntimeCommand
    sawBusyPrompt,
    replEvaluate,       \* the pending repl evaluate
    waiter,             \* its channel, with room for one result
    terminated,         \* state = stateTerminated
    bridge,             \* the channel of the bridge
    busy, held,         \* dispatcher: the prompt type it knows is 0; its queue
    wire,               \* Execute commands written to the interpreter
    line,               \* messages from the interpreter not read yet
    running,            \* interpreter: what it executes
    greeted,            \* interpreter: whether it sent its first prompt type
    gone,               \* interpreter: disconnected
    sent, others, errors, requests, \* counters for the bounds
    links,              \* history: the Executes that are link expressions
    launched,           \* history: those that are launch expressions
    ended,              \* history: Executes the interpreter has finished
    failed,             \* history: those that had an error
    clean,              \* history: nothing else could disturb the current wait
    reply               \* history: the last answer

config      == <<autoLink, launches>>
interpreter == <<running, greeted, gone, line, others, errors>>
queues      == <<held, wire, sent>>
repl        == <<replEvaluate, waiter>>
waiting     == <<main, current, subscription, sawBusyPrompt, launchRan, requests, reply>>
history     == <<links, launched, ended, failed>>
outside     == <<config, interpreter, busy, bridge, terminated>> \* of main's reach
vars == <<outside, queues, repl, waiting, history, clean>>

Ids  == 1..MaxExecutes
None == 0
Other == MaxExecutes + 1    \* what the interpreter executes by itself

Message == [type : {"busy", "ready", "error", "fatal"}] \cup
           [type : {"output"}, of : Ids \cup {Other}]
M(type) == [type |-> type]

NoRepl   == [pending |-> FALSE, outputs |-> <<>>]
NoResult == [ready |-> FALSE, canceled |-> FALSE, outputs |-> <<>>]
NoReply  == [to |-> "nothing", id |-> None, success |-> FALSE, clean |-> FALSE, outputs |-> <<>>]

Outputs == Seq(Ids \cup {Other})
Pending == [pending : BOOLEAN, outputs : Outputs]
Result  == [ready : BOOLEAN, canceled : BOOLEAN, outputs : Outputs]
Reply   == [to : {"nothing", "configurationDone", "evaluate"}, id : Ids \cup {None},
            success : BOOLEAN, clean : BOOLEAN, outputs : Outputs]

TypeOK ==
    /\ autoLink \in BOOLEAN /\ launches \in BOOLEAN /\ launchRan \in BOOLEAN
    /\ main \in {"idle", "link", "wait", "launch", "execute", "repl", "expired"}
    /\ current \in Ids \cup {None}
    /\ subscription \in Seq(Message) /\ sawBusyPrompt \in BOOLEAN
    /\ replEvaluate \in Pending /\ waiter \in Result
    /\ terminated \in BOOLEAN
    /\ bridge \in Seq(Message) /\ line \in Seq(Message)
    /\ busy \in BOOLEAN /\ held \in Seq(Ids) /\ wire \in Seq(Ids)
    /\ running \in Ids \cup {None, Other}
    /\ greeted \in BOOLEAN /\ gone \in BOOLEAN
    /\ sent \in 0..MaxExecutes /\ others \in 0..MaxOthers
    /\ errors \in 0..MaxErrors /\ requests \in 0..MaxRequests
    /\ links \in SUBSET Ids /\ launched \in SUBSET Ids
    /\ ended \in SUBSET Ids /\ failed \in SUBSET Ids
    /\ clean \in BOOLEAN /\ reply \in Reply
    /\ main \notin {"link", "wait"} => subscription = <<>> /\ ~sawBusyPrompt

\* The interpreter may be busy already, and the adapter may not know it.
Init ==
    /\ autoLink \in BOOLEAN /\ launches \in BOOLEAN /\ launchRan = FALSE
    /\ main = "idle" /\ current = None
    /\ subscription = <<>> /\ sawBusyPrompt = FALSE
    /\ replEvaluate = NoRepl /\ waiter = NoResult
    /\ terminated = FALSE
    /\ bridge = <<>> /\ line = <<>>
    /\ held = <<>> /\ wire = <<>> /\ busy = FALSE
    /\ running \in {None, Other} /\ others = 0
    /\ greeted = FALSE /\ gone = FALSE
    /\ sent = 0 /\ errors = 0 /\ requests = 0
    /\ links = {} /\ launched = {} /\ ended = {} /\ failed = {}
    /\ clean = FALSE
    /\ reply = NoReply

-----------------------------------------------------------------------------
(* The interpreter (external). *)

Emit(messages) ==
    /\ ~gone /\ Len(line) < MaxLag
    /\ line' = line \o messages

\* What the steps of the interpreter leave alone.
Adapter == <<config, busy, held, sent, bridge, terminated, repl, waiting>>

Greet ==
    /\ ~greeted
    /\ greeted' = TRUE
    /\ Emit(<<M(IF running = None THEN "ready" ELSE "busy")>>)
    /\ UNCHANGED <<Adapter, wire, running, gone, others, errors, history, clean>>

Start ==
    /\ greeted /\ running = None /\ wire # <<>>
    /\ running' = Head(wire) /\ wire' = Tail(wire)
    /\ Emit(<<M("busy")>>)
    /\ UNCHANGED <<Adapter, greeted, gone, others, errors, history, clean>>

StartOther ==
    /\ greeted /\ running = None /\ others < MaxOthers
    /\ running' = Other /\ others' = others + 1
    /\ Emit(<<M("busy")>>)
    /\ clean' = FALSE
    /\ UNCHANGED <<Adapter, wire, greeted, gone, errors, history>>

Error ==
    /\ greeted /\ running # None /\ errors < MaxErrors
    /\ errors' = errors + 1
    /\ failed' = failed \cup ({running} \cap Ids)
    /\ Emit(<<M("error")>>)
    /\ UNCHANGED <<Adapter, wire, running, greeted, gone, others, links, launched, ended, clean>>

Finish ==
    /\ greeted /\ running # None
    /\ running' = None
    /\ ended' = ended \cup ({running} \cap Ids)
    /\ Emit(<<[type |-> "output", of |-> running], M("ready")>>)
    /\ UNCHANGED <<Adapter, wire, greeted, gone, others, errors, links, launched, failed, clean>>

Disconnect ==
    /\ MayEnd
    /\ gone' = TRUE
    /\ Emit(<<M("fatal")>>)
    /\ UNCHANGED <<Adapter, wire, running, greeted, others, errors, history, clean>>

Interpreter == Greet \/ Start \/ StartOther \/ Error \/ Finish \/ Disconnect

-----------------------------------------------------------------------------
(* The dispatcher: what Dispatcher does to Executes and messages. *)

Mut_Subscribed == main \in {"link", "wait", "launch"}

\* The subscription ends with the link expression, before the launch expression.
Subscribed == main \in {"link", "wait"}

Heeded == {"busy", "ready", "error"}    \* by waitForExecuteCompletion

\* A write that fails leaves the rest in the queue until the next busy period ends.
Flush ==
    \E n \in 0..Len(held) :
       /\ MayFail \/ n = Len(held)
       /\ wire' = wire \o SubSeq(held, 1, n)
       /\ held' = SubSeq(held, n + 1, Len(held))

Flushes(m) == m.type = "ready" /\ busy
Drops(m)   == m.type \in {"error", "fatal"}

Receive ==
    /\ line # <<>> /\ Len(bridge) < MaxLag
    /\ LET m == Head(line) IN
       /\ line' = Tail(line)
       /\ busy' = IF m.type \in {"busy", "ready"} THEN m.type = "busy" ELSE busy
       /\ \/ Flushes(m) /\ Flush
          \/ Drops(m) /\ held' = <<>> /\ UNCHANGED wire
          \/ ~Flushes(m) /\ ~Drops(m) /\ UNCHANGED <<held, wire>>
       /\ bridge' = Append(bridge, m)
       /\ subscription' = IF Subscribed /\ m.type \in Heeded
                          THEN Append(subscription, m) ELSE subscription
    /\ UNCHANGED <<config, running, greeted, gone, others, errors, sent, terminated, repl,
                   main, current, sawBusyPrompt, launchRan, requests, reply, history, clean>>

\* SendCommand("Execute"): written or queued, or the write fails.
Accepted ==
    /\ sent < MaxExecutes
    /\ sent' = sent + 1
    /\ IF busy THEN held' = Append(held, sent') /\ UNCHANGED wire
               ELSE wire' = Append(wire, sent') /\ UNCHANGED held

Refused == MayFail /\ ~busy /\ UNCHANGED queues

-----------------------------------------------------------------------------
(* main: configurationDone. *)

Request ==
    /\ main = "idle" /\ requests < MaxRequests
    /\ requests' = requests + 1

\* main answers, and ends the subscription it may have.
Answer(to, success, outputs) ==
    /\ reply' = [to |-> to, id |-> current, success |-> success, clean |-> clean,
                 outputs |-> outputs]
    /\ main' = "idle" /\ current' = None /\ clean' = FALSE
    /\ subscription' = <<>> /\ sawBusyPrompt' = FALSE

Fail(to) == Answer(to, FALSE, <<>>)

GoTo(place) ==
    /\ main' = place
    /\ reply' = NoReply
    /\ UNCHANGED <<subscription, sawBusyPrompt>>

\* No request is taken after a fatal signal, and one repl evaluate at a time.
Admitted == ~terminated /\ ~replEvaluate.pending

Refuse ==
    /\ Request
    /\ ~Admitted
    /\ Fail("nothing")
    /\ UNCHANGED <<outside, queues, repl, launchRan, history>>

NothingToRun == launchRan \/ (~autoLink /\ ~launches)

\* executeConfiguredLaunchExpression, up to its first command
ConfigurationDone ==
    /\ Request
    /\ Admitted
    /\ \/ /\ NothingToRun
          /\ launchRan' = TRUE
          /\ Answer("configurationDone", TRUE, <<>>)
       \/ /\ ~NothingToRun
          /\ GoTo(IF autoLink THEN "link" ELSE "launch")
          /\ UNCHANGED <<current, launchRan, clean>>
    /\ UNCHANGED <<outside, queues, repl, history>>

\* No Execute is under way that main has given up, and if the interpreter is busy
\* by itself, the dispatcher has heard of it.
LinkUndisturbed ==
    /\ greeted \/ running = None
    /\ wire = <<>> /\ held = <<>> /\ running \in {None, Other}
    /\ \A m \in Range(line) \cup Range(subscription) : m.type # "busy"

LinkSent(place) ==
    /\ Accepted
    /\ current' = sent' /\ links' = links \cup {sent'}
    /\ clean' = LinkUndisturbed
    /\ GoTo(place)

Mut_SendLink ==
    /\ main = "link"
    /\ \/ LinkSent("launch")
       \/ Refused /\ Fail("configurationDone") /\ UNCHANGED links
    /\ UNCHANGED <<outside, repl, launchRan, requests, launched, ended, failed>>

\* The subscription is there before the command is sent.
SendLink ==
    /\ main = "link"
    /\ \/ LinkSent("wait")
       \/ Refused /\ Fail("configurationDone") /\ UNCHANGED links
    /\ UNCHANGED <<outside, repl, launchRan, requests, launched, ended, failed>>

Mut_Completes(m) == m.type = "ready"

Completes(m) == m.type = "ready" /\ sawBusyPrompt

\* waitForExecuteCompletion
WaitLink ==
    /\ main = "wait" /\ subscription # <<>>
    /\ LET m == Head(subscription) IN
       \/ /\ m.type = "error"
          /\ Fail("configurationDone")
          /\ UNCHANGED launchRan
       \/ /\ Completes(m) /\ launches
          /\ main' = "launch"
          /\ subscription' = <<>> /\ sawBusyPrompt' = FALSE
          /\ UNCHANGED <<current, launchRan, reply, clean>>
       \/ /\ Completes(m) /\ ~launches
          /\ launchRan' = TRUE
          /\ Answer("configurationDone", TRUE, <<>>)
       \/ /\ m.type # "error" /\ ~Completes(m)
          /\ subscription' = Tail(subscription)
          /\ sawBusyPrompt' = (sawBusyPrompt \/ m.type = "busy")
          /\ UNCHANGED <<main, current, launchRan, reply, clean>>
    /\ UNCHANGED <<outside, queues, repl, requests, history>>

Mut_LinkTimesOut ==
    /\ main = "wait" /\ ~gone
    /\ Fail("configurationDone")
    /\ UNCHANGED <<outside, queues, repl, launchRan, requests, history>>

LinkTimesOut ==
    /\ main = "wait"
    /\ Fail("configurationDone")
    /\ UNCHANGED <<outside, queues, repl, launchRan, requests, history>>

\* The launch expression is sent and not waited for.
SendLaunch ==
    /\ main = "launch"
    /\ \/ /\ Accepted
          /\ launched' = launched \cup {sent'}
          /\ launchRan' = TRUE
          /\ Answer("configurationDone", TRUE, <<>>)
       \/ /\ Refused
          /\ Fail("configurationDone")
          /\ UNCHANGED <<launched, launchRan>>
    /\ UNCHANGED <<outside, repl, requests, links, ended, failed>>

-----------------------------------------------------------------------------
(* main: evaluate in repl context. *)

\* Nothing is executed, held or reported that is not known to all.
Quiet ==
    /\ greeted /\ running = None
    /\ wire = <<>> /\ held = <<>> /\ line = <<>> /\ bridge = <<>>

Evaluate ==
    /\ Request
    /\ Admitted
    /\ replEvaluate' = [pending |-> TRUE, outputs |-> <<>>]
    /\ waiter' = NoResult
    /\ clean' = Quiet
    /\ GoTo("execute")
    /\ UNCHANGED <<outside, queues, current, launchRan, history>>

SendExecute ==
    /\ main = "execute"
    /\ \/ /\ Accepted
          /\ current' = sent'
          /\ GoTo("repl")
          /\ UNCHANGED <<replEvaluate, clean>>
       \/ /\ Refused
          /\ replEvaluate' = NoRepl
          /\ Fail("evaluate")
    /\ UNCHANGED <<outside, waiter, launchRan, requests, history>>

GetResult ==
    /\ main = "repl" /\ waiter.ready
    /\ waiter' = NoResult
    /\ Answer("evaluate", ~waiter.canceled, waiter.outputs)
    /\ UNCHANGED <<outside, queues, replEvaluate, launchRan, requests, history>>

\* The timer wins; the result may still come, or be there already.
EvaluateTimesOut ==
    /\ main = "repl"
    /\ GoTo("expired")
    /\ UNCHANGED <<outside, queues, repl, current, launchRan, requests, history, clean>>

ForgetEvaluate ==
    /\ main = "expired"
    /\ replEvaluate' = NoRepl /\ waiter' = NoResult
    /\ Fail("evaluate")
    /\ UNCHANGED <<outside, queues, launchRan, requests, history>>

-----------------------------------------------------------------------------
(* The bridge: HandleRidePayload. *)

Mut_EndsEvaluate(m) == m.type \in {"busy", "ready", "fatal"}

EndsEvaluate(m) == m.type \in {"ready", "fatal"}

\* completePendingReplEvaluateLocked
CompleteRepl(canceled) ==
    IF replEvaluate.pending
    THEN /\ replEvaluate' = NoRepl
         /\ waiter' = [ready |-> TRUE, canceled |-> canceled, outputs |-> replEvaluate.outputs]
    ELSE UNCHANGED repl

HandlePayload ==
    /\ bridge # <<>>
    /\ LET m == Head(bridge) IN
       /\ bridge' = Tail(bridge)
       /\ terminated' = (terminated \/ m.type = "fatal")
       /\ \/ /\ EndsEvaluate(m)
             /\ CompleteRepl(m.type = "fatal")
          \/ /\ m.type = "output" /\ replEvaluate.pending
             /\ replEvaluate' = [replEvaluate EXCEPT !.outputs = Append(@, m.of)]
             /\ UNCHANGED waiter
          \/ /\ ~EndsEvaluate(m)
             /\ m.type # "output" \/ ~replEvaluate.pending
             /\ UNCHANGED repl
    /\ UNCHANGED <<config, interpreter, busy, queues, waiting, history, clean>>

\* HandleRideReconnect, by a goroutine of its caller
Reconnect ==
    /\ MayReconnect
    /\ terminated' = FALSE
    /\ replEvaluate' = NoRepl
    /\ UNCHANGED <<config, interpreter, busy, bridge, queues, waiter, waiting, history, clean>>

-----------------------------------------------------------------------------
MainStep ==
    \/ Refuse
    \/ ConfigurationDone \/ SendLink \/ WaitLink \/ LinkTimesOut \/ SendLaunch
    \/ Evaluate \/ SendExecute \/ GetResult \/ EvaluateTimesOut \/ ForgetEvaluate

Next == Interpreter \/ Receive \/ MainStep \/ HandlePayload \/ Reconnect

Spec == Init /\ [][Next]_vars

(***************************************************************************)
(* Fairness.  The timers of main expire, and main goes on after them.      *)
(* Nothing is assumed of the interpreter, which may never answer, of the   *)
(* receive loop or of the bridge; nor that SendCommand returns, because a  *)
(* write to the interpreter has no deadline (internal/ride/transport/      *)
(* client.go).                                                             *)
(***************************************************************************)
Fairness ==
    WF_vars(LinkTimesOut) /\ WF_vars(EvaluateTimesOut) /\ WF_vars(ForgetEvaluate)

FairSpec == Spec /\ Fairness

-----------------------------------------------------------------------------
(* Properties. *)

\* A repl evaluate that found everything quiet, and was not disturbed while it
\* waited, is answered with the output of its own Execute, all of it and
\* nothing else, although output and prompt reach the bridge on their own.
ReplAnswerComplete ==
    reply.to = "evaluate" /\ reply.success /\ reply.clean => reply.outputs = <<reply.id>>

\* Whatever the interpreter was doing when the link expression was sent, and
\* whatever prompts are still on their way, the wait for it ends with success
\* only when it has been executed without an error; unless an Execute that
\* timed out before is still under way or the interpreter becomes busy by itself.
LinkCompleted ==
    /\ main = "launch" /\ clean /\ autoLink => current \in ended \ failed
    /\ reply.to = "configurationDone" /\ reply.success /\ reply.clean /\ reply.id # None =>
          reply.id \in ended \ failed

\* The interpreter starts the launch expression after it has been through the link
\* expression.
LinkFirst == autoLink /\ running' \in launched \ {running} => links \cap ended # {}

\* No repl evaluate has been sent.
ConfiguredOnly == 1..sent \subseteq links \cup launched

\* configurationDone, sent once or again, whatever timed out, failed or was
\* dropped by the dispatcher before: the interpreter does not start the launch
\* expression before it has been through a link expression; if it does not
\* become busy by itself, no repl evaluate was sent before, and no failed write
\* has left an Execute in the dispatcher's queue.
LinkBeforeLaunch ==
    [][ConfiguredOnly /\ others = 0 /\ held = <<>> => LinkFirst]_vars

\* The launch expression is sent once, however often configurationDone is sent
\* again after a failure or a success.
LaunchedOnce == Cardinality(launched) <= 1

\* A repl evaluate that has been answered, in whatever way, leaves no waiter
\* behind: the next one is not refused for it.
NoWaiterLeft == main = "idle" => ~replEvaluate.pending

\* main is in SendCommand.
Writing == main \in {"link", "launch", "execute"}

\* main comes back to the next request for ever, however long the interpreter is
\* silent and even if it is gone: the only thing that keeps it is a write of its
\* own that never ends.
EveryRequestAnswered == []<>(main = "idle") \/ <>[]Writing

-----------------------------------------------------------------------------
(* What the code says, and does not guarantee. *)

\* handleEvaluateRequest waits "for Execute completion in repl context" (the
\* message of evaluateTimeoutMessage): what is answered with success has been
\* executed.
ReplMeansExecuted ==
    reply.to = "evaluate" /\ reply.success => reply.id \in ended

=============================================================================

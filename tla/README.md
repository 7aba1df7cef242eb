# A verification of dyalog-dap in TLA+

dyalog-dap lets a DAP client (VS Code) debug APL programs in a Dyalog
interpreter that speaks the RIDE protocol. The adapter is one process with one
DAP connection and one RIDE connection. This directory holds TLA+ models of its
concurrent parts, the TLC runs that check them and TLAPS proofs about them.
`PROJECT.json` maps every definition to the lines it models.

## 1. Inventory of the system

| part | code (`src/`) | state | operations | who calls it |
|---|---|---|---|---|
| RIDE session dispatcher | `internal/ride/sessionstate/dispatcher.go` | prompt type, queue, pending saves and closes, subscribers, all under `mu` | `Run` (receive loop), `SendCommand`, `Subscribe` | its own goroutine runs `Run`; main and the bridge send; the bridge subscribes |
| DAP adapter: source mapping, breakpoints | `internal/dap/adapter/server.go` 572-637, 1168-1251, 1796-1909 | four maps between windows, references and paths, texts, deferred lines, under `Server.mu` | `setBreakpoints`, `OpenWindow`, `UpdateWindow`, `CloseWindow` | main (requests), bridge (payloads) |
| DAP adapter: evaluate | same file, 714-858, 1363-1391, 2219-2252 | one repl waiter, a map of value tip waiters | `evaluate` in repl, watch and hover context; output, prompts and value tips | main waits, the bridge answers |
| DAP adapter: scopes and variables | same file, 639-712, 1952-2519 | symbols per frame, pending symbol tips, variable references | `scopes`, `variables` | main waits, the bridge fills in |
| DAP adapter: lifecycle, control, threads | same file, 418-570, 976-1032, 1109-1163, 1253-1339 | session state, active tracer window and thread, tracer windows, thread cache | `initialize` to `disconnect`, stepping, `pause`, `threads`, `stackTrace` | main, bridge |
| runtime | `cmd/dap-adapter/main.go` | the live session, its bridge goroutine and dispatcher goroutine | request loop, `start`, `stop`, launch expressions | the process |
| RIDE transport | `internal/ride/transport/client.go` | the connection, three mutexes | `WritePayload`, `ReadPayload`, `Close`, `InitializeSession` | dispatcher, runtime |
| RIDE codec | `internal/ride/protocol/codec.go` | none | decode and encode payloads | dispatcher |
| harness | `internal/integration/harness/` | the process group of the interpreter, the connection, the transcript | `Start` with its clean-up, `Close` | runtime, tests |
| configuration | `internal/runtime/config` | none | which request starts a process, which is refused | runtime |
| DAP framing, decoding, diagnostics | `internal/dap/transport`, `internal/support`, `cmd/diagnostic-summary` | none | pure functions and byte I/O | runtime, scripts |
| VS Code extension | `vscode-extension/src` | editor state | install, set up, launch | the user |

How they interact. Three goroutines matter. *main* reads a DAP request, calls
`Server.HandleRequest` and writes the answer before it reads the next one. The
dispatcher's `Run` reads a RIDE message, updates the gates, and publishes the
message to its subscribers. The *bridge* takes messages from its subscription,
calls `Server.HandleRidePayload` and writes the DAP events that result. main
and the bridge share the `Server` through `Server.mu` and the writer of DAP
messages through its own mutex, and both call `Dispatcher.SendCommand`, which
shares `Dispatcher.mu` with `Run`. Neither mutex is held over a RIDE write made
by `setBreakpoints`, by the deferred breakpoints or by the dispatcher itself:
each such operation is a sequence of critical sections with writes between them.
Control commands are the exception: they are written while `Server.mu` is held.
That is where the hard behaviour
is: decisions taken under a mutex and carried out after it is released, writes
that fail half way through a sequence, replies that never come, and fatal
signals that clear what others are in the middle of.

What makes each part correct:

- dispatcher: no command is lost, repeated, or reordered in the queue; a
  `CloseWindow` waits for the saves of its window; the counters of saves stay
  exact over failed writes and replies; nothing waits for a prompt that has
  passed; a slow subscriber does not block the receive loop.
- source mapping and breakpoints: the maps agree, references are never reused,
  breakpoints that were answered with success reach the interpreter or stay
  deferred, the latest set of a file wins.
- evaluate and scopes: an answer belongs to the request it is given to; a
  request that timed out leaves nothing that a later one can trip over.
- lifecycle: the client is told of a fatal signal, and nothing succeeds after
  it has been told of the end.
- threads and stack: the stack of a thread is the interpreter's; a control
  command goes to the window the client was stopped in; ids tell threads apart.
- runtime: what is written to the client is numbered in its order; stopping
  leaves no connection and ends both goroutines without the timeouts.
- transport: a frame is never mixed with another; nothing overtakes the
  greeting; closing ends a blocked read or write.
- harness: a start that fails, wherever it fails, leaves nothing behind.

`PROJECT.json` lists the hazards, each at its line, with the properties that
watch it or the reason none does.

## 2. Modules

| module | what it is |
|---|---|
| `CommandGate` | what `SendCommand` promises: a command is held, then written, refused or dropped, once |
| `Dispatcher` | `dispatcher.go`; implements `CommandGate` |
| `DispatcherProofs`, `GateProofs` | theorems about `Dispatcher`; that it implements `CommandGate` |
| `Breakpoints` | source mapping and breakpoints of `server.go` |
| `BreakpointsProofs` | theorems about `Breakpoints` |
| `Executions` | expressions sent with Execute: link and launch expressions of `main.go`, repl evaluate of `server.go` |
| `ExecutionsProofs` | theorems about `Executions` |
| `Inspection` | the scopes request and evaluate in watch and hover context of `server.go` |
| `InspectionProofs` | theorems about `Inspection` |
| `Session` | the request loop, the start and stop of the runtime, the request state machine, and the writer of DAP messages: `main.go` with the lifecycle of `server.go` |
| `SessionProofs` | theorems about `Session` |
| `Connection` | the frames, the handshake and `Close` of `client.go`, under `Start` and `Close` of the harness and its process group |
| `ConnectionProofs` | theorems about `Connection` |
| `Tracer` | tracer windows, threads, stacks, stops and the target of control commands in `server.go` |
| `TracerProofs` | theorems about `Tracer` |
| `MCDispatcher`, `MCBreakpoints`, `MCInspection`, `MCTracer` | instances for TLC (the other modules need none: their cfg files name their constants) |

The modules overlap where the parts meet, each keeping of its neighbours what
its own properties can tell apart: `Session` has the dispatcher's receive loop
as far as its end and its writes matter, `Executions` its queue, `Connection`
main and the bridge as two writers; the order of the commands that `Session`,
`Breakpoints` and `Inspection` send is `Dispatcher`'s.

### Dispatcher

Actors are any number of callers of `SendCommand` and the receive loop. `pc[a]`
says where an actor stands, `hand[a]` what it has taken under the mutex and must
still write (the local variables `queued`, `closes` and `cmd`), `closing[a]` the
window it is settling. One critical section is one action:

| action | code |
|---|---|
| `DeferClose`, `Enqueue`, `DecideWrite` | the three outcomes of the critical section of `SendCommand` |
| `WriteSucceeds`, `WriteFails` | its write, outside the mutex |
| `RollbackPendingSave` | the section a failed SaveChanges enters |
| `HandlePromptType`, `FlushSucceeds`, `FlushFails` | `handlePromptType`: taking the queue, and each write of the flush |
| `HandleReplySaveChanges`, `CloseSucceeds`, `CloseFails` | the reply, and the writes of the closes it (or a rollback) releases |
| `HandleHadError`, `HandleFatal`, `HandleOther`, `StopReading` | the rest of `handleInbound` and of `Run` |
| `Publish`, `Subscribe`, `Unsubscribe`, `Consume` | subscriptions |

The interpreter is external: it may send any prompt type at any time and
answers the SaveChanges it has received once each (`unanswered`). Histories
(`written`, `refused`, `cancelled`, `requeued`, `stranded`, `fatal`) are for the
properties and no guard reads them.

### Breakpoints

The maps of the code are functions here with a value for "absent" (`0`,
`NoPath`, `NoToken`, `Unbound`). `main` and `bridge` say where the two
goroutines stand; `request` and `intent` are what they have read under
`Server.mu` and use after releasing it. The lines of a request are represented
by the number of the request: which set is kept, sent or lost is what the
properties tell apart, not the line numbers.

| action | code |
|---|---|
| `Defer`, `SyncLayout` | `setBreakpoints` for an unmapped source, and the GetWindowLayout after it |
| `Take`, `SendSucceeds`, `SendFails`, `ClearDeferred` | for a mapped source: first section, send, second section |
| `OpenWindow`, `UpdateWindow` | `bindTokenToSource`, `storeSourceText`, `collectDeferredBreakpointIntentLocked` in one section |
| `IntentSucceeds`, `IntentFails`, `CompleteIntent` | `executeOutboundIntents` |
| `CloseWindow` | `unbindToken` |
| `Terminate`, `DropController`, `Reconnect` | fatal signals or disconnect, `runtime.stop`, `HandleRideReconnect` |

`sent` holds the SetLineAttributes in the sense of "accepted by `SendCommand`";
what the dispatcher does with them is `Dispatcher`'s business (SetLineAttributes
is written at once or queued in order, see `GateSpec` and
`WrittenInQueueOrder`). `HandleRideReconnect` has no caller in the repository
besides the tests; it is modelled behind `MayReconnect`.

### Executions

Execute has no reply. That it has ended is concluded from prompt types, and two
places of the code do so independently. main waits for the link expression by
reading a subscription of its own, made before the command is sent, until it has
seen a busy prompt and then another one. A repl evaluate leaves a channel that
the bridge fills at the next prompt that is not busy. The module puts both on
top of what the dispatcher does to Executes (queue while busy, drop on HadError
or a fatal signal, flush when a busy period ends) and an interpreter that
executes in order, may be busy by itself from the start or later, may fail, go
silent or disconnect.

| action | code |
|---|---|
| `Greet`, `Start`, `StartOther`, `Error`, `Finish`, `Disconnect` | the interpreter (external) |
| `Receive` | the dispatcher handles a message, flushes or drops, and publishes it |
| `ConfigurationDone`, `SendLink`, `WaitLink`, `LinkTimesOut`, `SendLaunch` | `executeConfiguredLaunchExpression` with `executeRuntimeCommand` and `waitForExecuteCompletion` |
| `Evaluate`, `SendExecute`, `GetResult`, `EvaluateTimesOut`, `ForgetEvaluate` | `handleEvaluateRequest` in repl context; the last two are the timer and the section after it, between which the result may still arrive |
| `Refuse` | requests after a fatal signal |
| `HandlePayload` | the bridge: output, prompts, fatal signals |
| `Reconnect` | `HandleRideReconnect`, only with `MayReconnect` |

`Receive` takes one message in one step although the dispatcher flushes and
publishes in several: a command sent in between meets the same queue as one sent
after it, and subscribers get the message either way, since a subscription made
in between is in time for it. The two subscriptions (1024 events each) lose
nothing here; `MaxLag` bounds how far readers fall behind. The properties of
answers say nothing of a reader that falls further behind than the channel has
room: a prompt or an output that the dispatcher drops is then missing from the
answer, or leaves it to the timer.

What it does not promise: if the interpreter becomes busy by itself, or an
Execute that was given up is still under way, its prompts can end the wait for
the link expression although that is still in the dispatcher's queue; a
`HadError` then drops it, and the launch expression runs without it. That is why
`LinkBeforeLaunch` has its preconditions.

### Inspection

Both requests ask the interpreter with GetValueTip and wait. main holds
`Server.mu` only in between; meanwhile the bridge opens, changes and closes
windows, stores the values that arrive and ends the session. `frame`, `token`
and `todo` are what main has taken under the mutex and uses after releasing it.

| action | code |
|---|---|
| `Open`, `Update`, `Close`, `RunOrStop`, `SendTip`, `Disconnect` | the interpreter (external) |
| `Scopes` | first section of `handleScopesRequest`: `refreshFrameSymbolsLocked`, `prepareSymbolTipRequestsLocked` |
| `SendGetValueTip` | one send of its loop, which may fail |
| `SymbolTipsArrived`, `SymbolTipsTimeOut` | `waitForSymbolTipRequests` |
| `BuildScope` | last section: `ensureScopeForFrame` |
| `Evaluate`, `SendEvaluate`, `GetResult`, `EvaluateTimesOut` | `handleEvaluateRequest` in watch or hover context |
| `HandlePayload`: `ShowWindow`, `CloseWindow`, `ValueTip`, `SetPromptType`, `Terminate` | `HandleRidePayload` |

A value is what was asked for and the phase of the window it was evaluated in:
how often the window had been opened or closed by then (it is open when that is
odd), which is how `TipIsOwn` tells a late value from a present one. Everything
the interpreter sends passes the channel of the bridge, which drops what finds
no room (`Emit`, from `publish` and `tryPublish`). So a CloseWindow may be lost,
and then `refreshFrameSymbolsLocked` keeps, for the next opening of the window,
the symbols and values of the one before. `TipIsOwn` says exactly that and no
more: between what is shown and where the value comes from there is no
CloseWindow that reached the channel (`closes`); when none is lost, the two are
the same opening. Each frame shows a file of its
own: files shown in several windows are the business of `Breakpoints`. A scope
and what can be expanded below it is one reference, since they are allocated and
dropped together. When a value was read is not modelled: the code never asks
again for a symbol that has a value, so after the interpreter has run on the old
value is shown (listed as a hazard). The `variables` request only reads a
reference, and `HandleRideReconnect` is left out here.

### Session

`main`, `run` and `bridge` say where the three goroutines stand. A DAP message is
written in two steps, as in the code: drawing `nextSeq` with the mutex of the
writer, and the write that releases it, which may fail. A control command keeps
`Server.mu` (`main = "send"`) for as long as the interpreter does not take it,
and then `HandleRidePayload` cannot begin (`MutexFree`). Where the code waits
with a timeout, the end of the wait and the timeout are two actions.

| action | code |
|---|---|
| `ReadRequest`, `InputEnds`, `NextRequest` | the loop of `run` |
| `StartSucceeds`, `StartFails` | `rideRuntime.start`, before launch or attach is handled |
| `Handle`, `ControlSent`, `Configured` | `HandleRequest` (the states and what each refuses), `sendWindowCommand` under the mutex, the expressions of configurationDone |
| `MainDraws`, `WriteResponse`, `WriteFollowing` | the response and the events that follow it |
| `Forget`, `CloseHarness`, `Cancel`, `WaitEnds`, `WaitTimesOut` | `rideRuntime.stop`, in its order, and `waitForDone` |
| `RunLoops`, `RunReads`, `RunReadFails`, `RunFlushes`, `RunPublishes` | the receive loop |
| `BridgeTakes`, `BridgeHandles`, `BridgeSends`, `BridgeDraws`, `BridgeWrites`, `BridgeLoops`, `BridgeEnds` | the bridge goroutine of `start` |
| `InterpreterSends`, `InterpreterLeaves` | external |

What the code does that a reader may not expect: after a fatal signal every
request is refused, disconnect included, so that the runtime is stopped only when
the input ends; `CleanEnd` shows that this suffices. And a control command has no
bound on its write: while it hangs, the bridge cannot handle a fatal signal.
`FatalReported` excludes just that. The expressions of configurationDone may hang
in a write too (`Configured`), but main then holds no mutex.

### Connection

`part[w]` is how much of its frame a writer has written, `writeMu` who may; a
frame is `Lock`, three `WritePart`s and `Unlock`. `out` is what the interpreter
has received. `Close` sets `Client.conn` to nil and closes it without any of the
two other mutexes. `step` walks through `InitializeSession`.

| action | code |
|---|---|
| `ReadConfig`, `StartLaunchCommand`, `DialSucceeds`, `DialTimesOut`, `OpenTranscript`, `StartReturns` | `FromRequest`, then `Harness.Start` |
| `ShakeReads`, `ShakeReadFails`, `ShakeWrites` | `InitializeSession`: two reads, five writes |
| `MainWrites`, `BridgeCalls`, `BridgeBegins`, `BridgeRefused`, `BridgeWrites` | `WritePayload` by main and by the bridge |
| `RunBegins`, `RunReads`, `RunReadFails` | `ReadPayload` |
| `Close`, `CloseConn`, `CloseTranscript`, `StopGroup`, `LeaderWaited`, `WaitTimesOut`, `Kill`, `Reap` | `Harness.Close`, and the same clean-up after a failed start |
| `PeerSends`, `PeerLeaves`, `LeaderForks`, `LeaderExits` | the interpreter and the shell that starts it (external) |

`stopLaunchCommand` sends SIGTERM to the group, waits for the shell only, and
kills the group when that wait times out. A child that ignores SIGTERM while
its shell obeys, or that SIGTERM misses because its shell has ended by itself,
is left running; `NothingLeft` names these two cases and shows that there is no
third. The reads of the handshake have no deadline: an endpoint that accepts the
connection and stays silent hangs the launch request.

### Tracer

The interpreter keeps a `stack` of open windows and says what it does to it; its
messages go through the channel of the bridge, which loses one that finds no
room (`Publish`). The bridge handles a message under the mutex and tells the
client of a stop after releasing it, in a step of its own (`TellStop`).

| action | code |
|---|---|
| `OpensWindow`, `UpdatesWindow`, `Highlights`, `ClosesWindow`, `OtherMessage`, `AnswersGetThreads`, `AnswersGetWindowLayout` | the interpreter (external), through `publish` |
| `HandleOpenWindow`, `HandleUpdateWindow`, `HandleSetHighlightLine`, `HandleCloseWindow`, `HandleSetThread`, `HandleHadError`, `HandleFatal`, `HandleReplyGetThreads` | the cases of `HandleRidePayload` with `updateTracerWindow`, `unbindToken`, `updateThreadCache`, `terminateSessionFromRide` |
| `TellStop` | the bridge writes the stopped event |
| `RequestThreads`, `Disconnect`, `Reconnect` | main; `HandleRideReconnect` |

`CommandWindow` is where `sendWindowCommand` sends a control command: the active
window at the time, whatever thread the request names (the code does not read
its `threadId`). `Frames` is `buildStackFramesForThread`. `disturbed` is the
history of what excuses a wrong picture: a message that was lost, or one around a
reconnect. `given` is the history of what the lists of threads said: which entry
was given which id.

## 3. Runs

| run | instance | what it shows |
|---|---|---|
| `dispatcher_safety` | 2 callers, 1 window, prompts {0,1}, 4 kinds of command, 3 commands, 1 failed write, 3 other messages, the connection may end | types, `HeldOnlyWhileBusy`, `SavesAccounted`, `NoStrandedClose`, `WrittenInQueueOrder`, `CloseAfterEarlierSaves`, and that `Dispatcher` implements `CommandGate` |
| `dispatcher_liveness` | 2 callers, 1 subscriber with room for one event | `NoCommandHeldForever`: everything accepted leaves the dispatcher |
| `close_before_reply` | violation | a CloseWindow overtakes the SaveChanges it should wait for |
| `breakpoints_safety` | 2 files, 2 windows, 2 references, 3 requests, 1 failed send, session end, reconnect | types, `MapsAgree`, `TextOnlyWhileMapped`, `OnePendingSet`, `NoMissedWindow`, `DeferredNotLost` |
| `breakpoints_race` | violation | the bridge sends an older set of lines after main has sent a newer one |
| `executions` | 2 requests, 4 Executes, 1 error, the interpreter busy by itself once, failing writes, disconnect, reconnect | types, `ReplAnswerComplete`, `LinkCompleted`, `LinkBeforeLaunch`, `EveryRequestAnswered` |
| `executions_repl` | violation | one evaluate is answered by a prompt from before its Execute |
| `inspection_safety` | 1 window opened, closed and opened again, 2 symbols, 2 tokens in all (of tips or evaluates), 1 reference, room for 2 messages, failing sends, timeouts, disconnect (2,837,982 states) | types, `TipIsOwn`, `EvaluateIsOwn`, `NothingPending` |
| `inspection_scopes` | violation | a scope built before its values arrived hides them for ever after |
| `session` | 3 requests, 2 messages of the interpreter, room for 1 event (636,157 states) | types, `CleanEnd`, `OutputOrdered`, `NoEarlyEvent`, `NoSuccessAfterTerminated`, `GoroutinesEnd`, `FatalReported` |
| `connection` | 2 commands, 3 frames of the interpreter, every setting of the launch command (1,015,657 states) | types, `WholeFrames`, `GreetingFirst`, `NothingLeft`, `TeardownEnds` |
| `tracer` | 2 windows, 2 threads with ids, 2 names, room for 2 events, 4 messages, 2 threads requests, disconnect, reconnect (2,802,366 states) | types, `StackFollowsInterpreter`, `ControlTarget`, `StopNamesItsStack`, `IdsTellThreadsApart` |

Why the bounds are enough. Dispatcher: a queue order needs two queued commands
and a third that arrives in between; a save race needs two callers, one window
and a SaveChanges, a second SaveChanges and a CloseWindow; a failed flush needs
one failure with something left behind it. Windows do not interact except
through the queue, so one is enough for the safety properties (the proofs are
for any number). Breakpoints: rebinding needs two files and two windows; losing
or reordering lines needs two requests, replacing under two names a third; each
failure path needs one failure. References are allocated once per file, so two
are all that two files can use. Executions: a stale answer needs an earlier Execute that was given up; two
requests are a first attempt and one that meets what it left, and four Executes
are all that two requests can send, so that no bound stands in for an answer.
Inspection: a late value needs a window that is
opened, closed and opened again (three phases) and a channel that holds the close and
the open behind which it comes; a third message then is lost, the close among them. A
mix-up of values needs two symbols or two evaluates, or one of each on the same
counter of tokens: `MaxTokens` allows two tokens in all, whichever request takes
them, and one reference, for a second scope needs tips of its own to be of interest. main asks for one
frame at a time and frames share nothing but the tokens and the references, so
one window is enough (the proofs are for any number). Whether a symbol is local
or global makes a difference only when that changes, which resets the scope as a
new symbol does, so one kind is enough. Session: a session needs initialize, launch
and one request more (a control command, a disconnect, a second launch), or the
end of the input at any place; a fatal signal behind a message that the bridge is
still at needs two messages, and room for one makes the receive loop lose one.
Connection: two writers need a command each; the greeting takes two of the three
frames of the interpreter and the third meets the reader. Tracer: a stack needs
two windows, and two threads of them; a window that is used again needs an open,
a close and an open, with one message of another window; two replies with two
names of threads are what can clash; room for two loses a message although the
bridge keeps up.

Deadlock is checked by the Breakpoints runs and the dispatcher's liveness run.
The others may stop: the dispatcher's safety runs when the command bound is used
up and the connection has ended; Executions, Inspection and Tracer when requests
and messages are used up; Session when main has ended; Connection when the
harness has been closed. That nothing hangs there is what `EveryRequestAnswered`,
`GoroutinesEnd`, `FatalReported` and `TeardownEnds` say.

Fairness. `Dispatcher!Fairness`: a goroutine that is not blocked goes on (weak
fairness of the writes, the rollback, the flush, the publish); the interpreter
keeps coming back to a prompt and answers SaveChanges (strong fairness, because
the receive loop is not always at its read). No fairness for a caller or for
the subscriber: a subscriber that never reads is exactly the case of interest.
`Executions!Fairness`: the two timers expire (`time.NewTimer`, `time.After`) and
main goes on after its own. Nothing is assumed of the interpreter, of the receive
loop and of the bridge, and not that `SendCommand` returns, since a write of the
transport has no deadline (`client.go:87`): `EveryRequestAnswered` says that main
comes back to the next request for ever, or stays in such a write for ever.
`Session!Fairness`: a goroutine that is not blocked goes on, and the timer of
`waitForDone` expires. That `start` returns is not assumed. A write to the interpreter ends for certain only when the
connection is broken, a read only when it is closed or there is a message; the
interpreter may be silent for ever and take nothing. Of the client it is assumed
that it takes what is written or closes the stream.
`Connection!Fairness`: the same for the reader, the bridge and the teardown; nothing
makes main call `Close`.
There is no liveness of deferred breakpoints: the adapter sends them again only
when a window of their file is shown, has no timer for it, and nothing in the code
makes the interpreter show one.

## 4. Findings

Four runs are violations on purpose: each states what a document of the
repository says and finds a behaviour of the code against it. `PROJECT.json`
quotes the lines. Behind `executions_repl` is that a prompt says that something
has ended, not what. `LinkCompleted`, `LinkBeforeLaunch` and
`ReplAnswerComplete` state what does hold: when nothing else was under way when
the command was sent, or the interpreter does not become busy by itself, answers
and order are right, over timeouts, errors and failing writes. Behind
`inspection_scopes` is a cache: the scope of a frame is built once, with
"(loading value)" for what is not there yet, and answered until the window is
closed or shows other symbols. `ScopeStable` (proved, section 5) is the other side
of that cache.

## 5. Proofs

TLAPS proves, for any number of callers, windows, files, references, any
capacity and any bound:

- `DispatcherProofs!TypeCorrect`: `[](TypeOK /\ HandInv)`. `HandInv` ties an
  actor's place to what it holds; without it the Head of an empty sequence
  would be in reach and `TypeOK` is not inductive.
- `NothingLeftBehind`: `[]HeldOnlyWhileBusy`, from `PromptInv`: while the
  receive loop is flushing, the queue is empty and the prompt type is not 0 -
  the flush owns the moment between taking the queue and the next prompt.
- `NoCloseStranded`: `[]NoStrandedClose`, inductive by itself with `TypeCorrect`.
- `QueueOrder` and `FlushAtPrompt`: the action properties `WrittenInQueueOrder`
  and `FlushedOnlyAtPrompt` (what is flushed is flushed before the next prompt), from `OrderInv`: the numbers in the queue and in
  the flush ascend, and what a caller writes directly is in neither.
- `GateProofs!SavesCounted`: `[]SavesAccounted`, with `SavesInv` adding that the
  callers that are writing a SaveChanges are finitely many, so that one that
  begins or ends changes the count by one (`FlightMoves`).
- `KeepsPromise`: `Spec => GateSpec`, the refinement of `CommandGate`. Each step
  accepts one command, or writes, refuses or drops some, or changes nothing that
  `CommandGate` sees (`GateMove`). `GateInv`: the places that hold commands (the
  hand of each actor, the closes of each window, the queue) hold no command twice
  and no two hold the same one, and no command has a number that has not been
  issued; without it a written command could still be held somewhere else.
- `NothingLost`: `[]OneFate`, from `GateInv` and `GateMove`: each number that has been
  issued is a command that is held, written, refused or dropped, and only one of
  these. It is what callers may conclude from `CommandGate`,
  and is only proved: the run checks `GateSpec` itself.
- `ClosesAfterSaves`: the action property `CloseAfterEarlierSaves`, from
  `ReadyInv`: a CloseWindow in an actor's hand stays clear of earlier saves. What
  decides that it may be written is read under the mutex and the write comes
  later; a save accepted in between has a later number.
- `BreakpointsProofs!TypeCorrect`: `[](TypeOK /\ RequestNamed)`. A request
  that waits to be sent names a file, if only by a reference; `sent` is not
  well typed without that.
- `MappingConsistent`: `[]MapsAgree`, from `MapsInv == MapsAgree /\ FreshRef`:
  the next reference to be allocated names no file yet, so that binding a new
  file does not disturb the inverse maps. `UnnamedRef` and `RefForFacts` say
  what a reference taken by `bindTokenToSource` can be.
- `RefsNeverReused`: the action property `RefsStable`, from the same invariant.
- `TextsFresh`: `[]TextOnlyWhileMapped`, from `MapsInv`: a text survives a step
  only if its file keeps a window, and a window that shows another file never
  takes the file's registration away.
- `PendingOne`, `WindowsServed` and `AnsweredKept`: `[]OnePendingSet`,
  `[]NoMissedWindow` and `[]DeferredNotLost`, from `DeferredInv`. A file has two
  places for deferred lines, its path and its reference: where both hold lines
  they are the same (`PendingInv`). What main has read and uses after its send
  names one file, and what it is about to remove has been sent (`RequestInv`).
  What the bridge has in hand is of one file, and without a reconnect nothing
  newer is deferred for it meanwhile, because its window is there (`IntentInv`):
  that is why the bridge, too, may remove what is deferred after its own send.
- `ExecutionsProofs!TypeCorrect`: `[]TypeOK`.
- `NoWaiter`: `[]NoWaiterLeft`, from `PendingWhileWaiting`: main takes a result
  without clearing the pending evaluate, which is right only because the bridge
  has cleared it whenever a result is there.
- `LaunchOnce`: `[]LaunchedOnce`, from `OneLaunch`: while main may still send a
  launch expression, none has been sent.
- `ReplComplete`: `[]ReplAnswerComplete`, from `ReplInv`. While a repl evaluate
  that found everything quiet waits, either nothing under way is of another
  Execute (`Untouched`), or its output and the prompt after it are the next that
  the bridge handles (`Done`), or the prompt is (`Reported`).
- `LinkComplete`: `[]LinkCompleted`, from `LinkInv` (with `OnceInvariant`: no id is
  in two places). `Undisturbed` reads together what `waitForExecuteCompletion` has
  read, what is in its channel and what is on the line: if that would end the
  wait with success, the link expression has ended without an error.
- `LinkRunsFirst`: the action property `LinkBeforeLaunch`, from `LaunchInv`. Until
  a link or launch expression is started, a launch expression is on the wire only
  behind a link expression or behind what the dispatcher still has to flush
  (`LinkAhead`), and main goes on to launch only while the link expression is
  queued: if the dispatcher has dropped it, the error that dropped it is the first
  thing the wait reads.
- `InspectionProofs!TypeCorrect`: `[](TypeOK /\ HasToken)`; an evaluate under way
  has a token, without which what it asks for is not well typed.
- `NothingLeft`: `[]NothingPending`, from `WaitInv`: what waits belongs to the
  request main is at, and an evaluate whose result is there waits no more.
- `KeptForOpenFrames`: `[]OnlyOpenFrames`, from its two halves and `WaitInv`: a
  scopes request adds pending tips only for its own frame, which is open.
- `ReferencesStable`: the action property `ScopeStable`, from `ScopeInv`: a
  reference that a frame names can be expanded and is named by no other frame,
  so dropping one scope never takes away another.
- `OwnAnswers`: `[]EvaluateIsOwn`, from `OwnInv`: queries and answers that carry
  the token of an evaluate carry its value, which needs the two ranges of tokens
  to be apart (`BoundsAssumption`).
- `OwnValues`: `[]TipIsOwn`, from `TipInv`, an invariant about the messages under
  way: where the adapter, the messages on their way and the interpreter stand on two
  sides of a CloseWindow that was not lost, that message is in between (`ShowInv`),
  and when it is handled the window forgets its symbols and pending tips. Nobody
  knows of a phase that has not begun (`PastInv`), and a window whose last CloseWindow
  was not lost is closed (`ClosedInv`), so that a new opening is on no wrong side of
  it. A token stands for one query, and an answer to it is about the name it asked
  for (`TokenInv`).
- `SessionProofs!TypeCorrect`: `[]TypeOK`.
- `EndsClean`: `[]CleanEnd`, for any number of requests and messages and any
  capacity: once main stops, each place of `rideRuntime.stop` has behind it what
  the places before it did.
- `Ordered`: `[]OutputOrdered`, from `NumberInv` (only the holder of the writer's
  mutex has a number, and it is the next to be written) and `AnswerInv` (what has
  been answered against where main stands).
- `GreetedFirst`: `[]NoEarlyEvent`, from `GreetInv`: the bridge exists only after
  initialize has been answered.
- `NothingSucceedsAfterwards`: `[]NoSuccessAfterTerminated`, from `LateInv`: when
  the client has been told of the end, the state is terminated, so a request read
  after that is refused by every handler.
- `ConnectionProofs!TypeCorrect`: `[]TypeOK`.
- `LeavesNothing`: `[]NothingLeft`, from `LeftInv`: what each place of `Start` has
  acquired and each place of the teardown has released.
- `FramesWhole`: `[]WholeFrames`, from `FrameInv`: the end of `out` is as much of a
  frame as the holder of `writeMu` has written, and a torn frame leaves the
  connection broken or closed.
- `GreetedBeforeCommands`: `[]GreetingFirst`, from `GreetInv`: the step of the
  handshake says how many frames are out.
- `TracerProofs!IdsTell`: `[]IdsTellThreadsApart`, from `IdsInv`: ids made up are
  all different, below the next one and above those of the interpreter, and every
  id that was ever listed is that of the interpreter or the one its name still has.
  It needs what a reply's fresh names become, for any number of them (`GivesIDs`).
- `ControlWindow` and `StopThread`: `[]ControlTarget` and `[]StopNamesItsStack`, from
  `LastInv` and `ChannelInv`. `ChannelInv` relates the two ends of the channel: what
  the adapter knows of a window and the messages under way about it lead to what
  the interpreter has open, and every message under way is apt when its turn
  comes (a highlight meets a known window, an update brings no other thread).
  Without it the handlers could be given anything, and neither property holds.
- `TracerProofs!TypeCorrect`: `[]TypeOK`, with the order of the windows naming each
  open window, and each once (`Ordered`, preserved by `WithWindow` and
  `WithoutWindow`): only then does removing a window remove one place.
- `StacksFollow`: `[]StackFollowsInterpreter`, from `FollowInv`: what the rest of the
  channel makes of the adapter's windows (`Final`) are the windows of the
  interpreter, in its order and with its threads (`Reflects`). A message of the
  interpreter is one more at the end of the channel and does to `Final` what was
  done to its stack (`AfterOneMore`, `InterpreterFollowed`); the bridge handles the
  first and leaves `Final` as it is (`AfterOneLess`, `Bridged`); the layout after a
  reconnect builds the stack from nothing (`LayoutShown`).

`Picked` (the loop that removes a token from a slice, and the one that collects
the frames of a thread) and `After` are recursive functions of the length, in
place of `SelectSeq` and a fold, whose definitions the prover can make nothing of;
`MCTracer` checks that `Picked` selects as `SelectSeq` does.
What they compute for every length is proved without an induction theorem that
takes an operator: a set of naturals that is not empty has a least element
(`LeastElement`, from the library's well-foundedness of `<`), so that a set that
holds 0, and n whenever it holds n - 1, holds 0..N (`UpTo`).

The proofs assume only the named ASSUMEs of the modules: bounds are naturals, the
values for "absent" are none of the real ones (`FramesAssumption` and the like),
the ids the interpreter gives to threads are below the first id made up, the two
ranges of tokens are apart.

Every invariant and every action property that a run checks is proved, and so is
the refinement. Only model-checked are the liveness properties
(`NoCommandHeldForever`, `EveryRequestAnswered`, `GoroutinesEnd`, `FatalReported`,
`TeardownEnds`): liveness under fairness and ENABLED are out of the prover's reach,
and so is anything that depends on RECURSIVE operators; the modules declare none.

## 6. What is not modelled, and why

- The contents of payloads, line numbers, texts and file names: data the
  properties do not tell apart.
- The codec, DAP framing, the value helpers, the extraction of payload fields and
  the diagnostic summary: pure conversions of text and argument maps, or byte I/O.
  What they reject is in the models where it changes state: an invalid greeting
  ends the handshake, and a message the server does not know changes nothing.
- The traffic log of the transport and the text of transcripts: written beside
  the frames and read by nobody.
- Windows: the process group there is its first process.
- `HandleRideReconnect` for scopes and evaluates (`Inspection`): nothing calls it.
- The VS Code extension: editor API and downloads.

## 7. Plan

Done: `CommandGate`, `Dispatcher`, `Breakpoints`, `Executions`, `Inspection`,
`Session`, `Connection`, `Tracer`, each with its proofs.

Left:

1. Pure operators against a reference definition: decoding of numbers and
   booleans, locating a launch configuration.

------------------------------- MODULE Tracer -------------------------------
(***************************************************************************)
(* Threads and the tracer: which windows of the tracer are open, the stack *)
(* of a thread, the threads the client is shown, and the window that the   *)
(* control requests go to (internal/dap/adapter/server.go).                *)
(*                                                                         *)
(* The interpreter opens, highlights and closes windows; its messages go   *)
(* through the channel of the bridge, which loses one that finds no room.  *)
(* The bridge changes the state of the server under its mutex and tells    *)
(* the client of a stop after it has released it, while main handles       *)
(* requests.  A continue, next, stepIn or stepOut names no window: it goes *)
(* to the active one, whichever that is when main handles it.              *)
(*                                                                         *)
(* Of a window only the thread counts here, not the line or the name; of a *)
(* thread without an id, the description or state by which it is told from *)
(* others.  The server has its controller and sends never fail (see        *)
(* Session); the files that windows show are in Breakpoints.               *)
(***************************************************************************)
EXTENDS Integers, Sequences, FiniteSets, SequencesExt

CONSTANTS
    Windows, NoWindow,  \* tokens of tracer windows
    Threads,            \* ids of threads; 0 is no id
    Names,              \* what threads without an id are told apart by
    FirstSyntheticID,   \* nextSyntheticID of a new session: 1000000
    Capacity,           \* room in the channel of the bridge
    MaxMessages,        \* bound: messages of the interpreter
    MaxPolls,           \* bound: threads requests
    MayReconnect        \* bound: whether the session may be reconnected

ASSUME WindowsAssumption == NoWindow \notin Windows
ASSUME ThreadsAssumption ==
    /\ FirstSyntheticID \in Nat \ {0} /\ Threads \subseteq 1..(FirstSyntheticID - 1)
ASSUME BoundsAssumption ==
    /\ Capacity \in Nat \ {0} /\ MaxMessages \in Nat /\ MaxPolls \in Nat
    /\ MayReconnect \in BOOLEAN

VARIABLES
    attached,           \* state is attached or launched
    tracerWindows,      \* the thread of each window, 0 without one, or Closed
    tracerOrder,
    activeTracer,       \* activeTracerWindow while activeTracerSet
    activeThread,       \* activeThreadID while activeThreadSet, or 0
    threadOrder,        \* the ids in threadCache, in order
    syntheticThreadIDs, \* 0 for a name without one
    nextSyntheticID,
    channel,            \* what the dispatcher has passed on to the bridge
    stop,               \* the stopped event the bridge is about to write
    told,               \* the last stop in a window that the client was told of
    stack,              \* interpreter: open windows and their threads, oldest first
    messages, polls,    \* numbers of messages and of threads requests
    layoutAsked,        \* GetWindowLayout has not been answered
    asked,              \* GetThreads commands not answered
    disturbed,          \* history: a message was lost, or came just before or after a
                        \* reconnect: it was left over, or ahead of the layout
    given               \* history: the entries listed so far, with their ids

tracer   == <<tracerWindows, tracerOrder>>
active   == <<activeTracer, activeThread>>
threads  == <<threadOrder, syntheticThreadIDs, nextSyntheticID, given>>
requests == <<polls, layoutAsked, asked>>
vars == <<attached, tracer, active, threads, channel, stop, told, stack, messages,
          requests, disturbed>>

Closed == -1
Tids   == Threads \cup {0}
\* What a thread is told apart by.  Bound: a reply lists at most two.
Entry  == [tid : Threads] \cup [name : Names]
Reply  == UNION {[1..n -> Entry] : n \in 0..2}
Given  == [of : Entry, id : Nat]

Message ==
    [type : {"open", "update"}, win : Windows, tid : Tids]
    \cup [type : {"close", "highlight"}, win : Windows]
    \cup [type : {"setThread"}, tid : Tids]
    \cup [type : {"threads"}, list : Reply]
    \cup [type : {"error", "fatal"}]

Stop   == [win : Windows \cup {NoWindow}, thread : Tids]
NoStop == [win |-> NoWindow, thread |-> 0]

\* All but the type of tracerOrder.
RestTyped ==
    /\ attached \in BOOLEAN
    /\ tracerWindows \in [Windows -> Tids \cup {Closed}]
    /\ activeTracer \in Windows \cup {NoWindow} /\ activeThread \in Tids
    /\ threadOrder \in Seq(Nat)
    /\ syntheticThreadIDs \in [Names -> Nat] /\ nextSyntheticID \in Nat
    /\ channel \in Seq(Message)
    /\ stop \in Stop \cup {<<>>} /\ told \in Stop
    /\ stack \in Seq([win : Windows, tid : Tids])
    /\ messages \in Nat /\ polls \in 0..MaxPolls
    /\ layoutAsked \in BOOLEAN /\ asked \in Nat
    /\ disturbed \in BOOLEAN /\ given \in SUBSET Given

\* The order names each window that is open, once.
TypeOK ==
    /\ RestTyped
    /\ tracerOrder \in Seq(Windows)
    /\ \A i, k \in DOMAIN tracerOrder : tracerOrder[i] = tracerOrder[k] => i = k
    /\ \A w \in Windows :
         tracerWindows[w] # Closed <=> \E i \in DOMAIN tracerOrder : tracerOrder[i] = w

Init ==
    /\ attached = TRUE
    /\ tracerWindows = [w \in Windows |-> Closed] /\ tracerOrder = <<>>
    /\ activeTracer = NoWindow /\ activeThread = 0
    /\ threadOrder = <<>>
    /\ syntheticThreadIDs = [n \in Names |-> 0] /\ nextSyntheticID = FirstSyntheticID
    /\ channel = <<>> /\ stop = <<>> /\ told = NoStop
    /\ stack = <<>> /\ messages = 0 /\ polls = 0
    /\ layoutAsked = FALSE /\ asked = 0
    /\ disturbed = FALSE /\ given = {}

-----------------------------------------------------------------------------
(* The interpreter (external), and the publish that loses its messages.    *)

Publish(sent) ==
    /\ messages < MaxMessages
    /\ messages' = messages + 1
    /\ LET room == Capacity - Len(channel)
           lost == Len(sent) > room
       IN
       /\ channel' = channel \o SubSeq(sent, 1, IF lost THEN room ELSE Len(sent))
       /\ disturbed' = (disturbed \/ lost \/ layoutAsked')
    /\ UNCHANGED <<attached, tracer, active, threads, stop, told, polls>>

IsOpen(w) == \E i \in DOMAIN stack : stack[i].win = w
OpenMessage(s) == [type |-> "open", win |-> s.win, tid |-> s.tid]

\* A window belongs to one thread as long as it is open.
OpensWindow ==
    \E w \in Windows, t \in Tids :
        /\ ~IsOpen(w)
        /\ stack' = Append(stack, [win |-> w, tid |-> t])
        /\ UNCHANGED <<layoutAsked, asked>>
        /\ Publish(<<OpenMessage([win |-> w, tid |-> t])>>)

UpdatesWindow ==
    /\ UNCHANGED <<stack, layoutAsked, asked>>
    /\ \E i \in DOMAIN stack : \E t \in {0, stack[i].tid} :
          Publish(<<[type |-> "update", win |-> stack[i].win, tid |-> t]>>)

Highlights ==
    /\ UNCHANGED <<stack, layoutAsked, asked>>
    /\ \E i \in DOMAIN stack : Publish(<<[type |-> "highlight", win |-> stack[i].win]>>)

ClosesWindow ==
    \E i \in DOMAIN stack :
        /\ stack' = RemoveAt(stack, i)
        /\ UNCHANGED <<layoutAsked, asked>>
        /\ Publish(<<[type |-> "close", win |-> stack[i].win]>>)

OtherMessage ==
    /\ UNCHANGED <<stack, layoutAsked, asked>>
    /\ \/ \E t \in Tids : Publish(<<[type |-> "setThread", tid |-> t]>>)
       \/ \E type \in {"error", "fatal"} : Publish(<<[type |-> type]>>)

AnswersGetThreads ==
    /\ asked > 0 /\ asked' = asked - 1
    /\ UNCHANGED <<stack, layoutAsked>>
    /\ \E list \in Reply : Publish(<<[type |-> "threads", list |-> list]>>)

\* GetWindowLayout is answered by the windows that are open.
AnswersGetWindowLayout ==
    /\ layoutAsked /\ layoutAsked' = FALSE
    /\ Publish([i \in DOMAIN stack |-> OpenMessage(stack[i])])
    /\ UNCHANGED <<stack, asked>>

-----------------------------------------------------------------------------
(* The windows of the tracer, as the server keeps them. *)

View == [windows |-> tracerWindows, order |-> tracerOrder]

\* As if the window were entered before it is asked whether it is there.
Mut_WithWindow(view, w, t) ==
    [windows |-> [view.windows EXCEPT ![w] = IF t > 0 \/ @ = Closed THEN t ELSE @],
     order   |-> view.order]

\* updateTracerWindow
WithWindow(view, w, t) ==
    [windows |-> [view.windows EXCEPT ![w] = IF t > 0 \/ @ = Closed THEN t ELSE @],
     order   |-> IF view.windows[w] = Closed THEN Append(view.order, w) ELSE view.order]

Mut_WithoutWindow(view, w) ==
    [windows |-> [view.windows EXCEPT ![w] = Closed], order |-> view.order]

\* The elements of a sequence at some places, in order: what a loop that appends
\* them to a new slice makes.  A recursive function, as nothing can be proved
\* about SelectSeq.
Picked(seq, places) ==
    LET upTo[n \in 0..Len(seq)] ==
            IF n = 0 THEN <<>>
            ELSE IF n \in places THEN Append(upTo[n - 1], seq[n]) ELSE upTo[n - 1]
    IN  upTo[Len(seq)]

\* unbindToken, removeTracerToken
WithoutWindow(view, w) ==
    [windows |-> [view.windows EXCEPT ![w] = Closed],
     order   |-> Picked(view.order, {i \in DOMAIN view.order : view.order[i] # w})]

SetView(view) == tracerWindows' = view.windows /\ tracerOrder' = view.order

\* threadForWindow
ThreadOf(w) == IF tracerWindows[w] = Closed THEN 0 ELSE tracerWindows[w]

\* buildStackFramesForThread: the last window first
Frames(view, t) ==
    Reverse(Picked(view.order, {i \in DOMAIN view.order : view.windows[view.order[i]] = t}))

-----------------------------------------------------------------------------
(* HandleRidePayload.  The bridge takes the next message when it has       *)
(* written the events of the one before.                                   *)

Bridge == <<attached, threads, told, stack, messages, requests, disturbed>>

Takes(type) ==
    /\ stop = <<>> /\ channel # <<>>
    /\ Head(channel).type = type
    /\ channel' = Tail(channel)

Taken == Head(channel)

Mut_ActivateThread(t) == activeThread' = IF activeThread = 0 THEN t ELSE activeThread

ActivateThread(t) == activeThread' = IF t > 0 THEN t ELSE activeThread

\* currentThreadID
CurrentThread ==
    IF activeThread # 0 THEN activeThread
    ELSE IF activeTracer # NoWindow THEN ThreadOf(activeTracer) ELSE 0

StopIn(w) == stop' = [win |-> w, thread |-> CurrentThread']

HandleOpenWindow ==
    /\ Takes("open")
    /\ SetView(WithWindow(View, Taken.win, Taken.tid))
    /\ activeTracer' = Taken.win
    /\ ActivateThread(tracerWindows'[Taken.win])
    /\ StopIn(Taken.win)
    /\ UNCHANGED Bridge

HandleUpdateWindow ==
    /\ Takes("update")
    /\ SetView(WithWindow(View, Taken.win, Taken.tid))
    /\ UNCHANGED <<active, stop, Bridge>>

\* The window becomes active whether it is known or not.
HandleSetHighlightLine ==
    /\ Takes("highlight")
    /\ activeTracer' = Taken.win
    /\ ActivateThread(ThreadOf(Taken.win))
    /\ UNCHANGED tracer
    /\ StopIn(Taken.win)
    /\ UNCHANGED Bridge

Mut_HandleCloseWindow ==
    /\ Takes("close")
    /\ LET w == Taken.win IN
       IF tracerWindows[w] # Closed THEN SetView(WithoutWindow(View, w)) ELSE UNCHANGED tracer
    /\ UNCHANGED <<active, stop, Bridge>>

\* An unknown window stays active.
HandleCloseWindow ==
    /\ Takes("close")
    /\ LET w == Taken.win IN
       IF tracerWindows[w] # Closed
       THEN /\ SetView(WithoutWindow(View, w))
            /\ activeTracer' = IF activeTracer = w THEN NoWindow ELSE activeTracer
       ELSE UNCHANGED <<tracer, activeTracer>>
    /\ UNCHANGED <<activeThread, stop, Bridge>>

HandleSetThread ==
    /\ Takes("setThread")
    /\ ActivateThread(Taken.tid)
    /\ UNCHANGED <<tracer, activeTracer, stop, Bridge>>

HandleHadError ==
    /\ Takes("error")
    /\ UNCHANGED <<tracer, active>>
    /\ StopIn(NoWindow)
    /\ UNCHANGED Bridge

\* The rest of the messages is handled as before.
HandleFatal ==
    /\ Takes("fatal")
    /\ attached' = FALSE
    /\ activeTracer' = NoWindow /\ activeThread' = 0
    /\ UNCHANGED <<tracer, threads, stop, told, stack, messages, requests, disturbed>>

HasID(entry) == "tid" \in DOMAIN entry

\* The places where the list first has a name without an id yet.
Fresh(list) ==
    {i \in DOMAIN list : /\ ~HasID(list[i]) /\ syntheticThreadIDs[list[i].name] = 0
                        /\ \A j \in 1..(i - 1) : list[j] # list[i]}

Mut_NewID(list, i) == nextSyntheticID

NewID(list, i) == nextSyntheticID + Cardinality({j \in Fresh(list) : j < i})

\* updateThreadCache
HandleReplyGetThreads ==
    /\ Takes("threads")
    /\ LET list == Taken.list IN
       /\ syntheticThreadIDs' =
            [n \in Names |-> IF \E i \in Fresh(list) : list[i].name = n
                             THEN NewID(list, CHOOSE i \in Fresh(list) : list[i].name = n)
                             ELSE syntheticThreadIDs[n]]
       /\ nextSyntheticID' = nextSyntheticID + Cardinality(Fresh(list))
       /\ threadOrder' =
            [i \in DOMAIN list |-> IF HasID(list[i]) THEN list[i].tid
                                   ELSE syntheticThreadIDs'[list[i].name]]
       /\ given' = given \cup {[of |-> list[i], id |-> threadOrder'[i]] : i \in DOMAIN list}
    /\ UNCHANGED <<attached, tracer, active, stop, told, stack, messages, requests,
                   disturbed>>

\* The event is written to the client, outside the mutex.
TellStop ==
    /\ stop # <<>>
    /\ told' = IF stop.win = NoWindow THEN told ELSE stop
    /\ stop' = <<>>
    /\ UNCHANGED <<attached, tracer, active, threads, channel, stack, messages, requests,
                   disturbed>>

-----------------------------------------------------------------------------
(* main *)

Main == <<tracer, active, threads, channel, stop, told, stack, messages>>

\* sendWindowCommand: where a continue, next, stepIn or stepOut goes, if it does
\* not fail.  It changes nothing here.
CommandWindow == IF attached THEN activeTracer ELSE NoWindow

\* The answer is the list of before.
RequestThreads ==
    /\ attached /\ polls < MaxPolls
    /\ polls' = polls + 1 /\ asked' = asked + 1
    /\ UNCHANGED <<Main, attached, layoutAsked, disturbed>>

Disconnect ==
    /\ attached
    /\ attached' = FALSE
    /\ UNCHANGED <<Main, requests, disturbed>>

\* HandleRideReconnect; the synthetic ids stay.
Reconnect ==
    /\ MayReconnect /\ ~layoutAsked
    /\ attached' = TRUE
    /\ tracerWindows' = [w \in Windows |-> Closed] /\ tracerOrder' = <<>>
    /\ activeTracer' = NoWindow /\ activeThread' = 0
    /\ threadOrder' = <<>>
    /\ layoutAsked' = TRUE
    /\ disturbed' = (disturbed \/ channel # <<>>)
    /\ UNCHANGED <<syntheticThreadIDs, nextSyntheticID, given, channel, stop, told, stack,
                   messages, polls, asked>>

-----------------------------------------------------------------------------
Interpreter ==
    \/ OpensWindow \/ UpdatesWindow \/ Highlights \/ ClosesWindow \/ OtherMessage
    \/ AnswersGetThreads \/ AnswersGetWindowLayout

BridgeStep ==
    \/ HandleOpenWindow \/ HandleUpdateWindow \/ HandleSetHighlightLine \/ HandleCloseWindow
    \/ HandleSetThread \/ HandleHadError \/ HandleFatal \/ HandleReplyGetThreads
    \/ TellStop

MainStep == RequestThreads \/ Disconnect \/ Reconnect

Next == Interpreter \/ BridgeStep \/ MainStep

Spec == Init /\ [][Next]_vars

-----------------------------------------------------------------------------
(* Properties. *)

\* What the rest of the channel makes of the windows.
AfterMessage(view, m) ==
    IF m.type \in {"open", "update"} THEN WithWindow(view, m.win, m.tid)
    ELSE IF m.type = "close" THEN WithoutWindow(view, m.win)
    ELSE view

After(view, list) ==
    LET after[n \in 0..Len(list)] ==
            IF n = 0 THEN view ELSE AfterMessage(after[n - 1], list[n])
    IN  after[Len(list)]

Final == After(View, channel)

\* The windows that the interpreter has open for a thread, the latest first.
OpenFor(t) ==
    Reverse(Picked([i \in DOMAIN stack |-> stack[i].win], {i \in DOMAIN stack : stack[i].tid = t}))

\* When the bridge has handled what is under way, the stack trace of every
\* thread is the windows the interpreter has open for it, the latest first:
\* over windows that open and close in any order, are updated without their
\* thread, or are used again; and again after a reconnect, once the layout has
\* been sent.  Only a message that is lost, or comes just before or after a
\* reconnect, may spoil it.
StackFollowsInterpreter ==
    ~disturbed /\ ~layoutAsked =>
        \A t \in Threads : Frames(Final, t) = OpenFor(t)

\* The last stop in a window, told or about to be told.
LastStop == IF stop # <<>> /\ stop.win # NoWindow THEN stop ELSE told

\* A control request acts on the window of the last stop in a window that the
\* client has been told of or is being told of, or on none: never on a window
\* that was active before it, or that the adapter knows to be closed, unless a
\* message was lost or came just before or after a reconnect.
ControlTarget ==
    CommandWindow # NoWindow =>
        /\ CommandWindow = LastStop.win
        /\ ~disturbed => tracerWindows[CommandWindow] # Closed

\* A stop in a window names the thread in whose stack trace the window is, also
\* when other threads were named since; not so for the main thread, which has
\* no id, or after a disturbance.
StopNamesItsStack ==
    ~disturbed /\ LastStop.win # NoWindow =>
        (tracerWindows[LastStop.win] > 0 => LastStop.thread = tracerWindows[LastStop.win])

\* The ids in the lists of threads tell apart what the interpreter tells apart, by
\* its ids or else by its descriptions, also between threads with an id and threads
\* without: in one list, and from one list to any later one, a reconnect between
\* them or not.  No two threads share an id, and a thread keeps the one it had.
IdsTellThreadsApart ==
    \A g, h \in given : g.id = h.id <=> g.of = h.of

=============================================================================

----------------------------- MODULE Dispatcher -----------------------------
(***************************************************************************)
(* The RIDE session dispatcher, internal/ride/sessionstate/dispatcher.go:  *)
(* one receive loop (Run) and any number of callers of SendCommand share   *)
(* the fields guarded by Dispatcher.mu.  A region of code that holds the   *)
(* mutex is one action; every write to the transport happens outside the   *)
(* mutex and is an action of its own, so that the steps of the others fall *)
(* between a decision and the write it decided.                            *)
(*                                                                         *)
(* What an actor has taken out of the shared fields under the mutex and    *)
(* still has to write is hand[a].  The codec is left out: a command is a   *)
(* record with the number of its SendCommand call, its name and its window.*)
(***************************************************************************)
EXTENDS Integers, Sequences, FiniteSets, Functions

CONSTANTS
    Senders,        \* goroutines that call SendCommand
    Receiver,       \* the goroutine that executes Run
    Windows,        \* valid window ids (win > 0 in the code)
    NoWindow,       \* arguments without a valid window id
    Subscribers,    \* subscriptions (Subscribe)
    Capacity,       \* buffer of a subscriber's channel
    PromptTypes,    \* the prompt types the interpreter reports; 0 is "busy"
    CommandNames,   \* the commands the callers of a run send
    MaxCommands,    \* bound: calls of SendCommand
    MaxFailures,    \* bound: writes that return an error
    MaxEvents,      \* bound: inbound messages that are neither a prompt
                    \* other than 0 nor the answer to a SaveChanges
    MayStop         \* whether ReadPayload may fail, which ends Run

Actors == Senders \cup {Receiver}

ASSUME ActorsAssumption == Receiver \notin Senders
ASSUME WindowsAssumption == NoWindow \notin Windows
ASSUME PromptTypesAssumption == PromptTypes \subseteq Int /\ 0 \in PromptTypes
ASSUME BoundsAssumption ==
    /\ MaxCommands \in Nat /\ MaxFailures \in Nat /\ MaxEvents \in Nat
    /\ Capacity \in Nat \ {0}
    /\ MayStop \in BOOLEAN

VARIABLES
    promptType, promptTypeSeen, \* the last SetPromptType, and whether one came
    queue,          \* commands held because the interpreter is busy
    pendingSaves,   \* per window: SaveChanges accepted and not settled
    pendingCloses,  \* per window: CloseWindow held for those
    subscribed,     \* the keys of the map of subscribers
    channel,        \* per subscription: the events in its channel
    pc,             \* where each actor stands
    hand,           \* per actor: the commands it took and has yet to write
    closing,        \* per actor: the argument win of rollbackPendingSave and
                    \* flushDeferredCloses
    event,          \* the message Run is handling
    unanswered,     \* interpreter: per window, SaveChanges it has not answered
    issued,         \* history: number of calls of SendCommand
    written,        \* history: commands the transport took
    refused,        \* history: commands whose SendCommand returned an error
    cancelled,      \* history: accepted commands that were dropped
    requeued,       \* history: the queue holds what a failed flush put back
    stranded,       \* history: windows whose closes a failed flush put back
    fatal,          \* history: a fatal signal was handled
    failures, heard \* counters for the bounds

fields == <<promptType, promptTypeSeen, queue, pendingSaves, pendingCloses>>
pubsub == <<subscribed, channel>>
fate   == <<refused, cancelled>>
marks  == <<requeued, stranded, fatal>>
vars   == <<fields, pubsub, pc, hand, closing, event, unanswered, issued,
            written, fate, marks, failures, heard>>

Command == [id : Nat \ {0}, name : CommandNames, win : Windows \cup {NoWindow}]

EventNames == {"SetPromptType", "ReplySaveChanges", "HadError", "Disconnect",
               "Other"}

SenderPlaces   == {"idle", "write", "rollback", "closes"}
ReceiverPlaces == {"read", "flush", "closes", "publish", "stopped"}

TypeOK ==
    /\ promptType \in PromptTypes \cup {0} /\ promptTypeSeen \in BOOLEAN
    /\ queue \in Seq(Command)
    /\ pendingSaves \in [Windows -> Nat]
    /\ pendingCloses \in [Windows -> Seq(Command)]
    /\ subscribed \in SUBSET Subscribers
    /\ channel \in [Subscribers -> Seq(EventNames)]
    /\ pc \in [Actors -> SenderPlaces \cup ReceiverPlaces]
    /\ pc[Receiver] \in ReceiverPlaces
    /\ \A s \in Senders : pc[s] \in SenderPlaces
    /\ hand \in [Actors -> Seq(Command)]
    /\ closing \in [Actors -> Windows \cup {NoWindow}]
    /\ event \in EventNames \cup {"none"}
    /\ unanswered \in [Windows -> Seq(Command)]
    /\ issued \in Nat
    /\ written \in SUBSET Command
    /\ refused \in SUBSET Command
    /\ cancelled \in SUBSET Command
    /\ requeued \in BOOLEAN
    /\ stranded \in SUBSET Windows
    /\ fatal \in BOOLEAN
    /\ failures \in Nat /\ heard \in Nat

Init ==
    /\ promptType = 0 /\ promptTypeSeen = FALSE
    /\ queue = <<>>
    /\ pendingSaves = [w \in Windows |-> 0]
    /\ pendingCloses = [w \in Windows |-> <<>>]
    /\ subscribed = {}
    /\ channel = [x \in Subscribers |-> <<>>]
    /\ pc = [a \in Actors |-> IF a = Receiver THEN "read" ELSE "idle"]
    /\ hand = [a \in Actors |-> <<>>]
    /\ closing = [a \in Actors |-> NoWindow]
    /\ event = "none"
    /\ unanswered = [w \in Windows |-> <<>>]
    /\ issued = 0
    /\ written = {} /\ refused = {} /\ cancelled = {}
    /\ requeued = FALSE /\ fatal = FALSE
    /\ stranded = {}
    /\ failures = 0 /\ heard = 0

-----------------------------------------------------------------------------
(* The decisions of SendCommand. *)

Busy == promptTypeSeen /\ promptType = 0

\* Every "Reply..." command is allowed as well; no caller here sends one.
IsAllowedWhileBusy(name) ==
    name \in {"WeakInterrupt", "StrongInterrupt", "SaveChanges",
              "ReplySaveChanges", "CloseWindow"}

TracksSave(cmd) == cmd.name = "SaveChanges" /\ cmd.win # NoWindow

Mut_MustWaitForReply(cmd) ==
    /\ cmd.name = "CloseWindow" /\ cmd.win # NoWindow
    /\ pendingSaves[cmd.win] > 1

MustWaitForReply(cmd) ==
    /\ cmd.name = "CloseWindow" /\ cmd.win # NoWindow
    /\ pendingSaves[cmd.win] > 0

Mut_MustWaitForPrompt(cmd) == promptType = 0 /\ ~IsAllowedWhileBusy(cmd.name)

MustWaitForPrompt(cmd) == Busy /\ ~IsAllowedWhileBusy(cmd.name)

\* The commands a caller may pass; only these two carry a window id the
\* dispatcher looks at.
Calls ==
    {[id |-> issued + 1, name |-> n, win |-> NoWindow] : n \in CommandNames} \cup
    {[id |-> issued + 1, name |-> n, win |-> w] :
        n \in CommandNames \cap {"SaveChanges", "CloseWindow"}, w \in Windows}

Issue(s) == pc[s] = "idle" /\ issued < MaxCommands /\ issued' = issued + 1

SavesWith(cmd) ==
    IF TracksSave(cmd) THEN [pendingSaves EXCEPT ![cmd.win] = @ + 1]
                       ELSE pendingSaves

\* SendCommand defers a CloseWindow whose window has a save pending.
DeferClose(s, cmd) ==
    /\ Issue(s)
    /\ MustWaitForReply(cmd)
    /\ pendingCloses' = [pendingCloses EXCEPT ![cmd.win] = Append(@, cmd)]
    /\ UNCHANGED <<promptType, promptTypeSeen, queue, pendingSaves, pubsub, pc,
                   hand, closing, event, unanswered, written, fate, marks,
                   failures, heard>>

Mut_QueueWith(cmd) == <<cmd>> \o queue

QueueWith(cmd) == Append(queue, cmd)

\* SendCommand queues a command while the prompt type is 0.
Enqueue(s, cmd) ==
    /\ Issue(s)
    /\ ~MustWaitForReply(cmd) /\ MustWaitForPrompt(cmd)
    /\ pendingSaves' = SavesWith(cmd)
    /\ queue' = QueueWith(cmd)
    /\ UNCHANGED <<promptType, promptTypeSeen, pendingCloses, pubsub, pc, hand,
                   closing, event, unanswered, written, fate, marks, failures,
                   heard>>

\* SendCommand decides to write, and releases the mutex.
DecideWrite(s, cmd) ==
    /\ Issue(s)
    /\ ~MustWaitForReply(cmd) /\ ~MustWaitForPrompt(cmd)
    /\ pendingSaves' = SavesWith(cmd)
    /\ pc' = [pc EXCEPT ![s] = "write"]
    /\ hand' = [hand EXCEPT ![s] = <<cmd>>]
    /\ UNCHANGED <<promptType, promptTypeSeen, queue, pendingCloses, pubsub,
                   closing, event, unanswered, written, fate, marks, failures,
                   heard>>

SendCommand(s) ==
    \E cmd \in Calls : DeferClose(s, cmd) \/ Enqueue(s, cmd) \/ DecideWrite(s, cmd)

-----------------------------------------------------------------------------
(* writeCommand, outside the mutex. *)

Deliver(cmd) ==
    /\ written' = written \cup {cmd}
    /\ unanswered' = IF TracksSave(cmd)
                     THEN [unanswered EXCEPT ![cmd.win] = Append(@, cmd)]
                     ELSE unanswered

WriteError == failures < MaxFailures /\ failures' = failures + 1

WriteSucceeds(s) ==
    /\ pc[s] = "write"
    /\ Deliver(Head(hand[s]))
    /\ pc' = [pc EXCEPT ![s] = "idle"]
    /\ hand' = [hand EXCEPT ![s] = <<>>]
    /\ UNCHANGED <<fields, pubsub, closing, event, issued, fate, marks,
                   failures, heard>>

WriteFails(s) ==
    LET cmd == Head(hand[s]) IN
    /\ pc[s] = "write"
    /\ WriteError
    /\ refused' = refused \cup {cmd}
    /\ pc' = [pc EXCEPT ![s] = IF TracksSave(cmd) THEN "rollback" ELSE "idle"]
    /\ closing' = [closing EXCEPT ![s] = IF TracksSave(cmd) THEN cmd.win ELSE @]
    /\ hand' = [hand EXCEPT ![s] = <<>>]
    /\ UNCHANGED <<fields, pubsub, event, unanswered, issued, written,
                   cancelled, marks, heard>>

-----------------------------------------------------------------------------
(* A save is settled by its answer or by its failed write.  The last one   *)
(* releases the closes of the window, which the same goroutine writes      *)
(* after it has released the mutex.                                        *)

Mut_LastSave(w) == TRUE

Mut_LastSaveExact(w) == pendingSaves[w] = 1

LastSave(w) == pendingSaves[w] <= 1

PlaceAfterCloses(a) == IF a = Receiver THEN "publish" ELSE "idle"

Mut_ReleasesCloses(a, w) == LastSave(w) /\ pendingCloses[w] # <<>> /\ a = Receiver

\* Whether settling a save of w makes actor a take the closes of w.
ReleasesCloses(a, w) == LastSave(w) /\ pendingCloses[w] # <<>>

SettleSave(a, w) ==
    /\ pendingSaves' = [pendingSaves EXCEPT ![w] = IF LastSave(w) THEN 0 ELSE @ - 1]
    /\ closing' = [closing EXCEPT ![a] = w]
    /\ IF ReleasesCloses(a, w)
       THEN /\ hand' = [hand EXCEPT ![a] = pendingCloses[w]]
            /\ pendingCloses' = [pendingCloses EXCEPT ![w] = <<>>]
            /\ stranded' = stranded \ {w}
            /\ pc' = [pc EXCEPT ![a] = "closes"]
       ELSE /\ pc' = [pc EXCEPT ![a] = PlaceAfterCloses(a)]
            /\ UNCHANGED <<hand, pendingCloses, stranded>>

RollbackPendingSave(s) ==
    /\ pc[s] = "rollback"
    /\ SettleSave(s, closing[s])
    /\ UNCHANGED <<promptType, promptTypeSeen, queue, pubsub, event, unanswered,
                   issued, written, fate, requeued, fatal, failures, heard>>

\* flushDeferredCloses writes the next close.
CloseSucceeds(a) ==
    /\ pc[a] = "closes"
    /\ Deliver(Head(hand[a]))
    /\ hand' = [hand EXCEPT ![a] = Tail(@)]
    /\ pc' = [pc EXCEPT ![a] = IF Len(hand[a]) = 1 THEN PlaceAfterCloses(a) ELSE @]
    /\ UNCHANGED <<fields, pubsub, closing, event, issued, fate, marks,
                   failures, heard>>

\* flushDeferredCloses fails: the rest goes back, in front.
CloseFails(a) ==
    /\ pc[a] = "closes"
    /\ WriteError
    /\ pendingCloses' = [pendingCloses EXCEPT ![closing[a]] = hand[a] \o @]
    /\ stranded' = stranded \cup {closing[a]}
    /\ hand' = [hand EXCEPT ![a] = <<>>]
    /\ pc' = [pc EXCEPT ![a] = PlaceAfterCloses(a)]
    /\ UNCHANGED <<promptType, promptTypeSeen, queue, pendingSaves, pubsub,
                   closing, event, unanswered, issued, written, fate, requeued,
                   fatal, heard>>

-----------------------------------------------------------------------------
(* The receive loop: one action per message handleInbound tells apart.     *)

Receive(e) == pc[Receiver] = "read" /\ event' = e

Counted == heard < MaxEvents /\ heard' = heard + 1

TakesQueue(type) == Busy /\ type # 0 /\ queue # <<>>

HandlePromptType(type) ==
    /\ Receive("SetPromptType")
    /\ IF type = 0 THEN Counted ELSE UNCHANGED heard
    /\ promptType' = type /\ promptTypeSeen' = TRUE
    /\ IF TakesQueue(type)
       THEN /\ hand' = [hand EXCEPT ![Receiver] = queue]
            /\ queue' = <<>>
            /\ requeued' = FALSE
            /\ pc' = [pc EXCEPT ![Receiver] = "flush"]
       ELSE /\ pc' = [pc EXCEPT ![Receiver] = "publish"]
            /\ UNCHANGED <<hand, queue, requeued>>
    /\ UNCHANGED <<pendingSaves, pendingCloses, pubsub, closing, unanswered,
                   issued, written, fate, stranded, fatal, failures>>

FlushSucceeds ==
    /\ pc[Receiver] = "flush"
    /\ Deliver(Head(hand[Receiver]))
    /\ hand' = [hand EXCEPT ![Receiver] = Tail(@)]
    /\ pc' = [pc EXCEPT ![Receiver] = IF Len(hand[Receiver]) = 1 THEN "publish" ELSE @]
    /\ UNCHANGED <<fields, pubsub, closing, event, issued, fate, marks,
                   failures, heard>>

Mut_QueueBehind(rest) == Tail(rest) \o queue

QueueBehind(rest) == rest \o queue

FlushFails ==
    /\ pc[Receiver] = "flush"
    /\ WriteError
    /\ queue' = QueueBehind(hand[Receiver])
    /\ requeued' = TRUE
    /\ hand' = [hand EXCEPT ![Receiver] = <<>>]
    /\ pc' = [pc EXCEPT ![Receiver] = "publish"]
    /\ UNCHANGED <<promptType, promptTypeSeen, pendingSaves, pendingCloses,
                   pubsub, closing, event, unanswered, issued, written, fate,
                   stranded, fatal, heard>>

\* The interpreter answers the oldest SaveChanges of w it was sent.  An answer
\* without a valid window changes nothing and is one of the "Other" messages.
HandleReplySaveChanges(w) ==
    /\ Receive("ReplySaveChanges")
    /\ unanswered[w] # <<>>
    /\ unanswered' = [unanswered EXCEPT ![w] = Tail(@)]
    /\ SettleSave(Receiver, w)
    /\ UNCHANGED <<promptType, promptTypeSeen, queue, pubsub, issued, written,
                   fate, requeued, fatal, failures, heard>>

Executes(q) == {i \in DOMAIN q : q[i].name = "Execute"}

\* The positions of the commands of q that are not Executes, in their order.
KeptPositions(q) ==
    {at \in UNION {[1..n -> DOMAIN q] : n \in 0..Len(q)} :
        /\ Range(at) = DOMAIN q \ Executes(q)
        /\ \A i, j \in DOMAIN at : i < j => at[i] < at[j]}

\* cancelQueuedExecutes
HandleHadError ==
    /\ Receive("HadError")
    /\ Counted
    /\ \E at \in KeptPositions(queue) : queue' = [i \in DOMAIN at |-> queue[at[i]]]
    /\ cancelled' = cancelled \cup {queue[i] : i \in Executes(queue)}
    /\ pc' = [pc EXCEPT ![Receiver] = "publish"]
    /\ UNCHANGED <<promptType, promptTypeSeen, pendingSaves, pendingCloses,
                   pubsub, hand, closing, unanswered, issued, written, refused,
                   marks, failures>>

\* clearDeferredSends, for Disconnect, SysError and InternalError
HandleFatal ==
    /\ Receive("Disconnect")
    /\ Counted
    /\ queue' = <<>>
    /\ pendingSaves' = [w \in Windows |-> 0]
    /\ pendingCloses' = [w \in Windows |-> <<>>]
    /\ cancelled' = cancelled \cup Range(queue) \cup
                    UNION {Range(pendingCloses[w]) : w \in Windows}
    /\ fatal' = TRUE
    /\ requeued' = FALSE /\ stranded' = {}
    /\ pc' = [pc EXCEPT ![Receiver] = "publish"]
    /\ UNCHANGED <<promptType, promptTypeSeen, pubsub, hand, closing,
                   unanswered, issued, written, refused, failures>>

HandleOther ==
    /\ Receive("Other")
    /\ Counted
    /\ pc' = [pc EXCEPT ![Receiver] = "publish"]
    /\ UNCHANGED <<fields, pubsub, hand, closing, unanswered, issued, written,
                   fate, marks, failures>>

\* ReadPayload fails: Run returns, and nothing tells the callers.
StopReading ==
    /\ MayStop
    /\ pc[Receiver] = "read"
    /\ pc' = [pc EXCEPT ![Receiver] = "stopped"]
    /\ UNCHANGED <<fields, pubsub, hand, closing, event, unanswered, issued,
                   written, fate, marks, failures, heard>>

-----------------------------------------------------------------------------
(* Subscriptions.  publish offers the event to every channel and drops it  *)
(* where the buffer is full.  No code of the repository closes a channel,  *)
(* so the branch that removes a subscriber is never taken.                 *)

Mut_Publish ==
    /\ pc[Receiver] = "publish"
    /\ \A x \in subscribed : Len(channel[x]) < Capacity
    /\ channel' = [x \in Subscribers |->
                     IF x \in subscribed THEN Append(channel[x], event)
                                         ELSE channel[x]]
    /\ event' = "none"
    /\ pc' = [pc EXCEPT ![Receiver] = "read"]
    /\ UNCHANGED <<fields, subscribed, hand, closing, unanswered, issued,
                   written, fate, marks, failures, heard>>

Publish ==
    /\ pc[Receiver] = "publish"
    /\ channel' = [x \in Subscribers |->
                     IF x \in subscribed /\ Len(channel[x]) < Capacity
                     THEN Append(channel[x], event) ELSE channel[x]]
    /\ event' = "none"
    /\ pc' = [pc EXCEPT ![Receiver] = "read"]
    /\ UNCHANGED <<fields, subscribed, hand, closing, unanswered, issued,
                   written, fate, marks, failures, heard>>

Subscribe(x) ==
    /\ x \notin subscribed
    /\ subscribed' = subscribed \cup {x}
    /\ channel' = [channel EXCEPT ![x] = <<>>]
    /\ UNCHANGED <<fields, pc, hand, closing, event, unanswered, issued,
                   written, fate, marks, failures, heard>>

Unsubscribe(x) ==
    /\ x \in subscribed
    /\ subscribed' = subscribed \ {x}
    /\ UNCHANGED <<fields, channel, pc, hand, closing, event, unanswered,
                   issued, written, fate, marks, failures, heard>>

\* The subscriber takes an event from its channel.
Consume(x) ==
    /\ channel[x] # <<>>
    /\ channel' = [channel EXCEPT ![x] = Tail(@)]
    /\ UNCHANGED <<fields, subscribed, pc, hand, closing, event, unanswered,
                   issued, written, fate, marks, failures, heard>>

-----------------------------------------------------------------------------
SenderStep(s) ==
    SendCommand(s) \/ WriteSucceeds(s) \/ WriteFails(s) \/ RollbackPendingSave(s)

CloseStep(a) == CloseSucceeds(a) \/ CloseFails(a)

ReceiverStep ==
    \/ \E type \in PromptTypes : HandlePromptType(type)
    \/ FlushSucceeds \/ FlushFails
    \/ \E w \in Windows : HandleReplySaveChanges(w)
    \/ HandleHadError \/ HandleFatal \/ HandleOther
    \/ Publish \/ StopReading

SubscriberStep(x) == Subscribe(x) \/ Unsubscribe(x) \/ Consume(x)

Next ==
    \/ \E s \in Senders : SenderStep(s)
    \/ \E a \in Actors : CloseStep(a)
    \/ ReceiverStep
    \/ \E x \in Subscribers : SubscriberStep(x)

Spec == Init /\ [][Next]_vars

(***************************************************************************)
(* Fairness.  A goroutine that is not blocked goes on: the writes and the  *)
(* rollback of a caller, the flushes and the publish of the receive loop.  *)
(* Nothing is assumed of whether a caller calls or a subscriber reads.  Of *)
(* the interpreter: it answers every SaveChanges and keeps coming back to  *)
(* a prompt; these messages reach the receive loop because the connection  *)
(* is a byte stream it reads in order.                                     *)
(***************************************************************************)
Fairness ==
    /\ \A s \in Senders : WF_vars(WriteSucceeds(s)) /\ WF_vars(RollbackPendingSave(s))
    /\ \A a \in Actors : WF_vars(CloseSucceeds(a))
    /\ WF_vars(FlushSucceeds) /\ WF_vars(Publish)
    /\ SF_vars(\E type \in PromptTypes \ {0} : HandlePromptType(type))
    /\ \A w \in Windows : SF_vars(HandleReplySaveChanges(w))

FairSpec == Spec /\ Fairness

-----------------------------------------------------------------------------
(* Properties. *)

Writes == written' \ written

\* What the receive loop took from the queue and has not written, then the queue.
FlushRest == IF pc[Receiver] = "flush" THEN hand[Receiver] ELSE <<>>
Waiting   == Range(FlushRest) \cup Range(queue)

\* A command is in the queue only while the interpreter is busy, or because a
\* flush failed: nobody is left behind by the prompt that came while the
\* command was being queued (SendCommand against handlePromptType).
HeldOnlyWhileBusy == queue # <<>> => Busy \/ requeued

\* Queued commands are written in the order in which they were queued, over
\* failed flushes, HadError and commands queued behind a failed flush.
WrittenInQueueOrder ==
    [][\A c \in Writes \cap Waiting : \A d \in Waiting' : c.id < d.id]_vars

\* A queued command is never written while the prompt type known to the
\* dispatcher is 0.
FlushedOnlyAtPrompt == [][Writes \cap Waiting # {} => ~Busy]_vars

\* pendingSaves counts exactly the SaveChanges being written, being rolled back
\* or waiting for their answer, whatever order SendCommand, its rollback and
\* handleReplySaveChanges interleave in; until a fatal signal forgets them.
SavesInFlight(w) ==
    {s \in Senders : \/ pc[s] = "write" /\ TracksSave(Head(hand[s]))
                                        /\ Head(hand[s]).win = w
                     \/ pc[s] = "rollback" /\ closing[s] = w}

SavesAccounted ==
    ~fatal => \A w \in Windows :
        pendingSaves[w] = Cardinality(SavesInFlight(w)) + Len(unanswered[w])

\* A deferred CloseWindow has a save to wait for, whose end will release it,
\* unless writing the closes failed before.
NoStrandedClose ==
    \A w \in Windows :
        pendingCloses[w] # <<>> => pendingSaves[w] > 0 \/ w \in stranded

\* A CloseWindow is not written before the end of a SaveChanges of its window
\* that was accepted before it.
SavesBefore(c) ==
    {d \in Range(unanswered[c.win]) : d.id < c.id} \cup
    {Head(hand[s]) : s \in {t \in SavesInFlight(c.win) :
                                pc[t] = "write" /\ Head(hand[t]).id < c.id}}

CloseAfterEarlierSaves ==
    [][~fatal => \A c \in Writes :
          c.name = "CloseWindow" /\ c.win # NoWindow => SavesBefore(c) = {}]_vars

\* Every command taken by SendCommand is written, refused or dropped in the
\* end, if writes do not fail and the interpreter keeps answering; a subscriber
\* that never reads does not prevent it (publish does not block).
HeldBack ==
    (UNION {Range(hand[a]) : a \in Actors}) \cup Range(queue) \cup
    (UNION {Range(pendingCloses[w]) : w \in Windows})

NoCommandHeldForever ==
    \A i \in 1..MaxCommands :
        (\E c \in HeldBack : c.id = i) ~> (\A c \in HeldBack : c.id # i)

\* The dispatcher keeps what CommandGate promises its callers: no command is
\* lost, written twice, written after it was refused or dropped, and only
\* Executes are dropped before a fatal signal.
Gate == INSTANCE CommandGate WITH held <- HeldBack

GateSpec == Gate!Spec

\* Every command that SendCommand has taken is known by its number, and is in
\* one place: held, written, refused or dropped; none is lost or forgotten, over
\* failed flushes, failed closes and fatal signals.
OneFate ==
    /\ \A n \in 1..issued : \E c \in Gate!Known : c.id = n
    /\ \A c, d \in Gate!Known : c.id = d.id => c = d
    /\ HeldBack \cap (written \cup refused \cup cancelled) = {}
    /\ written \cap (refused \cup cancelled) = {} /\ refused \cap cancelled = {}

-----------------------------------------------------------------------------
(* What the documentation says, and the code does not guarantee.           *)

\* docs/plans/ride-protocol.md: "Do not send CloseWindow before
\* ReplySaveChanges if a save is pending."
CloseOnlyAfterReply ==
    [][\A c \in Writes :
          c.name = "CloseWindow" /\ c.win # NoWindow => unanswered[c.win] = <<>>]_vars

=============================================================================

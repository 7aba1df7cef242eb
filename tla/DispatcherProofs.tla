-------------------------- MODULE DispatcherProofs --------------------------
(***************************************************************************)
(* Theorems about Dispatcher, for every set of callers, windows,           *)
(* subscribers and prompt types and every value of the bounds.             *)
(***************************************************************************)
EXTENDS Dispatcher, SequenceTheorems, TLAPS

\* What Head, Tail and Range of a sequence of commands are.
LEMMA SeqFacts ==
    ASSUME NEW S, NEW q \in Seq(S)
    PROVE  /\ Range(q) \subseteq S
           /\ q # <<>> => Head(q) \in S /\ Tail(q) \in Seq(S)
  BY DEF Range

\* The commands that HadError leaves in the queue form a queue.
LEMMA KeptIsSeq ==
    ASSUME NEW S, NEW q \in Seq(S), NEW at \in KeptPositions(q)
    PROVE  [i \in DOMAIN at |-> q[at[i]]] \in Seq(S)
<1>1. PICK n \in 0..Len(q) : at \in [1..n -> DOMAIN q]
  BY DEF KeptPositions
<1>2. [i \in 1..n |-> q[at[i]]] \in [1..n -> S]
  BY <1>1
<1> QED  BY <1>1, <1>2, SeqDef

-----------------------------------------------------------------------------
(* Type correctness. *)

LEMMA TypeInit == Init => TypeOK
<1> SUFFICES ASSUME Init PROVE TypeOK
  OBVIOUS
<1>1. /\ pc \in [Actors -> SenderPlaces \cup ReceiverPlaces]
      /\ pc[Receiver] \in ReceiverPlaces
      /\ \A s \in Senders : pc[s] \in SenderPlaces
  BY ActorsAssumption DEF Init, Actors, SenderPlaces, ReceiverPlaces
<1>2. /\ hand \in [Actors -> Seq(Command)]
      /\ closing \in [Actors -> Windows \cup {NoWindow}]
      /\ channel \in [Subscribers -> Seq(EventNames)]
      /\ event \in EventNames \cup {"none"}
  BY DEF Init
<1>3. /\ pendingSaves \in [Windows -> Nat]
      /\ pendingCloses \in [Windows -> Seq(Command)]
      /\ unanswered \in [Windows -> Seq(Command)]
  BY DEF Init
<1>4. /\ promptType \in PromptTypes \cup {0}
      /\ queue \in Seq(Command)
      /\ issued \in Nat /\ failures \in Nat /\ heard \in Nat
  BY DEF Init
<1>6. promptTypeSeen \in BOOLEAN /\ requeued \in BOOLEAN /\ fatal \in BOOLEAN
  BY Zenon DEF Init
<1>5. /\ subscribed \in SUBSET Subscribers
      /\ written \in SUBSET Command
      /\ refused \in SUBSET Command
      /\ cancelled \in SUBSET Command
      /\ stranded \in SUBSET Windows
  BY DEF Init
<1> QED  BY <1>1, <1>2, <1>3, <1>4, <1>5, <1>6 DEF TypeOK

LEMMA CallsTyped ==
    ASSUME TypeOK PROVE Calls \subseteq Command
  BY DEF TypeOK, Calls, Command

LEMMA TypeSend ==
    ASSUME TypeOK, NEW s \in Senders, SendCommand(s) PROVE TypeOK'
<1>1. PICK cmd \in Command : DeferClose(s, cmd) \/ Enqueue(s, cmd) \/ DecideWrite(s, cmd)
  BY CallsTyped DEF SendCommand
<1>2. s \in Actors /\ s # Receiver
  BY ActorsAssumption DEF Actors
<1>3. cmd.win \in Windows \cup {NoWindow}
  BY DEF Command
<1>4. SavesWith(cmd) \in [Windows -> Nat]
  BY <1>3 DEF TypeOK, SavesWith, TracksSave
<1>5. CASE DeferClose(s, cmd)
  BY <1>2, <1>3, <1>5 DEF DeferClose, MustWaitForReply, Issue, TypeOK, pubsub, fate, marks
<1>6. CASE Enqueue(s, cmd)
  BY <1>2, <1>4, <1>6 DEF Enqueue, QueueWith, Issue, TypeOK, pubsub, fate, marks
<1>7. CASE DecideWrite(s, cmd)
  BY <1>2, <1>4, <1>7
  DEF DecideWrite, Issue, TypeOK, pubsub, fate, marks, SenderPlaces
<1> QED  BY <1>1, <1>5, <1>6, <1>7

\* What a write to the transport does to the histories.
LEMMA DeliverTyped ==
    ASSUME TypeOK, NEW cmd \in Command, Deliver(cmd)
    PROVE  /\ written' \in SUBSET Command
           /\ unanswered' \in [Windows -> Seq(Command)]
<1>1. cmd.win \in Windows \cup {NoWindow}
  BY DEF Command
<1> QED  BY <1>1 DEF TypeOK, Deliver, TracksSave

\* Who has something to write has it in hand, and knows the window it writes
\* closes for.
HandInv ==
    \A a \in Actors :
        /\ pc[a] \in {"write", "closes", "flush"} <=> hand[a] # <<>>
        /\ pc[a] = "write" => Len(hand[a]) = 1
        /\ pc[a] \in {"closes", "rollback"} => closing[a] \in Windows
        /\ a = Receiver /\ pc[a] \in {"flush", "closes", "publish"} => event \in EventNames

\* A write to the transport, whoever makes it and whatever becomes of it.
LEMMA TypeWrite ==
    ASSUME TypeOK, HandInv, NEW s \in Senders, WriteSucceeds(s) \/ WriteFails(s)
    PROVE  TypeOK'
<1>1. s \in Actors /\ s # Receiver
  BY ActorsAssumption DEF Actors
<1>2. Head(hand[s]) \in Command
  BY <1>1, SeqFacts DEF TypeOK, HandInv, WriteSucceeds, WriteFails
<1>3. Head(hand[s]).win \in Windows \cup {NoWindow}
  BY <1>2 DEF Command
<1>4. CASE WriteSucceeds(s)
  BY <1>1, <1>2, <1>4, DeliverTyped
  DEF WriteSucceeds, TypeOK, fields, pubsub, fate, marks, SenderPlaces
<1>5. CASE WriteFails(s)
  BY <1>1, <1>2, <1>3, <1>5
  DEF WriteFails, WriteError, TypeOK, fields, pubsub, fate, marks, SenderPlaces
<1> QED  BY <1>4, <1>5

LEMMA TypeSettle ==
    ASSUME TypeOK, NEW a \in Actors, NEW w \in Windows, SettleSave(a, w)
    PROVE  /\ pendingSaves' \in [Windows -> Nat]
           /\ pendingCloses' \in [Windows -> Seq(Command)]
           /\ hand' \in [Actors -> Seq(Command)]
           /\ closing' \in [Actors -> Windows \cup {NoWindow}]
           /\ stranded' \in SUBSET Windows
           /\ pc' \in [Actors -> SenderPlaces \cup ReceiverPlaces]
           /\ pc'[Receiver] \in ReceiverPlaces
           /\ \A s \in Senders : pc'[s] \in SenderPlaces
<1>1. /\ pendingSaves' \in [Windows -> Nat]
      /\ closing' \in [Actors -> Windows \cup {NoWindow}]
  BY DEF TypeOK, SettleSave, LastSave
<1>2. /\ pendingCloses' \in [Windows -> Seq(Command)]
      /\ hand' \in [Actors -> Seq(Command)]
  <2>1. /\ pendingCloses \in [Windows -> Seq(Command)]
        /\ hand \in [Actors -> Seq(Command)]
    BY DEF TypeOK
  <2>2. \/ /\ hand' = [hand EXCEPT ![a] = pendingCloses[w]]
           /\ pendingCloses' = [pendingCloses EXCEPT ![w] = <<>>]
        \/ hand' = hand /\ pendingCloses' = pendingCloses
    BY DEF SettleSave
  <2> QED  BY <2>1, <2>2, EmptySeq
<1>3. stranded' \in SUBSET Windows
  BY DEF TypeOK, SettleSave
<1>4. /\ pc' \in [Actors -> SenderPlaces \cup ReceiverPlaces]
      /\ pc'[Receiver] \in ReceiverPlaces
      /\ \A s \in Senders : pc'[s] \in SenderPlaces
  BY ActorsAssumption
  DEF TypeOK, SettleSave, PlaceAfterCloses, Actors, SenderPlaces, ReceiverPlaces
<1> QED  BY <1>1, <1>2, <1>3, <1>4

LEMMA TypeCloses ==
    ASSUME TypeOK, HandInv, NEW a \in Actors, CloseStep(a)
    PROVE  TypeOK'
<1>1. pc[a] = "closes" /\ hand[a] # <<>> /\ closing[a] \in Windows
  BY DEF CloseStep, CloseSucceeds, CloseFails, HandInv
<1>2. /\ Head(hand[a]) \in Command
      /\ Tail(hand[a]) \in Seq(Command)
  BY <1>1, SeqFacts DEF TypeOK
<1>3. ASSUME NEW p, p \in {PlaceAfterCloses(a), pc[a]}, pc' = [pc EXCEPT ![a] = p]
      PROVE  /\ pc' \in [Actors -> SenderPlaces \cup ReceiverPlaces]
             /\ pc'[Receiver] \in ReceiverPlaces
             /\ \A s \in Senders : pc'[s] \in SenderPlaces
  BY <1>3, ActorsAssumption
  DEF TypeOK, PlaceAfterCloses, Actors, SenderPlaces, ReceiverPlaces
<1>4. CASE CloseSucceeds(a)
  <2>1. /\ pc' \in [Actors -> SenderPlaces \cup ReceiverPlaces]
        /\ pc'[Receiver] \in ReceiverPlaces
        /\ \A s \in Senders : pc'[s] \in SenderPlaces
    BY <1>3, <1>4 DEF CloseSucceeds
  <2> QED  BY <1>2, <1>4, <2>1, DeliverTyped
    DEF CloseSucceeds, TypeOK, fields, pubsub, fate, marks
<1>5. CASE CloseFails(a)
  <2>1. /\ pc' \in [Actors -> SenderPlaces \cup ReceiverPlaces]
        /\ pc'[Receiver] \in ReceiverPlaces
        /\ \A s \in Senders : pc'[s] \in SenderPlaces
    BY <1>3, <1>5 DEF CloseFails
  <2>2. /\ hand' \in [Actors -> Seq(Command)]
        /\ pendingCloses' \in [Windows -> Seq(Command)]
        /\ stranded' \in SUBSET Windows
    BY <1>1, <1>5 DEF CloseFails, TypeOK
  <2> QED  BY <1>5, <2>1, <2>2 DEF CloseFails, WriteError, TypeOK, pubsub, fate, marks
<1> QED  BY <1>4, <1>5 DEF CloseStep

LEMMA TypeReceive ==
    ASSUME TypeOK, HandInv, ReceiverStep
    PROVE  TypeOK'
<1>1. Receiver \in Actors /\ Receiver \notin Senders
  BY ActorsAssumption DEF Actors
<1>2. ASSUME NEW p \in ReceiverPlaces, pc' = [pc EXCEPT ![Receiver] = p]
      PROVE  /\ pc' \in [Actors -> SenderPlaces \cup ReceiverPlaces]
             /\ pc'[Receiver] \in ReceiverPlaces
             /\ \A s \in Senders : pc'[s] \in SenderPlaces
  BY <1>1, <1>2 DEF TypeOK, Actors
<1>3. CASE \E type \in PromptTypes : HandlePromptType(type)
  <2>1. PICK type \in PromptTypes : HandlePromptType(type)
    BY <1>3
  <2>2. heard' \in Nat
    BY <2>1 DEF HandlePromptType, Counted, TypeOK
  <2>3. /\ pc' \in [Actors -> SenderPlaces \cup ReceiverPlaces]
        /\ pc'[Receiver] \in ReceiverPlaces
        /\ \A s \in Senders : pc'[s] \in SenderPlaces
    BY <2>1, <1>2 DEF HandlePromptType, ReceiverPlaces
  <2>4. /\ promptType' \in PromptTypes \cup {0}
        /\ event' \in EventNames \cup {"none"}
    BY <2>1 DEF HandlePromptType, Receive, EventNames
  <2>6. /\ queue' \in Seq(Command)
        /\ hand' \in [Actors -> Seq(Command)]
    <3>1. \/ queue' = <<>> /\ hand' = [hand EXCEPT ![Receiver] = queue]
          \/ queue' = queue /\ hand' = hand
      BY <2>1 DEF HandlePromptType
    <3> QED  BY <3>1, EmptySeq DEF TypeOK
  <2>5. promptTypeSeen' \in BOOLEAN /\ requeued' \in BOOLEAN
    BY Zenon, <2>1 DEF HandlePromptType, TypeOK
  <2> QED  BY <2>1, <2>2, <2>3, <2>4, <2>5, <2>6 DEF HandlePromptType, TypeOK, pubsub, fate
<1>4. CASE FlushSucceeds
  <2>1. /\ Head(hand[Receiver]) \in Command
        /\ Tail(hand[Receiver]) \in Seq(Command)
    BY <1>1, <1>4, SeqFacts DEF FlushSucceeds, HandInv, TypeOK
  <2>2. /\ pc' \in [Actors -> SenderPlaces \cup ReceiverPlaces]
        /\ pc'[Receiver] \in ReceiverPlaces
        /\ \A s \in Senders : pc'[s] \in SenderPlaces
    BY <1>2, <1>4 DEF FlushSucceeds, ReceiverPlaces
  <2> QED  BY <1>4, <2>1, <2>2, DeliverTyped
    DEF FlushSucceeds, TypeOK, fields, pubsub, fate, marks
<1>5. CASE FlushFails
  <2>1. /\ pc' \in [Actors -> SenderPlaces \cup ReceiverPlaces]
        /\ pc'[Receiver] \in ReceiverPlaces
        /\ \A s \in Senders : pc'[s] \in SenderPlaces
    BY <1>2, <1>5 DEF FlushFails, ReceiverPlaces
  <2>2. requeued' \in BOOLEAN
    BY Zenon, <1>5 DEF FlushFails
  <2> QED  BY <1>1, <1>5, <2>1, <2>2
    DEF FlushFails, WriteError, QueueBehind, TypeOK, pubsub, fate
<1>6. CASE \E w \in Windows : HandleReplySaveChanges(w)
  <2>1. PICK w \in Windows : HandleReplySaveChanges(w)
    BY <1>6
  <2>2. unanswered' \in [Windows -> Seq(Command)]
    BY <2>1, SeqFacts DEF HandleReplySaveChanges, TypeOK
  <2>3. event' \in EventNames \cup {"none"}
    BY <2>1 DEF HandleReplySaveChanges, Receive, EventNames
  <2>4. SettleSave(Receiver, w)
    BY <2>1 DEF HandleReplySaveChanges
  <2> QED  BY <1>1, <2>1, <2>2, <2>3, <2>4, TypeSettle
    DEF HandleReplySaveChanges, TypeOK, pubsub, fate
<1>7. CASE HandleHadError
  <2>1. queue' \in Seq(Command)
    BY <1>7, KeptIsSeq DEF HandleHadError, TypeOK
  <2>2. cancelled' \in SUBSET Command
    BY <1>7 DEF HandleHadError, TypeOK, Executes
  <2>3. /\ pc' \in [Actors -> SenderPlaces \cup ReceiverPlaces]
        /\ pc'[Receiver] \in ReceiverPlaces
        /\ \A s \in Senders : pc'[s] \in SenderPlaces
    BY <1>2, <1>7 DEF HandleHadError, ReceiverPlaces
  <2> QED  BY <1>7, <2>1, <2>2, <2>3
    DEF HandleHadError, Receive, Counted, TypeOK, pubsub, marks, EventNames
<1>8. CASE HandleFatal
  <2>1. cancelled' \in SUBSET Command
    BY <1>8, SeqFacts DEF HandleFatal, TypeOK
  <2>2. /\ pc' \in [Actors -> SenderPlaces \cup ReceiverPlaces]
        /\ pc'[Receiver] \in ReceiverPlaces
        /\ \A s \in Senders : pc'[s] \in SenderPlaces
    BY <1>2, <1>8 DEF HandleFatal, ReceiverPlaces
  <2>3. fatal' \in BOOLEAN /\ requeued' \in BOOLEAN
    BY Zenon, <1>8 DEF HandleFatal
  <2> QED  BY <1>8, <2>1, <2>2, <2>3
    DEF HandleFatal, Receive, Counted, TypeOK, pubsub, EventNames
<1>9. CASE HandleOther \/ StopReading
  <2>1. /\ pc' \in [Actors -> SenderPlaces \cup ReceiverPlaces]
        /\ pc'[Receiver] \in ReceiverPlaces
        /\ \A s \in Senders : pc'[s] \in SenderPlaces
    BY <1>2, <1>9 DEF HandleOther, StopReading, ReceiverPlaces
  <2> QED  BY <1>9, <2>1
    DEF HandleOther, StopReading, Receive, Counted, TypeOK, fields, pubsub, fate,
        marks, EventNames
<1>10. CASE Publish
  <2>1. /\ pc' \in [Actors -> SenderPlaces \cup ReceiverPlaces]
        /\ pc'[Receiver] \in ReceiverPlaces
        /\ \A s \in Senders : pc'[s] \in SenderPlaces
    BY <1>2, <1>10 DEF Publish, ReceiverPlaces
  <2>2. event \in EventNames
    BY <1>1, <1>10 DEF Publish, HandInv, TypeOK
  <2> QED  BY <1>10, <2>1, <2>2 DEF Publish, TypeOK, fields, fate, marks
<1> QED  BY <1>3, <1>4, <1>5, <1>6, <1>7, <1>8, <1>9, <1>10 DEF ReceiverStep

LEMMA TypeSubscribe ==
    ASSUME TypeOK, NEW x \in Subscribers, SubscriberStep(x)
    PROVE  TypeOK'
<1>1. CASE Subscribe(x)
  BY <1>1, EmptySeq DEF Subscribe, TypeOK, fields, fate, marks
<1>2. CASE Unsubscribe(x)
  BY <1>2 DEF Unsubscribe, TypeOK, fields, fate, marks
<1>3. CASE Consume(x)
  <2>1. channel' \in [Subscribers -> Seq(EventNames)]
    BY <1>3, SeqFacts DEF Consume, TypeOK
  <2> QED  BY <1>3, <2>1 DEF Consume, TypeOK, fields, fate, marks
<1> QED  BY <1>1, <1>2, <1>3 DEF SubscriberStep

-----------------------------------------------------------------------------
(* HandInv is inductive, given TypeOK. *)

LEMMA LastOne ==
    ASSUME NEW S, NEW q \in Seq(S), q # <<>>
    PROVE  Len(q) = 1 <=> Tail(q) = <<>>
<1>1. Tail(q) \in Seq(S) /\ Len(Tail(q)) = Len(q) - 1 /\ Len(q) \in Nat \ {0}
  BY HeadTailProperties, EmptySeq, LenProperties
<1>2. Len(Tail(q)) = 0 <=> Tail(q) = <<>>
  BY <1>1, EmptySeq
<1> QED  BY <1>1, <1>2

LEMMA HandInit == Init => HandInv
  BY DEF Init, HandInv, Actors

\* After a step of actor a alone, HandInv has to be seen at a only.
LEMMA HandStep ==
    ASSUME TypeOK, HandInv, NEW a \in Actors,
           NEW p, NEW h, NEW w,
           pc' = [pc EXCEPT ![a] = p],
           hand' = [hand EXCEPT ![a] = h],
           closing' = [closing EXCEPT ![a] = w],
           p \in {"write", "closes", "flush"} <=> h # <<>>,
           p = "write" => Len(h) = 1,
           p \in {"closes", "rollback"} => w \in Windows,
           a = Receiver /\ p \in {"flush", "closes", "publish"} => event' \in EventNames,
           a # Receiver => event' = event
    PROVE  HandInv'
<1> SUFFICES ASSUME NEW b \in Actors
             PROVE  /\ pc'[b] \in {"write", "closes", "flush"} <=> hand'[b] # <<>>
                    /\ pc'[b] = "write" => Len(hand'[b]) = 1
                    /\ pc'[b] \in {"closes", "rollback"} => closing'[b] \in Windows
                    /\ b = Receiver /\ pc'[b] \in {"flush", "closes", "publish"}
                          => event' \in EventNames
  BY DEF HandInv
<1>1. CASE b = a
  BY <1>1 DEF TypeOK
<1>2. CASE b # a
  BY <1>2 DEF TypeOK, HandInv
<1> QED  BY <1>1, <1>2

LEMMA HandSend ==
    ASSUME TypeOK, HandInv, NEW s \in Senders,
           SendCommand(s) \/ WriteSucceeds(s) \/ WriteFails(s)
    PROVE  HandInv'
<1>1. s \in Actors /\ s # Receiver
  BY ActorsAssumption DEF Actors
<1>2. CASE \E cmd \in Calls : DeferClose(s, cmd) \/ Enqueue(s, cmd)
  BY <1>2 DEF DeferClose, Enqueue, HandInv
<1>3. CASE \E cmd \in Calls : DecideWrite(s, cmd)
  <2>1. PICK cmd \in Calls : DecideWrite(s, cmd)
    BY <1>3
  <2>2. <<cmd>> # <<>> /\ Len(<<cmd>>) = 1
    OBVIOUS
  <2>3. closing' = [closing EXCEPT ![s] = closing[s]]
    BY <2>1 DEF DecideWrite, TypeOK
  <2>4. /\ pc' = [pc EXCEPT ![s] = "write"] /\ hand' = [hand EXCEPT ![s] = <<cmd>>]
        /\ event' = event
    BY <2>1 DEF DecideWrite
  <2> QED  BY <1>1, <2>2, <2>3, <2>4, HandStep
<1>4. CASE WriteSucceeds(s)
  <2>1. closing' = [closing EXCEPT ![s] = closing[s]]
    BY <1>4 DEF WriteSucceeds, TypeOK
  <2> QED  BY <1>1, <1>4, <2>1, HandStep DEF WriteSucceeds
<1>5. CASE WriteFails(s)
  <2> DEFINE cmd == Head(hand[s])
             p   == IF TracksSave(cmd) THEN "rollback" ELSE "idle"
             w   == IF TracksSave(cmd) THEN cmd.win ELSE closing[s]
  <2>1. cmd \in Command
    BY <1>1, <1>5, SeqFacts DEF WriteFails, HandInv, TypeOK
  <2>2. TracksSave(cmd) => cmd.win \in Windows
    BY <2>1 DEF TracksSave, Command
  <2>3. closing' = [closing EXCEPT ![s] = w] /\ pc' = [pc EXCEPT ![s] = p]
    BY <1>5 DEF WriteFails
  <2>4. hand' = [hand EXCEPT ![s] = <<>>] /\ event' = event
    BY <1>5 DEF WriteFails
  <2>5. p \in {"rollback", "idle"} /\ (p = "rollback" => w \in Windows)
    BY <2>2
  <2> HIDE DEF p, w, cmd
  <2> QED  BY <1>1, <2>3, <2>4, <2>5, HandStep
<1> QED  BY <1>2, <1>3, <1>4, <1>5 DEF SendCommand

LEMMA HandSettle ==
    ASSUME TypeOK, HandInv, NEW a \in Actors, NEW w \in Windows, SettleSave(a, w),
           hand[a] = <<>>,
           a = Receiver => event' \in EventNames, a # Receiver => event' = event
    PROVE  HandInv'
<1>1. PlaceAfterCloses(a) \in {"publish", "idle"}
  BY DEF PlaceAfterCloses
<1>2. closing' = [closing EXCEPT ![a] = w]
  BY DEF SettleSave
<1>3. CASE ReleasesCloses(a, w)
  <2>1. /\ hand' = [hand EXCEPT ![a] = pendingCloses[w]]
        /\ pc' = [pc EXCEPT ![a] = "closes"]
        /\ pendingCloses[w] # <<>>
    BY <1>3 DEF SettleSave, ReleasesCloses
  <2> QED  BY <1>2, <2>1, HandStep
<1>4. CASE ~ReleasesCloses(a, w)
  <2>1. /\ hand' = [hand EXCEPT ![a] = <<>>]
        /\ pc' = [pc EXCEPT ![a] = PlaceAfterCloses(a)]
    BY <1>4 DEF SettleSave, TypeOK
  <2> QED  BY <1>1, <1>2, <2>1, HandStep
<1> QED  BY <1>3, <1>4

LEMMA HandCloses ==
    ASSUME TypeOK, HandInv, NEW a \in Actors, CloseStep(a)
    PROVE  HandInv'
<1>1. PlaceAfterCloses(a) \in {"publish", "idle"}
  BY DEF PlaceAfterCloses
<1>2. /\ closing' = [closing EXCEPT ![a] = closing[a]] /\ closing[a] \in Windows
      /\ event' = event /\ (a = Receiver => event \in EventNames)
      /\ hand[a] \in Seq(Command) /\ hand[a] # <<>>
  BY DEF CloseStep, CloseSucceeds, CloseFails, HandInv, TypeOK
<1>3. CASE CloseSucceeds(a)
  <2> DEFINE p == IF Len(hand[a]) = 1 THEN PlaceAfterCloses(a) ELSE "closes"
  <2>1. pc' = [pc EXCEPT ![a] = p] /\ hand' = [hand EXCEPT ![a] = Tail(hand[a])]
    BY <1>3 DEF CloseSucceeds
  <2>2. p \in {"closes", "publish", "idle"} /\ (p = "closes" <=> Tail(hand[a]) # <<>>)
    BY <1>1, <1>2, LastOne
  <2> HIDE DEF p
  <2> QED  BY <1>2, <2>1, <2>2, HandStep
<1>4. CASE CloseFails(a)
  <2>1. /\ pc' = [pc EXCEPT ![a] = PlaceAfterCloses(a)]
        /\ hand' = [hand EXCEPT ![a] = <<>>]
    BY <1>4 DEF CloseFails
  <2> QED  BY <1>1, <1>2, <2>1, HandStep
<1> QED  BY <1>3, <1>4 DEF CloseStep

LEMMA HandReceive ==
    ASSUME TypeOK, HandInv, ReceiverStep
    PROVE  HandInv'
<1>1. /\ Receiver \in Actors
      /\ hand[Receiver] \in Seq(Command)
      /\ closing = [closing EXCEPT ![Receiver] = closing[Receiver]]
      /\ hand = [hand EXCEPT ![Receiver] = hand[Receiver]]
  BY DEF Actors, TypeOK
<1>2. CASE \E type \in PromptTypes : HandlePromptType(type)
  <2>1. PICK type \in PromptTypes : HandlePromptType(type)
    BY <1>2
  <2>2. closing' = closing /\ event' \in EventNames /\ hand[Receiver] = <<>>
    BY <1>1, <2>1 DEF HandlePromptType, Receive, EventNames, HandInv
  <2>3. CASE TakesQueue(type)
    <3>1. /\ pc' = [pc EXCEPT ![Receiver] = "flush"]
          /\ hand' = [hand EXCEPT ![Receiver] = queue]
          /\ queue # <<>>
      BY <2>1, <2>3 DEF HandlePromptType, TakesQueue
    <3> QED  BY <1>1, <2>2, <3>1, HandStep
  <2>4. CASE ~TakesQueue(type)
    <3>1. pc' = [pc EXCEPT ![Receiver] = "publish"] /\ hand' = hand
      BY <2>1, <2>4 DEF HandlePromptType
    <3> QED  BY <1>1, <2>2, <3>1, HandStep
  <2> QED  BY <2>3, <2>4
<1>3. CASE FlushSucceeds
  <2> DEFINE p == IF Len(hand[Receiver]) = 1 THEN "publish" ELSE "flush"
  <2>1. /\ pc' = [pc EXCEPT ![Receiver] = p]
        /\ hand' = [hand EXCEPT ![Receiver] = Tail(hand[Receiver])]
        /\ closing' = closing /\ event' = event
    BY <1>3 DEF FlushSucceeds
  <2>2. hand[Receiver] # <<>> /\ event \in EventNames
    BY <1>1, <1>3 DEF FlushSucceeds, HandInv
  <2>3. p \in {"publish", "flush"} /\ (p = "flush" <=> Tail(hand[Receiver]) # <<>>)
    BY <1>1, <2>2, LastOne
  <2> HIDE DEF p
  <2> QED  BY <1>1, <2>1, <2>2, <2>3, HandStep
<1>4. CASE FlushFails
  <2>1. /\ pc' = [pc EXCEPT ![Receiver] = "publish"]
        /\ hand' = [hand EXCEPT ![Receiver] = <<>>]
        /\ closing' = closing /\ event' = event /\ event \in EventNames
    BY <1>1, <1>4 DEF FlushFails, HandInv
  <2> QED  BY <1>1, <2>1, HandStep
<1>5. CASE \E w \in Windows : HandleReplySaveChanges(w)
  <2>1. PICK w \in Windows : HandleReplySaveChanges(w)
    BY <1>5
  <2>2. SettleSave(Receiver, w) /\ event' \in EventNames /\ hand[Receiver] = <<>>
    BY <1>1, <2>1 DEF HandleReplySaveChanges, Receive, EventNames, HandInv
  <2> QED  BY <1>1, <2>2, HandSettle
<1>6. CASE HandleHadError \/ HandleFatal \/ HandleOther
  <2>1. /\ pc' = [pc EXCEPT ![Receiver] = "publish"] /\ hand' = hand
        /\ closing' = closing /\ event' \in EventNames /\ hand[Receiver] = <<>>
    BY <1>1, <1>6 DEF HandleHadError, HandleFatal, HandleOther, Receive, EventNames, HandInv
  <2> QED  BY <1>1, <2>1, HandStep
<1>7. CASE Publish \/ StopReading
  <2>1. PICK p \in {"read", "stopped"} : pc' = [pc EXCEPT ![Receiver] = p]
    BY <1>7 DEF Publish, StopReading
  <2>2. hand' = hand /\ closing' = closing /\ hand[Receiver] = <<>>
    BY <1>1, <1>7 DEF Publish, StopReading, HandInv
  <2> QED  BY <1>1, <2>1, <2>2, HandStep
<1> QED  BY <1>2, <1>3, <1>4, <1>5, <1>6, <1>7 DEF ReceiverStep

\* Subscriptions and the channels do not touch the rest.
LEMMA TypeStep ==
    ASSUME TypeOK, HandInv, [Next]_vars PROVE TypeOK' /\ HandInv'
<1>1. ASSUME NEW s \in Senders, RollbackPendingSave(s)
      PROVE  TypeOK' /\ HandInv'
  <2>1. s \in Actors /\ s # Receiver /\ closing[s] \in Windows /\ hand[s] = <<>>
    BY <1>1, ActorsAssumption DEF Actors, RollbackPendingSave, HandInv
  <2>2. SettleSave(s, closing[s]) /\ event' = event
    BY <1>1 DEF RollbackPendingSave
  <2>3. HandInv'
    BY <2>1, <2>2, HandSettle
  <2>4. TypeOK'
    BY <1>1, <2>1, <2>2, TypeSettle DEF RollbackPendingSave, TypeOK, pubsub, fate
  <2> QED  BY <2>3, <2>4
<1>2. ASSUME NEW s \in Senders, SenderStep(s)
      PROVE  TypeOK' /\ HandInv'
  BY <1>1, <1>2, TypeSend, TypeWrite, HandSend DEF SenderStep
<1>3. ASSUME NEW a \in Actors, CloseStep(a)
      PROVE  TypeOK' /\ HandInv'
  BY <1>3, TypeCloses, HandCloses
<1>4. CASE ReceiverStep
  BY <1>4, TypeReceive, HandReceive
<1>5. ASSUME NEW x \in Subscribers, SubscriberStep(x)
      PROVE  TypeOK' /\ HandInv'
  <2>1. UNCHANGED <<pc, hand, closing, event>>
    BY <1>5 DEF SubscriberStep, Subscribe, Unsubscribe, Consume
  <2>2. HandInv'
    BY <2>1 DEF HandInv
  <2> QED  BY <1>5, <2>2, TypeSubscribe
<1>6. CASE UNCHANGED vars
  BY <1>6 DEF vars, fields, pubsub, fate, marks, TypeOK, HandInv
<1> QED  BY <1>2, <1>3, <1>4, <1>5, <1>6 DEF Next

\* Every variable keeps its type, and what an actor has in hand agrees with
\* where it stands in SendCommand or Run.
THEOREM TypeCorrect == Spec => [](TypeOK /\ HandInv)
<1>1. Init => TypeOK /\ HandInv
  BY TypeInit, HandInit
<1>2. (TypeOK /\ HandInv) /\ [Next]_vars => (TypeOK /\ HandInv)'
  BY TypeStep
<1> QED  BY <1>1, <1>2, PTL DEF Spec

-----------------------------------------------------------------------------
(* Nothing is left in the queue by the prompt that should release it.      *)

PromptInv ==
    /\ HeldOnlyWhileBusy
    /\ pc[Receiver] = "flush" => queue = <<>> /\ ~Busy

LEMMA PromptStep ==
    ASSUME TypeOK, HandInv, PromptInv, [Next]_vars PROVE PromptInv'
<1>1. ASSUME queue' = queue, promptType' = promptType,
             promptTypeSeen' = promptTypeSeen, requeued' = requeued,
             pc'[Receiver] = "flush" => pc[Receiver] = "flush"
      PROVE  PromptInv'
  BY <1>1, Zenon DEF PromptInv, HeldOnlyWhileBusy, Busy
<1>2. ASSUME queue' = <<>>, pc'[Receiver] # "flush" PROVE PromptInv'
  BY <1>2 DEF PromptInv, HeldOnlyWhileBusy
<1>3. ASSUME NEW s \in Senders, SenderStep(s) PROVE PromptInv'
  <2>1. s # Receiver /\ s \in Actors /\ Receiver \in Actors
    BY ActorsAssumption DEF Actors
  <2>2. CASE \E cmd \in Calls : Enqueue(s, cmd)
    <3>1. PICK cmd \in Calls : Enqueue(s, cmd)
      BY <2>2
    <3>2. /\ Busy /\ promptType' = promptType /\ promptTypeSeen' = promptTypeSeen
          /\ pc' = pc
      BY <3>1 DEF Enqueue, MustWaitForPrompt
    <3> QED  BY <3>2, Zenon DEF PromptInv, HeldOnlyWhileBusy, Busy
  <2>3. CASE \E cmd \in Calls : DeferClose(s, cmd) \/ DecideWrite(s, cmd)
    <3>1. pc'[Receiver] = pc[Receiver]
      BY <2>1, <2>3 DEF DeferClose, DecideWrite, TypeOK
    <3> QED  BY <1>1, <2>3, <3>1 DEF DeferClose, DecideWrite, marks
  <2>4. CASE WriteSucceeds(s) \/ WriteFails(s) \/ RollbackPendingSave(s)
    <3>1. pc'[Receiver] = pc[Receiver]
      BY <2>1, <2>4 DEF WriteSucceeds, WriteFails, RollbackPendingSave, SettleSave, TypeOK
    <3> QED  BY <1>1, <2>4, <3>1
      DEF WriteSucceeds, WriteFails, RollbackPendingSave, SettleSave, fields, marks
  <2> QED  BY <1>3, <2>2, <2>3, <2>4 DEF SenderStep, SendCommand
<1>4. ASSUME NEW a \in Actors, CloseStep(a) PROVE PromptInv'
  <2>1. PlaceAfterCloses(a) # "flush" /\ pc[a] = "closes"
    BY <1>4 DEF PlaceAfterCloses, CloseStep, CloseSucceeds, CloseFails
  <2>2. pc'[Receiver] = "flush" => pc[Receiver] = "flush"
    <3>1. Receiver \in Actors
      BY DEF Actors
    <3> QED  BY <1>4, <2>1, <3>1 DEF CloseStep, CloseSucceeds, CloseFails, TypeOK
  <2> QED  BY <1>1, <1>4, <2>2 DEF CloseStep, CloseSucceeds, CloseFails, fields, marks
<1>5. CASE ReceiverStep
  <2>1. Receiver \in Actors
    BY DEF Actors
  <2>2. CASE \E type \in PromptTypes : HandlePromptType(type)
    <3>1. PICK type \in PromptTypes : HandlePromptType(type)
      BY <2>2
    <3>2. promptType' = type /\ promptTypeSeen'
      BY <3>1 DEF HandlePromptType
    <3>3. CASE TakesQueue(type)
      <4>1. queue' = <<>> /\ promptType' # 0
        BY <3>1, <3>3 DEF HandlePromptType, TakesQueue
      <4> QED  BY <4>1 DEF PromptInv, HeldOnlyWhileBusy, Busy
    <3>4. CASE ~TakesQueue(type)
      <4>1. queue' = queue /\ requeued' = requeued /\ pc'[Receiver] = "publish"
        BY <2>1, <3>1, <3>4 DEF HandlePromptType, TypeOK
      <4>2. queue # <<>> /\ Busy => type = 0
        BY <3>4 DEF TakesQueue
      <4>3. queue # <<>> => Busy \/ requeued
        BY DEF PromptInv, HeldOnlyWhileBusy
      <4>4. type = 0 => Busy'
        BY <3>2, Zenon DEF Busy
      <4>5. queue' # <<>> => Busy' \/ requeued'
        BY <4>1, <4>2, <4>3, <4>4, Zenon
      <4> QED  BY <4>1, <4>5 DEF PromptInv, HeldOnlyWhileBusy
    <3> QED  BY <3>3, <3>4
  <2>3. CASE FlushSucceeds
    BY <1>1, <2>3 DEF FlushSucceeds, fields, marks
  <2>4. CASE FlushFails
    <3>1. requeued' /\ pc'[Receiver] = "publish"
      BY <2>1, <2>4 DEF FlushFails, TypeOK
    <3> QED  BY <3>1 DEF PromptInv, HeldOnlyWhileBusy
  <2>5. CASE \E w \in Windows : HandleReplySaveChanges(w)
    <3>1. pc'[Receiver] # "flush"
      BY <2>1, <2>5 DEF HandleReplySaveChanges, SettleSave, PlaceAfterCloses, TypeOK
    <3> QED  BY <1>1, <2>5, <3>1 DEF HandleReplySaveChanges, SettleSave
  <2>6. CASE HandleHadError
    <3>1. pc'[Receiver] = "publish"
      BY <2>1, <2>6 DEF HandleHadError, TypeOK
    <3>2. PICK at \in KeptPositions(queue) : queue' = [i \in DOMAIN at |-> queue[at[i]]]
      BY <2>6 DEF HandleHadError
    <3>3. queue = <<>> => queue' = <<>>
      <4>1. PICK n \in 0..Len(queue) : at \in [1..n -> DOMAIN queue]
        BY <3>2 DEF KeptPositions
      <4> QED  BY <3>2, <4>1
    <3>4. Busy' = Busy /\ requeued' = requeued
      BY <2>6 DEF HandleHadError, Busy, marks
    <3> QED  BY <3>1, <3>3, <3>4 DEF PromptInv, HeldOnlyWhileBusy
  <2>7. CASE HandleFatal
    <3>1. pc'[Receiver] = "publish" /\ queue' = <<>>
      BY <2>1, <2>7 DEF HandleFatal, TypeOK
    <3> QED  BY <1>2, <3>1
  <2>8. CASE HandleOther \/ Publish \/ StopReading
    <3>1. pc'[Receiver] # "flush"
      BY <2>1, <2>8 DEF HandleOther, Publish, StopReading, TypeOK
    <3> QED  BY <1>1, <2>8, <3>1 DEF HandleOther, Publish, StopReading, fields, marks
  <2> QED  BY <1>5, <2>2, <2>3, <2>4, <2>5, <2>6, <2>7, <2>8 DEF ReceiverStep
<1>6. ASSUME NEW x \in Subscribers, SubscriberStep(x) PROVE PromptInv'
  BY <1>1, <1>6 DEF SubscriberStep, Subscribe, Unsubscribe, Consume, fields, marks
<1>7. CASE UNCHANGED vars
  BY <1>1, <1>7 DEF vars, fields, marks
<1> QED  BY <1>3, <1>4, <1>5, <1>6, <1>7 DEF Next

\* A command waits in the queue only while the interpreter is busy, or because
\* a flush failed; and while the receive loop flushes, nothing is queued.
THEOREM NothingLeftBehind == Spec => []HeldOnlyWhileBusy
<1>1. Init => PromptInv
  BY DEF Init, PromptInv, HeldOnlyWhileBusy, Actors
<1>2. TypeOK /\ HandInv /\ PromptInv /\ [Next]_vars => PromptInv'
  BY PromptStep
<1>3. PromptInv => HeldOnlyWhileBusy
  BY DEF PromptInv
<1> QED  BY <1>1, <1>2, <1>3, TypeCorrect, PTL DEF Spec

-----------------------------------------------------------------------------
(* A deferred CloseWindow always has a save whose end releases it.         *)

LEMMA StrandedSettle ==
    ASSUME TypeOK, NoStrandedClose, NEW a \in Actors, NEW w \in Windows, SettleSave(a, w)
    PROVE  NoStrandedClose'
<1> SUFFICES ASSUME NEW v \in Windows, pendingCloses'[v] # <<>>
             PROVE  pendingSaves'[v] > 0 \/ v \in stranded'
  BY DEF NoStrandedClose
<1>1. CASE v # w
  <2>1. /\ pendingCloses'[v] = pendingCloses[v]
        /\ pendingSaves'[v] = pendingSaves[v]
        /\ v \in stranded => v \in stranded'
    BY <1>1 DEF SettleSave, TypeOK
  <2> QED  BY <2>1 DEF NoStrandedClose
<1>2. CASE v = w /\ ReleasesCloses(a, w)
  BY <1>2 DEF SettleSave, TypeOK
<1>3. CASE v = w /\ ~ReleasesCloses(a, w)
  <2>1. pendingCloses' = pendingCloses
    BY <1>3 DEF SettleSave
  <2>2. pendingSaves[w] \in Nat /\ pendingSaves[w] > 1
    BY <1>3, <2>1 DEF ReleasesCloses, LastSave, TypeOK
  <2>3. pendingSaves'[w] = pendingSaves[w] - 1
    BY <2>2 DEF SettleSave, LastSave, TypeOK
  <2> QED  BY <1>3, <2>2, <2>3
<1> QED  BY <1>1, <1>2, <1>3

LEMMA StrandedStep ==
    ASSUME TypeOK, HandInv, NoStrandedClose, [Next]_vars PROVE NoStrandedClose'
<1>1. ASSUME UNCHANGED <<pendingSaves, pendingCloses, stranded>>
      PROVE  NoStrandedClose'
  BY <1>1 DEF NoStrandedClose
<1>2. ASSUME NEW s \in Senders, SenderStep(s) PROVE NoStrandedClose'
  <2>1. s \in Actors
    BY DEF Actors
  <2>2. CASE SendCommand(s)
    <3>1. PICK cmd \in Command :
            DeferClose(s, cmd) \/ Enqueue(s, cmd) \/ DecideWrite(s, cmd)
      BY <2>2, CallsTyped DEF SendCommand
    <3>2. CASE DeferClose(s, cmd)
      <4>1. cmd.win \in Windows /\ pendingSaves[cmd.win] > 0
        BY <3>2 DEF DeferClose, MustWaitForReply, Command
      <4>2. /\ pendingSaves' = pendingSaves /\ stranded' = stranded
            /\ \A v \in Windows \ {cmd.win} : pendingCloses'[v] = pendingCloses[v]
        BY <3>2 DEF DeferClose, marks, TypeOK
      <4> QED  BY <4>1, <4>2 DEF NoStrandedClose
    <3>3. CASE Enqueue(s, cmd) \/ DecideWrite(s, cmd)
      <4>1. /\ pendingSaves' = SavesWith(cmd)
            /\ pendingCloses' = pendingCloses /\ stranded' = stranded
        BY <3>3 DEF Enqueue, DecideWrite, marks
      <4>2. \A v \in Windows : pendingSaves'[v] >= pendingSaves[v]
                               /\ pendingSaves[v] \in Nat /\ pendingSaves'[v] \in Nat
        BY <4>1 DEF SavesWith, TypeOK
      <4> QED  BY <4>1, <4>2 DEF NoStrandedClose
    <3> QED  BY <3>1, <3>2, <3>3
  <2>3. CASE WriteSucceeds(s) \/ WriteFails(s)
    BY <1>1, <2>3 DEF WriteSucceeds, WriteFails, fields, marks
  <2>4. CASE RollbackPendingSave(s)
    <3>1. closing[s] \in Windows /\ SettleSave(s, closing[s])
      BY <2>1, <2>4 DEF RollbackPendingSave, HandInv
    <3> QED  BY <2>1, <3>1, StrandedSettle
  <2> QED  BY <1>2, <2>2, <2>3, <2>4 DEF SenderStep
<1>3. ASSUME NEW a \in Actors, CloseStep(a) PROVE NoStrandedClose'
  <2>1. CASE CloseSucceeds(a)
    BY <1>1, <2>1 DEF CloseSucceeds, fields, marks
  <2>2. CASE CloseFails(a)
    BY <2>2 DEF CloseFails, TypeOK, NoStrandedClose
  <2> QED  BY <1>3, <2>1, <2>2 DEF CloseStep
<1>4. CASE ReceiverStep
  <2>1. CASE \E w \in Windows : HandleReplySaveChanges(w)
    BY <2>1, StrandedSettle DEF HandleReplySaveChanges, Actors
  <2>2. CASE HandleFatal
    BY <2>2 DEF HandleFatal, NoStrandedClose
  <2>3. CASE \/ \E type \in PromptTypes : HandlePromptType(type)
             \/ FlushSucceeds \/ FlushFails \/ HandleHadError \/ HandleOther
             \/ Publish \/ StopReading
    BY <1>1, <2>3 DEF HandlePromptType, FlushSucceeds, FlushFails, HandleHadError,
       HandleOther, Publish, StopReading, fields, marks
  <2> QED  BY <1>4, <2>1, <2>2, <2>3 DEF ReceiverStep
<1>5. ASSUME NEW x \in Subscribers, SubscriberStep(x) PROVE NoStrandedClose'
  BY <1>1, <1>5 DEF SubscriberStep, Subscribe, Unsubscribe, Consume, fields, marks
<1>6. CASE UNCHANGED vars
  BY <1>1, <1>6 DEF vars, fields, marks
<1> QED  BY <1>2, <1>3, <1>4, <1>5, <1>6 DEF Next

\* A CloseWindow is deferred only for a save that is still pending, unless a
\* write of closes failed.
THEOREM NoCloseStranded == Spec => []NoStrandedClose
<1>1. Init => NoStrandedClose
  BY DEF Init, NoStrandedClose
<1>2. TypeOK /\ HandInv /\ NoStrandedClose /\ [Next]_vars => NoStrandedClose'
  BY StrandedStep
<1> QED  BY <1>1, <1>2, TypeCorrect, PTL DEF Spec

-----------------------------------------------------------------------------
(* The order of the queue.  A command that waits is told from the commands *)
(* callers write directly by its number, and from the closes by its name.  *)

Ascending(q) == \A i, j \in DOMAIN q : i < j => q[i].id < q[j].id

AllCloses(q) == \A i \in DOMAIN q : q[i].name = "CloseWindow"

OrderInv ==
    /\ \A c \in Waiting : c.id <= issued /\ ~IsAllowedWhileBusy(c.name)
    /\ \A s \in Senders : pc[s] = "write" =>
          /\ Head(hand[s]).id <= issued
          /\ \A c \in Waiting : c.id # Head(hand[s]).id
    /\ \A a \in Actors : pc[a] = "closes" => AllCloses(hand[a])
    /\ \A w \in Windows : AllCloses(pendingCloses[w])
    /\ Ascending(queue) /\ Ascending(FlushRest)

LEMMA RangeOps ==
    ASSUME NEW S, NEW q \in Seq(S)
    PROVE  /\ \A x \in S : Range(Append(q, x)) = Range(q) \cup {x}
           /\ q # <<>> => Range(q) = {Head(q)} \cup Range(Tail(q))
           /\ Range(<<>>) = {}
<1>1. ASSUME NEW x \in S PROVE Range(Append(q, x)) = Range(q) \cup {x}
  <2>1. /\ DOMAIN q = 1..Len(q) /\ Len(q) \in Nat
        /\ DOMAIN Append(q, x) = 1..(Len(q) + 1)
        /\ \A i \in 1..Len(q) : Append(q, x)[i] = q[i]
        /\ Append(q, x)[Len(q) + 1] = x
    OBVIOUS
  <2>2. Range(q) = {q[i] : i \in 1..Len(q)}
    BY <2>1 DEF Range
  <2>3. Range(Append(q, x)) = {Append(q, x)[i] : i \in 1..(Len(q) + 1)}
    BY <2>1 DEF Range
  <2>4. 1..(Len(q) + 1) = 1..Len(q) \cup {Len(q) + 1}
    BY <2>1
  <2> QED  BY <2>1, <2>2, <2>3, <2>4
<1>2. ASSUME q # <<>> PROVE Range(q) = {Head(q)} \cup Range(Tail(q))
  <2>1. /\ Len(q) \in Nat \ {0} /\ Tail(q) \in Seq(S) /\ Len(Tail(q)) = Len(q) - 1
        /\ \A i \in 1..Len(Tail(q)) : Tail(q)[i] = q[i + 1]
    BY <1>2, HeadTailProperties, EmptySeq
  <2>2. ASSUME NEW i \in 1..Len(q), i # 1 PROVE q[i] \in Range(Tail(q))
    <3>1. /\ i - 1 \in 1..Len(Tail(q)) /\ Tail(q)[i - 1] = q[i]
          /\ DOMAIN Tail(q) = 1..Len(Tail(q))
      BY <2>1, <2>2
    <3> QED  BY <2>1, <3>1 DEF Range
  <2>3. Range(Tail(q)) \subseteq Range(q)
    <3> SUFFICES ASSUME NEW i \in 1..Len(Tail(q)) PROVE Tail(q)[i] \in Range(q)
      BY <2>1 DEF Range
    <3> QED  BY <2>1 DEF Range
  <2>4. Head(q) = q[1] /\ 1 \in 1..Len(q)
    BY <1>2, <2>1
  <2> QED  BY <2>2, <2>3, <2>4 DEF Range
<1>3. Range(<<>>) = {}
  <2>1. DOMAIN <<>> = {}
    OBVIOUS
  <2> QED  BY <2>1 DEF Range
<1> QED  BY <1>1, <1>2, <1>3

LEMMA AscendingOps ==
    ASSUME NEW q \in Seq(Command)
    PROVE  /\ \A x \in Command : Ascending(q) /\ (\A c \in Range(q) : c.id < x.id)
                 => Ascending(Append(q, x))
           /\ q # <<>> /\ Ascending(q) =>
                 /\ Ascending(Tail(q))
                 /\ \A c \in Range(Tail(q)) : Head(q).id < c.id
           /\ \A at \in KeptPositions(q) : Ascending(q) =>
                 Ascending([i \in DOMAIN at |-> q[at[i]]])
           /\ Ascending(<<>>) /\ AllCloses(<<>>)
           /\ q # <<>> /\ AllCloses(q) => AllCloses(Tail(q)) /\ Head(q).name = "CloseWindow"
<1>1. ASSUME NEW x \in Command, Ascending(q), \A c \in Range(q) : c.id < x.id
      PROVE  Ascending(Append(q, x))
  <2> SUFFICES ASSUME NEW i \in 1..(Len(q) + 1), NEW j \in 1..(Len(q) + 1), i < j
               PROVE  Append(q, x)[i].id < Append(q, x)[j].id
    BY DEF Ascending
  <2>1. i \in 1..Len(q) /\ Append(q, x)[i] = q[i]
    OBVIOUS
  <2>2. CASE j = Len(q) + 1
    BY <1>1, <2>1, <2>2 DEF Range
  <2>3. CASE j # Len(q) + 1
    BY <1>1, <2>1, <2>3 DEF Ascending
  <2> QED  BY <2>2, <2>3
<1>2. ASSUME q # <<>>
      PROVE  /\ Tail(q) \in Seq(Command) /\ Len(Tail(q)) = Len(q) - 1
             /\ \A i \in 1..Len(Tail(q)) : Tail(q)[i] = q[i + 1]
             /\ Head(q) = q[1] /\ Len(q) \in Nat \ {0}
  BY <1>2, HeadTailProperties, EmptySeq
<1>3. ASSUME q # <<>>, Ascending(q)
      PROVE  /\ Ascending(Tail(q))
             /\ \A c \in Range(Tail(q)) : Head(q).id < c.id
  <2>1. ASSUME NEW i \in 1..Len(Tail(q)), NEW j \in 1..Len(Tail(q)), i < j
        PROVE  Tail(q)[i].id < Tail(q)[j].id
    <3>1. i + 1 \in 1..Len(q) /\ j + 1 \in 1..Len(q) /\ i + 1 < j + 1
      BY <1>2, <1>3, <2>1
    <3>2. q[i + 1].id < q[j + 1].id
      BY <1>3, <3>1 DEF Ascending
    <3> QED  BY <1>2, <1>3, <3>2
  <2>2. ASSUME NEW i \in 1..Len(Tail(q)) PROVE Head(q).id < Tail(q)[i].id
    <3>1. i + 1 \in 1..Len(q) /\ 1 \in 1..Len(q) /\ 1 < i + 1
      BY <1>2, <1>3
    <3>2. q[1].id < q[i + 1].id
      BY <1>3, <3>1 DEF Ascending
    <3> QED  BY <1>2, <1>3, <3>2
  <2>3. DOMAIN Tail(q) = 1..Len(Tail(q))
    BY <1>2, <1>3
  <2> QED  BY <2>1, <2>2, <2>3 DEF Ascending, Range
<1>4. ASSUME NEW at \in KeptPositions(q), Ascending(q)
      PROVE  Ascending([i \in DOMAIN at |-> q[at[i]]])
  <2>1. PICK n \in 0..Len(q) : at \in [1..n -> DOMAIN q]
    BY DEF KeptPositions
  <2>2. \A i, j \in 1..n : i < j => at[i] < at[j]
    BY <2>1 DEF KeptPositions
  <2>3. \A i \in 1..n : at[i] \in DOMAIN q
    BY <2>1
  <2> QED  BY <1>4, <2>1, <2>2, <2>3 DEF Ascending
<1>5. Ascending(<<>>) /\ AllCloses(<<>>)
  BY DEF Ascending, AllCloses
<1>6. ASSUME q # <<>>, AllCloses(q)
      PROVE  AllCloses(Tail(q)) /\ Head(q).name = "CloseWindow"
  <2>1. ASSUME NEW i \in 1..Len(Tail(q)) PROVE Tail(q)[i].name = "CloseWindow"
    <3>1. i + 1 \in 1..Len(q)
      BY <1>2, <1>6
    <3> QED  BY <1>2, <1>6, <3>1 DEF AllCloses
  <2>2. DOMAIN Tail(q) = 1..Len(Tail(q)) /\ 1 \in DOMAIN q
    BY <1>2, <1>6
  <2> QED  BY <1>2, <1>6, <2>1, <2>2 DEF AllCloses
<1> QED  BY <1>1, <1>3, <1>4, <1>5, <1>6

LEMMA WaitingTyped == ASSUME TypeOK PROVE Waiting \subseteq Command /\ FlushRest \in Seq(Command)
<1>1. FlushRest \in Seq(Command)
  BY EmptySeq DEF TypeOK, FlushRest, Actors
<1> QED  BY <1>1, SeqFacts DEF TypeOK, Waiting

\* Steps that leave the queue and the flush alone keep what OrderInv says of
\* them; what they do to the hands and the closes remains.
LEMMA OrderFrame ==
    ASSUME TypeOK, HandInv, OrderInv, issued \in Nat, issued' \in Nat, issued <= issued',
           FlushRest' = FlushRest, queue' = queue,
           \A s \in Senders : pc'[s] = "write" =>
              \/ pc[s] = "write" /\ hand'[s] = hand[s]
              \/ /\ Head(hand'[s]).id <= issued'
                 /\ \A c \in Waiting : c.id # Head(hand'[s]).id,
           \A a \in Actors : pc'[a] = "closes" => AllCloses(hand'[a]),
           \A w \in Windows : AllCloses(pendingCloses'[w])
    PROVE  OrderInv'
<1>1. Waiting' = Waiting
  BY DEF Waiting
<1>2. \A c \in Waiting : c.id \in Nat
  BY WaitingTyped DEF Command
<1>3. \A c \in Waiting' : c.id <= issued' /\ ~IsAllowedWhileBusy(c.name)
  BY <1>1, <1>2 DEF OrderInv
<1>4. ASSUME NEW s \in Senders, pc'[s] = "write"
      PROVE  /\ Head(hand'[s]).id <= issued'
             /\ \A c \in Waiting' : c.id # Head(hand'[s]).id
  <2>1. CASE pc[s] = "write" /\ hand'[s] = hand[s]
    <3>1. Head(hand[s]).id \in Nat
      <4>1. hand[s] \in Seq(Command) /\ hand[s] # <<>>
        BY <2>1 DEF TypeOK, Actors, HandInv
      <4>2. Head(hand[s]) \in Command
        BY <4>1, SeqFacts
      <4> QED  BY <4>2 DEF Command
    <3> QED  BY <1>1, <2>1, <3>1 DEF OrderInv
  <2> QED  BY <1>1, <1>4, <2>1
<1>5. Ascending(queue') /\ Ascending(FlushRest')
  BY DEF OrderInv
<1> QED  BY <1>3, <1>4, <1>5 DEF OrderInv

LEMMA OrderSend ==
    ASSUME TypeOK, HandInv, PromptInv, OrderInv, NEW s \in Senders, SendCommand(s)
    PROVE  OrderInv'
<1>1. PICK cmd \in Calls : DeferClose(s, cmd) \/ Enqueue(s, cmd) \/ DecideWrite(s, cmd)
  BY DEF SendCommand
<1>2. /\ cmd \in Command /\ cmd.id = issued + 1 /\ issued \in Nat /\ issued' = issued + 1
      /\ s \in Actors /\ Receiver \in Actors /\ s # Receiver /\ pc[s] = "idle"
  BY <1>1, CallsTyped, ActorsAssumption
  DEF Calls, TypeOK, DeferClose, Enqueue, DecideWrite, Issue, Actors
<1>3. \A c \in Waiting : c.id \in Nat /\ c.id <= issued
  BY WaitingTyped DEF OrderInv, Command
<1>4. CASE DeferClose(s, cmd)
  <2>1. cmd.name = "CloseWindow" /\ cmd.win \in Windows
    BY <1>2, <1>4 DEF DeferClose, MustWaitForReply, Command
  <2>2. \A w \in Windows : AllCloses(pendingCloses'[w])
    <3> SUFFICES ASSUME NEW w \in Windows PROVE AllCloses(pendingCloses'[w])
      OBVIOUS
    <3>1. CASE w = cmd.win
      <4>1. pendingCloses'[w] = Append(pendingCloses[w], cmd)
        BY <1>4, <2>1, <3>1 DEF DeferClose, TypeOK
      <4> QED  BY <1>2, <2>1, <4>1 DEF OrderInv, AllCloses, TypeOK
    <3>2. CASE w # cmd.win
      BY <1>4, <2>1, <3>2 DEF DeferClose, TypeOK, OrderInv
    <3> QED  BY <3>1, <3>2
  <2>3. UNCHANGED <<pc, hand, queue>>
    BY <1>4 DEF DeferClose
  <2> QED  BY <1>2, <2>2, <2>3, OrderFrame DEF FlushRest, OrderInv
<1>5. CASE Enqueue(s, cmd)
  <2>1. /\ pc' = pc /\ hand' = hand /\ pendingCloses' = pendingCloses
        /\ queue' = Append(queue, cmd) /\ queue \in Seq(Command)
        /\ Busy /\ ~IsAllowedWhileBusy(cmd.name)
    BY <1>5 DEF Enqueue, QueueWith, MustWaitForPrompt, TypeOK
  <2>2. FlushRest' = FlushRest
    BY <2>1 DEF FlushRest
  <2>3. Waiting' = Waiting \cup {cmd}
    BY <1>2, <2>1, <2>2, RangeOps DEF Waiting
  <2>4. \A c \in Waiting' : c.id <= issued' /\ ~IsAllowedWhileBusy(c.name)
    BY <1>2, <1>3, <2>1, <2>3 DEF OrderInv
  <2>5. ASSUME NEW t \in Senders, pc'[t] = "write"
        PROVE  /\ Head(hand'[t]).id <= issued'
               /\ \A c \in Waiting' : c.id # Head(hand'[t]).id
    <3>1. Head(hand[t]).id \in Nat
      <4>1. hand[t] \in Seq(Command) /\ hand[t] # <<>>
        BY <2>1, <2>5 DEF TypeOK, Actors, HandInv
      <4>2. Head(hand[t]) \in Command
        BY <4>1, SeqFacts
      <4> QED  BY <4>2 DEF Command
    <3> QED  BY <1>2, <2>1, <2>3, <2>5, <3>1 DEF OrderInv
  <2>6. Ascending(queue') /\ Ascending(FlushRest')
    <3>1. Range(queue) \subseteq Waiting
      BY DEF Waiting
    <3>2. \A c \in Range(queue) : c.id < cmd.id
      BY <1>2, <1>3, <3>1
    <3> QED  BY <1>2, <2>1, <2>2, <3>2, AscendingOps DEF OrderInv
  <2> QED  BY <2>1, <2>4, <2>5, <2>6 DEF OrderInv
<1>6. CASE DecideWrite(s, cmd)
  <2>1. /\ pc' = [pc EXCEPT ![s] = "write"] /\ hand' = [hand EXCEPT ![s] = <<cmd>>]
        /\ queue' = queue /\ pendingCloses' = pendingCloses
    BY <1>6 DEF DecideWrite
  <2>2. FlushRest' = FlushRest
    BY <1>2, <2>1 DEF FlushRest, TypeOK
  <2>3. Head(hand'[s]) = cmd
    BY <1>2, <2>1 DEF TypeOK
  <2>4. \A c \in Waiting : c.id # cmd.id
    BY <1>2, <1>3
  <2>5. \A t \in Senders : pc'[t] = "write" =>
           \/ pc[t] = "write" /\ hand'[t] = hand[t]
           \/ /\ Head(hand'[t]).id <= issued'
              /\ \A c \in Waiting : c.id # Head(hand'[t]).id
    BY <1>2, <2>1, <2>3, <2>4 DEF TypeOK, Actors
  <2>6. \A a \in Actors : pc'[a] = "closes" => AllCloses(hand'[a])
    BY <1>2, <2>1 DEF OrderInv, TypeOK
  <2> QED  BY <1>2, <2>1, <2>2, <2>5, <2>6, OrderFrame DEF OrderInv
<1> QED  BY <1>1, <1>4, <1>5, <1>6

LEMMA OrderSettle ==
    ASSUME TypeOK, HandInv, OrderInv, NEW a \in Actors, NEW w \in Windows,
           SettleSave(a, w), queue' = queue, issued' = issued,
           pc[a] \in {"rollback", "read"}
    PROVE  OrderInv'
<1>1. PlaceAfterCloses(a) \in {"publish", "idle"}
  BY DEF PlaceAfterCloses
<1>2. PICK p \in {"closes", "publish", "idle"} : pc' = [pc EXCEPT ![a] = p]
  BY <1>1 DEF SettleSave
<1>3. \A b \in Actors \ {a} : pc'[b] = pc[b] /\ hand'[b] = hand[b]
  BY DEF SettleSave, TypeOK
<1>4. pc'[a] = "closes" => hand'[a] = pendingCloses[w]
  BY <1>1 DEF SettleSave, TypeOK
<1>5. \A v \in Windows : AllCloses(pendingCloses'[v])
  <2>1. \/ pendingCloses' = pendingCloses
        \/ pendingCloses' = [pendingCloses EXCEPT ![w] = <<>>]
    BY DEF SettleSave
  <2>2. AllCloses(<<>>)
    BY DEF AllCloses
  <2> QED  BY <2>1, <2>2 DEF OrderInv, TypeOK
<1>6. FlushRest' = FlushRest
  <2>1. pc[Receiver] = "flush" <=> pc'[Receiver] = "flush"
    BY <1>2, <1>3 DEF Actors, TypeOK
  <2>2. pc[Receiver] = "flush" => hand'[Receiver] = hand[Receiver]
    BY <1>3 DEF Actors
  <2> QED  BY <2>1, <2>2 DEF FlushRest
<1>7. \A s \in Senders : pc'[s] = "write" => pc[s] = "write" /\ hand'[s] = hand[s]
  BY <1>2, <1>3 DEF TypeOK, Actors
<1>8. \A b \in Actors : pc'[b] = "closes" => AllCloses(hand'[b])
  BY <1>3, <1>4 DEF OrderInv
<1> QED  BY <1>5, <1>6, <1>7, <1>8, OrderFrame DEF TypeOK

LEMMA OrderWrites ==
    ASSUME TypeOK, HandInv, OrderInv,
           \/ \E s \in Senders : WriteSucceeds(s) \/ WriteFails(s)
           \/ \E a \in Actors : CloseStep(a)
    PROVE  OrderInv'
<1>1. PICK a \in Actors : \/ a # Receiver /\ (WriteSucceeds(a) \/ WriteFails(a))
                          \/ CloseStep(a)
  BY ActorsAssumption DEF Actors
<1>2. /\ \A b \in Actors \ {a} : pc'[b] = pc[b]
      /\ pc'[a] \in {"idle", "rollback", "publish", "closes"}
      /\ pc'[a] = "closes" => pc[a] = "closes"
  <2>1. PlaceAfterCloses(a) \in {"publish", "idle"}
    BY DEF PlaceAfterCloses
  <2>2. CASE WriteSucceeds(a)
    BY <2>2 DEF WriteSucceeds, TypeOK
  <2>3. CASE WriteFails(a)
    BY <2>3 DEF WriteFails, TypeOK
  <2>4. CASE CloseSucceeds(a)
    BY <2>1, <2>4 DEF CloseSucceeds, TypeOK
  <2>5. CASE CloseFails(a)
    BY <2>1, <2>5 DEF CloseFails, TypeOK
  <2> QED  BY <1>1, <2>2, <2>3, <2>4, <2>5 DEF CloseStep
<1>3. /\ queue' = queue /\ issued' = issued /\ issued \in Nat
      /\ \A b \in Actors \ {a} : hand'[b] = hand[b]
      /\ pc[a] \in {"write", "closes"}
  BY <1>1 DEF WriteSucceeds, WriteFails, CloseStep, CloseSucceeds, CloseFails,
     fields, TypeOK
<1>4. FlushRest' = FlushRest
  <2>1. pc'[Receiver] = "flush" <=> pc[Receiver] = "flush"
    BY <1>2, <1>3 DEF TypeOK, Actors
  <2>2. pc[Receiver] = "flush" => hand'[Receiver] = hand[Receiver]
    BY <1>3 DEF Actors
  <2> QED  BY <2>1, <2>2 DEF FlushRest
<1>5. \A s \in Senders : pc'[s] = "write" => pc[s] = "write" /\ hand'[s] = hand[s]
  BY <1>2, <1>3 DEF TypeOK, Actors
<1>6. hand[a] \in Seq(Command) /\ hand[a] # <<>>
  BY <1>3 DEF HandInv, TypeOK
<1>7. \A b \in Actors : pc'[b] = "closes" => AllCloses(hand'[b])
  <2> SUFFICES ASSUME NEW b \in Actors, pc'[b] = "closes" PROVE AllCloses(hand'[b])
    OBVIOUS
  <2>1. CASE b # a
    BY <1>2, <1>3, <2>1 DEF TypeOK, OrderInv
  <2>2. CASE b = a
    <3>1. pc[a] = "closes"
      BY <1>2, <2>2 DEF TypeOK
    <3>2. CloseStep(a)
      BY <1>1, <3>1 DEF WriteSucceeds, WriteFails
    <3>3. hand'[a] = Tail(hand[a]) \/ hand'[a] = <<>>
      BY <3>2 DEF CloseStep, CloseSucceeds, CloseFails, TypeOK
    <3> QED  BY <1>6, <2>2, <3>1, <3>3, AscendingOps DEF OrderInv
  <2> QED  BY <2>1, <2>2
<1>8. \A w \in Windows : AllCloses(pendingCloses'[w])
  <2>1. CASE CloseFails(a)
    <3>1. /\ closing[a] \in Windows /\ AllCloses(hand[a])
          /\ pendingCloses' = [pendingCloses EXCEPT ![closing[a]] =
                                  hand[a] \o pendingCloses[closing[a]]]
      BY <2>1 DEF CloseFails, HandInv, OrderInv
    <3>2. ASSUME NEW q \in Seq(Command), NEW r \in Seq(Command), AllCloses(q), AllCloses(r)
          PROVE  AllCloses(q \o r)
      BY <3>2 DEF AllCloses
    <3>3. pendingCloses[closing[a]] \in Seq(Command) /\ AllCloses(pendingCloses[closing[a]])
      BY <3>1 DEF TypeOK, OrderInv
    <3>4. AllCloses(hand[a] \o pendingCloses[closing[a]])
      BY <1>6, <3>1, <3>2, <3>3
    <3> QED  BY <3>1, <3>4 DEF OrderInv, TypeOK
  <2>2. CASE ~CloseFails(a)
    BY <1>1, <2>2 DEF OrderInv, WriteSucceeds, WriteFails, CloseStep, CloseSucceeds, fields
  <2> QED  BY <2>1, <2>2
<1> QED  BY <1>3, <1>4, <1>5, <1>7, <1>8, OrderFrame

\* The steps of the receive loop that touch the queue or the flush.
LEMMA OrderQueue ==
    ASSUME TypeOK, HandInv, PromptInv, OrderInv,
           Ascending(queue'), Ascending(FlushRest'), Waiting' \subseteq Waiting,
           issued' = issued,
           \A a \in Actors \ {Receiver} : pc'[a] = pc[a] /\ hand'[a] = hand[a],
           pc'[Receiver] # "closes",
           \A w \in Windows : AllCloses(pendingCloses'[w])
    PROVE  OrderInv'
<1>1. \A s \in Senders : s \in Actors \ {Receiver}
  BY ActorsAssumption DEF Actors
<1>2. \A s \in Senders : pc'[s] = "write" =>
        /\ Head(hand'[s]).id <= issued'
        /\ \A c \in Waiting' : c.id # Head(hand'[s]).id
  BY <1>1 DEF OrderInv
<1>3. \A a \in Actors : pc'[a] = "closes" => AllCloses(hand'[a])
  BY DEF OrderInv
<1>4. \A c \in Waiting' : c.id <= issued' /\ ~IsAllowedWhileBusy(c.name)
  BY DEF OrderInv
<1> QED  BY <1>2, <1>3, <1>4 DEF OrderInv

LEMMA OrderReceive ==
    ASSUME TypeOK, HandInv, PromptInv, OrderInv, ReceiverStep
    PROVE  OrderInv'
<1>1. /\ Receiver \in Actors /\ issued \in Nat
      /\ hand[Receiver] \in Seq(Command) /\ queue \in Seq(Command)
      /\ FlushRest \in Seq(Command)
  BY WaitingTyped DEF TypeOK, Actors
<1>2. ASSUME NEW p, pc' = [pc EXCEPT ![Receiver] = p]
      PROVE  pc'[Receiver] = p /\ \A a \in Actors \ {Receiver} : pc'[a] = pc[a]
  BY <1>1, <1>2 DEF TypeOK
<1>3. CASE \E type \in PromptTypes : HandlePromptType(type) /\ TakesQueue(type)
  <2>1. PICK type \in PromptTypes : HandlePromptType(type) /\ TakesQueue(type)
    BY <1>3
  <2>2. /\ hand' = [hand EXCEPT ![Receiver] = queue] /\ queue' = <<>>
        /\ pc' = [pc EXCEPT ![Receiver] = "flush"]
        /\ issued' = issued /\ pendingCloses' = pendingCloses
    BY <2>1 DEF HandlePromptType
  <2>3. FlushRest' = queue
    BY <1>1, <1>2, <2>2 DEF FlushRest, TypeOK
  <2>4. Waiting' \subseteq Waiting
    BY <1>1, <2>2, <2>3, RangeOps DEF Waiting
  <2>5. Ascending(queue') /\ Ascending(FlushRest')
    BY <1>1, <2>2, <2>3, AscendingOps DEF OrderInv
  <2>6. \A a \in Actors \ {Receiver} : pc'[a] = pc[a] /\ hand'[a] = hand[a]
    BY <1>2, <2>2 DEF TypeOK
  <2>7. /\ pc'[Receiver] # "closes" /\ issued' = issued
        /\ \A w \in Windows : AllCloses(pendingCloses'[w])
    <3>1. \A w \in Windows : AllCloses(pendingCloses[w])
      BY DEF OrderInv
    <3>2. pc'[Receiver] = "flush"
      BY <1>2, <2>2
    <3> QED  BY <2>2, <3>1, <3>2
  <2> QED  BY <2>4, <2>5, <2>6, <2>7, OrderQueue
<1>4. CASE FlushSucceeds
  <2>1. /\ hand' = [hand EXCEPT ![Receiver] = Tail(hand[Receiver])]
        /\ queue' = queue /\ issued' = issued /\ pendingCloses' = pendingCloses
        /\ FlushRest = hand[Receiver] /\ hand[Receiver] # <<>>
    BY <1>1, <1>4 DEF FlushSucceeds, fields, FlushRest, HandInv
  <2>2. /\ pc'[Receiver] \in {"flush", "publish"}
        /\ \A a \in Actors \ {Receiver} : pc'[a] = pc[a] /\ hand'[a] = hand[a]
    BY <1>1, <1>4, <2>1 DEF FlushSucceeds, TypeOK
  <2>3. FlushRest' = Tail(hand[Receiver]) \/ FlushRest' = <<>>
    BY <1>1, <2>1 DEF FlushRest, TypeOK
  <2>4. Ascending(queue') /\ Ascending(FlushRest')
    BY <1>1, <2>1, <2>3, AscendingOps DEF OrderInv
  <2>5. Waiting' \subseteq Waiting
    <3>1. /\ Range(hand[Receiver]) = {Head(hand[Receiver])} \cup Range(Tail(hand[Receiver]))
          /\ Range(<<>>) = {}
      BY <1>1, <2>1, RangeOps
    <3>2. Range(FlushRest') \subseteq Range(FlushRest)
      BY <2>1, <2>3, <3>1
    <3> QED  BY <2>1, <3>2 DEF Waiting
  <2> QED  BY <2>1, <2>2, <2>4, <2>5, OrderQueue DEF OrderInv
<1>5. CASE FlushFails
  <2>1. /\ hand' = [hand EXCEPT ![Receiver] = <<>>]
        /\ pc' = [pc EXCEPT ![Receiver] = "publish"]
        /\ queue' = hand[Receiver] \o queue /\ queue = <<>>
        /\ issued' = issued /\ pendingCloses' = pendingCloses
        /\ FlushRest = hand[Receiver]
    BY <1>5 DEF FlushFails, QueueBehind, PromptInv, FlushRest
  <2>2. queue' = FlushRest
    BY <1>1, <2>1
  <2>3. FlushRest' = <<>>
    BY <1>2, <2>1 DEF FlushRest
  <2>4. Ascending(queue') /\ Ascending(FlushRest')
    BY <1>1, <2>2, <2>3, AscendingOps DEF OrderInv
  <2>5. Waiting' \subseteq Waiting
    BY <1>1, <2>2, <2>3, RangeOps DEF Waiting
  <2>6. \A a \in Actors \ {Receiver} : pc'[a] = pc[a] /\ hand'[a] = hand[a]
    BY <1>2, <2>1 DEF TypeOK
  <2>7. /\ pc'[Receiver] # "closes" /\ issued' = issued
        /\ \A w \in Windows : AllCloses(pendingCloses'[w])
    <3>1. \A w \in Windows : AllCloses(pendingCloses[w])
      BY DEF OrderInv
    <3>2. pc'[Receiver] = "publish"
      BY <1>2, <2>1
    <3> QED  BY <2>1, <3>1, <3>2
  <2> QED  BY <2>4, <2>5, <2>6, <2>7, OrderQueue
<1>6. CASE \E w \in Windows : HandleReplySaveChanges(w)
  BY <1>1, <1>6, OrderSettle DEF HandleReplySaveChanges, Receive
<1>7. CASE HandleHadError
  <2>1. /\ hand' = hand /\ pc' = [pc EXCEPT ![Receiver] = "publish"]
        /\ issued' = issued /\ pendingCloses' = pendingCloses
        /\ pc[Receiver] = "read"
    BY <1>7 DEF HandleHadError, Receive
  <2>2. PICK at \in KeptPositions(queue) : queue' = [i \in DOMAIN at |-> queue[at[i]]]
    BY <1>7 DEF HandleHadError
  <2>3. FlushRest' = <<>>
    BY <1>2, <2>1 DEF FlushRest
  <2>4. Range(queue') \subseteq Range(queue)
    <3>1. PICK n \in 0..Len(queue) : at \in [1..n -> DOMAIN queue]
      BY <2>2 DEF KeptPositions
    <3> QED  BY <2>2, <3>1 DEF Range
  <2>5. Ascending(queue') /\ Ascending(FlushRest')
    BY <1>1, <2>2, <2>3, AscendingOps DEF OrderInv
  <2>6. Waiting' \subseteq Waiting
    BY <1>1, <2>3, <2>4, RangeOps DEF Waiting
  <2> QED  BY <1>2, <2>1, <2>5, <2>6, OrderQueue DEF OrderInv
<1>8. CASE HandleFatal
  <2>1. /\ hand' = hand /\ pc' = [pc EXCEPT ![Receiver] = "publish"]
        /\ issued' = issued /\ pendingCloses' = [w \in Windows |-> <<>>]
        /\ queue' = <<>> /\ pc[Receiver] = "read"
    BY <1>8 DEF HandleFatal, Receive
  <2>2. FlushRest' = <<>>
    BY <1>2, <2>1 DEF FlushRest
  <2>3. Ascending(queue') /\ Ascending(FlushRest')
    BY <1>1, <2>1, <2>2, AscendingOps
  <2>4. Waiting' \subseteq Waiting
    BY <1>1, <2>1, <2>2, RangeOps DEF Waiting
  <2>5. \A w \in Windows : AllCloses(pendingCloses'[w])
    BY <1>1, <2>1, AscendingOps
  <2> QED  BY <1>2, <2>1, <2>3, <2>4, <2>5, OrderQueue
<1>9. CASE \/ \E type \in PromptTypes : HandlePromptType(type) /\ ~TakesQueue(type)
           \/ HandleOther \/ Publish \/ StopReading
  <2>1. /\ hand' = hand /\ queue' = queue /\ issued' = issued
        /\ pendingCloses' = pendingCloses /\ pc[Receiver] \in {"read", "publish"}
    BY <1>9 DEF HandlePromptType, HandleOther, Publish, StopReading, Receive, fields
  <2>2. PICK p \in {"publish", "read", "stopped"} : pc' = [pc EXCEPT ![Receiver] = p]
    BY <1>9 DEF HandlePromptType, HandleOther, Publish, StopReading
  <2>3. FlushRest = <<>> /\ FlushRest' = <<>>
    BY <1>2, <2>1, <2>2 DEF FlushRest
  <2>4. Waiting' \subseteq Waiting
    BY <2>1, <2>3 DEF Waiting
  <2>5. \A a \in Actors \ {Receiver} : pc'[a] = pc[a] /\ hand'[a] = hand[a]
    BY <1>2, <2>1, <2>2
  <2> QED  BY <1>2, <2>1, <2>2, <2>3, <2>4, <2>5, OrderQueue DEF OrderInv
<1> QED  BY <1>3, <1>4, <1>5, <1>6, <1>7, <1>8, <1>9 DEF ReceiverStep

LEMMA OrderStep ==
    ASSUME TypeOK, HandInv, PromptInv, OrderInv, [Next]_vars PROVE OrderInv'
<1>1. ASSUME NEW s \in Senders, SenderStep(s) PROVE OrderInv'
  <2>1. CASE RollbackPendingSave(s)
    <3>1. /\ s \in Actors /\ closing[s] \in Windows /\ SettleSave(s, closing[s])
          /\ queue' = queue /\ issued' = issued /\ pc[s] = "rollback"
      BY <2>1 DEF RollbackPendingSave, HandInv, Actors
    <3> QED  BY <3>1, OrderSettle
  <2> QED  BY <1>1, <2>1, OrderSend, OrderWrites DEF SenderStep
<1>2. CASE \E x \in Subscribers : SubscriberStep(x)
  BY <1>2 DEF SubscriberStep, Subscribe, Unsubscribe, Consume, fields, OrderInv,
     Waiting, FlushRest
<1>3. CASE UNCHANGED vars
  BY <1>3 DEF vars, fields, OrderInv, Waiting, FlushRest
<1> QED  BY <1>1, <1>2, <1>3, OrderWrites, OrderReceive DEF Next

\* What is written from the queue is written by the flush.
LEMMA OnlyFlushWrites ==
    ASSUME TypeOK, HandInv, OrderInv, [Next]_vars, NEW c \in Writes, c \in Waiting
    PROVE  FlushSucceeds /\ c = Head(hand[Receiver])
<1>1. ASSUME written' = written PROVE FALSE
  BY <1>1 DEF Writes
<1>2. ASSUME NEW s \in Senders, WriteSucceeds(s) PROVE FALSE
  <2>1. c = Head(hand[s])
    BY <1>2 DEF WriteSucceeds, Deliver, Writes
  <2>2. c.id # c.id
    BY <1>2, <2>1 DEF WriteSucceeds, OrderInv
  <2> QED  BY <2>2
<1>3. ASSUME NEW a \in Actors, CloseSucceeds(a) PROVE FALSE
  <2>1. hand[a] \in Seq(Command) /\ hand[a] # <<>> /\ AllCloses(hand[a])
    BY <1>3 DEF CloseSucceeds, TypeOK, HandInv, OrderInv
  <2>2. c.name = "CloseWindow"
    BY <1>3, <2>1, AscendingOps DEF CloseSucceeds, Deliver, Writes
  <2>3. ~IsAllowedWhileBusy(c.name)
    BY DEF OrderInv
  <2> QED  BY <2>2, <2>3 DEF IsAllowedWhileBusy
<1>4. CASE FlushSucceeds
  BY <1>4 DEF FlushSucceeds, Deliver, Writes
<1>5. CASE \E s \in Senders : SenderStep(s)
  <2>1. PICK s \in Senders : SenderStep(s)
    BY <1>5
  <2> QED  BY <1>1, <1>2, <2>1 DEF SenderStep, SendCommand, DeferClose, Enqueue,
    DecideWrite, WriteFails, RollbackPendingSave
<1>6. CASE \E a \in Actors : CloseStep(a)
  BY <1>1, <1>3, <1>6 DEF CloseStep, CloseFails
<1>7. CASE ReceiverStep
  BY <1>1, <1>4, <1>7 DEF ReceiverStep, HandlePromptType, FlushFails,
     HandleReplySaveChanges, HandleHadError, HandleFatal, HandleOther, Publish, StopReading
<1>8. CASE \E x \in Subscribers : SubscriberStep(x)
  BY <1>1, <1>8 DEF SubscriberStep, Subscribe, Unsubscribe, Consume
<1>9. CASE UNCHANGED vars
  BY <1>1, <1>9 DEF vars
<1> QED  BY <1>5, <1>6, <1>7, <1>8, <1>9 DEF Next

QueueInv == TypeOK /\ HandInv /\ PromptInv /\ OrderInv

LEMMA QueueInvariant == Spec => []QueueInv
<1>1. Init => PromptInv /\ OrderInv
  <2>1. Init => Waiting = {} /\ queue = <<>> /\ FlushRest = <<>>
    BY RangeOps, EmptySeq DEF Init, Waiting, FlushRest, Actors
  <2>2. Init => \A a \in Actors : pc[a] \notin {"flush", "write", "closes"}
    BY DEF Init
  <2>3. Init => \A w \in Windows : pendingCloses[w] = <<>>
    BY DEF Init
  <2>4. Ascending(<<>>) /\ AllCloses(<<>>)
    BY DEF Ascending, AllCloses
  <2> QED  BY <2>1, <2>2, <2>3, <2>4
    DEF PromptInv, HeldOnlyWhileBusy, OrderInv, Actors
<1>2. TypeOK /\ HandInv /\ PromptInv /\ OrderInv /\ [Next]_vars => PromptInv' /\ OrderInv'
  BY PromptStep, OrderStep
<1> QED  BY <1>1, <1>2, TypeCorrect, PTL DEF Spec, QueueInv

\* Queued commands are written in the order in which they were queued.
THEOREM QueueOrder == Spec => WrittenInQueueOrder
<1>1. QueueInv /\ [Next]_vars =>
        [\A c \in Writes \cap Waiting : \A d \in Waiting' : c.id < d.id]_vars
  <2> SUFFICES ASSUME QueueInv, [Next]_vars, NEW c \in Writes \cap Waiting, NEW d \in Waiting'
               PROVE  c.id < d.id
    OBVIOUS
  <2>1. FlushSucceeds /\ c = Head(hand[Receiver])
    BY OnlyFlushWrites DEF QueueInv
  <2>2. /\ hand[Receiver] \in Seq(Command) /\ hand[Receiver] # <<>>
        /\ queue = <<>> /\ FlushRest = hand[Receiver]
        /\ Ascending(hand[Receiver])
    BY <2>1 DEF FlushSucceeds, QueueInv, TypeOK, HandInv, PromptInv, OrderInv,
       FlushRest, Actors
  <2>3. queue' = <<>> /\ (FlushRest' = Tail(hand[Receiver]) \/ FlushRest' = <<>>)
    BY <2>1, <2>2 DEF FlushSucceeds, fields, FlushRest, QueueInv, TypeOK, Actors
  <2>4. d \in Range(Tail(hand[Receiver]))
    <3>1. Range(<<>>) = {}
      BY <2>2, RangeOps
    <3> QED  BY <2>3, <3>1 DEF Waiting
  <2> QED  BY <2>1, <2>2, <2>4, AscendingOps
<1> QED  BY <1>1, QueueInvariant, PTL DEF Spec, WrittenInQueueOrder

\* Nothing is written from the queue while the interpreter is known to be busy.
THEOREM FlushAtPrompt == Spec => FlushedOnlyAtPrompt
<1>1. QueueInv /\ [Next]_vars => [Writes \cap Waiting # {} => ~Busy]_vars
  <2> SUFFICES ASSUME QueueInv, [Next]_vars, NEW c \in Writes \cap Waiting
               PROVE  ~Busy
    OBVIOUS
  <2>1. FlushSucceeds
    BY OnlyFlushWrites DEF QueueInv
  <2> QED  BY <2>1 DEF FlushSucceeds, QueueInv, PromptInv
<1> QED  BY <1>1, QueueInvariant, PTL DEF Spec, FlushedOnlyAtPrompt
=============================================================================

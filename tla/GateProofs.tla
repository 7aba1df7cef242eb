----------------------------- MODULE GateProofs -----------------------------
(***************************************************************************)
(* Further theorems about Dispatcher: the counts of saves, the closes that *)
(* wait for them, and that it implements CommandGate.                      *)
(***************************************************************************)
EXTENDS DispatcherProofs, FiniteSetTheorems

-----------------------------------------------------------------------------
(* Who moves.                                                              *)

Step(a) == \/ a \in Senders /\ SenderStep(a)
           \/ CloseStep(a)
           \/ a = Receiver /\ ReceiverStep

\* An actor leaves the places and the hands of the others alone.
LEMMA OneMoves ==
    ASSUME TypeOK, NEW a \in Actors, Step(a)
    PROVE  \A b \in Actors \ {a} : pc'[b] = pc[b] /\ hand'[b] = hand[b] /\ closing'[b] = closing[b]
<1>1. pc \in [Actors -> SenderPlaces \cup ReceiverPlaces] /\ hand \in [Actors -> Seq(Command)]
      /\ closing \in [Actors -> Windows \cup {NoWindow}]
  BY DEF TypeOK
<1>2. CASE a \in Senders /\ SenderStep(a)
  BY <1>1, <1>2 DEF SenderStep, SendCommand, DeferClose, Enqueue, DecideWrite, WriteSucceeds,
     WriteFails, RollbackPendingSave, SettleSave
<1>3. CASE CloseStep(a)
  BY <1>1, <1>3 DEF CloseStep, CloseSucceeds, CloseFails
<1>4. CASE a = Receiver /\ ReceiverStep
  BY <1>1, <1>4 DEF ReceiverStep, HandlePromptType, FlushSucceeds, FlushFails,
     HandleReplySaveChanges, SettleSave, HandleHadError, HandleFatal, HandleOther, Publish,
     StopReading
<1> QED
  BY <1>2, <1>3, <1>4 DEF Step

LEMMA Steps ==
    ASSUME [Next]_vars
    PROVE  \/ \E a \in Actors : Step(a)
           \/ (\E x \in Subscribers : SubscriberStep(x)) \/ UNCHANGED vars
BY DEF Next, Step, Actors

\* Neither the queue nor the deferred closes hold a SaveChanges.
LEMMA NoSaveWaits ==
    ASSUME QueueInv
    PROVE  /\ pc[Receiver] = "flush" => ~TracksSave(Head(hand[Receiver]))
           /\ \A a \in Actors : pc[a] = "closes" => ~TracksSave(Head(hand[a]))
<1>1. ASSUME pc[Receiver] = "flush" PROVE ~TracksSave(Head(hand[Receiver]))
  <2>1. Receiver \in Actors /\ hand[Receiver] # <<>> /\ hand[Receiver] \in Seq(Command)
    BY <1>1 DEF QueueInv, TypeOK, HandInv, Actors
  <2>2. Head(hand[Receiver]) \in Waiting
    BY <1>1, <2>1, RangeOps DEF Waiting, FlushRest
  <2> QED
    BY <2>2 DEF QueueInv, OrderInv, IsAllowedWhileBusy, TracksSave
<1>2. ASSUME NEW a \in Actors, pc[a] = "closes" PROVE ~TracksSave(Head(hand[a]))
  <2>1. hand[a] # <<>> /\ hand[a] \in Seq(Command) /\ AllCloses(hand[a])
    BY <1>2 DEF QueueInv, TypeOK, HandInv, OrderInv
  <2> QED
    BY <2>1 DEF AllCloses, TracksSave
<1> QED
  BY <1>1, <1>2

-----------------------------------------------------------------------------
(* The saves under way.                                                    *)

LEMMA FlightMoves ==
    ASSUME NEW s \in Senders, NEW w \in Windows, IsFiniteSet(SavesInFlight(w)),
           \A t \in Senders \ {s} : pc'[t] = pc[t] /\ hand'[t] = hand[t] /\ closing'[t] = closing[t]
    PROVE  /\ IsFiniteSet(SavesInFlight(w)') /\ Cardinality(SavesInFlight(w)) \in Nat
           /\ (s \in SavesInFlight(w) <=> s \in SavesInFlight(w)') =>
                 SavesInFlight(w)' = SavesInFlight(w)
           /\ s \notin SavesInFlight(w) /\ s \in SavesInFlight(w)' =>
                 Cardinality(SavesInFlight(w)') = Cardinality(SavesInFlight(w)) + 1
           /\ s \in SavesInFlight(w) /\ s \notin SavesInFlight(w)' =>
                 /\ Cardinality(SavesInFlight(w)') = Cardinality(SavesInFlight(w)) - 1
                 /\ Cardinality(SavesInFlight(w)) > 0
<1> DEFINE F == SavesInFlight(w)
           G == SavesInFlight(w)'
<1>1. \A t \in Senders \ {s} : t \in F <=> t \in G
  BY DEF SavesInFlight
<1>2. F \subseteq Senders /\ G \subseteq Senders
  BY DEF SavesInFlight
<1> HIDE DEF F, G
<1>3. IsFiniteSet(F) /\ Cardinality(F) \in Nat
  BY FS_CardinalityType DEF F
<1>4. (s \in F <=> s \in G) => G = F
  BY <1>1, <1>2
<1>5. s \notin F /\ s \in G => G = F \cup {s}
  BY <1>1, <1>2
<1>6. s \in F /\ s \notin G => G = F \ {s}
  BY <1>1, <1>2
<1>7. /\ IsFiniteSet(F \cup {s}) /\ (s \notin F => Cardinality(F \cup {s}) = Cardinality(F) + 1)
      /\ IsFiniteSet(F \ {s}) /\ (s \in F => Cardinality(F \ {s}) = Cardinality(F) - 1)
  BY <1>3, FS_AddElement, FS_RemoveElement
<1>8. s \in F => Cardinality(F) > 0
  BY <1>3, FS_EmptySet
<1>9. IsFiniteSet(G)
  BY <1>3, <1>4, <1>5, <1>6, <1>7
<1> QED
  BY <1>3, <1>4, <1>5, <1>6, <1>7, <1>8, <1>9 DEF F, G

SavesInv == SavesAccounted /\ \A w \in Windows : IsFiniteSet(SavesInFlight(w))

\* Steps that have nothing to do with saves.
LEMMA SavesStay ==
    ASSUME SavesInv, pendingSaves' = pendingSaves, unanswered' = unanswered, fatal => fatal',
           \A s \in Senders : \/ /\ pc'[s] = pc[s] /\ hand'[s] = hand[s]
                                 /\ closing'[s] = closing[s]
                              \/ \A w \in Windows : s \notin SavesInFlight(w)
                                                    /\ s \notin SavesInFlight(w)'
    PROVE  SavesInv'
<1>1. \A w \in Windows : SavesInFlight(w)' = SavesInFlight(w)
  <2> TAKE w \in Windows
  <2>1. \A s \in Senders : s \in SavesInFlight(w)' <=> s \in SavesInFlight(w)
    BY DEF SavesInFlight
  <2> QED
    BY <2>1 DEF SavesInFlight
<1> QED
  BY <1>1 DEF SavesInv, SavesAccounted

\* The saves of w that caller s has under way: one or none.
Own(s, w) == IF s \in SavesInFlight(w) THEN 1 ELSE 0

\* A step of caller s, or of nobody, keeps the account if it changes both sides
\* of it by the same number.
LEMMA SavesMove ==
    ASSUME TypeOK, TypeOK', SavesInv, NEW s \in Senders, fatal => fatal',
           \A t \in Senders \ {s} : pc'[t] = pc[t] /\ hand'[t] = hand[t] /\ closing'[t] = closing[t],
           ~fatal => \A w \in Windows :
              pendingSaves'[w] - pendingSaves[w] =
                 (Own(s, w)' - Own(s, w)) + (Len(unanswered'[w]) - Len(unanswered[w]))
    PROVE  SavesInv'
<1>1. ASSUME NEW w \in Windows
      PROVE  /\ IsFiniteSet(SavesInFlight(w)') /\ Cardinality(SavesInFlight(w)) \in Nat
             /\ Cardinality(SavesInFlight(w)') =
                   Cardinality(SavesInFlight(w)) + (Own(s, w)' - Own(s, w))
  <2>1. IsFiniteSet(SavesInFlight(w))
    BY DEF SavesInv
  <2>2. /\ IsFiniteSet(SavesInFlight(w)') /\ Cardinality(SavesInFlight(w)) \in Nat
        /\ (s \in SavesInFlight(w) <=> s \in SavesInFlight(w)') =>
              SavesInFlight(w)' = SavesInFlight(w)
        /\ s \notin SavesInFlight(w) /\ s \in SavesInFlight(w)' =>
              Cardinality(SavesInFlight(w)') = Cardinality(SavesInFlight(w)) + 1
        /\ s \in SavesInFlight(w) /\ s \notin SavesInFlight(w)' =>
              Cardinality(SavesInFlight(w)') = Cardinality(SavesInFlight(w)) - 1
    BY <2>1, FlightMoves
  <2>3. Own(s, w) = (IF s \in SavesInFlight(w) THEN 1 ELSE 0)
        /\ Own(s, w)' = (IF s \in SavesInFlight(w)' THEN 1 ELSE 0)
    BY DEF Own
  <2> QED
    BY <2>2, <2>3
<1>2. ASSUME ~fatal, NEW w \in Windows
      PROVE  pendingSaves'[w] = Cardinality(SavesInFlight(w)') + Len(unanswered'[w])
  <2>1. pendingSaves[w] = Cardinality(SavesInFlight(w)) + Len(unanswered[w])
    BY <1>2 DEF SavesInv, SavesAccounted
  <2>2. /\ pendingSaves[w] \in Nat /\ pendingSaves'[w] \in Nat
        /\ Len(unanswered[w]) \in Nat /\ Len(unanswered'[w]) \in Nat
        /\ Own(s, w) \in Nat /\ Own(s, w)' \in Nat
    BY DEF TypeOK, Own
  <2>3. pendingSaves'[w] - pendingSaves[w] =
                 (Own(s, w)' - Own(s, w)) + (Len(unanswered'[w]) - Len(unanswered[w]))
    BY <1>2
  <2> DEFINE c  == Cardinality(SavesInFlight(w))
             c2 == Cardinality(SavesInFlight(w)')
             o  == Own(s, w)
             o2 == Own(s, w)'
             p  == pendingSaves[w]
             p2 == pendingSaves'[w]
             u  == Len(unanswered[w])
             u2 == Len(unanswered'[w])
  <2>4. c \in Int /\ c2 = c + (o2 - o)
    BY <1>1
  <2>5. p = c + u
    BY <2>1
  <2>6. p2 - p = (o2 - o) + (u2 - u)
    BY <2>3
  <2>7. /\ o \in Int /\ o2 \in Int /\ p \in Int /\ p2 \in Int
        /\ u \in Int /\ u2 \in Int
    BY <2>2
  <2> HIDE DEF c, c2, o, o2, p, p2, u, u2
  <2>8. p2 = c2 + u2
    BY <2>4, <2>5, <2>6, <2>7
  <2> QED
    BY <2>8 DEF p2, c2, u2
<1> QED
  BY <1>1, <1>2 DEF SavesInv, SavesAccounted

LEMMA OwnIs ==
    ASSUME NEW s \in Senders, NEW w \in Windows
    PROVE  /\ pc[s] \notin {"write", "rollback"} => Own(s, w) = 0
           /\ pc[s] = "write" => Own(s, w) = IF TracksSave(Head(hand[s])) /\ Head(hand[s]).win = w
                                             THEN 1 ELSE 0
           /\ pc[s] = "rollback" => Own(s, w) = IF closing[s] = w THEN 1 ELSE 0
  BY DEF Own, SavesInFlight

\* The same of the state after a step.
LEMMA OwnWillBe ==
    ASSUME NEW s \in Senders, NEW w \in Windows
    PROVE  /\ pc'[s] \notin {"write", "rollback"} => Own(s, w)' = 0
           /\ pc'[s] = "write" => Own(s, w)' = IF TracksSave(Head(hand'[s])) /\ Head(hand'[s]).win = w
                                               THEN 1 ELSE 0
           /\ pc'[s] = "rollback" => Own(s, w)' = IF closing'[s] = w THEN 1 ELSE 0
  BY DEF Own, SavesInFlight, TracksSave

\* What settling a save of w does to the counts, when there is one to settle.
LEMMA SettleCounts ==
    ASSUME TypeOK, NEW a \in Actors, NEW w \in Windows, SettleSave(a, w), pendingSaves[w] > 0
    PROVE  \A v \in Windows : pendingSaves'[v] = pendingSaves[v] - (IF v = w THEN 1 ELSE 0)
<1>1. pendingSaves \in [Windows -> Nat]
  BY DEF TypeOK
<1>2. pendingSaves' = [pendingSaves EXCEPT ![w] = IF LastSave(w) THEN 0 ELSE pendingSaves[w] - 1]
  BY DEF SettleSave
<1>3. LastSave(w) => pendingSaves[w] = 1
  BY <1>1 DEF LastSave
<1>4. \A v \in Windows : pendingSaves[v] \in Nat
  BY <1>1
<1> QED
  BY <1>1, <1>2, <1>3, <1>4

LEMMA SavesSend ==
    ASSUME TypeOK, HandInv, TypeOK', SavesInv, NEW s \in Senders, SendCommand(s)
    PROVE  SavesInv'
<1>1. PICK cmd \in Command : DeferClose(s, cmd) \/ Enqueue(s, cmd) \/ DecideWrite(s, cmd)
  BY CallsTyped DEF SendCommand
<1>2. /\ unanswered' = unanswered /\ fatal' = fatal /\ s \in Actors /\ closing' = closing
      /\ pc[s] = "idle"
  BY <1>1 DEF DeferClose, Enqueue, DecideWrite, marks, Actors, Issue
<1>3. CASE DeferClose(s, cmd) \/ Enqueue(s, cmd)
  <2>1. pc' = pc /\ hand' = hand /\ pendingSaves' = pendingSaves
    BY <1>3 DEF DeferClose, Enqueue, SavesWith, TracksSave, MustWaitForPrompt, IsAllowedWhileBusy
  <2> QED
    BY <1>2, <2>1, SavesStay
<1>4. CASE DecideWrite(s, cmd)
  <2>1. /\ pc' = [pc EXCEPT ![s] = "write"] /\ hand' = [hand EXCEPT ![s] = <<cmd>>]
        /\ pendingSaves' = SavesWith(cmd)
    BY <1>4 DEF DecideWrite
  <2>2. /\ pc'[s] = "write" /\ Head(hand'[s]) = cmd
        /\ \A t \in Senders \ {s} : pc'[t] = pc[t] /\ hand'[t] = hand[t] /\ closing'[t] = closing[t]
    BY <1>2, <2>1 DEF TypeOK, Actors
  <2>3. ASSUME NEW w \in Windows
        PROVE  pendingSaves'[w] - pendingSaves[w] = Own(s, w)' - Own(s, w)
    <3>1. Own(s, w) = 0 /\ Own(s, w)' = IF TracksSave(cmd) /\ cmd.win = w THEN 1 ELSE 0
      BY <1>2, <2>2, OwnIs, OwnWillBe
    <3>2. pendingSaves[w] \in Nat
          /\ pendingSaves'[w] = IF TracksSave(cmd) /\ cmd.win = w THEN pendingSaves[w] + 1
                                                                  ELSE pendingSaves[w]
      BY <2>1 DEF SavesWith, TypeOK
    <3> QED
      BY <3>1, <3>2
  <2>4. ASSUME NEW w \in Windows
        PROVE  pendingSaves'[w] - pendingSaves[w] =
                 (Own(s, w)' - Own(s, w)) + (Len(unanswered'[w]) - Len(unanswered[w]))
    <3>1. Len(unanswered'[w]) - Len(unanswered[w]) = 0 /\ Own(s, w)' - Own(s, w) \in Int
      BY <1>2 DEF TypeOK, Own
    <3>2. pendingSaves'[w] - pendingSaves[w] = Own(s, w)' - Own(s, w)
      BY <2>3
    <3> DEFINE d == Own(s, w)' - Own(s, w)
               u == Len(unanswered'[w]) - Len(unanswered[w])
    <3>3. d = d + u
      <4>1. d \in Int /\ u = 0
        BY <3>1
      <4> HIDE DEF d, u
      <4> QED
        BY <4>1
    <3> QED
      BY <3>2, <3>3
  <2> QED
    BY <1>2, <2>2, <2>4, SavesMove
<1> QED
  BY <1>1, <1>3, <1>4

LEMMA SavesWrite ==
    ASSUME TypeOK, HandInv, TypeOK', SavesInv, NEW s \in Senders, WriteSucceeds(s) \/ WriteFails(s)
    PROVE  SavesInv'
<1> DEFINE cmd == Head(hand[s])
<1>1. /\ s \in Actors /\ pc[s] = "write" /\ hand[s] # <<>> /\ hand[s] \in Seq(Command)
      /\ pendingSaves' = pendingSaves /\ fatal' = fatal
  BY DEF WriteSucceeds, WriteFails, HandInv, TypeOK, Actors, fields, marks
<1>2. cmd \in Command /\ (TracksSave(cmd) => cmd.win \in Windows)
  <2>1. cmd \in Command
    BY <1>1, SeqFacts
  <2> QED
    BY <2>1 DEF Command, TracksSave
<1>3. \A t \in Senders \ {s} : pc'[t] = pc[t] /\ hand'[t] = hand[t] /\ closing'[t] = closing[t]
  BY <1>1, OneMoves DEF Step, SenderStep, Actors
<1>4. \A w \in Windows : Own(s, w) = IF TracksSave(cmd) /\ cmd.win = w THEN 1 ELSE 0
  BY <1>1, OwnIs
<1>5. CASE WriteSucceeds(s)
  <2>1. \A w \in Windows : Own(s, w)' = 0
    <3>1. pc'[s] = "idle"
      BY <1>1, <1>5 DEF WriteSucceeds, TypeOK
    <3> QED
      BY <3>1, OwnWillBe
  <2>2. unanswered' = IF TracksSave(cmd) THEN [unanswered EXCEPT ![cmd.win] = Append(@, cmd)]
                                         ELSE unanswered
    BY <1>5 DEF WriteSucceeds, Deliver
  <2>3. \A w \in Windows : Len(unanswered'[w]) - Len(unanswered[w]) =
                              IF TracksSave(cmd) /\ cmd.win = w THEN 1 ELSE 0
    <3> TAKE w \in Windows
    <3>1. unanswered \in [Windows -> Seq(Command)]
      BY DEF TypeOK
    <3> HIDE DEF cmd
    <3>2. CASE TracksSave(cmd) /\ cmd.win = w
      <4>1. unanswered'[w] = Append(unanswered[w], cmd)
        BY <1>2, <2>2, <3>1, <3>2
      <4>2. unanswered[w] \in Seq(Command)
        BY <3>1
      <4> QED
        BY <1>2, <3>2, <4>1, <4>2
    <3>3. CASE ~(TracksSave(cmd) /\ cmd.win = w)
      <4>1. unanswered'[w] = unanswered[w] /\ Len(unanswered[w]) \in Nat
        BY <2>2, <3>1, <3>3
      <4> QED
        BY <3>3, <4>1
    <3> QED
      BY <3>2, <3>3
  <2>4. \A w \in Windows : pendingSaves'[w] - pendingSaves[w] = 0
    BY <1>1 DEF TypeOK
  <2>5. \A w \in Windows :
          pendingSaves'[w] - pendingSaves[w] =
             (Own(s, w)' - Own(s, w)) + (Len(unanswered'[w]) - Len(unanswered[w]))
    <3> TAKE w \in Windows
    <3> DEFINE o  == Own(s, w)
               o2 == Own(s, w)'
               p  == pendingSaves'[w] - pendingSaves[w]
               u  == Len(unanswered'[w]) - Len(unanswered[w])
    <3> HIDE DEF cmd
    <3>1. p = 0 /\ o2 = 0 /\ o \in {0, 1} /\ u = o
      BY <1>4, <2>1, <2>3, <2>4
    <3> HIDE DEF o, o2, p, u
    <3>2. p = (o2 - o) + u
      BY <3>1
    <3> QED
      BY <3>2 DEF p, o, o2, u
  <2> QED
    BY <1>1, <1>3, <2>5, SavesMove
<1>6. CASE WriteFails(s)
  <2>1. /\ pc'[s] = (IF TracksSave(cmd) THEN "rollback" ELSE "idle")
        /\ TracksSave(cmd) => closing'[s] = cmd.win
        /\ unanswered' = unanswered
    BY <1>1, <1>6 DEF WriteFails, TypeOK
  <2>2. \A w \in Windows : Own(s, w)' = IF TracksSave(cmd) /\ cmd.win = w THEN 1 ELSE 0
    <3> HIDE DEF cmd
    <3> QED
      BY <2>1, OwnWillBe
  <2>3. ASSUME NEW w \in Windows
        PROVE  pendingSaves'[w] - pendingSaves[w] =
                 (Own(s, w)' - Own(s, w)) + (Len(unanswered'[w]) - Len(unanswered[w]))
    <3>1. Own(s, w)' = Own(s, w) /\ Own(s, w) \in Int
      BY <1>4, <2>2
    <3>2. Len(unanswered[w]) \in Nat /\ pendingSaves[w] \in Nat
      BY DEF TypeOK
    <3> QED
      BY <1>1, <2>1, <3>1, <3>2
  <2> QED
    BY <1>1, <1>3, <2>3, SavesMove
<1> QED
  BY <1>5, <1>6

LEMMA SavesSettle ==
    ASSUME TypeOK, HandInv, TypeOK', SavesInv,
           \/ \E s \in Senders : RollbackPendingSave(s)
           \/ \E w \in Windows : HandleReplySaveChanges(w)
    PROVE  SavesInv'
<1>1. ASSUME NEW s \in Senders, RollbackPendingSave(s) PROVE SavesInv'
  <2> DEFINE w == closing[s]
  <2>1. /\ s \in Actors /\ pc[s] = "rollback" /\ w \in Windows /\ SettleSave(s, w)
        /\ unanswered' = unanswered /\ fatal' = fatal
    BY <1>1 DEF RollbackPendingSave, HandInv, Actors
  <2>2. \A t \in Senders \ {s} : pc'[t] = pc[t] /\ hand'[t] = hand[t] /\ closing'[t] = closing[t]
    BY <1>1, <2>1, OneMoves DEF Step, SenderStep, Actors
  <2>3. pc'[s] \in {"closes", "idle"}
    BY <2>1, ActorsAssumption DEF SettleSave, PlaceAfterCloses, TypeOK
  <2>4. \A v \in Windows : Own(s, v)' = 0 /\ Own(s, v) = IF v = w THEN 1 ELSE 0
    BY <2>1, <2>3, OwnIs, OwnWillBe
  <2>5. ASSUME ~fatal, NEW v \in Windows
        PROVE  pendingSaves'[v] - pendingSaves[v] =
                 (Own(s, v)' - Own(s, v)) + (Len(unanswered'[v]) - Len(unanswered[v]))
    <3>1. pendingSaves[w] > 0
      <4>1. IsFiniteSet(SavesInFlight(w)) /\ s \in SavesInFlight(w)
        BY <2>1 DEF SavesInv, SavesInFlight
      <4>2. Cardinality(SavesInFlight(w)) \in Nat /\ Cardinality(SavesInFlight(w)) # 0
        BY <4>1, FS_CardinalityType, FS_EmptySet
      <4>3. pendingSaves[w] = Cardinality(SavesInFlight(w)) + Len(unanswered[w])
            /\ Len(unanswered[w]) \in Nat
        BY <2>1, <2>5 DEF SavesInv, SavesAccounted, TypeOK
      <4> QED
        BY <4>2, <4>3
    <3>2. pendingSaves'[v] = pendingSaves[v] - (IF v = w THEN 1 ELSE 0)
      BY <2>1, <3>1, SettleCounts
    <3>3. Len(unanswered[v]) \in Nat /\ pendingSaves[v] \in Nat
      BY DEF TypeOK
    <3> QED
      BY <2>1, <2>4, <3>2, <3>3
  <2> QED
    BY <2>1, <2>2, <2>5, SavesMove
<1>2. ASSUME NEW w \in Windows, HandleReplySaveChanges(w) PROVE SavesInv'
  <2>1. /\ Receiver \in Actors /\ SettleSave(Receiver, w) /\ fatal' = fatal
        /\ unanswered[w] # <<>> /\ unanswered[w] \in Seq(Command)
        /\ unanswered' = [unanswered EXCEPT ![w] = Tail(@)]
    BY <1>2 DEF HandleReplySaveChanges, Actors, TypeOK
  <2>2. \A t \in Senders : pc'[t] = pc[t] /\ hand'[t] = hand[t] /\ closing'[t] = closing[t]
    <3>1. Step(Receiver) /\ \A t \in Senders : t \in Actors \ {Receiver}
      BY <1>2, ActorsAssumption DEF Step, ReceiverStep, Actors
    <3> QED
      BY <2>1, <3>1, OneMoves
  <2>3. \A v \in Windows : SavesInFlight(v)' = SavesInFlight(v)
    <3> TAKE v \in Windows
    <3>1. \A s \in Senders : s \in SavesInFlight(v)' <=> s \in SavesInFlight(v)
      BY <2>2 DEF SavesInFlight, TracksSave
    <3> QED
      BY <3>1 DEF SavesInFlight
  <2>4. ASSUME ~fatal, NEW v \in Windows
        PROVE  pendingSaves'[v] = Cardinality(SavesInFlight(v)') + Len(unanswered'[v])
    <3>1. ASSUME NEW u \in Windows
          PROVE  /\ pendingSaves[u] = Cardinality(SavesInFlight(u)) + Len(unanswered[u])
                 /\ Len(unanswered[u]) \in Nat /\ Cardinality(SavesInFlight(u)) \in Nat
      BY <2>4, FS_CardinalityType DEF SavesInv, SavesAccounted, TypeOK
    <3>2. /\ Len(unanswered[w]) > 0 /\ Len(Tail(unanswered[w])) = Len(unanswered[w]) - 1
      BY <2>1
    <3>3. pendingSaves[w] > 0
      BY <3>1, <3>2
    <3>4. pendingSaves'[v] = pendingSaves[v] - (IF v = w THEN 1 ELSE 0)
      BY <2>1, <3>3, SettleCounts
    <3>5. Len(unanswered'[v]) = Len(unanswered[v]) - (IF v = w THEN 1 ELSE 0)
      <4>1. v # w => unanswered'[v] = unanswered[v]
        BY <2>1 DEF TypeOK
      <4>2. unanswered'[w] = Tail(unanswered[w])
        BY <2>1 DEF TypeOK
      <4>3. CASE v = w
        BY <3>2, <4>2, <4>3
      <4>4. CASE v # w
        <5>1. Len(unanswered[v]) \in Nat
          BY <3>1
        <5> QED
          BY <4>1, <4>4, <5>1
      <4> QED
        BY <4>3, <4>4
    <3> DEFINE c  == Cardinality(SavesInFlight(v))
               d  == IF v = w THEN 1 ELSE 0
               u  == Len(unanswered[v])
    <3>6. /\ c \in Int /\ d \in Int /\ u \in Int
          /\ pendingSaves'[v] = (c + u) - d /\ Len(unanswered'[v]) = u - d
          /\ Cardinality(SavesInFlight(v)') = c
      BY <2>3, <3>1, <3>4, <3>5
    <3> HIDE DEF c, d, u
    <3> QED
      BY <3>6
  <2> QED
    BY <2>1, <2>3, <2>4 DEF SavesInv, SavesAccounted
<1> QED
  BY <1>1, <1>2

LEMMA SavesStep ==
    ASSUME QueueInv, QueueInv', SavesInv, [Next]_vars PROVE SavesInv'
<1>1. TypeOK /\ TypeOK' /\ HandInv
  BY DEF QueueInv
<1>2. ASSUME NEW s \in Senders, SenderStep(s) PROVE SavesInv'
  BY <1>1, <1>2, SavesSend, SavesWrite, SavesSettle DEF SenderStep
<1>3. ASSUME NEW a \in Actors, CloseStep(a) PROVE SavesInv'
  <2>1. /\ pc[a] = "closes" /\ ~TracksSave(Head(hand[a]))
        /\ pendingSaves' = pendingSaves /\ fatal' = fatal
    BY <1>3, NoSaveWaits DEF CloseStep, CloseSucceeds, CloseFails, fields, marks
  <2>2. unanswered' = unanswered
    BY <1>3, <2>1 DEF CloseStep, CloseSucceeds, CloseFails, Deliver
  <2>3. pc'[a] \in {"closes", "publish", "idle"}
    BY <1>1, <1>3, <2>1 DEF CloseStep, CloseSucceeds, CloseFails, PlaceAfterCloses, TypeOK
  <2>4. \A b \in Actors \ {a} : pc'[b] = pc[b] /\ hand'[b] = hand[b] /\ closing'[b] = closing[b]
    BY <1>1, <1>3, OneMoves DEF Step
  <2>5. a \in Senders => \A w \in Windows : a \notin SavesInFlight(w) /\ a \notin SavesInFlight(w)'
    BY <2>1, <2>3 DEF SavesInFlight
  <2>6. \A s \in Senders : s \in Actors
    BY DEF Actors
  <2> QED
    BY <2>1, <2>2, <2>4, <2>5, <2>6, SavesStay
<1>4. CASE ReceiverStep
  <2>1. \A t \in Senders : pc'[t] = pc[t] /\ hand'[t] = hand[t] /\ closing'[t] = closing[t]
    <3>1. Receiver \in Actors /\ Step(Receiver) /\ \A t \in Senders : t \in Actors \ {Receiver}
      BY <1>4, ActorsAssumption DEF Step, Actors
    <3> QED
      BY <1>1, <3>1, OneMoves
  <2>2. CASE \E w \in Windows : HandleReplySaveChanges(w)
    BY <1>1, <2>2, SavesSettle
  <2>3. CASE HandleFatal
    <3>1. fatal'
      BY <2>3 DEF HandleFatal
    <3>2. \A w \in Windows : SavesInFlight(w)' = SavesInFlight(w)
      <4> TAKE w \in Windows
      <4>1. \A s \in Senders : s \in SavesInFlight(w)' <=> s \in SavesInFlight(w)
        BY <2>1 DEF SavesInFlight, TracksSave
      <4> QED
        BY <4>1 DEF SavesInFlight
    <3> QED
      BY <3>1, <3>2 DEF SavesInv, SavesAccounted
  <2>4. CASE FlushSucceeds
    <3>1. ~TracksSave(Head(hand[Receiver]))
      BY <2>4, NoSaveWaits DEF FlushSucceeds
    <3>2. unanswered' = unanswered /\ pendingSaves' = pendingSaves /\ fatal' = fatal
      BY <2>4, <3>1 DEF FlushSucceeds, Deliver, fields, marks
    <3> QED
      BY <2>1, <3>2, SavesStay
  <2>5. CASE \/ \E type \in PromptTypes : HandlePromptType(type)
             \/ FlushFails \/ HandleHadError \/ HandleOther \/ Publish \/ StopReading
    <3>1. unanswered' = unanswered /\ pendingSaves' = pendingSaves /\ fatal' = fatal
      BY <2>5 DEF HandlePromptType, FlushFails, HandleHadError, HandleOther, Publish, StopReading,
         fields, marks
    <3> QED
      BY <2>1, <3>1, SavesStay
  <2> QED
    BY <1>4, <2>2, <2>3, <2>4, <2>5 DEF ReceiverStep
<1>5. CASE (\E x \in Subscribers : SubscriberStep(x)) \/ UNCHANGED vars
  <2>1. UNCHANGED <<pc, hand, closing, unanswered, pendingSaves, fatal>>
    BY <1>5 DEF SubscriberStep, Subscribe, Unsubscribe, Consume, fields, marks, vars
  <2> QED
    BY <2>1, SavesStay
<1> QED
  BY <1>2, <1>3, <1>4, <1>5 DEF Next

LEMMA SavesInvariant == Spec => []SavesInv
<1>1. Init => SavesInv
  <2> SUFFICES ASSUME Init PROVE SavesInv
    OBVIOUS
  <2>1. \A w \in Windows : SavesInFlight(w) = {}
    BY DEF Init, SavesInFlight, Actors
  <2>2. \A w \in Windows : pendingSaves[w] = 0 /\ Len(unanswered[w]) = 0
    BY DEF Init
  <2>3. \A w \in Windows : IsFiniteSet(SavesInFlight(w)) /\ Cardinality(SavesInFlight(w)) = 0
    BY <2>1, FS_EmptySet
  <2>4. \A w \in Windows :
          pendingSaves[w] = Cardinality(SavesInFlight(w)) + Len(unanswered[w])
    <3> TAKE w \in Windows
    <3>1. /\ pendingSaves[w] = 0 /\ Len(unanswered[w]) = 0
          /\ Cardinality(SavesInFlight(w)) = 0
      BY <2>2, <2>3
    <3> QED
      BY <3>1
  <2> QED
    BY <2>3, <2>4 DEF SavesInv, SavesAccounted
<1>2. QueueInv /\ QueueInv' /\ SavesInv /\ [Next]_vars => SavesInv'
  BY SavesStep
<1> QED
  BY <1>1, <1>2, QueueInvariant, PTL DEF Spec

\* pendingSaves counts exactly the saves being written, being rolled back or
\* waiting for their answer, for any number of callers and windows.
THEOREM SavesCounted == Spec => []SavesAccounted
<1>1. SavesInv => SavesAccounted
  BY DEF SavesInv
<1> QED
  BY <1>1, SavesInvariant, PTL

-----------------------------------------------------------------------------
(* Where a command is held.  The places that hold commands, the hand of    *)
(* each actor, the closes of each window and the queue, are one family of  *)
(* sequences; a step adds to one, takes the head of one, moves one to      *)
(* another or drops from several.  That a command is in no two places, nor *)
(* twice in one, is what makes "written and no longer held" follow.        *)

OnceEach(q) == \A i, j \in DOMAIN q : i # j => q[i] # q[j]

Apart(K, B) ==
    /\ \A k \in K : OnceEach(B[k])
    /\ \A k, l \in K : k # l => Range(B[k]) \cap Range(B[l]) = {}

AllOf(K, B) == UNION {Range(B[k]) : k \in K}

Adds(K, B, k, c, C)  == C[k] = Append(B[k], c) /\ \A l \in K \ {k} : C[l] = B[l]
Takes(K, B, k, C)    == B[k] # <<>> /\ C[k] = Tail(B[k]) /\ \A l \in K \ {k} : C[l] = B[l]
Shifts(K, B, k, l, C) ==
    C[k] = <<>> /\ C[l] = B[k] \o B[l] /\ \A m \in K \ {k, l} : C[m] = B[m]
Drops(K, B, D, C)    == \A k \in K : OnceEach(C[k]) /\ Range(C[k]) = Range(B[k]) \ D

LEMMA AppendOnce ==
    ASSUME NEW S, NEW q \in Seq(S), NEW x \in S, OnceEach(q), x \notin Range(q)
    PROVE  Append(q, x) \in Seq(S) /\ OnceEach(Append(q, x))
<1>1. /\ DOMAIN q = 1..Len(q) /\ Len(q) \in Nat
      /\ DOMAIN Append(q, x) = 1..(Len(q) + 1)
      /\ \A i \in 1..Len(q) : Append(q, x)[i] = q[i]
      /\ Append(q, x)[Len(q) + 1] = x
      /\ Append(q, x) \in Seq(S)
  OBVIOUS
<1>2. \A i \in 1..Len(q) : q[i] # x
  BY <1>1 DEF Range
<1>3. \A i \in 1..(Len(q) + 1) : i \in 1..Len(q) \/ i = Len(q) + 1
  BY <1>1
<1> QED
  BY <1>1, <1>2, <1>3 DEF OnceEach

LEMMA TailOnce ==
    ASSUME NEW S, NEW q \in Seq(S), q # <<>>, OnceEach(q)
    PROVE  /\ Tail(q) \in Seq(S) /\ OnceEach(Tail(q))
           /\ Range(q) = {Head(q)} \cup Range(Tail(q)) /\ Head(q) \notin Range(Tail(q))
<1>1. /\ Len(q) \in Nat \ {0} /\ Tail(q) \in Seq(S) /\ Len(Tail(q)) = Len(q) - 1
      /\ \A i \in 1..Len(Tail(q)) : Tail(q)[i] = q[i + 1]
      /\ DOMAIN q = 1..Len(q) /\ Head(q) = q[1]
  BY HeadTailProperties, EmptySeq
<1>2. DOMAIN Tail(q) = 1..Len(Tail(q))
  BY <1>1
<1>3. \A i \in 1..Len(Tail(q)) : i + 1 \in 1..Len(q) /\ i + 1 # 1
  BY <1>1
<1>4. 1 \in 1..Len(q)
  BY <1>1
<1>5. OnceEach(Tail(q))
  <2> SUFFICES ASSUME NEW i \in 1..Len(Tail(q)), NEW j \in 1..Len(Tail(q)), i # j
               PROVE  Tail(q)[i] # Tail(q)[j]
    BY <1>2 DEF OnceEach
  <2>1. i + 1 \in 1..Len(q) /\ j + 1 \in 1..Len(q) /\ i + 1 # j + 1
    BY <1>3
  <2>2. q[i + 1] # q[j + 1]
    BY <1>1, <2>1 DEF OnceEach
  <2> QED
    BY <1>1, <2>2
<1>6. Head(q) \notin Range(Tail(q))
  <2> SUFFICES ASSUME NEW i \in 1..Len(Tail(q)) PROVE Tail(q)[i] # q[1]
    BY <1>1, <1>2 DEF Range
  <2> QED
    BY <1>1, <1>3, <1>4 DEF OnceEach
<1> QED
  BY <1>1, <1>5, <1>6, RangeOps

LEMMA ConcatOnce ==
    ASSUME NEW S, NEW q \in Seq(S), NEW r \in Seq(S)
    PROVE  /\ q \o r \in Seq(S) /\ Range(q \o r) = Range(q) \cup Range(r)
           /\ OnceEach(q) /\ OnceEach(r) /\ Range(q) \cap Range(r) = {} => OnceEach(q \o r)
<1> DEFINE m == Len(q)
           n == Len(r)
           u == q \o r
<1>1. /\ m \in Nat /\ n \in Nat /\ DOMAIN q = 1..m /\ DOMAIN r = 1..n
      /\ u \in Seq(S) /\ DOMAIN u = 1..(m + n)
      /\ \A i \in 1..(m + n) : u[i] = IF i <= m THEN q[i] ELSE r[i - m]
  BY ConcatProperties
<1>2. ASSUME NEW i \in 1..(m + n)
      PROVE  (i \in 1..m /\ u[i] = q[i]) \/ (i - m \in 1..n /\ u[i] = r[i - m])
  BY <1>1
<1>3. \A i \in 1..m : i \in 1..(m + n) /\ u[i] = q[i]
  BY <1>1
<1>4. ASSUME NEW i \in 1..n PROVE i + m \in 1..(m + n) /\ u[i + m] = r[i]
  <2>1. i + m \in 1..(m + n) /\ ~(i + m <= m) /\ (i + m) - m = i
    BY <1>1
  <2> QED
    BY <1>1, <2>1
<1> HIDE DEF m, n, u
<1>5. Range(u) = Range(q) \cup Range(r)
  <2>1. ASSUME NEW i \in 1..(m + n) PROVE u[i] \in Range(q) \cup Range(r)
    BY <1>1, <1>2 DEF Range
  <2>2. ASSUME NEW i \in 1..m PROVE q[i] \in Range(u)
    BY <1>1, <1>3 DEF Range
  <2>3. ASSUME NEW i \in 1..n PROVE r[i] \in Range(u)
    BY <1>1, <1>4 DEF Range
  <2>4. /\ Range(u) = {u[i] : i \in 1..(m + n)} /\ Range(q) = {q[i] : i \in 1..m}
        /\ Range(r) = {r[i] : i \in 1..n}
    BY <1>1 DEF Range
  <2> QED
    BY <2>1, <2>2, <2>3, <2>4
<1>6. ASSUME OnceEach(q), OnceEach(r), Range(q) \cap Range(r) = {} PROVE OnceEach(u)
  <2> SUFFICES ASSUME NEW i \in 1..(m + n), NEW j \in 1..(m + n), i # j PROVE u[i] # u[j]
    BY <1>1 DEF OnceEach
  <2>1. \A x \in 1..m, y \in 1..n : q[x] # r[y]
    BY <1>1, <1>6 DEF Range
  <2>2. \A x, y \in 1..m : x # y => q[x] # q[y]
    BY <1>1, <1>6 DEF OnceEach
  <2>3. \A x, y \in 1..n : x # y => r[x] # r[y]
    BY <1>1, <1>6 DEF OnceEach
  <2>4. i - m # j - m
    BY <1>1
  <2> QED
    BY <1>2, <2>1, <2>2, <2>3, <2>4
<1> QED
  BY <1>1, <1>5, <1>6 DEF u

\* A step that adds, takes or moves keeps the places apart.
LEMMA ApartAdd ==
    ASSUME NEW S, NEW K, NEW B \in [K -> Seq(S)], Apart(K, B), NEW k \in K, NEW c \in S,
           c \notin AllOf(K, B), NEW C, Adds(K, B, k, c, C)
    PROVE  Apart(K, C) /\ AllOf(K, C) = AllOf(K, B) \cup {c}
<1>1. B[k] \in Seq(S) /\ c \notin Range(B[k])
  BY DEF AllOf
<1>2. OnceEach(Append(B[k], c)) /\ Range(Append(B[k], c)) = Range(B[k]) \cup {c}
  BY <1>1, AppendOnce, RangeOps DEF Apart
<1>3. C[k] = Append(B[k], c) /\ \A l \in K \ {k} : C[l] = B[l]
  BY DEF Adds
<1>4. Apart(K, C)
  <2>1. \A l \in K \ {k} : c \notin Range(B[l])
    BY DEF AllOf
  <2>2. \A m \in K : OnceEach(C[m])
    BY <1>2, <1>3 DEF Apart
  <2>3. \A m, n \in K \ {k} : m # n => Range(C[m]) \cap Range(C[n]) = {}
    BY <1>3 DEF Apart
  <2>4. \A n \in K \ {k} : Range(C[k]) \cap Range(C[n]) = {}
    <3> TAKE n \in K \ {k}
    <3>1. Range(B[k]) \cap Range(B[n]) = {} /\ c \notin Range(B[n])
      BY <2>1 DEF Apart
    <3> QED
      BY <1>2, <1>3, <3>1
  <2> QED
    BY <2>2, <2>3, <2>4 DEF Apart
<1> QED
  BY <1>2, <1>3, <1>4 DEF AllOf

LEMMA ApartTake ==
    ASSUME NEW S, NEW K, NEW B \in [K -> Seq(S)], Apart(K, B), NEW k \in K,
           NEW C, Takes(K, B, k, C)
    PROVE  Apart(K, C) /\ AllOf(K, C) = AllOf(K, B) \ {Head(B[k])} /\ Head(B[k]) \in AllOf(K, B)
<1>1. B[k] \in Seq(S) /\ B[k] # <<>>
  BY DEF Takes
<1>2. /\ OnceEach(Tail(B[k])) /\ Range(B[k]) = {Head(B[k])} \cup Range(Tail(B[k]))
      /\ Head(B[k]) \notin Range(Tail(B[k]))
  BY <1>1, TailOnce DEF Apart
<1>3. C[k] = Tail(B[k]) /\ \A l \in K \ {k} : C[l] = B[l]
  BY DEF Takes
<1>4. Apart(K, C)
  BY <1>2, <1>3 DEF Apart
<1>5. \A l \in K \ {k} : Head(B[k]) \notin Range(B[l])
  BY <1>2 DEF Apart
<1> QED
  BY <1>2, <1>3, <1>4, <1>5 DEF AllOf

LEMMA ApartMove ==
    ASSUME NEW S, NEW K, NEW B \in [K -> Seq(S)], Apart(K, B), NEW k \in K, NEW l \in K, k # l,
           NEW C, Shifts(K, B, k, l, C)
    PROVE  Apart(K, C) /\ AllOf(K, C) = AllOf(K, B)
<1>1. B[k] \in Seq(S) /\ B[l] \in Seq(S)
  OBVIOUS
<1>2. /\ OnceEach(B[k] \o B[l]) /\ Range(B[k] \o B[l]) = Range(B[k]) \cup Range(B[l])
      /\ OnceEach(<<>>) /\ Range(<<>>) = {}
  <2>1. OnceEach(B[k]) /\ OnceEach(B[l]) /\ Range(B[k]) \cap Range(B[l]) = {}
    BY DEF Apart
  <2>2. Range(<<>>) = {}
    BY <1>1, RangeOps
  <2>3. OnceEach(<<>>)
    BY DEF OnceEach
  <2> QED
    BY <1>1, <2>1, <2>2, <2>3, ConcatOnce
<1>3. C[k] = <<>> /\ C[l] = B[k] \o B[l] /\ \A m \in K \ {k, l} : C[m] = B[m]
  BY DEF Shifts
<1>4. Apart(K, C)
  BY <1>2, <1>3 DEF Apart
<1> QED
  BY <1>2, <1>3, <1>4 DEF AllOf

LEMMA ApartDrop ==
    ASSUME NEW K, NEW B, Apart(K, B), NEW C, NEW D, Drops(K, B, D, C)
    PROVE  Apart(K, C) /\ AllOf(K, C) = AllOf(K, B) \ D
BY DEF Apart, AllOf, Drops

HandOf(a)   == <<"hand", a>>
ClosesOf(w) == <<"closes", w>>
TheQueue    == <<"queue", "all">>

Places == {HandOf(a) : a \in Actors} \cup {ClosesOf(w) : w \in Windows} \cup {TheQueue}

\* The family, for these hands, these deferred closes and this queue.
Holding(h, p, q) ==
    [k \in Places |-> IF k[1] = "hand" THEN h[k[2]] ELSE IF k[1] = "closes" THEN p[k[2]] ELSE q]

LEMMA PlacesFacts ==
    /\ \A a \in Actors : HandOf(a) \in Places /\ HandOf(a) # TheQueue
    /\ \A w \in Windows : ClosesOf(w) \in Places /\ ClosesOf(w) # TheQueue
    /\ TheQueue \in Places
    /\ \A a, b \in Actors : HandOf(a) = HandOf(b) => a = b
    /\ \A w, v \in Windows : ClosesOf(w) = ClosesOf(v) => w = v
    /\ \A a \in Actors, w \in Windows : HandOf(a) # ClosesOf(w)
    /\ \A k \in Places : \/ \E a \in Actors : k = HandOf(a)
                         \/ \E w \in Windows : k = ClosesOf(w)
                         \/ k = TheQueue
<1>1. \A a, w : HandOf(a)[1] = "hand" /\ HandOf(a)[2] = a /\ ClosesOf(w)[1] = "closes"
                /\ ClosesOf(w)[2] = w /\ TheQueue[1] = "queue"
  BY DEF HandOf, ClosesOf, TheQueue
<1> QED
  BY <1>1 DEF Places

LEMMA HoldingFacts ==
    ASSUME NEW h \in [Actors -> Seq(Command)], NEW p \in [Windows -> Seq(Command)],
           NEW q \in Seq(Command)
    PROVE  /\ Holding(h, p, q) \in [Places -> Seq(Command)]
           /\ \A a \in Actors : Holding(h, p, q)[HandOf(a)] = h[a]
           /\ \A w \in Windows : Holding(h, p, q)[ClosesOf(w)] = p[w]
           /\ Holding(h, p, q)[TheQueue] = q
<1> DEFINE B == Holding(h, p, q)
<1>1. \A a, w : HandOf(a)[1] = "hand" /\ HandOf(a)[2] = a /\ ClosesOf(w)[1] = "closes"
                /\ ClosesOf(w)[2] = w /\ TheQueue[1] = "queue"
  BY DEF HandOf, ClosesOf, TheQueue
<1>2. /\ \A a \in Actors : B[HandOf(a)] = h[a]
      /\ \A w \in Windows : B[ClosesOf(w)] = p[w]
      /\ B[TheQueue] = q
  BY <1>1, PlacesFacts DEF Holding
<1>3. \A k \in Places : B[k] \in Seq(Command)
  <2> SUFFICES ASSUME NEW k \in Places PROVE B[k] \in Seq(Command)
    OBVIOUS
  <2> HIDE DEF B
  <2> QED
    BY <1>2, PlacesFacts
<1>4. B \in [Places -> Seq(Command)]
  <2>1. B = [k \in Places |-> B[k]]
    BY DEF Holding
  <2> HIDE DEF B
  <2> QED
    BY <1>3, <2>1
<1> QED
  BY <1>2, <1>4

LEMMA HoldingAll ==
    ASSUME NEW h \in [Actors -> Seq(Command)], NEW p \in [Windows -> Seq(Command)],
           NEW q \in Seq(Command)
    PROVE  AllOf(Places, Holding(h, p, q)) =
               (UNION {Range(h[a]) : a \in Actors}) \cup Range(q)
               \cup (UNION {Range(p[w]) : w \in Windows})
<1> DEFINE B == Holding(h, p, q)
<1>2. /\ \A a \in Actors : B[HandOf(a)] = h[a]
      /\ \A w \in Windows : B[ClosesOf(w)] = p[w]
      /\ B[TheQueue] = q
  BY HoldingFacts
<1>3. AllOf(Places, B) = (UNION {Range(h[a]) : a \in Actors}) \cup Range(q)
                         \cup (UNION {Range(p[w]) : w \in Windows})
  <2> HIDE DEF B
  <2>1. \A x : x \in AllOf(Places, B) <=> \E k \in Places : x \in Range(B[k])
    BY DEF AllOf
  <2>2. ASSUME NEW x, NEW k \in Places, x \in Range(B[k])
        PROVE  \/ \E a \in Actors : x \in Range(h[a])
               \/ x \in Range(q) \/ \E w \in Windows : x \in Range(p[w])
    BY <1>2, <2>2, PlacesFacts
  <2>3. ASSUME NEW x, \/ \E a \in Actors : x \in Range(h[a])
                      \/ x \in Range(q) \/ \E w \in Windows : x \in Range(p[w])
        PROVE  \E k \in Places : x \in Range(B[k])
    BY <1>2, <2>3, PlacesFacts
  <2> DEFINE U == (UNION {Range(h[a]) : a \in Actors}) \cup Range(q)
                  \cup (UNION {Range(p[w]) : w \in Windows})
  <2>4. \A x : x \in U <=> \/ \E a \in Actors : x \in Range(h[a])
                          \/ x \in Range(q) \/ \E w \in Windows : x \in Range(p[w])
    OBVIOUS
  <2>5. \A x : x \in AllOf(Places, B) <=> x \in U
    <3> HIDE DEF U
    <3> QED
      BY <2>1, <2>2, <2>3, <2>4
  <2> QED
    BY <2>5
<1> QED
  BY <1>3

-----------------------------------------------------------------------------
(* The dispatcher implements CommandGate.                                  *)

Held == Holding(hand, pendingCloses, queue)

GateInv ==
    /\ Apart(Places, Held)
    /\ \A c \in HeldBack \cup written \cup refused \cup cancelled : c.id <= issued

\* What a step does to the commands callers have passed, seen from CommandGate.
GateMove ==
    \/ /\ \E c \in Command : c.id = issued + 1 /\ HeldBack' = HeldBack \cup {c}
       /\ issued' = issued + 1
       /\ UNCHANGED <<written, refused, cancelled, fatal>>
    \/ issued' = issued /\ (Gate!Write \/ Gate!Refuse \/ Gate!DropExecutes \/ Gate!DropAny)
    \/ UNCHANGED <<HeldBack, issued, written, refused, cancelled, fatal>>

LEMMA HeldFacts ==
    ASSUME TypeOK
    PROVE  /\ Held \in [Places -> Seq(Command)]
           /\ \A a \in Actors : Held[HandOf(a)] = hand[a] /\ hand[a] \in Seq(Command)
           /\ \A w \in Windows : Held[ClosesOf(w)] = pendingCloses[w]
                                 /\ pendingCloses[w] \in Seq(Command)
           /\ Held[TheQueue] = queue /\ queue \in Seq(Command)
           /\ HeldBack = AllOf(Places, Held) /\ HeldBack \subseteq Command
<1>1. /\ hand \in [Actors -> Seq(Command)] /\ pendingCloses \in [Windows -> Seq(Command)]
      /\ queue \in Seq(Command)
  BY DEF TypeOK
<1>2. /\ Held \in [Places -> Seq(Command)]
      /\ \A a \in Actors : Held[HandOf(a)] = hand[a]
      /\ \A w \in Windows : Held[ClosesOf(w)] = pendingCloses[w]
      /\ Held[TheQueue] = queue
  BY <1>1, HoldingFacts DEF Held
<1>3. AllOf(Places, Held) = (UNION {Range(hand[a]) : a \in Actors}) \cup Range(queue)
                            \cup (UNION {Range(pendingCloses[w]) : w \in Windows})
  BY <1>1, HoldingAll DEF Held
<1>4. HeldBack = AllOf(Places, Held)
  BY <1>3 DEF HeldBack
<1>5. \A k \in Places : Range(Held[k]) \subseteq Command
  BY <1>2, SeqFacts
<1>6. AllOf(Places, Held) \subseteq Command
  BY <1>5 DEF AllOf
<1> QED
  BY <1>1, <1>2, <1>4, <1>6

\* The same of the state a step leads to.
LEMMA HeldFactsNext ==
    ASSUME TypeOK'
    PROVE  /\ Held' \in [Places -> Seq(Command)]
           /\ \A a \in Actors : Held'[HandOf(a)] = hand'[a]
           /\ \A w \in Windows : Held'[ClosesOf(w)] = pendingCloses'[w]
           /\ Held'[TheQueue] = queue'
           /\ HeldBack' = AllOf(Places, Held')
<1>1. /\ hand' \in [Actors -> Seq(Command)] /\ pendingCloses' \in [Windows -> Seq(Command)]
      /\ queue' \in Seq(Command)
  BY DEF TypeOK
<1>2. /\ Held' \in [Places -> Seq(Command)]
      /\ \A a \in Actors : Held'[HandOf(a)] = hand'[a]
      /\ \A w \in Windows : Held'[ClosesOf(w)] = pendingCloses'[w]
      /\ Held'[TheQueue] = queue'
  BY <1>1, HoldingFacts DEF Held
<1>3. AllOf(Places, Held') = (UNION {Range(hand'[a]) : a \in Actors}) \cup Range(queue')
                             \cup (UNION {Range(pendingCloses'[w]) : w \in Windows})
  BY <1>1, HoldingAll DEF Held
<1>4. HeldBack' = AllOf(Places, Held')
  BY <1>3 DEF HeldBack
<1> QED
  BY <1>2, <1>4

\* The places that a step leaves alone.
LEMMA HeldSame ==
    ASSUME TypeOK, TypeOK', NEW K,
           \A a \in Actors : HandOf(a) \in K \/ hand'[a] = hand[a],
           \A w \in Windows : ClosesOf(w) \in K \/ pendingCloses'[w] = pendingCloses[w],
           TheQueue \in K \/ queue' = queue
    PROVE  \A k \in Places \ K : Held'[k] = Held[k]
<1> SUFFICES ASSUME NEW k \in Places \ K PROVE Held'[k] = Held[k]
  OBVIOUS
<1>1. CASE \E a \in Actors : k = HandOf(a)
  BY <1>1, HeldFacts, HeldFactsNext
<1>2. CASE \E w \in Windows : k = ClosesOf(w)
  BY <1>2, HeldFacts, HeldFactsNext
<1>3. CASE k = TheQueue
  BY <1>3, HeldFacts, HeldFactsNext
<1> QED
  BY <1>1, <1>2, <1>3, PlacesFacts

\* Steps that leave every place alone.
LEMMA GateStays ==
    ASSUME Apart(Places, Held), hand' = hand, pendingCloses' = pendingCloses, queue' = queue,
           UNCHANGED <<issued, written, refused, cancelled, fatal>>
    PROVE  Apart(Places, Held)' /\ GateMove
BY DEF Held, GateMove, HeldBack

LEMMA GateSend ==
    ASSUME TypeOK, TypeOK', HandInv, GateInv, NEW s \in Senders, SendCommand(s)
    PROVE  Apart(Places, Held)' /\ GateMove
<1>1. PICK cmd \in Calls : DeferClose(s, cmd) \/ Enqueue(s, cmd) \/ DecideWrite(s, cmd)
  BY DEF SendCommand
<1>2. /\ cmd \in Command /\ cmd.id = issued + 1 /\ issued \in Nat /\ issued' = issued + 1
      /\ s \in Actors /\ pc[s] = "idle"
      /\ UNCHANGED <<written, refused, cancelled, fatal>>
  <2>1. cmd \in Command
    BY CallsTyped
  <2>2. cmd.id = issued + 1
    BY DEF Calls
  <2>3. issued \in Nat /\ s \in Actors
    BY DEF TypeOK, Actors
  <2>4. Issue(s) /\ UNCHANGED <<written, fate, marks>>
    BY <1>1 DEF DeferClose, Enqueue, DecideWrite
  <2>5. issued' = issued + 1 /\ pc[s] = "idle" /\ UNCHANGED <<written, refused, cancelled, fatal>>
    BY <2>4 DEF Issue, fate, marks
  <2> QED
    BY <2>1, <2>2, <2>3, <2>5
<1>3. cmd \notin AllOf(Places, Held)
  <2>1. \A c \in HeldBack : c.id <= issued
    BY DEF GateInv
  <2>2. ~(issued + 1 <= issued)
    BY <1>2
  <2> QED
    BY <1>2, <2>1, <2>2, HeldFacts
<1>4. \E k \in Places : Adds(Places, Held, k, cmd, Held')
  <2>1. CASE DeferClose(s, cmd)
    <3>1. cmd.win \in Windows
      BY <1>2, <2>1 DEF DeferClose, MustWaitForReply, Command
    <3>2. /\ hand' = hand /\ queue' = queue
          /\ pendingCloses'[cmd.win] = Append(pendingCloses[cmd.win], cmd)
          /\ \A w \in Windows \ {cmd.win} : pendingCloses'[w] = pendingCloses[w]
      BY <2>1, <3>1 DEF DeferClose, TypeOK
    <3>3. \A l \in Places \ {ClosesOf(cmd.win)} : Held'[l] = Held[l]
      BY <3>1, <3>2, HeldSame
    <3> QED
      BY <3>1, <3>2, <3>3, HeldFacts, HeldFactsNext, PlacesFacts DEF Adds
  <2>2. CASE Enqueue(s, cmd)
    <3>1. hand' = hand /\ pendingCloses' = pendingCloses /\ queue' = Append(queue, cmd)
      BY <2>2 DEF Enqueue, QueueWith
    <3>2. \A l \in Places \ {TheQueue} : Held'[l] = Held[l]
      BY <3>1, HeldSame
    <3> QED
      BY <3>1, <3>2, HeldFacts, HeldFactsNext, PlacesFacts DEF Adds
  <2>3. CASE DecideWrite(s, cmd)
    <3>1. hand[s] = <<>>
      BY <1>2 DEF HandInv
    <3>2. /\ pendingCloses' = pendingCloses /\ queue' = queue
          /\ hand'[s] = <<cmd>> /\ \A a \in Actors \ {s} : hand'[a] = hand[a]
      BY <1>2, <2>3 DEF DecideWrite, TypeOK
    <3>3. Append(<<>>, cmd) = <<cmd>>
      BY <1>2
    <3>4. \A l \in Places \ {HandOf(s)} : Held'[l] = Held[l]
      BY <1>2, <3>2, HeldSame
    <3>5. HandOf(s) \in Places /\ Held[HandOf(s)] = <<>> /\ Held'[HandOf(s)] = <<cmd>>
      BY <1>2, <3>1, <3>2, HeldFacts, HeldFactsNext, PlacesFacts
    <3>6. Held'[HandOf(s)] = Append(Held[HandOf(s)], cmd)
      BY <3>3, <3>5
    <3> QED
      BY <3>4, <3>5, <3>6 DEF Adds
  <2> QED
    BY <1>1, <2>1, <2>2, <2>3
<1>5. Apart(Places, Held') /\ AllOf(Places, Held') = AllOf(Places, Held) \cup {cmd}
  <2>1. PICK k \in Places : Adds(Places, Held, k, cmd, Held')
    BY <1>4
  <2>2. Held \in [Places -> Seq(Command)] /\ Apart(Places, Held) /\ cmd \in Command
    BY <1>2, HeldFacts DEF GateInv
  <2> QED
    BY <1>3, <2>1, <2>2, ApartAdd
<1>6. Apart(Places, Held)' /\ HeldBack' = HeldBack \cup {cmd}
  BY <1>5, HeldFacts, HeldFactsNext
<1> QED
  BY <1>2, <1>6 DEF GateMove

\* An actor's first command leaves its hand, written or refused.
LEMMA GateTake ==
    ASSUME TypeOK, TypeOK', GateInv, NEW a \in Actors, hand[a] # <<>>, hand'[a] = Tail(hand[a]),
           \A b \in Actors \ {a} : hand'[b] = hand[b],
           pendingCloses' = pendingCloses, queue' = queue,
           UNCHANGED <<issued, cancelled, fatal>>,
           \/ written' = written \cup {Head(hand[a])} /\ refused' = refused
           \/ refused' = refused \cup {Head(hand[a])} /\ written' = written
    PROVE  Apart(Places, Held)' /\ GateMove
<1> DEFINE k == HandOf(a)
           c == Head(hand[a])
<1>1. Takes(Places, Held, k, Held')
  <2>1. \A l \in Places \ {k} : Held'[l] = Held[l]
    BY HeldSame
  <2> QED
    BY <2>1, HeldFacts, HeldFactsNext DEF Takes
<1>2. /\ Held \in [Places -> Seq(Command)] /\ Apart(Places, Held) /\ k \in Places
      /\ Head(Held[k]) = c
  BY HeldFacts, PlacesFacts DEF GateInv
<1>3. /\ Apart(Places, Held') /\ AllOf(Places, Held') = AllOf(Places, Held) \ {c}
      /\ c \in AllOf(Places, Held)
  <2> HIDE DEF k, c
  <2> QED
    BY <1>1, <1>2, ApartTake
<1>4. HeldBack' = HeldBack \ {c} /\ c \in HeldBack
  BY <1>3, HeldFacts, HeldFactsNext
<1>5. CASE written' = written \cup {Head(hand[a])} /\ refused' = refused
  <2>1. Gate!Write
    BY <1>4, <1>5 DEF Gate!Write
  <2> QED
    BY <1>3, <2>1 DEF GateMove
<1>6. CASE refused' = refused \cup {Head(hand[a])} /\ written' = written
  <2>1. Gate!Refuse
    BY <1>4, <1>6 DEF Gate!Refuse
  <2> QED
    BY <1>3, <2>1 DEF GateMove
<1> QED
  BY <1>5, <1>6

\* All that is at one place moves in front of what is at another.
LEMMA GateShift ==
    ASSUME TypeOK, TypeOK', GateInv, NEW k \in Places, NEW l \in Places, k # l,
           Shifts(Places, Held, k, l, Held'),
           UNCHANGED <<issued, written, refused, cancelled, fatal>>
    PROVE  Apart(Places, Held)' /\ GateMove
<1>1. Held \in [Places -> Seq(Command)] /\ Apart(Places, Held)
  BY HeldFacts DEF GateInv
<1>2. Apart(Places, Held') /\ AllOf(Places, Held') = AllOf(Places, Held)
  BY <1>1, ApartMove
<1>3. HeldBack' = HeldBack
  BY <1>2, HeldFacts, HeldFactsNext
<1> QED
  BY <1>2, <1>3 DEF GateMove

\* Some of the commands of several places are dropped.
LEMMA GateDrop ==
    ASSUME TypeOK, TypeOK', GateInv, NEW D, D \subseteq HeldBack, Drops(Places, Held, D, Held'),
           cancelled' = cancelled \cup D, UNCHANGED <<issued, written, refused>>,
           fatal' = TRUE \/ (fatal' = fatal /\ \A c \in D : c.name = "Execute")
    PROVE  Apart(Places, Held)' /\ GateMove
<1>1. Apart(Places, Held') /\ AllOf(Places, Held') = AllOf(Places, Held) \ D
  <2>1. Apart(Places, Held)
    BY DEF GateInv
  <2> QED
    BY <2>1, ApartDrop
<1>2. HeldBack' = HeldBack \ D
  BY <1>1, HeldFacts, HeldFactsNext
<1>3. Gate!DropExecutes \/ Gate!DropAny
  BY <1>2 DEF Gate!DropExecutes, Gate!DropAny
<1> QED
  BY <1>1, <1>3 DEF GateMove

LEMMA GateWrites ==
    ASSUME TypeOK, TypeOK', HandInv, GateInv, NEW a \in Actors,
           \/ a \in Senders /\ (WriteSucceeds(a) \/ WriteFails(a))
           \/ CloseSucceeds(a)
           \/ a = Receiver /\ FlushSucceeds
    PROVE  Apart(Places, Held)' /\ GateMove
<1>1. hand[a] # <<>> /\ hand[a] \in Seq(Command)
  BY DEF HandInv, TypeOK, WriteSucceeds, WriteFails, CloseSucceeds, FlushSucceeds
<1>2. /\ UNCHANGED <<pendingCloses, queue, issued, cancelled, fatal>>
      /\ \/ written' = written \cup {Head(hand[a])} /\ refused' = refused
         \/ refused' = refused \cup {Head(hand[a])} /\ written' = written
  BY DEF WriteSucceeds, WriteFails, CloseSucceeds, FlushSucceeds, Deliver, fields, fate, marks
<1>3. hand'[a] = Tail(hand[a]) /\ \A b \in Actors \ {a} : hand'[b] = hand[b]
  <2>1. hand \in [Actors -> Seq(Command)]
    BY DEF TypeOK
  <2>2. CASE a \in Senders /\ (WriteSucceeds(a) \/ WriteFails(a))
    <3>1. Len(hand[a]) = 1
      BY <2>2 DEF HandInv, WriteSucceeds, WriteFails
    <3>2. Tail(hand[a]) = <<>>
      BY <1>1, <3>1, LastOne
    <3> QED
      BY <2>1, <2>2, <3>2 DEF WriteSucceeds, WriteFails
  <2>3. CASE CloseSucceeds(a) \/ (a = Receiver /\ FlushSucceeds)
    BY <2>1, <2>3 DEF CloseSucceeds, FlushSucceeds
  <2> QED
    BY <2>2, <2>3
<1> QED
  BY <1>1, <1>2, <1>3, GateTake

LEMMA GateSettle ==
    ASSUME TypeOK, TypeOK', HandInv, GateInv, NEW a \in Actors, NEW w \in Windows,
           SettleSave(a, w), queue' = queue, hand[a] = <<>>,
           UNCHANGED <<issued, written, refused, cancelled, fatal>>
    PROVE  Apart(Places, Held)' /\ GateMove
<1>1. CASE ReleasesCloses(a, w)
  <2>1. hand \in [Actors -> Seq(Command)] /\ pendingCloses \in [Windows -> Seq(Command)]
    BY DEF TypeOK
  <2>2. /\ hand'[a] = pendingCloses[w] /\ \A b \in Actors \ {a} : hand'[b] = hand[b]
        /\ pendingCloses'[w] = <<>>
        /\ \A v \in Windows \ {w} : pendingCloses'[v] = pendingCloses[v]
    BY <1>1, <2>1 DEF SettleSave
  <2>3. pendingCloses[w] = pendingCloses[w] \o <<>>
    BY <2>1
  <2>4. \A m \in Places \ {ClosesOf(w), HandOf(a)} : Held'[m] = Held[m]
    BY <2>2, HeldSame
  <2>5. Shifts(Places, Held, ClosesOf(w), HandOf(a), Held')
    BY <2>2, <2>3, <2>4, HeldFacts, HeldFactsNext DEF Shifts
  <2> QED
    BY <2>5, PlacesFacts, GateShift
<1>2. CASE ~ReleasesCloses(a, w)
  BY <1>2, GateStays DEF SettleSave, GateInv
<1> QED
  BY <1>1, <1>2

\* What failed writes put back.
LEMMA GateFails ==
    ASSUME TypeOK, TypeOK', HandInv, GateInv, NEW a \in Actors,
           CloseFails(a) \/ (a = Receiver /\ FlushFails)
    PROVE  Apart(Places, Held)' /\ GateMove
<1>1. /\ hand \in [Actors -> Seq(Command)] /\ pendingCloses \in [Windows -> Seq(Command)]
      /\ UNCHANGED <<issued, written, refused, cancelled, fatal>>
  BY DEF TypeOK, CloseFails, FlushFails, fate
<1>2. hand'[a] = <<>> /\ \A b \in Actors \ {a} : hand'[b] = hand[b]
  BY <1>1 DEF CloseFails, FlushFails
<1>3. CASE CloseFails(a)
  <2>1. PICK w \in Windows : w = closing[a]
    BY <1>3 DEF HandInv, CloseFails
  <2>2. /\ pendingCloses'[w] = hand[a] \o pendingCloses[w] /\ queue' = queue
        /\ \A v \in Windows \ {w} : pendingCloses'[v] = pendingCloses[v]
    BY <1>1, <1>3, <2>1 DEF CloseFails
  <2>3. \A m \in Places \ {HandOf(a), ClosesOf(w)} : Held'[m] = Held[m]
    BY <1>2, <2>2, HeldSame
  <2>4. Shifts(Places, Held, HandOf(a), ClosesOf(w), Held')
    BY <1>2, <2>2, <2>3, HeldFacts, HeldFactsNext DEF Shifts
  <2> QED
    BY <1>1, <2>4, PlacesFacts, GateShift
<1>4. CASE a = Receiver /\ FlushFails
  <2>1. queue' = hand[a] \o queue /\ pendingCloses' = pendingCloses
    BY <1>4 DEF FlushFails, QueueBehind
  <2>2. \A m \in Places \ {HandOf(a), TheQueue} : Held'[m] = Held[m]
    BY <1>2, <2>1, HeldSame
  <2>3. Shifts(Places, Held, HandOf(a), TheQueue, Held')
    BY <1>2, <2>1, <2>2, HeldFacts, HeldFactsNext DEF Shifts
  <2> QED
    BY <1>1, <2>3, PlacesFacts, GateShift
<1> QED
  BY <1>3, <1>4

LEMMA GatePrompt ==
    ASSUME TypeOK, TypeOK', HandInv, GateInv, NEW type \in PromptTypes, HandlePromptType(type)
    PROVE  Apart(Places, Held)' /\ GateMove
<1>1. /\ hand \in [Actors -> Seq(Command)] /\ queue \in Seq(Command) /\ Receiver \in Actors
      /\ pendingCloses' = pendingCloses
      /\ UNCHANGED <<issued, written, refused, cancelled, fatal>>
  BY DEF TypeOK, HandlePromptType, fate, Actors
<1>2. CASE TakesQueue(type)
  <2>1. hand[Receiver] = <<>>
    BY <1>1 DEF HandInv, HandlePromptType, Receive
  <2>2. /\ queue' = <<>> /\ hand'[Receiver] = queue
        /\ \A b \in Actors \ {Receiver} : hand'[b] = hand[b]
    BY <1>1, <1>2 DEF HandlePromptType
  <2>3. queue = queue \o <<>>
    BY <1>1
  <2>4. \A m \in Places \ {TheQueue, HandOf(Receiver)} : Held'[m] = Held[m]
    BY <1>1, <2>2, HeldSame
  <2>5. Shifts(Places, Held, TheQueue, HandOf(Receiver), Held')
    BY <1>1, <2>1, <2>2, <2>3, <2>4, HeldFacts, HeldFactsNext DEF Shifts
  <2> QED
    BY <1>1, <2>5, PlacesFacts, GateShift
<1>3. CASE ~TakesQueue(type)
  <2>1. hand' = hand /\ queue' = queue
    BY <1>3 DEF HandlePromptType
  <2> QED
    BY <1>1, <2>1, GateStays DEF GateInv
<1> QED
  BY <1>2, <1>3

LEMMA KeptOnce ==
    ASSUME NEW S, NEW q \in Seq(S), NEW at \in KeptPositions(q), OnceEach(q),
           NEW r, r = [i \in DOMAIN at |-> q[at[i]]]
    PROVE  OnceEach(r) /\ Range(r) = Range(q) \ {q[i] : i \in Executes(q)}
<1>1. PICK n \in 0..Len(q) : at \in [1..n -> DOMAIN q]
  BY DEF KeptPositions
<1>2. /\ Range(at) = DOMAIN q \ Executes(q) /\ DOMAIN at = 1..n /\ DOMAIN r = 1..n
      /\ \A i, j \in 1..n : i < j => at[i] < at[j]
  BY <1>1 DEF KeptPositions
<1>3. /\ DOMAIN q = 1..Len(q) /\ Len(q) \in Nat /\ n \in Nat
      /\ \A i \in 1..n : at[i] \in DOMAIN q /\ r[i] = q[at[i]]
  BY <1>1
<1>4. \A i, j \in 1..n : i # j => at[i] # at[j]
  <2> SUFFICES ASSUME NEW i \in 1..n, NEW j \in 1..n, i # j PROVE at[i] # at[j]
    OBVIOUS
  <2>1. i < j \/ j < i
    BY <1>3
  <2>2. at[i] \in 1..Len(q) /\ at[j] \in 1..Len(q)
    BY <1>3
  <2>3. at[i] < at[j] \/ at[j] < at[i]
    BY <1>2, <2>1
  <2> QED
    BY <1>3, <2>2, <2>3
<1>5. OnceEach(r)
  BY <1>2, <1>3, <1>4 DEF OnceEach
<1>6. Range(r) = {q[p] : p \in Range(at)}
  BY <1>1, <1>2, <1>3 DEF Range
<1>7. \A p \in DOMAIN q, i \in Executes(q) : p \notin Executes(q) => q[p] # q[i]
  BY DEF OnceEach, Executes
<1>8. Range(q) = {q[p] : p \in DOMAIN q}
  BY DEF Range
<1> QED
  BY <1>2, <1>5, <1>6, <1>7, <1>8

LEMMA GateHadError ==
    ASSUME TypeOK, TypeOK', GateInv, HandleHadError
    PROVE  Apart(Places, Held)' /\ GateMove
<1>1. PICK D : D = {queue[i] : i \in Executes(queue)}
  OBVIOUS
<1>2. /\ hand' = hand /\ pendingCloses' = pendingCloses /\ cancelled' = cancelled \cup D
      /\ UNCHANGED <<issued, written, refused, fatal>>
  BY <1>1 DEF HandleHadError, marks
<1>3. PICK at \in KeptPositions(queue) : queue' = [i \in DOMAIN at |-> queue[at[i]]]
  BY DEF HandleHadError
<1>4. TheQueue \in Places /\ Held[TheQueue] = queue /\ Held'[TheQueue] = queue'
  BY PlacesFacts, HeldFacts, HeldFactsNext
<1>5. OnceEach(queue') /\ Range(queue') = Range(queue) \ D
  <2>1. OnceEach(queue) /\ queue \in Seq(Command)
    BY <1>4 DEF GateInv, Apart, TypeOK
  <2> QED
    BY <1>1, <1>3, <2>1, KeptOnce
<1>6. D \subseteq Range(queue) /\ \A c \in D : c.name = "Execute"
  BY <1>1 DEF Executes, Range
<1>7. \A k \in Places \ {TheQueue} : Held'[k] = Held[k]
  BY <1>2, HeldSame
<1>8. Drops(Places, Held, D, Held')
  <2> SUFFICES ASSUME NEW k \in Places
               PROVE  OnceEach(Held'[k]) /\ Range(Held'[k]) = Range(Held[k]) \ D
    BY DEF Drops
  <2>1. CASE k = TheQueue
    BY <1>4, <1>5, <2>1
  <2>2. CASE k # TheQueue
    <3>1. OnceEach(Held[k]) /\ Range(Held[k]) \cap Range(queue) = {}
      BY <1>4, <2>2 DEF GateInv, Apart
    <3> QED
      BY <1>6, <1>7, <2>2, <3>1
  <2> QED
    BY <2>1, <2>2
<1>9. D \subseteq HeldBack
  BY <1>6 DEF HeldBack
<1> QED
  BY <1>2, <1>6, <1>8, <1>9, GateDrop

LEMMA GateFatal ==
    ASSUME TypeOK, TypeOK', GateInv, HandleFatal
    PROVE  Apart(Places, Held)' /\ GateMove
<1>1. PICK D : D = Range(queue) \cup (UNION {Range(pendingCloses[w]) : w \in Windows})
  OBVIOUS
<1>2. /\ hand' = hand /\ pendingCloses' = [w \in Windows |-> <<>>] /\ queue' = <<>>
      /\ cancelled' = cancelled \cup D /\ fatal' = TRUE
      /\ UNCHANGED <<issued, written, refused>>
  BY <1>1 DEF HandleFatal
<1>3. OnceEach(<<>>) /\ Range(<<>>) = {}
  BY DEF OnceEach, Range
<1>4. Drops(Places, Held, D, Held')
  <2> SUFFICES ASSUME NEW k \in Places
               PROVE  OnceEach(Held'[k]) /\ Range(Held'[k]) = Range(Held[k]) \ D
    BY DEF Drops
  <2>1. CASE \E a \in Actors : k = HandOf(a)
    <3>1. Held'[k] = Held[k]
      BY <1>2, <2>1, HeldFacts, HeldFactsNext
    <3>2. /\ OnceEach(Held[k]) /\ Range(Held[k]) \cap Range(Held[TheQueue]) = {}
          /\ \A w \in Windows : Range(Held[k]) \cap Range(Held[ClosesOf(w)]) = {}
      BY <2>1, PlacesFacts DEF GateInv, Apart
    <3>3. /\ Range(Held[k]) \cap Range(queue) = {}
          /\ \A w \in Windows : Range(Held[k]) \cap Range(pendingCloses[w]) = {}
      BY <3>2, HeldFacts
    <3>4. Range(Held[k]) \cap D = {}
      BY <1>1, <3>3
    <3> QED
      BY <3>1, <3>2, <3>4
  <2>2. CASE \E w \in Windows : k = ClosesOf(w)
    <3>1. PICK w \in Windows : k = ClosesOf(w)
      BY <2>2
    <3>2. Held'[k] = <<>> /\ Held[k] = pendingCloses[w]
      BY <1>2, <3>1, HeldFacts, HeldFactsNext
    <3>3. Range(pendingCloses[w]) \subseteq D
      BY <1>1
    <3> QED
      BY <1>3, <3>2, <3>3
  <2>3. CASE k = TheQueue
    <3>1. Held'[k] = <<>> /\ Held[k] = queue
      BY <1>2, <2>3, HeldFacts, HeldFactsNext
    <3> QED
      BY <1>1, <1>3, <3>1
  <2> QED
    BY <2>1, <2>2, <2>3, PlacesFacts
<1>5. D \subseteq HeldBack
  BY <1>1 DEF HeldBack
<1> QED
  BY <1>2, <1>4, <1>5, GateDrop

LEMMA GateStep ==
    ASSUME QueueInv, QueueInv', GateInv, [Next]_vars
    PROVE  Apart(Places, Held)' /\ GateMove
<1> USE DEF QueueInv
<1>1. CASE \E s \in Senders : SenderStep(s)
  <2>1. PICK s \in Senders : SenderStep(s)
    BY <1>1
  <2>2. s \in Actors
    BY DEF Actors
  <2>3. CASE SendCommand(s)
    BY <2>3, GateSend
  <2>4. CASE WriteSucceeds(s) \/ WriteFails(s)
    BY <2>2, <2>4, GateWrites
  <2>5. CASE RollbackPendingSave(s)
    <3>1. PICK w \in Windows : w = closing[s]
      BY <2>2, <2>5 DEF RollbackPendingSave, HandInv
    <3>2. SettleSave(s, w) /\ queue' = queue /\ hand[s] = <<>>
          /\ UNCHANGED <<issued, written, refused, cancelled, fatal>>
      BY <2>2, <2>5, <3>1 DEF RollbackPendingSave, HandInv, fate
    <3> QED
      BY <2>2, <3>2, GateSettle
  <2> QED
    BY <2>1, <2>3, <2>4, <2>5 DEF SenderStep
<1>2. CASE \E a \in Actors : CloseStep(a)
  <2>1. PICK a \in Actors : CloseStep(a)
    BY <1>2
  <2>2. CASE CloseSucceeds(a)
    BY <2>2, GateWrites
  <2>3. CASE CloseFails(a)
    BY <2>3, GateFails
  <2> QED
    BY <2>1, <2>2, <2>3 DEF CloseStep
<1>3. CASE ReceiverStep
  <2>1. Receiver \in Actors
    BY DEF Actors
  <2>2. CASE \E type \in PromptTypes : HandlePromptType(type)
    BY <2>2, GatePrompt
  <2>3. CASE FlushSucceeds
    BY <2>1, <2>3, GateWrites
  <2>4. CASE FlushFails
    BY <2>1, <2>4, GateFails
  <2>5. CASE \E w \in Windows : HandleReplySaveChanges(w)
    <3>1. PICK w \in Windows : HandleReplySaveChanges(w)
      BY <2>5
    <3>2. SettleSave(Receiver, w) /\ queue' = queue /\ hand[Receiver] = <<>>
          /\ UNCHANGED <<issued, written, refused, cancelled, fatal>>
      BY <2>1, <3>1 DEF HandleReplySaveChanges, Receive, HandInv, fate
    <3> QED
      BY <2>1, <3>2, GateSettle
  <2>6. CASE HandleHadError \/ HandleFatal
    BY <2>6, GateHadError, GateFatal
  <2>7. CASE HandleOther \/ Publish \/ StopReading
    <3>1. /\ hand' = hand /\ pendingCloses' = pendingCloses /\ queue' = queue
          /\ UNCHANGED <<issued, written, refused, cancelled, fatal>>
      BY <2>7 DEF HandleOther, Publish, StopReading, fields, fate, marks
    <3> QED
      BY <3>1, GateStays DEF GateInv
  <2> QED
    BY <1>3, <2>2, <2>3, <2>4, <2>5, <2>6, <2>7 DEF ReceiverStep
<1>4. CASE (\E x \in Subscribers : SubscriberStep(x)) \/ UNCHANGED vars
  <2>1. /\ hand' = hand /\ pendingCloses' = pendingCloses /\ queue' = queue
        /\ UNCHANGED <<issued, written, refused, cancelled, fatal>>
    BY <1>4 DEF SubscriberStep, Subscribe, Unsubscribe, Consume, fields, fate, marks, vars
  <2> QED
    BY <2>1, GateStays DEF GateInv
<1> QED
  BY <1>1, <1>2, <1>3, <1>4 DEF Next

\* A step is one of CommandGate or leaves it alone, and the numbers of the
\* commands stay at most issued.
LEMMA GateMaps ==
    ASSUME TypeOK, GateInv, Apart(Places, Held)', GateMove
    PROVE  GateInv' /\ [Gate!Next]_Gate!vars
<1>1. /\ HeldBack \subseteq Command /\ issued \in Nat
      /\ \A c \in HeldBack \cup written \cup refused \cup cancelled :
            c.id <= issued /\ c.id \in Nat
  BY HeldFacts DEF TypeOK, GateInv, Command
<1>2. CASE /\ \E c \in Command : c.id = issued + 1 /\ HeldBack' = HeldBack \cup {c}
           /\ issued' = issued + 1
           /\ UNCHANGED <<written, refused, cancelled, fatal>>
  <2>1. PICK c \in Command : c.id = issued + 1 /\ HeldBack' = HeldBack \cup {c}
    BY <1>2
  <2>2. \A d \in HeldBack \cup written \cup refused \cup cancelled :
          d.id # c.id /\ d.id <= issued + 1
    BY <1>1, <2>1
  <2>3. \A d \in HeldBack' \cup written' \cup refused' \cup cancelled' : d.id <= issued'
    BY <1>1, <1>2, <2>1, <2>2
  <2>4. Gate!Accept
    BY <1>2, <2>1, <2>2 DEF Gate!Accept, Gate!Known
  <2> QED
    BY <2>3, <2>4 DEF GateInv, Gate!Next
<1>3. CASE issued' = issued /\ (Gate!Write \/ Gate!Refuse \/ Gate!DropExecutes \/ Gate!DropAny)
  <2>1. HeldBack' \cup written' \cup refused' \cup cancelled'
          \subseteq HeldBack \cup written \cup refused \cup cancelled
    BY <1>3 DEF Gate!Write, Gate!Refuse, Gate!DropExecutes, Gate!DropAny
  <2>2. \A d \in HeldBack' \cup written' \cup refused' \cup cancelled' : d.id <= issued'
    BY <1>1, <1>3, <2>1
  <2> QED
    BY <1>3, <2>2 DEF GateInv, Gate!Next
<1>4. CASE UNCHANGED <<HeldBack, issued, written, refused, cancelled, fatal>>
  BY <1>4 DEF GateInv, Gate!vars
<1> QED
  BY <1>2, <1>3, <1>4 DEF GateMove

LEMMA GateInit == Init => GateInv /\ Gate!Init
<1> SUFFICES ASSUME Init PROVE GateInv /\ Gate!Init
  OBVIOUS
<1>1. TypeOK
  BY TypeInit
<1>2. \A k \in Places : Held[k] = <<>>
  <2>1. /\ \A a \in Actors : hand[a] = <<>>
        /\ \A w \in Windows : pendingCloses[w] = <<>>
        /\ queue = <<>>
    BY DEF Init
  <2>2. /\ \A a \in Actors : Held[HandOf(a)] = hand[a]
        /\ \A w \in Windows : Held[ClosesOf(w)] = pendingCloses[w]
        /\ Held[TheQueue] = queue
    BY <1>1, HeldFacts
  <2> QED
    BY <2>1, <2>2, PlacesFacts
<1>3. OnceEach(<<>>) /\ Range(<<>>) = {}
  BY DEF OnceEach, Range
<1>4. Apart(Places, Held) /\ AllOf(Places, Held) = {}
  BY <1>2, <1>3 DEF Apart, AllOf
<1>5. HeldBack = {} /\ written = {} /\ refused = {} /\ cancelled = {} /\ fatal = FALSE
  BY <1>1, <1>4, HeldFacts DEF Init
<1> QED
  BY <1>4, <1>5 DEF GateInv, Gate!Init

LEMMA GateInvariant == Spec => []GateInv
<1>1. QueueInv /\ QueueInv' /\ GateInv /\ [Next]_vars => GateInv'
  BY GateStep, GateMaps DEF QueueInv
<1> QED
  BY <1>1, GateInit, QueueInvariant, PTL DEF Spec

\* The dispatcher implements CommandGate: whatever callers, receive loop and
\* failed writes do to each other, a command taken by SendCommand is held until
\* it is written once, refused or dropped, never two of these, and before a
\* fatal signal only Executes are dropped.
THEOREM KeepsPromise == Spec => GateSpec
<1>1. QueueInv /\ QueueInv' /\ GateInv /\ [Next]_vars => [Gate!Next]_Gate!vars
  BY GateStep, GateMaps DEF QueueInv
<1> QED
  BY <1>1, GateInit, GateInvariant, QueueInvariant, PTL DEF Spec, GateSpec, Gate!Spec

LEMMA FateStep ==
    ASSUME issued \in Nat, GateInv, GateMove, OneFate
    PROVE  OneFate'
<1> DEFINE known == Gate!Known
<1>0. /\ known = HeldBack \cup written \cup refused \cup cancelled
      /\ known' = HeldBack' \cup written' \cup refused' \cup cancelled'
  BY DEF Gate!Known
<1>1. CASE /\ \E c \in Command : c.id = issued + 1 /\ HeldBack' = HeldBack \cup {c}
           /\ issued' = issued + 1
           /\ UNCHANGED <<written, refused, cancelled, fatal>>
  <2>1. PICK c \in Command : c.id = issued + 1 /\ HeldBack' = HeldBack \cup {c}
    BY <1>1
  <2>2. \A d \in known : d.id <= issued
    BY <1>0 DEF GateInv
  <2>3. \A d \in known : d.id # c.id
    BY <2>1, <2>2
  <2>4. known' = known \cup {c}
    BY <1>0, <1>1, <2>1
  <2>5. c \notin known
    BY <2>3
  <2>6. \A n \in 1..(issued + 1) : n \in 1..issued \/ n = c.id
    BY <2>1
  <2>7. \A n \in 1..issued' : \E d \in known' : d.id = n
    BY <1>1, <2>4, <2>6 DEF OneFate
  <2>8. \A d, f \in known' : d.id = f.id => d = f
    BY <2>3, <2>4 DEF OneFate
  <2>9. /\ HeldBack' \cap (written' \cup refused' \cup cancelled') = {}
        /\ written' \cap (refused' \cup cancelled') = {} /\ refused' \cap cancelled' = {}
    BY <1>0, <1>1, <2>1, <2>5 DEF OneFate
  <2> QED
    BY <2>7, <2>8, <2>9 DEF OneFate
<1>2. CASE issued' = issued /\ (Gate!Write \/ Gate!Refuse \/ Gate!DropExecutes \/ Gate!DropAny)
  <2>1. known' = known
    BY <1>0, <1>2 DEF Gate!Write, Gate!Refuse, Gate!DropExecutes, Gate!DropAny
  <2>2. /\ HeldBack' \cap (written' \cup refused' \cup cancelled') = {}
        /\ written' \cap (refused' \cup cancelled') = {} /\ refused' \cap cancelled' = {}
    BY <1>2 DEF OneFate, Gate!Write, Gate!Refuse, Gate!DropExecutes, Gate!DropAny
  <2> QED
    BY <1>2, <2>1, <2>2 DEF OneFate
<1>3. CASE UNCHANGED <<HeldBack, issued, written, refused, cancelled, fatal>>
  BY <1>0, <1>3 DEF OneFate
<1> QED
  BY <1>1, <1>2, <1>3 DEF GateMove

\* No command is lost and none is in two places: each that SendCommand has taken
\* is held, or has been written, refused or dropped, and only one of these.
THEOREM NothingLost == Spec => []OneFate
<1>1. Init => OneFate
  <2> SUFFICES ASSUME Init PROVE OneFate
    OBVIOUS
  <2>1. HeldBack = {} /\ written = {} /\ refused = {} /\ cancelled = {}
    BY GateInit DEF Gate!Init
  <2>2. issued = 0
    BY DEF Init
  <2> QED
    BY <2>1, <2>2 DEF OneFate, Gate!Known
<1>2. QueueInv /\ QueueInv' /\ GateInv /\ OneFate /\ [Next]_vars => OneFate'
  <2> SUFFICES ASSUME QueueInv, QueueInv', GateInv, OneFate, [Next]_vars PROVE OneFate'
    OBVIOUS
  <2>1. issued \in Nat
    BY DEF QueueInv, TypeOK
  <2>2. GateMove
    BY GateStep DEF QueueInv
  <2> QED
    BY <2>1, <2>2, FateStep
<1> QED
  BY <1>1, <1>2, GateInvariant, QueueInvariant, PTL DEF Spec

-----------------------------------------------------------------------------
(* Closes after saves.  What decides that a close may be written is read   *)
(* under the mutex, the write comes later: the close in an actor's hand    *)
(* has to stay clear of earlier saves in between.                          *)

\* No SaveChanges of w with a number below n is being written or unanswered.
ClearOf(w, n) ==
    /\ \A d \in Range(unanswered[w]) : ~(d.id < n)
    /\ \A s \in Senders : pc[s] = "write" /\ TracksSave(Head(hand[s])) /\ Head(hand[s]).win = w
          => ~(Head(hand[s]).id < n)

IsClose(c) == c.name = "CloseWindow" /\ c.win # NoWindow

ReadyInv ==
    /\ \A w \in Windows : \A c \in Range(pendingCloses[w]) : c.win = w
    /\ \A a \in Actors : pc[a] = "closes" => \A c \in Range(hand[a]) : c.win = closing[a]
    /\ ~fatal => \A a \in Actors : \A c \in Range(hand[a]) :
          IsClose(c) => ClearOf(c.win, c.id)

\* A window is clear once no save of it is counted.
LEMMA ClearWhenSettled ==
    ASSUME TypeOK', SavesInv', ~fatal', NEW w \in Windows, pendingSaves'[w] = 0, NEW n
    PROVE  ClearOf(w, n)'
<1> DEFINE F == SavesInFlight(w)'
           c == Cardinality(F)
           u == Len(unanswered'[w])
<1>1. unanswered'[w] \in Seq(Command)
  BY DEF TypeOK
<1>2. IsFiniteSet(F) /\ pendingSaves'[w] = c + u
  BY DEF SavesInv, SavesAccounted
<1>3. c \in Nat /\ u \in Nat
  <2>1. u \in Nat
    BY <1>1
  <2> HIDE DEF F, u
  <2> QED
    BY <1>2, <2>1, FS_CardinalityType
<1>4. c = 0 /\ u = 0
  <2>1. c + u = 0
    BY <1>2
  <2> HIDE DEF c, u
  <2> QED
    BY <1>3, <2>1
<1>5. F = {}
  <2> HIDE DEF F
  <2> QED
    BY <1>2, <1>4, FS_EmptySet
<1>6. Range(unanswered'[w]) = {}
  <2>1. unanswered'[w] = <<>>
    BY <1>1, <1>4, EmptySeq
  <2> QED
    BY <2>1 DEF Range
<1> QED
  BY <1>5, <1>6 DEF ClearOf, SavesInFlight, TracksSave

\* A save that comes under way has a number above those given before.
LEMMA ClearStays ==
    ASSUME QueueInv, NEW w \in Windows, NEW n \in Nat, n <= issued, ClearOf(w, n), [Next]_vars
    PROVE  ClearOf(w, n)'
<1>1. TypeOK /\ HandInv /\ unanswered \in [Windows -> Seq(Command)] /\ issued \in Nat
      /\ pc \in [Actors -> SenderPlaces \cup ReceiverPlaces]
      /\ hand \in [Actors -> Seq(Command)] /\ \A s \in Senders : s \in Actors
  BY DEF QueueInv, TypeOK, Actors
<1>2. ASSUME \A d \in Range(unanswered'[w]) : d \in Range(unanswered[w]) \/ ~(d.id < n),
             \A s \in Senders : pc'[s] = "write" =>
                \/ pc[s] = "write" /\ hand'[s] = hand[s]
                \/ ~(Head(hand'[s]).id < n)
      PROVE  ClearOf(w, n)'
  BY <1>2 DEF ClearOf, TracksSave
<1>3. ASSUME NEW a \in Actors, Step(a), pc'[a] # "write",
             \A d \in Range(unanswered'[w]) : d \in Range(unanswered[w]) \/ ~(d.id < n)
      PROVE  ClearOf(w, n)'
  <2>1. \A s \in Senders : pc'[s] = "write" => pc[s] = "write" /\ hand'[s] = hand[s]
    BY <1>1, <1>3, OneMoves
  <2> QED
    BY <1>2, <1>3, <2>1
<1>4. CASE \E s \in Senders : SendCommand(s)
  <2>1. PICK s \in Senders, cmd \in Calls : DeferClose(s, cmd) \/ Enqueue(s, cmd) \/ DecideWrite(s, cmd)
    BY <1>4 DEF SendCommand
  <2>2. unanswered' = unanswered /\ cmd.id = issued + 1
    BY <2>1 DEF Calls, DeferClose, Enqueue, DecideWrite
  <2>3. \/ pc' = pc /\ hand' = hand
        \/ /\ Head(hand'[s]) = cmd
           /\ \A t \in Senders \ {s} : pc'[t] = pc[t] /\ hand'[t] = hand[t]
    BY <1>1, <2>1 DEF DeferClose, Enqueue, DecideWrite
  <2>4. ~(cmd.id < n)
    BY <1>1, <2>2
  <2> QED
    BY <1>2, <2>2, <2>3, <2>4
<1>5. CASE \E s \in Senders : WriteSucceeds(s)
  <2>1. PICK s \in Senders : WriteSucceeds(s)
    BY <1>5
  <2> DEFINE cmd == Head(hand[s])
  <2>2. pc[s] = "write" /\ pc'[s] = "idle" /\ Step(s)
        /\ unanswered' = IF TracksSave(cmd) THEN [unanswered EXCEPT ![cmd.win] = Append(@, cmd)]
                                           ELSE unanswered
    BY <1>1, <2>1 DEF WriteSucceeds, Deliver, Step, SenderStep
  <2>3. cmd \in Command
    BY <1>1, <2>2, SeqFacts DEF HandInv
  <2>4. TracksSave(cmd) /\ cmd.win = w => ~(cmd.id < n)
    BY <2>2 DEF ClearOf
  <2>5. \A d \in Range(unanswered'[w]) : d \in Range(unanswered[w]) \/ ~(d.id < n)
    <3>1. CASE TracksSave(cmd) /\ cmd.win = w
      <4>1. unanswered'[w] = Append(unanswered[w], cmd)
        BY <1>1, <2>2, <3>1
      <4>2. Range(unanswered'[w]) = Range(unanswered[w]) \cup {cmd}
        BY <1>1, <2>3, <4>1, RangeOps
      <4> QED
        BY <2>4, <3>1, <4>2
    <3>2. CASE ~(TracksSave(cmd) /\ cmd.win = w)
      <4>1. unanswered'[w] = unanswered[w]
        BY <1>1, <2>2, <3>2
      <4> QED
        BY <4>1
    <3> QED
      BY <3>1, <3>2
  <2> QED
    BY <1>1, <1>3, <2>2, <2>5
<1>6. CASE \E v \in Windows : HandleReplySaveChanges(v)
  <2>1. PICK v \in Windows : HandleReplySaveChanges(v)
    BY <1>6
  <2>2. /\ unanswered[v] # <<>> /\ unanswered' = [unanswered EXCEPT ![v] = Tail(@)]
        /\ Receiver \in Actors /\ Step(Receiver) /\ pc'[Receiver] # "write"
    BY <1>1, <2>1 DEF HandleReplySaveChanges, SettleSave, PlaceAfterCloses, Step, ReceiverStep, Actors
  <2>3. \A d \in Range(unanswered'[w]) : d \in Range(unanswered[w])
    <3>1. v = w => Range(unanswered[w]) = {Head(unanswered[w])} \cup Range(Tail(unanswered[w]))
      BY <1>1, <2>2, RangeOps
    <3>2. unanswered'[w] = IF v = w THEN Tail(unanswered[w]) ELSE unanswered[w]
      BY <1>1, <2>2
    <3> QED
      BY <3>1, <3>2
  <2> QED
    BY <1>3, <2>2, <2>3
<1>7. CASE (\E s \in Senders : WriteFails(s) \/ RollbackPendingSave(s)) \/ (\E a \in Actors : CloseStep(a))
  <2>1. PICK a \in Actors : (a \in Senders /\ (WriteFails(a) \/ RollbackPendingSave(a))) \/ CloseStep(a)
    BY <1>1, <1>7
  <2>2. Step(a)
    BY <2>1 DEF Step, SenderStep
  <2>3. CloseStep(a) => ~TracksSave(Head(hand[a]))
    BY NoSaveWaits DEF CloseStep, CloseSucceeds, CloseFails
  <2>4. unanswered' = unanswered
    BY <2>1, <2>3 DEF WriteFails, RollbackPendingSave, CloseStep, CloseSucceeds, CloseFails, Deliver
  <2>5. pc'[a] # "write"
    BY <1>1, <2>1 DEF WriteFails, RollbackPendingSave, SettleSave, CloseStep, CloseSucceeds,
       CloseFails, PlaceAfterCloses
  <2> QED
    BY <1>3, <2>2, <2>4, <2>5
<1>8. CASE ReceiverStep /\ ~\E v \in Windows : HandleReplySaveChanges(v)
  <2>1. Receiver \in Actors /\ Step(Receiver)
    BY <1>8 DEF Step, Actors
  <2>2. FlushSucceeds => ~TracksSave(Head(hand[Receiver]))
    BY NoSaveWaits DEF FlushSucceeds
  <2>3. unanswered' = unanswered
    BY <1>8, <2>2 DEF ReceiverStep, HandlePromptType, FlushSucceeds, FlushFails, HandleHadError,
       HandleFatal, HandleOther, Publish, StopReading, Deliver
  <2>4. pc'[Receiver] # "write"
    BY <1>1, <1>8, <2>1 DEF ReceiverStep, HandlePromptType, FlushSucceeds, FlushFails,
       HandleHadError, HandleFatal, HandleOther, Publish, StopReading
  <2> QED
    BY <1>3, <2>1, <2>3, <2>4
<1>9. CASE (\E x \in Subscribers : SubscriberStep(x)) \/ UNCHANGED vars
  <2>1. unanswered' = unanswered /\ pc' = pc /\ hand' = hand
    BY <1>9 DEF SubscriberStep, Subscribe, Unsubscribe, Consume, vars
  <2> QED
    BY <1>2, <2>1
<1> QED
  BY <1>4, <1>5, <1>6, <1>7, <1>8, <1>9 DEF Next, SenderStep

\* What the step of one actor must do to keep the closes ready.
LEMMA ReadyMove ==
    ASSUME QueueInv, GateInv, ReadyInv, [Next]_vars, fatal => fatal', NEW a \in Actors,
           \A b \in Actors \ {a} : pc'[b] = pc[b] /\ hand'[b] = hand[b] /\ closing'[b] = closing[b],
           \A w \in Windows : \A c \in Range(pendingCloses'[w]) : c.win = w,
           pc'[a] = "closes" => \A c \in Range(hand'[a]) : c.win = closing'[a],
           ~fatal' => \A c \in Range(hand'[a]) :
              IsClose(c) => c \in Range(hand[a]) \/ ClearOf(c.win, c.id)'
    PROVE  ReadyInv'
<1>1. \A b \in Actors : pc'[b] = "closes" => \A c \in Range(hand'[b]) : c.win = closing'[b]
  BY DEF ReadyInv
<1>2. ASSUME ~fatal', NEW b \in Actors, NEW c \in Range(hand'[b]), IsClose(c)
      PROVE  ClearOf(c.win, c.id)'
  <2>1. CASE c \in Range(hand[b])
    <3>1. c \in HeldBack /\ c.id <= issued
      BY <2>1 DEF GateInv, HeldBack
    <3>2. c \in Command
      BY <3>1, HeldFacts DEF QueueInv
    <3>3. c.win \in Windows /\ c.id \in Nat
      BY <1>2, <3>2 DEF IsClose, Command
    <3>4. ClearOf(c.win, c.id)
      BY <1>2, <2>1 DEF ReadyInv
    <3> QED
      BY <3>1, <3>3, <3>4, ClearStays
  <2>2. CASE c \notin Range(hand[b])
    BY <1>2, <2>2
  <2> QED
    BY <2>1, <2>2
<1> QED
  BY <1>1, <1>2 DEF ReadyInv, IsClose

LEMMA ReadySend ==
    ASSUME QueueInv, QueueInv', SavesInv', GateInv, ReadyInv, [Next]_vars,
           NEW s \in Senders, SendCommand(s)
    PROVE  ReadyInv'
<1>1. PICK cmd \in Command : DeferClose(s, cmd) \/ Enqueue(s, cmd) \/ DecideWrite(s, cmd)
  BY CallsTyped DEF SendCommand, QueueInv
<1>2. /\ s \in Actors /\ closing' = closing /\ fatal' = fatal
      /\ pc \in [Actors -> SenderPlaces \cup ReceiverPlaces] /\ hand \in [Actors -> Seq(Command)]
      /\ pendingCloses \in [Windows -> Seq(Command)] /\ pendingSaves \in [Windows -> Nat]
  BY <1>1 DEF QueueInv, TypeOK, Actors, DeferClose, Enqueue, DecideWrite, marks
<1>3. \A b \in Actors \ {s} : pc'[b] = pc[b] /\ hand'[b] = hand[b] /\ closing'[b] = closing[b]
  BY <1>1, <1>2 DEF DeferClose, Enqueue, DecideWrite
<1>4. CASE DeferClose(s, cmd)
  <2>1. cmd.win \in Windows
    BY <1>4 DEF DeferClose, MustWaitForReply, Command
  <2>2. /\ pc' = pc /\ hand' = hand
        /\ pendingCloses' = [pendingCloses EXCEPT ![cmd.win] = Append(@, cmd)]
    BY <1>4 DEF DeferClose
  <2>3. \A w \in Windows : \A c \in Range(pendingCloses'[w]) : c.win = w
    <3> TAKE w \in Windows
    <3>1. \A c \in Range(pendingCloses[w]) : c.win = w
      BY DEF ReadyInv
    <3>2. Range(Append(pendingCloses[w], cmd)) = Range(pendingCloses[w]) \cup {cmd}
      BY <1>2, RangeOps
    <3>3. pendingCloses'[w] = IF w = cmd.win THEN Append(pendingCloses[w], cmd) ELSE pendingCloses[w]
      BY <1>2, <2>2
    <3> QED
      BY <3>1, <3>2, <3>3
  <2>4. pc'[s] = "closes" => \A c \in Range(hand'[s]) : c.win = closing'[s]
    BY <1>2, <2>2 DEF ReadyInv
  <2> QED
    BY <1>2, <1>3, <2>2, <2>3, <2>4, ReadyMove
<1>5. CASE Enqueue(s, cmd)
  <2>1. pc' = pc /\ hand' = hand /\ pendingCloses' = pendingCloses
    BY <1>5 DEF Enqueue
  <2>2. pc'[s] = "closes" => \A c \in Range(hand'[s]) : c.win = closing'[s]
    BY <1>2, <2>1 DEF ReadyInv
  <2>3. \A w \in Windows : \A c \in Range(pendingCloses'[w]) : c.win = w
    BY <2>1 DEF ReadyInv
  <2> QED
    BY <1>2, <1>3, <2>1, <2>2, <2>3, ReadyMove
<1>6. CASE DecideWrite(s, cmd)
  <2>1. pc'[s] = "write" /\ hand'[s] = <<cmd>> /\ pendingCloses' = pendingCloses
    BY <1>2, <1>6 DEF DecideWrite
  <2>2. \A c \in Range(hand'[s]) : c = cmd
    BY <2>1 DEF Range
  <2>3. ASSUME IsClose(cmd), ~fatal' PROVE ClearOf(cmd.win, cmd.id)'
    <3>1. cmd.win \in Windows /\ ~(pendingSaves[cmd.win] > 0) /\ pendingSaves' = pendingSaves
      BY <1>6, <2>3 DEF IsClose, Command, DecideWrite, MustWaitForReply, SavesWith, TracksSave
    <3>2. pendingSaves'[cmd.win] = 0
      BY <1>2, <3>1
    <3> QED
      BY <2>3, <3>1, <3>2, ClearWhenSettled DEF QueueInv
  <2>4. \A w \in Windows : \A c \in Range(pendingCloses'[w]) : c.win = w
    BY <2>1 DEF ReadyInv
  <2> QED
    BY <1>2, <1>3, <2>1, <2>2, <2>3, <2>4, ReadyMove
<1> QED
  BY <1>1, <1>4, <1>5, <1>6

LEMMA ReadySettle ==
    ASSUME QueueInv, QueueInv', SavesInv', GateInv, ReadyInv, [Next]_vars, fatal' = fatal,
           NEW a \in Actors, NEW w \in Windows, SettleSave(a, w), Step(a)
    PROVE  ReadyInv'
<1>1. /\ pc \in [Actors -> SenderPlaces \cup ReceiverPlaces] /\ hand \in [Actors -> Seq(Command)]
      /\ pendingCloses \in [Windows -> Seq(Command)] /\ pendingSaves \in [Windows -> Nat]
      /\ closing \in [Actors -> Windows \cup {NoWindow}] /\ TypeOK /\ TypeOK'
  BY DEF QueueInv, TypeOK
<1>2. \A b \in Actors \ {a} : pc'[b] = pc[b] /\ hand'[b] = hand[b] /\ closing'[b] = closing[b]
  BY <1>1, OneMoves
<1>3. \A v \in Windows : \A c \in Range(pendingCloses[v]) : c.win = v
  BY DEF ReadyInv
<1>4. CASE ReleasesCloses(a, w)
  <2>1. /\ hand'[a] = pendingCloses[w] /\ pendingSaves'[w] = 0 /\ closing'[a] = w
        /\ pendingCloses' = [pendingCloses EXCEPT ![w] = <<>>]
    BY <1>1, <1>4 DEF SettleSave, ReleasesCloses
  <2>2. \A v \in Windows : \A c \in Range(pendingCloses'[v]) : c.win = v
    <3>1. Range(<<>>) = {}
      BY DEF Range
    <3>2. \A v \in Windows : pendingCloses'[v] = IF v = w THEN <<>> ELSE pendingCloses[v]
      BY <1>1, <2>1
    <3> QED
      BY <1>3, <3>1, <3>2
  <2>3. ~fatal' => \A c \in Range(hand'[a]) : ClearOf(c.win, c.id)'
    <3> SUFFICES ASSUME ~fatal', NEW c \in Range(hand'[a]) PROVE ClearOf(c.win, c.id)'
      OBVIOUS
    <3>1. c.win = w
      BY <1>3, <2>1
    <3>2. ClearOf(w, c.id)'
      BY <1>1, <2>1, ClearWhenSettled
    <3> QED
      BY <3>1, <3>2
  <2> QED
    BY <1>2, <1>3, <2>1, <2>2, <2>3, ReadyMove
<1>5. CASE ~ReleasesCloses(a, w)
  <2>1. hand' = hand /\ pendingCloses' = pendingCloses /\ pc'[a] # "closes"
    BY <1>1, <1>5 DEF SettleSave, PlaceAfterCloses
  <2> QED
    BY <1>2, <1>3, <2>1, ReadyMove
<1> QED
  BY <1>4, <1>5

\* Steps that take from the hand of an actor, or leave it, and that put nothing
\* new among the closes.
LEMMA ReadyLess ==
    ASSUME QueueInv, GateInv, ReadyInv, [Next]_vars, fatal => fatal', NEW a \in Actors, Step(a),
           Range(hand'[a]) \subseteq Range(hand[a]), closing'[a] = closing[a],
           pc'[a] = "closes" => pc[a] = "closes",
           \A w \in Windows : \/ Range(pendingCloses'[w]) \subseteq Range(pendingCloses[w])
                              \/ /\ pc[a] = "closes" /\ w = closing[a]
                                 /\ Range(pendingCloses'[w]) \subseteq
                                      Range(hand[a]) \cup Range(pendingCloses[w])
    PROVE  ReadyInv'
<1>1. \A b \in Actors \ {a} : pc'[b] = pc[b] /\ hand'[b] = hand[b] /\ closing'[b] = closing[b]
  BY OneMoves DEF QueueInv
<1>2. \A w \in Windows : \A c \in Range(pendingCloses'[w]) : c.win = w
  BY DEF ReadyInv
<1>3. pc'[a] = "closes" => \A c \in Range(hand'[a]) : c.win = closing'[a]
  BY DEF ReadyInv
<1> QED
  BY <1>1, <1>2, <1>3, ReadyMove

LEMMA ReadyWrites ==
    ASSUME QueueInv, GateInv, ReadyInv, [Next]_vars, NEW a \in Actors,
           \/ a \in Senders /\ (WriteSucceeds(a) \/ WriteFails(a))
           \/ CloseStep(a)
           \/ a = Receiver /\ (FlushSucceeds \/ FlushFails)
    PROVE  ReadyInv'
<1>1. /\ pc \in [Actors -> SenderPlaces \cup ReceiverPlaces] /\ hand \in [Actors -> Seq(Command)]
      /\ pendingCloses \in [Windows -> Seq(Command)] /\ HandInv
      /\ closing \in [Actors -> Windows \cup {NoWindow}]
  BY DEF QueueInv, TypeOK
<1>2. Step(a) /\ fatal' = fatal
  BY DEF Step, SenderStep, ReceiverStep, WriteSucceeds, WriteFails, CloseStep, CloseSucceeds,
     CloseFails, FlushSucceeds, FlushFails, marks
<1>3. hand[a] # <<>> /\ Range(<<>>) = {}
  BY <1>1 DEF HandInv, WriteSucceeds, WriteFails, CloseStep, CloseSucceeds, CloseFails,
     FlushSucceeds, FlushFails, Range
<1>4. Range(Tail(hand[a])) \subseteq Range(hand[a])
  BY <1>1, <1>3, RangeOps
<1>5. CASE \/ a \in Senders /\ (WriteSucceeds(a) \/ WriteFails(a))
           \/ a = Receiver /\ FlushFails
  <2>1. hand'[a] = <<>> /\ pendingCloses' = pendingCloses /\ pc'[a] # "closes"
    BY <1>1, <1>5 DEF WriteSucceeds, WriteFails, FlushFails, fields
  <2>2. ~fatal' => \A c \in Range(hand'[a]) : IsClose(c) => c \in Range(hand[a])
    BY <1>3, <2>1
  <2>3. \A b \in Actors \ {a} : pc'[b] = pc[b] /\ hand'[b] = hand[b] /\ closing'[b] = closing[b]
    BY <1>2, OneMoves DEF QueueInv
  <2>4. \A w \in Windows : \A c \in Range(pendingCloses'[w]) : c.win = w
    BY <2>1 DEF ReadyInv
  <2> QED
    BY <1>2, <2>1, <2>2, <2>3, <2>4, ReadyMove
<1>6. CASE CloseSucceeds(a) \/ (a = Receiver /\ FlushSucceeds)
  <2>1. /\ hand'[a] = Tail(hand[a]) /\ pendingCloses' = pendingCloses /\ closing' = closing
        /\ pc'[a] = "closes" => pc[a] = "closes"
    BY <1>1, <1>6 DEF CloseSucceeds, FlushSucceeds, fields
  <2> QED
    BY <1>2, <1>4, <2>1, ReadyLess
<1>7. CASE CloseFails(a)
  <2>1. PICK w \in Windows : w = closing[a]
    BY <1>1, <1>7 DEF HandInv, CloseFails
  <2>2. /\ hand'[a] = <<>> /\ closing' = closing /\ pc[a] = "closes" /\ pc'[a] # "closes"
        /\ pendingCloses'[w] = hand[a] \o pendingCloses[w]
        /\ \A v \in Windows \ {w} : pendingCloses'[v] = pendingCloses[v]
    BY <1>1, <1>7, <2>1 DEF CloseFails, PlaceAfterCloses
  <2>3. Range(hand[a] \o pendingCloses[w]) = Range(hand[a]) \cup Range(pendingCloses[w])
    BY <1>1, ConcatOnce
  <2> QED
    BY <1>2, <1>3, <2>1, <2>2, <2>3, ReadyLess
<1> QED
  BY <1>5, <1>6, <1>7 DEF CloseStep

LEMMA ReadyReceive ==
    ASSUME QueueInv, GateInv, ReadyInv, [Next]_vars,
           \/ \E type \in PromptTypes : HandlePromptType(type)
           \/ HandleHadError \/ HandleFatal \/ HandleOther \/ Publish \/ StopReading
    PROVE  ReadyInv'
<1>1. /\ Receiver \in Actors /\ Step(Receiver) /\ (fatal => fatal')
      /\ pc \in [Actors -> SenderPlaces \cup ReceiverPlaces] /\ hand \in [Actors -> Seq(Command)]
  BY DEF Step, ReceiverStep, Actors, QueueInv, TypeOK, HandlePromptType, HandleHadError,
     HandleFatal, HandleOther, Publish, StopReading, marks
<1>2. closing' = closing /\ pc'[Receiver] # "closes"
  BY <1>1 DEF HandlePromptType, HandleHadError, HandleFatal, HandleOther, Publish, StopReading
<1>3. CASE \E type \in PromptTypes : HandlePromptType(type) /\ TakesQueue(type)
  <2>1. hand'[Receiver] = queue /\ pendingCloses' = pendingCloses
    BY <1>1, <1>3 DEF HandlePromptType
  <2>2. \A c \in Range(queue) : ~IsClose(c)
    BY DEF QueueInv, OrderInv, Waiting, IsAllowedWhileBusy, IsClose
  <2>3. \A b \in Actors \ {Receiver} : pc'[b] = pc[b] /\ hand'[b] = hand[b] /\ closing'[b] = closing[b]
    BY <1>1, OneMoves DEF QueueInv
  <2>4. \A w \in Windows : \A c \in Range(pendingCloses'[w]) : c.win = w
    BY <2>1 DEF ReadyInv
  <2> QED
    BY <1>1, <1>2, <2>1, <2>2, <2>3, <2>4, ReadyMove
<1>4. CASE \/ \E type \in PromptTypes : HandlePromptType(type) /\ ~TakesQueue(type)
           \/ HandleHadError \/ HandleOther \/ Publish \/ StopReading
  <2>1. hand' = hand /\ pendingCloses' = pendingCloses
    BY <1>4 DEF HandlePromptType, HandleHadError, HandleOther, Publish, StopReading, fields
  <2> QED
    BY <1>1, <1>2, <2>1, ReadyLess
<1>5. CASE HandleFatal
  <2>1. /\ hand' = hand /\ \A w \in Windows : pendingCloses'[w] = <<>>
    BY <1>5 DEF HandleFatal
  <2>2. Range(<<>>) = {}
    BY DEF Range
  <2> QED
    BY <1>1, <1>2, <2>1, <2>2, ReadyLess
<1> QED
  BY <1>3, <1>4, <1>5

LEMMA ReadyStep ==
    ASSUME QueueInv, QueueInv', SavesInv', GateInv, ReadyInv, [Next]_vars PROVE ReadyInv'
<1>1. CASE \E s \in Senders : SenderStep(s)
  <2>1. PICK s \in Senders : SenderStep(s)
    BY <1>1
  <2>2. s \in Actors /\ Step(s)
    BY <2>1 DEF Actors, Step
  <2>3. CASE RollbackPendingSave(s)
    <3>1. PICK w \in Windows : w = closing[s]
      BY <2>2, <2>3 DEF RollbackPendingSave, QueueInv, HandInv
    <3>2. SettleSave(s, w) /\ fatal' = fatal
      BY <2>3, <3>1 DEF RollbackPendingSave
    <3> QED
      BY <2>2, <3>2, ReadySettle
  <2> QED
    BY <2>1, <2>2, <2>3, ReadySend, ReadyWrites DEF SenderStep
<1>2. CASE \E w \in Windows : HandleReplySaveChanges(w)
  <2>1. PICK w \in Windows : HandleReplySaveChanges(w)
    BY <1>2
  <2>2. Receiver \in Actors /\ Step(Receiver) /\ SettleSave(Receiver, w) /\ fatal' = fatal
    BY <2>1 DEF Actors, Step, ReceiverStep, HandleReplySaveChanges
  <2> QED
    BY <2>2, ReadySettle
<1>3. CASE ReceiverStep /\ ~\E w \in Windows : HandleReplySaveChanges(w)
  <2>1. Receiver \in Actors
    BY DEF Actors
  <2>2. CASE FlushSucceeds \/ FlushFails
    BY <2>1, <2>2, ReadyWrites
  <2> QED
    BY <1>3, <2>2, ReadyReceive DEF ReceiverStep
<1>4. CASE (\E x \in Subscribers : SubscriberStep(x)) \/ UNCHANGED vars
  <2>1. UNCHANGED <<pc, hand, closing, pendingCloses, unanswered, fatal>>
    BY <1>4 DEF SubscriberStep, Subscribe, Unsubscribe, Consume, fields, marks, vars
  <2> QED
    BY <2>1 DEF ReadyInv, ClearOf, TracksSave
<1> QED
  BY <1>1, <1>2, <1>3, <1>4, ReadyWrites DEF Next

LEMMA ReadyInvariant == Spec => []ReadyInv
<1>1. Init => ReadyInv
  <2>1. Range(<<>>) = {}
    BY DEF Range
  <2> QED
    BY <2>1 DEF Init, ReadyInv
<1>2. QueueInv /\ QueueInv' /\ SavesInv' /\ GateInv /\ ReadyInv /\ [Next]_vars => ReadyInv'
  BY ReadyStep
<1> QED
  BY <1>1, <1>2, QueueInvariant, SavesInvariant, GateInvariant, PTL DEF Spec

\* Until a fatal signal, a CloseWindow is written only when every SaveChanges
\* of its window accepted before it has been answered or has failed, although
\* the decision to write it was taken before the write, by whichever goroutine
\* writes it.
THEOREM ClosesAfterSaves == Spec => CloseAfterEarlierSaves
<1>1. ASSUME QueueInv, ReadyInv, [Next]_vars
      PROVE  [~fatal => \A c \in Writes :
                 c.name = "CloseWindow" /\ c.win # NoWindow => SavesBefore(c) = {}]_vars
  <2> SUFFICES ASSUME ~fatal, NEW c \in Writes, IsClose(c) PROVE SavesBefore(c) = {}
    BY DEF IsClose
  <2>1. \E a \in Actors : c \in Range(hand[a])
    <3>1. \E a \in Actors : pc[a] \in {"write", "closes", "flush"} /\ c = Head(hand[a])
      BY <1>1 DEF Writes, Next, SenderStep, CloseStep, ReceiverStep, SubscriberStep, SendCommand,
         DeferClose, Enqueue, DecideWrite, WriteSucceeds, WriteFails, RollbackPendingSave,
         CloseSucceeds, CloseFails, HandlePromptType, FlushSucceeds, FlushFails,
         HandleReplySaveChanges, HandleHadError, HandleFatal, HandleOther, Publish, StopReading,
         Subscribe, Unsubscribe, Consume, Deliver, vars, Actors
    <3>2. PICK a \in Actors : pc[a] \in {"write", "closes", "flush"} /\ c = Head(hand[a])
      BY <3>1
    <3>3. hand[a] \in Seq(Command) /\ hand[a] # <<>>
      BY <1>1, <3>2 DEF QueueInv, TypeOK, HandInv
    <3> QED
      BY <3>2, <3>3, RangeOps
  <2>2. ClearOf(c.win, c.id)
    BY <1>1, <2>1 DEF ReadyInv
  <2> QED
    BY <2>2 DEF ClearOf, SavesBefore, SavesInFlight
<1> QED
  BY <1>1, QueueInvariant, ReadyInvariant, PTL DEF Spec, CloseAfterEarlierSaves

=============================================================================

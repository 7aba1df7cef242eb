--------------------------- MODULE TracerProofs ----------------------------
(***************************************************************************)
(* Proofs about Tracer: type correctness, the ids of the thread list, the  *)
(* window of the control requests, the thread of a stop, and that the      *)
(* stacks follow the interpreter.                                          *)
(***************************************************************************)
EXTENDS Tracer, FiniteSetTheorems, SequenceTheorems, WellFoundedInduction, TLAPS

-----------------------------------------------------------------------------
(* Types. *)

LEMMA Constants ==
    /\ Tids \subseteq Nat /\ 0 \in Tids /\ Closed \notin Tids /\ NoWindow \notin Windows
    /\ \A t \in Threads : t \in Nat /\ 0 < t /\ t < FirstSyntheticID
BY WindowsAssumption, ThreadsAssumption DEF Tids, Closed

LEMMA StopsDiffer == \A s \in Stop : s # <<>> /\ s.win \in Windows \cup {NoWindow}
BY DEF Stop

\* What a message says.
LEMMA Fields ==
    ASSUME NEW x \in Message
    PROVE  /\ x.type \in {"open", "update"} => x.win \in Windows /\ x.tid \in Tids
           /\ x.type \in {"close", "highlight"} => x.win \in Windows
           /\ x.type = "setThread" => x.tid \in Tids
           /\ x.type = "threads" => x.list \in Reply
BY DEF Message

LEMMA MessagesTyped ==
    /\ \A w \in Windows, t \in Tids :
         /\ [type |-> "open", win |-> w, tid |-> t] \in Message
         /\ [type |-> "update", win |-> w, tid |-> t] \in Message
    /\ \A w \in Windows : /\ [type |-> "close", win |-> w] \in Message
                          /\ [type |-> "highlight", win |-> w] \in Message
    /\ \A t \in Tids : [type |-> "setThread", tid |-> t] \in Message
    /\ \A l \in Reply : [type |-> "threads", list |-> l] \in Message
    /\ [type |-> "error"] \in Message /\ [type |-> "fatal"] \in Message
BY DEF Message

Opened == [win : Windows, tid : Tids]

\* The channel has no more than its room.
Typed == RestTyped /\ Len(channel) <= Capacity

LEMMA PublishTyped ==
    ASSUME Typed, NEW sent \in Seq(Message), Publish(sent)
    PROVE  /\ channel' \in Seq(Message) /\ Len(channel') <= Capacity
           /\ messages' \in Nat
           /\ Len(sent) <= Capacity - Len(channel) => channel' = channel \o sent
           /\ disturbed' \/ Len(sent) <= Capacity - Len(channel)
<1> DEFINE room == Capacity - Len(channel)
           n == IF Len(sent) > room THEN room ELSE Len(sent)
<1>1. channel \in Seq(Message) /\ Len(channel) \in Nat /\ Len(channel) <= Capacity /\ Capacity \in Nat
  BY BoundsAssumption DEF Typed, RestTyped
<1>2. Len(sent) \in Nat /\ n \in 0..Len(sent) /\ n <= room
  BY <1>1
<1>3. channel' = channel \o SubSeq(sent, 1, n)
  BY DEF Publish
<1>4. SubSeq(sent, 1, n) \in Seq(Message) /\ Len(SubSeq(sent, 1, n)) = n
  BY <1>2
<1>5. n = Len(sent) => SubSeq(sent, 1, n) = sent
  BY <1>2
<1>6. channel' \in Seq(Message) /\ Len(channel') = Len(channel) + n
  BY <1>1, <1>3, <1>4
<1>7. messages' \in Nat
  BY DEF Publish, Typed, RestTyped
<1>8. disturbed' \/ Len(sent) <= room
  BY <1>1, <1>2 DEF Publish
<1> QED
  BY <1>1, <1>2, <1>3, <1>5, <1>6, <1>7, <1>8

LEMMA OneTyped ==
    ASSUME NEW x \in Message
    PROVE  <<x>> \in Seq(Message) /\ Len(<<x>>) = 1
OBVIOUS

\* What the interpreter sends.
LEMMA SentTyped ==
    ASSUME Typed, Interpreter
    PROVE  \E sent \in Seq(Message) : Publish(sent)
<1>1. stack \in Seq(Opened)
  BY DEF Typed, RestTyped, Opened
<1>2. \A i \in DOMAIN stack : stack[i].win \in Windows /\ stack[i].tid \in Tids
  <2>1. \A i \in DOMAIN stack : stack[i] \in Opened
    BY <1>1
  <2> QED
    BY <2>1 DEF Opened
<1>3. ASSUME NEW x \in Message, Publish(<<x>>)
      PROVE  \E sent \in Seq(Message) : Publish(sent)
  BY <1>3, OneTyped
<1>4. CASE OpensWindow
  BY <1>3, <1>4, MessagesTyped DEF OpensWindow, OpenMessage
<1>5. CASE UpdatesWindow
  BY <1>2, <1>3, <1>5, MessagesTyped, Constants DEF UpdatesWindow
<1>6. CASE Highlights
  BY <1>2, <1>3, <1>6, MessagesTyped DEF Highlights
<1>7. CASE ClosesWindow
  BY <1>2, <1>3, <1>7, MessagesTyped DEF ClosesWindow
<1>8. CASE OtherMessage
  BY <1>3, <1>8, MessagesTyped DEF OtherMessage
<1>9. CASE AnswersGetThreads
  BY <1>3, <1>9, MessagesTyped DEF AnswersGetThreads
<1>10. CASE AnswersGetWindowLayout
  <2>1. \A i \in DOMAIN stack : OpenMessage(stack[i]) \in Message
    BY <1>2, MessagesTyped DEF OpenMessage
  <2>2. DOMAIN stack = 1..Len(stack) /\ Len(stack) \in Nat
    BY <1>1
  <2>3. [i \in DOMAIN stack |-> OpenMessage(stack[i])] \in Seq(Message)
    BY <2>1, <2>2
  <2> QED
    BY <1>10, <2>3 DEF AnswersGetWindowLayout
<1> QED
  BY <1>4, <1>5, <1>6, <1>7, <1>8, <1>9, <1>10 DEF Interpreter

LEMMA StackTyped ==
    ASSUME Typed, Interpreter
    PROVE  stack' \in Seq(Opened)
<1>1. stack \in Seq(Opened)
  BY DEF Typed, RestTyped, Opened
<1>2. CASE OpensWindow
  <2>1. PICK w \in Windows, t \in Tids : stack' = Append(stack, [win |-> w, tid |-> t])
    BY <1>2 DEF OpensWindow
  <2>2. [win |-> w, tid |-> t] \in Opened
    BY DEF Opened
  <2> QED
    BY <1>1, <2>1, <2>2
<1>3. CASE ClosesWindow
  <2>1. PICK i \in DOMAIN stack : stack' = RemoveAt(stack, i)
    BY <1>3 DEF ClosesWindow
  <2>2. i \in 1..Len(stack) /\ Len(stack) \in Nat
    BY <1>1
  <2>3. SubSeq(stack, 1, i - 1) \in Seq(Opened) /\ SubSeq(stack, i + 1, Len(stack)) \in Seq(Opened)
    BY <1>1, <2>2
  <2> QED
    BY <2>1, <2>3 DEF RemoveAt
<1>4. CASE ~OpensWindow /\ ~ClosesWindow
  BY <1>1, <1>4 DEF Interpreter, UpdatesWindow, Highlights, OtherMessage, AnswersGetThreads,
                    AnswersGetWindowLayout
<1> QED
  BY <1>2, <1>3, <1>4

LEMMA InterpreterTyped ==
    ASSUME Typed, Interpreter
    PROVE  Typed'
<1>1. channel' \in Seq(Message) /\ Len(channel') <= Capacity /\ messages' \in Nat
  BY SentTyped, PublishTyped
<1>2. stack' \in Seq(Opened)
  BY StackTyped
<1>3. UNCHANGED <<attached, tracer, active, threads, stop, told, polls>>
  BY SentTyped DEF Publish
<1>4. asked' \in Nat
  <2>1. asked' = asked \/ (asked > 0 /\ asked' = asked - 1)
    BY DEF Interpreter, OpensWindow, UpdatesWindow, Highlights, ClosesWindow, OtherMessage,
           AnswersGetThreads, AnswersGetWindowLayout
  <2>2. asked \in Nat
    BY DEF Typed, RestTyped
  <2> QED
    BY <2>1, <2>2
<1>5. layoutAsked' \in BOOLEAN
  <2>1. layoutAsked' = layoutAsked \/ layoutAsked' = FALSE
    BY DEF Interpreter, OpensWindow, UpdatesWindow, Highlights, ClosesWindow, OtherMessage,
           AnswersGetThreads, AnswersGetWindowLayout
  <2>2. layoutAsked \in BOOLEAN
    BY DEF Typed, RestTyped
  <2> QED
    BY <2>1, <2>2
<1>6. disturbed' \in BOOLEAN
  BY SentTyped DEF Publish
<1> QED
  BY <1>1, <1>2, <1>3, <1>4, <1>5, <1>6 DEF tracer, active, threads, Opened, Typed, RestTyped

LEMMA TakesTyped ==
    ASSUME Typed, NEW type, Takes(type)
    PROVE  /\ Taken \in Message /\ Taken.type = type
           /\ channel' \in Seq(Message) /\ Len(channel') <= Capacity
<1>1. channel \in Seq(Message) /\ channel # <<>> /\ channel' = Tail(channel)
  BY DEF Typed, RestTyped, Takes
<1>2. Head(channel) \in Message /\ Tail(channel) \in Seq(Message) /\ Len(Tail(channel)) = Len(channel) - 1
  BY <1>1
<1> QED
  BY <1>1, <1>2, BoundsAssumption DEF Taken, Takes, Typed

\* The windows of the tracer.
LEMMA ViewTyped ==
    ASSUME Typed, NEW w \in Windows
    PROVE  /\ \A t \in Tids : WithWindow(View, w, t).windows \in [Windows -> Tids \cup {Closed}]
           /\ WithoutWindow(View, w).windows \in [Windows -> Tids \cup {Closed}]
<1>1. tracerWindows \in [Windows -> Tids \cup {Closed}]
  BY DEF Typed, RestTyped
<1> QED
  BY <1>1 DEF WithWindow, WithoutWindow, View

LEMMA ThreadTyped ==
    ASSUME Typed
    PROVE  /\ CurrentThread \in Tids
           /\ \A w \in Windows : ThreadOf(w) \in Tids
BY Constants DEF Typed, RestTyped, CurrentThread, ThreadOf

LEMMA TypeInit == Init => Typed
<1> SUFFICES ASSUME Init PROVE Typed
  OBVIOUS
<1>1. /\ <<>> \in Seq(Nat) /\ <<>> \in Seq(Message) /\ <<>> \in Seq(Opened) /\ Len(<<>>) = 0
      /\ TRUE \in BOOLEAN /\ FALSE \in BOOLEAN
  OBVIOUS
<1>2. NoStop \in Stop
  BY Constants DEF NoStop, Stop
<1>3. attached \in BOOLEAN /\ layoutAsked \in BOOLEAN /\ disturbed \in BOOLEAN
  BY DEF Init
<1>4. 0 \in 0..MaxPolls
  BY BoundsAssumption
<1>5. RestTyped
  BY <1>1, <1>2, <1>3, <1>4, Constants, ThreadsAssumption DEF Init, RestTyped, Opened
<1>6. Len(channel) <= Capacity
  BY <1>1, BoundsAssumption DEF Init
<1> QED
  BY <1>5, <1>6 DEF Typed

-----------------------------------------------------------------------------
(* The list of threads.                                                    *)

LEMMA EntryKinds ==
    \A e \in Entry : \/ HasID(e) /\ e.tid \in Threads /\ e = [tid |-> e.tid]
                     \/ ~HasID(e) /\ e.name \in Names /\ e = [name |-> e.name]
BY DEF Entry, HasID

LEMMA SameEntry ==
    ASSUME NEW e \in Entry, NEW f \in Entry
    PROVE  e = f <=> \/ HasID(e) /\ HasID(f) /\ e.tid = f.tid
                     \/ ~HasID(e) /\ ~HasID(f) /\ e.name = f.name
BY EntryKinds

LEMMA ReplyTyped ==
    ASSUME NEW list \in Reply
    PROVE  /\ \A i \in DOMAIN list : list[i] \in Entry /\ i \in Nat
           /\ \E n \in 0..2 : DOMAIN list = 1..n
<1>1. PICK n \in 0..2 : list \in [1..n -> Entry]
  BY DEF Reply
<1> QED
  BY <1>1

\* The places of new names are finitely many, and earlier ones are fewer.
LEMMA Places ==
    ASSUME NEW list \in Reply
    PROVE  /\ IsFiniteSet(Fresh(list)) /\ Cardinality(Fresh(list)) \in Nat
           /\ \A i \in Fresh(list) :
                /\ Cardinality({j \in Fresh(list) : j < i}) \in Nat
                /\ Cardinality({j \in Fresh(list) : j < i}) < Cardinality(Fresh(list))
           /\ \A i, k \in Fresh(list) : i < k =>
                Cardinality({j \in Fresh(list) : j < i}) < Cardinality({j \in Fresh(list) : j < k})
<1>1. PICK n \in 0..2 : DOMAIN list = 1..n
  BY ReplyTyped
<1>2. IsFiniteSet(1..n)
  BY FS_Interval
<1>3. Fresh(list) \subseteq 1..n
  BY <1>1 DEF Fresh
<1>4. IsFiniteSet(Fresh(list)) /\ Cardinality(Fresh(list)) \in Nat
  BY <1>2, <1>3, FS_Subset, FS_CardinalityType
<1>5. ASSUME NEW S, NEW R, S \subseteq R, R \subseteq Fresh(list), NEW x \in R, x \notin S
      PROVE  IsFiniteSet(S) /\ Cardinality(S) \in Nat /\ Cardinality(S) < Cardinality(R)
  <2>1. IsFiniteSet(R)
    BY <1>4, <1>5, FS_Subset
  <2>2. IsFiniteSet(S) /\ Cardinality(S) <= Cardinality(R) /\ (Cardinality(S) = Cardinality(R) => S = R)
    BY <1>5, <2>1, FS_Subset
  <2>3. Cardinality(S) \in Nat /\ Cardinality(R) \in Nat
    BY <2>1, <2>2, FS_CardinalityType
  <2> QED
    BY <1>5, <2>2, <2>3
<1>6. ASSUME NEW i \in Fresh(list)
      PROVE  /\ Cardinality({j \in Fresh(list) : j < i}) \in Nat
             /\ Cardinality({j \in Fresh(list) : j < i}) < Cardinality(Fresh(list))
  <2> DEFINE before == {j \in Fresh(list) : j < i}
  <2>1. before \subseteq Fresh(list) /\ i \notin before
    BY <1>3
  <2> HIDE DEF before
  <2>2. Cardinality(before) \in Nat /\ Cardinality(before) < Cardinality(Fresh(list))
    BY <1>5, <2>1
  <2> QED
    BY <2>2 DEF before
<1>7. ASSUME NEW i \in Fresh(list), NEW k \in Fresh(list), i < k
      PROVE  Cardinality({j \in Fresh(list) : j < i}) < Cardinality({j \in Fresh(list) : j < k})
  <2> DEFINE S == {j \in Fresh(list) : j < i}
             R == {j \in Fresh(list) : j < k}
  <2>1. S \subseteq R /\ R \subseteq Fresh(list) /\ i \in R /\ i \notin S
    BY <1>3, <1>7
  <2> HIDE DEF S, R
  <2>2. Cardinality(S) < Cardinality(R)
    BY <1>5, <2>1
  <2> QED
    BY <2>2 DEF S, R
<1> QED
  BY <1>4, <1>6, <1>7

\* Every name in the list has an id or one place among the new ones.
LEMMA NamesPlaced ==
    ASSUME Typed, NEW list \in Reply
    PROVE  /\ Fresh(list) \subseteq Nat
           /\ \A i, k \in Fresh(list) : list[i].name = list[k].name => i = k
           /\ \A i \in Fresh(list) : list[i].name \in Names /\ syntheticThreadIDs[list[i].name] = 0
           /\ \A i \in DOMAIN list : ~HasID(list[i]) =>
                \/ syntheticThreadIDs[list[i].name] # 0
                \/ \E k \in Fresh(list) : list[k].name = list[i].name
<1>1. PICK n \in 0..2 : DOMAIN list = 1..n
  BY ReplyTyped
<1>2. \A i \in DOMAIN list : list[i] \in Entry
  BY ReplyTyped
<1>3. \A i \in Fresh(list) : i \in 1..n /\ ~HasID(list[i]) /\ list[i].name \in Names
  BY <1>1, <1>2, EntryKinds DEF Fresh
<1>4. ASSUME NEW i \in Fresh(list), NEW k \in Fresh(list), list[i].name = list[k].name
      PROVE  i = k
  <2>1. list[i] = list[k]
    BY <1>1, <1>2, <1>3, <1>4, SameEntry
  <2>2. ~(i < k) /\ ~(k < i)
    BY <1>3, <2>1 DEF Fresh
  <2> QED
    BY <1>3, <2>2
<1>5. ASSUME NEW i \in DOMAIN list, ~HasID(list[i]), syntheticThreadIDs[list[i].name] = 0
      PROVE  \E k \in Fresh(list) : list[k].name = list[i].name
  <2>1. CASE \A j \in 1..(i - 1) : list[j] # list[i]
    BY <1>5, <2>1 DEF Fresh
  <2>2. CASE \E j \in 1..(i - 1) : list[j] = list[i]
    <3>1. PICK j \in 1..(i - 1) : list[j] = list[i]
      BY <2>2
    <3>2. j = 1 /\ j \in DOMAIN list
      BY <1>1, <3>1
    <3>3. j \in Fresh(list)
      BY <1>5, <3>1, <3>2 DEF Fresh
    <3> QED
      BY <3>1, <3>3
  <2> QED
    BY <2>1, <2>2
<1> QED
  BY <1>3, <1>4, <1>5 DEF Fresh

\* The ids a reply gives: to every new name one that nobody had.
LEMMA GivesIDs ==
    ASSUME Typed, HandleReplyGetThreads
    PROVE  /\ Taken.list \in Reply
           /\ syntheticThreadIDs' \in [Names -> Nat]
           /\ nextSyntheticID' \in Nat /\ nextSyntheticID <= nextSyntheticID'
           /\ \A n \in Names :
                \/ /\ syntheticThreadIDs'[n] = syntheticThreadIDs[n]
                   /\ ~\E i \in Fresh(Taken.list) : Taken.list[i].name = n
                \/ /\ syntheticThreadIDs[n] = 0
                   /\ nextSyntheticID <= syntheticThreadIDs'[n]
                   /\ syntheticThreadIDs'[n] < nextSyntheticID'
                   /\ \E i \in Fresh(Taken.list) :
                        Taken.list[i].name = n /\ syntheticThreadIDs'[n] = NewID(Taken.list, i)
           /\ \A i, k \in Fresh(Taken.list) :
                NewID(Taken.list, i) = NewID(Taken.list, k) => i = k
<1> DEFINE list == Taken.list
<1>1. list \in Reply
  <2>1. Takes("threads")
    BY DEF HandleReplyGetThreads
  <2>2. Taken \in Message /\ Taken.type = "threads"
    BY <2>1, TakesTyped
  <2> QED
    BY <2>2, Fields
<1>2. nextSyntheticID \in Nat /\ syntheticThreadIDs \in [Names -> Nat]
  BY DEF Typed, RestTyped
<1>3. /\ nextSyntheticID' = nextSyntheticID + Cardinality(Fresh(list))
      /\ syntheticThreadIDs' =
            [n \in Names |-> IF \E i \in Fresh(list) : list[i].name = n
                             THEN NewID(list, CHOOSE i \in Fresh(list) : list[i].name = n)
                             ELSE syntheticThreadIDs[n]]
  BY DEF HandleReplyGetThreads
<1> HIDE DEF list
<1>4. \A i \in Fresh(list) :
        /\ NewID(list, i) \in Nat /\ nextSyntheticID <= NewID(list, i)
        /\ NewID(list, i) < nextSyntheticID'
  BY <1>1, <1>2, <1>3, Places DEF NewID
<1>5. \A i, k \in Fresh(list) : NewID(list, i) = NewID(list, k) => i = k
  <2>1. ASSUME NEW i \in Fresh(list), NEW k \in Fresh(list), i < k
        PROVE  NewID(list, i) # NewID(list, k)
    <3>1. /\ Cardinality({j \in Fresh(list) : j < i}) \in Nat
          /\ Cardinality({j \in Fresh(list) : j < k}) \in Nat
      BY <1>1, Places
    <3>2. Cardinality({j \in Fresh(list) : j < i}) < Cardinality({j \in Fresh(list) : j < k})
      BY <1>1, <2>1, Places
    <3> QED
      BY <1>2, <3>1, <3>2 DEF NewID
  <2>2. \A i, k \in Fresh(list) : i < k \/ k < i \/ i = k
    BY <1>1, NamesPlaced
  <2> QED
    BY <2>1, <2>2
<1>6. ASSUME NEW n \in Names
      PROVE  /\ syntheticThreadIDs'[n] \in Nat
             /\ \/ /\ syntheticThreadIDs'[n] = syntheticThreadIDs[n]
                   /\ ~\E i \in Fresh(list) : list[i].name = n
                \/ /\ syntheticThreadIDs[n] = 0
                   /\ nextSyntheticID <= syntheticThreadIDs'[n]
                   /\ syntheticThreadIDs'[n] < nextSyntheticID'
                   /\ \E i \in Fresh(list) :
                        list[i].name = n /\ syntheticThreadIDs'[n] = NewID(list, i)
  <2>1. CASE ~\E i \in Fresh(list) : list[i].name = n
    BY <1>2, <1>3, <2>1
  <2>2. CASE \E i \in Fresh(list) : list[i].name = n
    <3> DEFINE c == CHOOSE i \in Fresh(list) : list[i].name = n
    <3>1. c \in Fresh(list) /\ list[c].name = n
      BY <2>2
    <3>2. syntheticThreadIDs'[n] = NewID(list, c)
      BY <1>3, <2>2
    <3>3. syntheticThreadIDs[n] = 0
      BY <1>1, <3>1, NamesPlaced
    <3> HIDE DEF c
    <3> QED
      BY <1>4, <3>1, <3>2, <3>3
  <2> QED
    BY <2>1, <2>2
<1>7. syntheticThreadIDs' \in [Names -> Nat]
  BY <1>3, <1>6
<1>8. nextSyntheticID' \in Nat /\ nextSyntheticID <= nextSyntheticID'
  BY <1>1, <1>2, <1>3, Places
<1> QED
  BY <1>1, <1>3, <1>5, <1>6, <1>7, <1>8 DEF list

\* The list of threads has the ids, and every name keeps its own.
IdsInv ==
    /\ FirstSyntheticID <= nextSyntheticID
    /\ \A n \in Names : syntheticThreadIDs[n] # 0 =>
         FirstSyntheticID <= syntheticThreadIDs[n] /\ syntheticThreadIDs[n] < nextSyntheticID
    /\ \A n, m \in Names :
         syntheticThreadIDs[n] = syntheticThreadIDs[m] /\ syntheticThreadIDs[n] # 0 => n = m
    /\ \A g \in given :
         IF HasID(g.of) THEN g.id = g.of.tid
         ELSE /\ g.id = syntheticThreadIDs[g.of.name]
              /\ syntheticThreadIDs[g.of.name] # 0

LEMMA IdsInit == Init => IdsInv
BY ThreadsAssumption DEF Init, IdsInv

LEMMA ReplyKeepsIds ==
    ASSUME Typed, IdsInv, HandleReplyGetThreads
    PROVE  IdsInv' /\ threadOrder' \in Seq(Nat) /\ given' \in SUBSET Given
<1> DEFINE list == Taken.list
<1>1. list \in Reply
  BY GivesIDs
<1>2. /\ threadOrder' = [i \in DOMAIN list |-> IF HasID(list[i]) THEN list[i].tid
                                               ELSE syntheticThreadIDs'[list[i].name]]
      /\ given' = given \cup {[of |-> list[i], id |-> threadOrder'[i]] : i \in DOMAIN list}
  BY DEF HandleReplyGetThreads
<1>3. /\ nextSyntheticID \in Nat /\ FirstSyntheticID \in Nat /\ FirstSyntheticID > 0
      /\ FirstSyntheticID <= nextSyntheticID /\ syntheticThreadIDs \in [Names -> Nat]
  BY ThreadsAssumption DEF Typed, RestTyped, IdsInv
<1>4. /\ syntheticThreadIDs' \in [Names -> Nat]
      /\ nextSyntheticID' \in Nat /\ nextSyntheticID <= nextSyntheticID'
  BY GivesIDs
<1>5. \A n \in Names :
        \/ /\ syntheticThreadIDs'[n] = syntheticThreadIDs[n]
           /\ ~\E i \in Fresh(list) : list[i].name = n
        \/ /\ syntheticThreadIDs[n] = 0
           /\ nextSyntheticID <= syntheticThreadIDs'[n]
           /\ syntheticThreadIDs'[n] < nextSyntheticID'
           /\ \E i \in Fresh(list) : list[i].name = n /\ syntheticThreadIDs'[n] = NewID(list, i)
  BY GivesIDs
<1>6. \A i, k \in Fresh(list) : NewID(list, i) = NewID(list, k) => i = k
  BY GivesIDs
<1> HIDE DEF list
<1>7. ASSUME NEW n \in Names, syntheticThreadIDs'[n] # 0
      PROVE  /\ FirstSyntheticID <= syntheticThreadIDs'[n]
             /\ syntheticThreadIDs'[n] < nextSyntheticID'
  BY <1>3, <1>4, <1>5, <1>7 DEF IdsInv
<1>8. ASSUME NEW n \in Names, NEW k \in Names, syntheticThreadIDs'[n] = syntheticThreadIDs'[k],
             syntheticThreadIDs'[n] # 0
      PROVE  n = k
  <2>1. CASE syntheticThreadIDs'[n] = syntheticThreadIDs[n]
             /\ syntheticThreadIDs'[k] = syntheticThreadIDs[k]
    BY <1>8, <2>1 DEF IdsInv
  <2>2. CASE /\ \E i \in Fresh(list) : list[i].name = n /\ syntheticThreadIDs'[n] = NewID(list, i)
             /\ \E i \in Fresh(list) : list[i].name = k /\ syntheticThreadIDs'[k] = NewID(list, i)
    BY <1>6, <1>8, <2>2
  <2> QED
    BY <1>3, <1>4, <1>5, <1>8, <2>1, <2>2 DEF IdsInv
<1>9. ASSUME NEW i \in DOMAIN list
      PROVE  /\ threadOrder'[i] \in Nat
             /\ IF HasID(list[i]) THEN threadOrder'[i] = list[i].tid
                ELSE /\ threadOrder'[i] = syntheticThreadIDs'[list[i].name]
                     /\ syntheticThreadIDs'[list[i].name] # 0
  <2>1. list[i] \in Entry
    BY <1>1, ReplyTyped
  <2>2. CASE HasID(list[i])
    BY <1>2, <2>1, <2>2, EntryKinds, Constants
  <2>3. CASE ~HasID(list[i])
    <3>1. list[i].name \in Names
      BY <2>1, <2>3, EntryKinds
    <3>2. syntheticThreadIDs'[list[i].name] # 0
      BY <1>1, <1>3, <1>4, <1>5, <2>3, <3>1, NamesPlaced
    <3> QED
      BY <1>2, <1>4, <2>3, <3>1, <3>2
  <2> QED
    BY <2>2, <2>3
<1>10. threadOrder' \in Seq(Nat)
  <2>1. PICK n \in 0..2 : DOMAIN list = 1..n
    BY <1>1, ReplyTyped
  <2>2. threadOrder' \in [1..n -> Nat]
    BY <1>2, <1>9, <2>1
  <2> QED
    BY <2>2
<1>11. ASSUME NEW g \in given'
       PROVE  /\ g \in Given
              /\ IF HasID(g.of) THEN g.id = g.of.tid
                 ELSE /\ g.id = syntheticThreadIDs'[g.of.name]
                      /\ syntheticThreadIDs'[g.of.name] # 0
  <2>1. CASE g \in given
    <3>1. g \in Given /\ g.of \in Entry
      BY <2>1 DEF Typed, RestTyped, Given
    <3>2. CASE HasID(g.of)
      BY <2>1, <3>1, <3>2 DEF IdsInv
    <3>3. CASE ~HasID(g.of)
      <4>1. g.id = syntheticThreadIDs[g.of.name] /\ syntheticThreadIDs[g.of.name] # 0
        BY <2>1, <3>3 DEF IdsInv
      <4>2. g.of.name \in Names
        BY <3>1, <3>3, EntryKinds
      <4>3. syntheticThreadIDs'[g.of.name] = syntheticThreadIDs[g.of.name]
        BY <1>5, <4>1, <4>2
      <4> QED
        BY <3>1, <3>3, <4>1, <4>3
    <3> QED
      BY <3>2, <3>3
  <2>2. CASE g \notin given
    <3>1. PICK i \in DOMAIN list : g = [of |-> list[i], id |-> threadOrder'[i]]
      BY <1>2, <2>2
    <3>2. list[i] \in Entry
      BY <1>1, ReplyTyped
    <3> QED
      BY <1>9, <3>1, <3>2 DEF Given
  <2> QED
    BY <2>1, <2>2
<1>12. IdsInv'
  BY <1>3, <1>4, <1>7, <1>8, <1>11 DEF IdsInv
<1> QED
  BY <1>10, <1>11, <1>12

LEMMA IdsStep == Typed /\ IdsInv /\ [Next]_vars => IdsInv'
<1> SUFFICES ASSUME Typed, IdsInv, [Next]_vars PROVE IdsInv'
  OBVIOUS
<1>1. CASE UNCHANGED threads
  BY <1>1 DEF threads, IdsInv
<1>2. CASE Interpreter
  BY <1>1, <1>2, SentTyped DEF Publish
<1>3. CASE BridgeStep
  <2>1. CASE HandleReplyGetThreads
    BY <2>1, ReplyKeepsIds
  <2>2. CASE ~HandleReplyGetThreads
    BY <1>1, <1>3, <2>2 DEF BridgeStep, HandleOpenWindow, HandleUpdateWindow,
       HandleSetHighlightLine, HandleCloseWindow, HandleSetThread, HandleHadError, HandleFatal,
       TellStop, Bridge
  <2> QED
    BY <2>1, <2>2
<1>4. CASE MainStep
  <2>1. CASE Reconnect
    <3>1. UNCHANGED <<syntheticThreadIDs, nextSyntheticID, given>>
      BY <2>1 DEF Reconnect
    <3> QED
      BY <3>1 DEF IdsInv
  <2>2. CASE ~Reconnect
    BY <1>1, <1>4, <2>2 DEF MainStep, RequestThreads, Disconnect, Main
  <2> QED
    BY <2>1, <2>2
<1>5. CASE UNCHANGED vars
  BY <1>1, <1>5 DEF vars
<1> QED
  BY <1>2, <1>3, <1>4, <1>5 DEF Next

\* Types: what the bridge does.
Changed ==
    /\ attached' \in BOOLEAN
    /\ tracerWindows' \in [Windows -> Tids \cup {Closed}]
    /\ activeTracer' \in Windows \cup {NoWindow} /\ activeThread' \in Tids
    /\ stop' \in Stop \cup {<<>>} /\ told' \in Stop
    /\ channel' \in Seq(Message) /\ Len(channel') <= Capacity

LEMMA StopTyped ==
    ASSUME NEW w \in Windows \cup {NoWindow}, activeThread' \in Tids,
           tracerWindows' \in [Windows -> Tids \cup {Closed}],
           activeTracer' \in Windows \cup {NoWindow}, StopIn(w)
    PROVE  stop' \in Stop
<1>1. CurrentThread' \in Tids
  BY Constants DEF CurrentThread, ThreadOf
<1> QED
  BY <1>1 DEF StopIn, Stop

LEMMA BridgeTyped ==
    ASSUME Typed, BridgeStep, ~HandleReplyGetThreads
    PROVE  Changed
<1>1. /\ attached \in BOOLEAN /\ tracerWindows \in [Windows -> Tids \cup {Closed}]
      /\ activeTracer \in Windows \cup {NoWindow} /\ activeThread \in Tids
      /\ stop \in Stop \cup {<<>>} /\ told \in Stop
      /\ channel \in Seq(Message) /\ Len(channel) <= Capacity
  BY DEF Typed, RestTyped
<1>2. CASE HandleOpenWindow
  <2>1. Takes("open")
    BY <1>2 DEF HandleOpenWindow
  <2>2. /\ Taken \in Message /\ Taken.type = "open" /\ channel' \in Seq(Message)
        /\ Len(channel') <= Capacity
    BY <2>1, TakesTyped
  <2>3. Taken.win \in Windows /\ Taken.tid \in Tids
    BY <2>2, Fields
  <2>4. tracerWindows' \in [Windows -> Tids \cup {Closed}]
    BY <1>2, <2>3, ViewTyped DEF HandleOpenWindow, SetView
  <2>5. activeThread' \in Tids
    BY <1>1, <1>2, <2>3, <2>4, Constants DEF HandleOpenWindow, ActivateThread, Closed
  <2>6. activeTracer' = Taken.win /\ StopIn(Taken.win) /\ attached' = attached /\ told' = told
    BY <1>2 DEF HandleOpenWindow, Bridge
  <2>7. stop' \in Stop
    BY <2>3, <2>4, <2>5, <2>6, StopTyped
  <2> QED
    BY <1>1, <2>2, <2>3, <2>4, <2>5, <2>6, <2>7 DEF Changed
<1>3. CASE HandleUpdateWindow
  <2>1. Takes("update")
    BY <1>3 DEF HandleUpdateWindow
  <2>2. /\ Taken \in Message /\ Taken.type = "update" /\ channel' \in Seq(Message)
        /\ Len(channel') <= Capacity
    BY <2>1, TakesTyped
  <2>3. tracerWindows' \in [Windows -> Tids \cup {Closed}]
    BY <1>3, <2>2, Fields, ViewTyped DEF HandleUpdateWindow, SetView
  <2>4. UNCHANGED <<attached, active, stop, told>>
    BY <1>3 DEF HandleUpdateWindow, Bridge
  <2> QED
    BY <1>1, <2>2, <2>3, <2>4 DEF Changed, active
<1>4. CASE HandleSetHighlightLine
  <2>1. Takes("highlight")
    BY <1>4 DEF HandleSetHighlightLine
  <2>2. /\ Taken \in Message /\ Taken.type = "highlight" /\ channel' \in Seq(Message)
        /\ Len(channel') <= Capacity
    BY <2>1, TakesTyped
  <2>3. Taken.win \in Windows
    BY <2>2, Fields
  <2>4. tracerWindows' \in [Windows -> Tids \cup {Closed}]
    BY <1>1, <1>4 DEF HandleSetHighlightLine, tracer
  <2>5. activeThread' \in Tids
    BY <1>1, <1>4, <2>3, ThreadTyped DEF HandleSetHighlightLine, ActivateThread
  <2>6. activeTracer' = Taken.win /\ StopIn(Taken.win) /\ attached' = attached /\ told' = told
    BY <1>4 DEF HandleSetHighlightLine, Bridge
  <2>7. stop' \in Stop
    BY <2>3, <2>4, <2>5, <2>6, StopTyped
  <2> QED
    BY <1>1, <2>2, <2>3, <2>4, <2>5, <2>6, <2>7 DEF Changed
<1>5. CASE HandleCloseWindow
  <2>1. Takes("close")
    BY <1>5 DEF HandleCloseWindow
  <2>2. /\ Taken \in Message /\ Taken.type = "close" /\ channel' \in Seq(Message)
        /\ Len(channel') <= Capacity
    BY <2>1, TakesTyped
  <2>3. tracerWindows' \in [Windows -> Tids \cup {Closed}]
    BY <1>1, <1>5, <2>2, Fields, ViewTyped DEF HandleCloseWindow, SetView, tracer
  <2>4. activeTracer' \in Windows \cup {NoWindow}
    BY <1>1, <1>5 DEF HandleCloseWindow
  <2>5. UNCHANGED <<attached, activeThread, stop, told>>
    BY <1>5 DEF HandleCloseWindow, Bridge
  <2> QED
    BY <1>1, <2>2, <2>3, <2>4, <2>5 DEF Changed
<1>6. CASE HandleSetThread
  <2>1. Takes("setThread")
    BY <1>6 DEF HandleSetThread
  <2>2. /\ Taken \in Message /\ Taken.type = "setThread" /\ channel' \in Seq(Message)
        /\ Len(channel') <= Capacity
    BY <2>1, TakesTyped
  <2>3. activeThread' \in Tids
    BY <1>1, <1>6, <2>2, Fields DEF HandleSetThread, ActivateThread
  <2>4. UNCHANGED <<attached, tracer, activeTracer, stop, told>>
    BY <1>6 DEF HandleSetThread, Bridge
  <2> QED
    BY <1>1, <2>2, <2>3, <2>4 DEF Changed, tracer
<1>7. CASE HandleHadError
  <2>1. Takes("error")
    BY <1>7 DEF HandleHadError
  <2>2. channel' \in Seq(Message) /\ Len(channel') <= Capacity
    BY <2>1, TakesTyped
  <2>3. UNCHANGED <<attached, tracer, active, told>> /\ StopIn(NoWindow)
    BY <1>7 DEF HandleHadError, Bridge
  <2>4. stop' \in Stop
    BY <1>1, <2>3, StopTyped DEF tracer, active
  <2> QED
    BY <1>1, <2>2, <2>3, <2>4 DEF Changed, tracer, active
<1>8. CASE HandleFatal
  <2>1. Takes("fatal")
    BY <1>8 DEF HandleFatal
  <2>2. channel' \in Seq(Message) /\ Len(channel') <= Capacity
    BY <2>1, TakesTyped
  <2>3. attached' = FALSE
    BY <1>8 DEF HandleFatal
  <2>4. attached' \in BOOLEAN
    BY <2>3
  <2> QED
    BY <1>1, <1>8, <2>2, <2>4, Constants DEF HandleFatal, Changed, tracer
<1>9. CASE TellStop
  BY <1>1, <1>9 DEF TellStop, Changed, tracer, active
<1> QED
  BY <1>2, <1>3, <1>4, <1>5, <1>6, <1>7, <1>8, <1>9 DEF BridgeStep

LEMMA TypeStep == Typed /\ IdsInv /\ [Next]_vars => Typed'
<1> SUFFICES ASSUME Typed, IdsInv, [Next]_vars PROVE Typed'
  OBVIOUS
<1>1. CASE Interpreter
  BY <1>1, InterpreterTyped
<1>2. CASE HandleReplyGetThreads
  <2>1. Takes("threads")
    BY <1>2 DEF HandleReplyGetThreads
  <2>2. channel' \in Seq(Message) /\ Len(channel') <= Capacity
    BY <2>1, TakesTyped
  <2>3. /\ threadOrder' \in Seq(Nat) /\ syntheticThreadIDs' \in [Names -> Nat]
        /\ nextSyntheticID' \in Nat /\ given' \in SUBSET Given
    BY <1>2, ReplyKeepsIds, GivesIDs
  <2>4. UNCHANGED <<attached, tracer, active, stop, told, stack, messages, requests, disturbed>>
    BY <1>2 DEF HandleReplyGetThreads
  <2> QED
    BY <2>2, <2>3, <2>4 DEF tracer, active, requests, Typed, RestTyped
<1>3. CASE BridgeStep /\ ~HandleReplyGetThreads
  <2>1. Changed
    BY <1>3, BridgeTyped
  <2>2. UNCHANGED <<threads, stack, messages, requests, disturbed>>
    BY <1>3 DEF BridgeStep, HandleOpenWindow, HandleUpdateWindow, HandleSetHighlightLine,
       HandleCloseWindow, HandleSetThread, HandleHadError, HandleFatal, TellStop, Bridge
  <2> QED
    BY <2>1, <2>2 DEF Changed, threads, requests, Typed, RestTyped
<1>4. CASE RequestThreads \/ Disconnect
  <2>1. attached' = attached \/ attached' = FALSE
    BY <1>4 DEF RequestThreads, Disconnect
  <2>2. attached' \in BOOLEAN
    BY <2>1 DEF Typed, RestTyped
  <2>3. polls' \in 0..MaxPolls /\ asked' \in Nat
    BY <1>4, BoundsAssumption DEF RequestThreads, Disconnect, requests, Typed, RestTyped
  <2>4. UNCHANGED <<Main, layoutAsked, disturbed>>
    BY <1>4 DEF RequestThreads, Disconnect, requests
  <2> QED
    BY <2>2, <2>3, <2>4 DEF Main, tracer, active, threads, Typed, RestTyped
<1>5. CASE Reconnect
  <2>1. attached' = TRUE /\ layoutAsked' = TRUE
    BY <1>5 DEF Reconnect
  <2>2. attached' \in BOOLEAN /\ layoutAsked' \in BOOLEAN
    BY <2>1
  <2>3. disturbed' \in BOOLEAN
    BY <1>5 DEF Reconnect
  <2>4. threadOrder' \in Seq(Nat)
    BY <1>5 DEF Reconnect
  <2>5. tracerWindows' \in [Windows -> Tids \cup {Closed}] /\ activeTracer' = NoWindow
        /\ activeThread' \in Tids
    BY <1>5, Constants DEF Reconnect
  <2>6. UNCHANGED <<syntheticThreadIDs, nextSyntheticID, given, channel, stop, told, stack,
                    messages, polls, asked>>
    BY <1>5 DEF Reconnect
  <2> QED
    BY <2>2, <2>3, <2>4, <2>5, <2>6 DEF Typed, RestTyped
<1>6. CASE UNCHANGED vars
  BY <1>6 DEF vars, tracer, active, threads, requests, Typed, RestTyped
<1> QED
  BY <1>1, <1>2, <1>3, <1>4, <1>5, <1>6 DEF Next, MainStep, BridgeStep

\* The ids in the lists of threads, over all of them, tell apart what the
\* interpreter tells apart.
THEOREM IdsTell == Spec => []IdsTellThreadsApart
<1>1. Init => Typed /\ IdsInv
  BY TypeInit, IdsInit
<1>2. Typed /\ IdsInv /\ [Next]_vars => (Typed /\ IdsInv)'
  BY TypeStep, IdsStep
<1>3. Typed /\ IdsInv => IdsTellThreadsApart
  <2> SUFFICES ASSUME Typed, IdsInv, NEW g \in given, NEW h \in given
               PROVE  g.id = h.id <=> g.of = h.of
    BY DEF IdsTellThreadsApart
  <2>1. syntheticThreadIDs \in [Names -> Nat] /\ g.of \in Entry /\ h.of \in Entry
    BY DEF Typed, RestTyped, Given
  <2>2. \A n \in Names : syntheticThreadIDs[n] # 0 => syntheticThreadIDs[n] \notin Threads
    BY <2>1, Constants, ThreadsAssumption DEF IdsInv
  <2> QED
    BY <2>1, <2>2, SameEntry, EntryKinds DEF IdsInv
<1> QED
  BY <1>1, <1>2, <1>3, PTL DEF Spec

-----------------------------------------------------------------------------
(* What the messages under way make of the windows.                        *)

About(x, w) == x.type \in {"open", "close"} /\ x.win = w

Quiet(ch, w, i, k) == \A j \in i..k : ~About(ch[j], w)

\* After i messages of the channel, window w is open in thread t.
Shows(known, ch, w, i, t) ==
    \/ known[w] = t /\ t # Closed /\ Quiet(ch, w, 1, i)
    \/ \E j \in 1..i : /\ ch[j].type = "open" /\ ch[j].win = w /\ ch[j].tid = t
                       /\ Quiet(ch, w, j + 1, i)

\* A message about a window that the channel shows, or will not show, there.
Apt(known, ch, i) ==
    /\ ch[i].type = "highlight" => \E t \in Tids : Shows(known, ch, ch[i].win, i - 1, t)
    /\ ch[i].type = "update" =>
         \E t \in Tids : Shows(known, ch, ch[i].win, i - 1, t) /\ ch[i].tid \in {0, t}
    /\ ch[i].type = "open" => \A t \in Tids : ~Shows(known, ch, ch[i].win, i - 1, t)

\* The channel leads from the windows the adapter knows to those of the
\* interpreter, and tells of no window that is not open.
ChannelInv ==
    /\ \A i, k \in DOMAIN stack : stack[i].win = stack[k].win => i = k
    /\ ~disturbed /\ layoutAsked =>
         channel = <<>> /\ \A w \in Windows : tracerWindows[w] = Closed
    /\ ~disturbed /\ ~layoutAsked =>
         /\ \A w \in Windows, t \in Tids :
              Shows(tracerWindows, channel, w, Len(channel), t)
              <=> \E i \in DOMAIN stack : stack[i].win = w /\ stack[i].tid = t
         /\ \A i \in DOMAIN channel : Apt(tracerWindows, channel, i)

LEMMA ShowsNow ==
    ASSUME NEW known, NEW ch, NEW w, NEW t
    PROVE  Shows(known, ch, w, 0, t) <=> known[w] = t /\ t # Closed
BY DEF Shows, Quiet

LEMMA OneThread ==
    ASSUME NEW known, NEW ch, NEW w, NEW i \in Nat, NEW t, NEW u,
           Shows(known, ch, w, i, t), Shows(known, ch, w, i, u)
    PROVE  t = u
<1>1. ASSUME NEW j \in 1..i, ch[j].type = "open", ch[j].win = w, NEW k \in 0..i, Quiet(ch, w, k + 1, i)
      PROVE  j <= k
  BY <1>1 DEF Quiet, About
<1>2. CASE \E j \in 1..i : ch[j].type = "open" /\ ch[j].win = w /\ ch[j].tid = t /\ Quiet(ch, w, j + 1, i)
  <2>1. PICK j \in 1..i : ch[j].type = "open" /\ ch[j].win = w /\ ch[j].tid = t /\ Quiet(ch, w, j + 1, i)
    BY <1>2
  <2>2. ~Quiet(ch, w, 1, i)
    BY <2>1 DEF Quiet, About
  <2>3. PICK k \in 1..i : ch[k].type = "open" /\ ch[k].win = w /\ ch[k].tid = u /\ Quiet(ch, w, k + 1, i)
    BY <2>2 DEF Shows
  <2>4. j <= k /\ k <= j
    BY <1>1, <2>1, <2>3
  <2> QED
    BY <2>1, <2>3, <2>4
<1>3. CASE known[w] = t /\ Quiet(ch, w, 1, i)
  <2>1. ~\E j \in 1..i : ch[j].type = "open" /\ ch[j].win = w
    BY <1>3 DEF Quiet, About
  <2> QED
    BY <1>3, <2>1 DEF Shows
<1> QED
  BY <1>2, <1>3 DEF Shows

\* The bridge handles the first message.
LEMMA Shift ==
    ASSUME NEW ch \in Seq(Message), ch # <<>>, NEW known, NEW next, NEW w \in Windows,
           next[w] = IF About(ch[1], w)
                     THEN (IF ch[1].type = "open" THEN ch[1].tid ELSE Closed) ELSE known[w],
           NEW t \in Tids, NEW i \in 0..(Len(ch) - 1)
    PROVE  Shows(next, Tail(ch), w, i, t) <=> Shows(known, ch, w, i + 1, t)
<1>1. \A j \in 1..(Len(ch) - 1) : Tail(ch)[j] = ch[j + 1]
  OBVIOUS
<1>2. Len(ch) \in Nat /\ Len(ch) > 0 /\ t # Closed
  BY Constants
<1>3. \A j \in 1..(i + 1) : Quiet(Tail(ch), w, j, i) <=> Quiet(ch, w, j + 1, i + 1)
  <2> TAKE j \in 1..(i + 1)
  <2>1. ASSUME Quiet(Tail(ch), w, j, i), NEW k \in (j + 1)..(i + 1) PROVE ~About(ch[k], w)
    <3>1. k - 1 \in j..i /\ Tail(ch)[k - 1] = ch[k]
      BY <1>1, <1>2
    <3> QED
      BY <2>1, <3>1 DEF Quiet
  <2>2. ASSUME Quiet(ch, w, j + 1, i + 1), NEW k \in j..i PROVE ~About(Tail(ch)[k], w)
    <3>1. k + 1 \in (j + 1)..(i + 1) /\ Tail(ch)[k] = ch[k + 1]
      BY <1>1, <1>2
    <3> QED
      BY <2>2, <3>1 DEF Quiet
  <2> QED
    BY <2>1, <2>2 DEF Quiet
<1>4. Quiet(ch, w, 1, i + 1) <=> ~About(ch[1], w) /\ Quiet(ch, w, 2, i + 1)
  BY DEF Quiet
<1>5. ASSUME Shows(next, Tail(ch), w, i, t)
      PROVE  Shows(known, ch, w, i + 1, t)
  <2>1. CASE next[w] = t /\ Quiet(Tail(ch), w, 1, i)
    <3>1. Quiet(ch, w, 2, i + 1)
      BY <1>3, <2>1
    <3>2. CASE About(ch[1], w)
      <4>1. ch[1].type = "open" /\ ch[1].win = w /\ ch[1].tid = t
        BY <1>2, <2>1, <3>2 DEF About
      <4> QED
        BY <3>1, <4>1 DEF Shows
    <3>3. CASE ~About(ch[1], w)
      BY <1>2, <1>4, <2>1, <3>1, <3>3 DEF Shows
    <3> QED
      BY <3>2, <3>3
  <2>2. CASE \E j \in 1..i : /\ Tail(ch)[j].type = "open" /\ Tail(ch)[j].win = w
                             /\ Tail(ch)[j].tid = t /\ Quiet(Tail(ch), w, j + 1, i)
    <3>1. PICK j \in 1..i : /\ Tail(ch)[j].type = "open" /\ Tail(ch)[j].win = w
                            /\ Tail(ch)[j].tid = t /\ Quiet(Tail(ch), w, j + 1, i)
      BY <2>2
    <3>2. Tail(ch)[j] = ch[j + 1] /\ Quiet(ch, w, (j + 1) + 1, i + 1)
      BY <1>1, <1>2, <1>3, <3>1
    <3>3. j + 1 \in 1..(i + 1)
      OBVIOUS
    <3> QED
      BY <3>1, <3>2, <3>3 DEF Shows
  <2> QED
    BY <1>5, <2>1, <2>2 DEF Shows
<1>6. ASSUME Shows(known, ch, w, i + 1, t)
      PROVE  Shows(next, Tail(ch), w, i, t)
  <2>1. CASE known[w] = t /\ Quiet(ch, w, 1, i + 1)
    BY <1>2, <1>3, <1>4, <2>1 DEF Shows
  <2>2. ASSUME NEW j \in 1..(i + 1), ch[j].type = "open", ch[j].win = w, ch[j].tid = t,
               Quiet(ch, w, j + 1, i + 1)
        PROVE  Shows(next, Tail(ch), w, i, t)
    <3>1. Quiet(Tail(ch), w, j, i)
      BY <1>3, <2>2
    <3>2. CASE j = 1
      BY <1>2, <2>2, <3>1, <3>2 DEF Shows, About
    <3>3. CASE j # 1
      <4>1. j - 1 \in 1..i /\ Tail(ch)[j - 1] = ch[j] /\ (j - 1) + 1 = j
        BY <1>1, <1>2, <3>3
      <4> QED
        BY <2>2, <3>1, <4>1 DEF Shows
    <3> QED
      BY <3>2, <3>3
  <2> QED
    BY <1>6, <2>1, <2>2 DEF Shows
<1> QED
  BY <1>5, <1>6

\* A message is published.
LEMMA Longer ==
    ASSUME NEW ch \in Seq(Message), NEW x \in Message, NEW known, NEW w, NEW t, NEW i \in 0..Len(ch)
    PROVE  /\ Shows(known, ch \o <<x>>, w, i, t) <=> Shows(known, ch, w, i, t)
           /\ Shows(known, ch \o <<x>>, w, Len(ch) + 1, t) <=>
                IF About(x, w) THEN x.type = "open" /\ x.tid = t ELSE Shows(known, ch, w, Len(ch), t)
<1> DEFINE longer == ch \o <<x>>
<1>1. Len(ch) \in Nat /\ \A j \in 1..Len(ch) : longer[j] = ch[j]
  OBVIOUS
<1>2. longer[Len(ch) + 1] = x
  OBVIOUS
<1> HIDE DEF longer
<1>3. \A j \in Nat \ {0} : \A k \in 0..Len(ch) : Quiet(longer, w, j, k) <=> Quiet(ch, w, j, k)
  BY <1>1 DEF Quiet
<1>4. \A k \in 0..Len(ch) : Shows(known, longer, w, k, t) <=> Shows(known, ch, w, k, t)
  <2> TAKE k \in 0..Len(ch)
  <2>1. Quiet(longer, w, 1, k) <=> Quiet(ch, w, 1, k)
    BY <1>3
  <2>2. \A j \in 1..k : longer[j] = ch[j] /\ (Quiet(longer, w, j + 1, k) <=> Quiet(ch, w, j + 1, k))
    BY <1>1, <1>3
  <2> QED
    BY <2>1, <2>2 DEF Shows
<1>5. \A j \in 1..(Len(ch) + 1) :
        Quiet(longer, w, j, Len(ch) + 1) <=> Quiet(longer, w, j, Len(ch)) /\ ~About(x, w)
  BY <1>1, <1>2 DEF Quiet
<1>6. Quiet(longer, w, Len(ch) + 2, Len(ch) + 1)
  BY <1>1 DEF Quiet
<1>7. CASE About(x, w)
  <2>1. \A j \in 1..Len(ch) : ~Quiet(longer, w, j + 1, Len(ch) + 1)
    BY <1>1, <1>5, <1>7
  <2>2. ~Quiet(longer, w, 1, Len(ch) + 1)
    BY <1>1, <1>5, <1>7
  <2>3. Shows(known, longer, w, Len(ch) + 1, t) <=> x.type = "open" /\ x.win = w /\ x.tid = t
    BY <1>1, <1>2, <1>6, <2>1, <2>2 DEF Shows
  <2> QED
    BY <1>4, <1>7, <2>3 DEF About, longer
<1>8. CASE ~About(x, w)
  <2>1. ~(x.type = "open" /\ x.win = w)
    BY <1>8 DEF About
  <2>2. Quiet(longer, w, 1, Len(ch) + 1) <=> Quiet(longer, w, 1, Len(ch))
    BY <1>1, <1>5, <1>8
  <2>3. \A j \in 1..Len(ch) : Quiet(longer, w, j + 1, Len(ch) + 1) <=> Quiet(longer, w, j + 1, Len(ch))
    BY <1>1, <1>5, <1>8
  <2>4. Shows(known, longer, w, Len(ch) + 1, t) <=> Shows(known, longer, w, Len(ch), t)
    BY <1>1, <1>2, <2>1, <2>2, <2>3 DEF Shows
  <2> QED
    BY <1>1, <1>4, <1>8, <2>4 DEF longer
<1> QED
  BY <1>7, <1>8

Open(w, t) == \E i \in DOMAIN stack : stack[i].win = w /\ stack[i].tid = t

\* A message is added to the channel, with what it says done to the stack.
LEMMA Grows ==
    ASSUME Typed, ChannelInv, ~disturbed, ~layoutAsked, ~layoutAsked', NEW x \in Message,
           channel' = channel \o <<x>>, tracerWindows' = tracerWindows,
           \A i, k \in DOMAIN stack' : stack'[i].win = stack'[k].win => i = k,
           \A w \in Windows, t \in Tids :
              Open(w, t)' <=> IF About(x, w) THEN x.type = "open" /\ x.tid = t ELSE Open(w, t),
           x.type = "highlight" => \E t \in Tids : Open(x.win, t),
           x.type = "update" => \E t \in Tids : Open(x.win, t) /\ x.tid \in {0, t},
           x.type = "open" => \A t \in Tids : ~Open(x.win, t)
    PROVE  ChannelInv'
<1>1. channel \in Seq(Message) /\ Len(channel) \in Nat /\ DOMAIN channel = 1..Len(channel)
  BY DEF Typed, RestTyped
<1>2. /\ Len(channel') = Len(channel) + 1 /\ DOMAIN channel' = 1..(Len(channel) + 1)
      /\ channel'[Len(channel) + 1] = x
      /\ \A i \in 1..Len(channel) : channel'[i] = channel[i] /\ channel[i] \in Message
  BY <1>1
<1>3. \A w \in Windows, t \in Tids :
        Shows(tracerWindows, channel, w, Len(channel), t) <=> Open(w, t)
  BY DEF ChannelInv, Open
<1>4. \A w \in Windows, t \in Tids :
        Shows(tracerWindows, channel', w, Len(channel'), t) <=> Open(w, t)'
  BY <1>1, <1>2, <1>3, Longer
<1>5. \A w, t : \A i \in 0..Len(channel) :
        Shows(tracerWindows, channel', w, i, t) <=> Shows(tracerWindows, channel, w, i, t)
  BY <1>1, Longer
<1>6. ASSUME NEW i \in 1..Len(channel)
      PROVE  Apt(tracerWindows, channel', i)
  <2>1. Apt(tracerWindows, channel, i) /\ i - 1 \in 0..Len(channel)
    BY <1>1 DEF ChannelInv
  <2> QED
    BY <1>2, <1>5, <2>1 DEF Apt
<1>7. Apt(tracerWindows, channel', Len(channel) + 1)
  <2>1. x.type \in {"open", "update", "highlight"} => x.win \in Windows
    BY Fields
  <2>2. \A w \in Windows, t \in Tids :
          Shows(tracerWindows, channel', w, Len(channel) + 1 - 1, t) <=> Open(w, t)
    BY <1>1, <1>3, <1>5
  <2> QED
    BY <1>2, <2>1, <2>2 DEF Apt
<1>8. \A i \in DOMAIN channel' : Apt(tracerWindows, channel', i)
  BY <1>1, <1>2, <1>6, <1>7
<1> QED
  BY <1>4, <1>8 DEF ChannelInv, Open

\* A message is handled.
LEMMA Shrinks ==
    ASSUME Typed, ChannelInv, ~disturbed, NEW type, Takes(type), UNCHANGED <<stack, layoutAsked>>,
           \A w \in Windows : tracerWindows'[w] =
              IF About(Taken, w) THEN (IF Taken.type = "open" THEN Taken.tid ELSE Closed)
              ELSE tracerWindows[w]
    PROVE  ChannelInv'
<1>1. /\ channel \in Seq(Message) /\ Len(channel) \in Nat /\ channel # <<>>
      /\ channel' = Tail(channel) /\ Taken = channel[1]
  BY DEF Typed, RestTyped, Takes, Taken
<1>2. /\ Len(channel') = Len(channel) - 1 /\ DOMAIN channel' = 1..(Len(channel) - 1)
      /\ \A i \in 1..(Len(channel) - 1) : channel'[i] = channel[i + 1] /\ channel'[i] \in Message
      /\ Len(channel) - 1 \in Nat
  BY <1>1
<1>3. ~layoutAsked
  BY <1>1 DEF ChannelInv
<1>4. \A w \in Windows, t \in Tids : \A i \in 0..(Len(channel) - 1) :
        Shows(tracerWindows', channel', w, i, t) <=> Shows(tracerWindows, channel, w, i + 1, t)
  BY <1>1, Shift
<1>5. \A w \in Windows, t \in Tids :
        Shows(tracerWindows', channel', w, Len(channel'), t)
        <=> Shows(tracerWindows, channel, w, Len(channel), t)
  BY <1>2, <1>4
<1>6. ASSUME NEW i \in DOMAIN channel'
      PROVE  Apt(tracerWindows', channel', i)
  <2>1. Apt(tracerWindows, channel, i + 1)
    BY <1>1, <1>2, <1>3 DEF ChannelInv
  <2>2. i - 1 \in 0..(Len(channel) - 1) /\ (i - 1) + 1 = (i + 1) - 1
    BY <1>2
  <2>3. channel'[i] = channel[i + 1] /\ channel'[i] \in Message
    BY <1>2
  <2>4. channel'[i].type \in {"open", "update", "highlight"} => channel'[i].win \in Windows
    BY <2>3, Fields
  <2>5. \A w \in Windows, t \in Tids :
          Shows(tracerWindows', channel', w, i - 1, t) <=> Shows(tracerWindows, channel, w, (i + 1) - 1, t)
    BY <1>4, <2>2
  <2> QED
    BY <2>1, <2>3, <2>4, <2>5 DEF Apt
<1> QED
  BY <1>3, <1>5, <1>6 DEF ChannelInv

\* The stack without a window.
LEMMA Removed ==
    ASSUME NEW T, NEW s \in Seq(T), NEW i \in DOMAIN s
    PROVE  /\ Len(RemoveAt(s, i)) = Len(s) - 1 /\ DOMAIN RemoveAt(s, i) = 1..(Len(s) - 1)
           /\ \A k \in 1..(Len(s) - 1) : RemoveAt(s, i)[k] = IF k < i THEN s[k] ELSE s[k + 1]
<1> DEFINE a == SubSeq(s, 1, i - 1)
           b == SubSeq(s, i + 1, Len(s))
<1>1. i \in 1..Len(s) /\ Len(s) \in Nat
  OBVIOUS
<1>2. a \in Seq(T) /\ Len(a) = i - 1 /\ \A k \in 1..(i - 1) : a[k] = s[k]
  BY <1>1
<1>3. b \in Seq(T) /\ Len(b) = Len(s) - i /\ \A k \in 1..(Len(s) - i) : b[k] = s[k + i]
  BY <1>1
<1>4. RemoveAt(s, i) = a \o b
  BY DEF RemoveAt
<1> HIDE DEF a, b
<1>5. /\ Len(a \o b) = Len(s) - 1 /\ DOMAIN (a \o b) = 1..(Len(s) - 1)
      /\ \A k \in 1..(Len(s) - 1) : (a \o b)[k] = IF k <= i - 1 THEN a[k] ELSE b[k - (i - 1)]
  <2> DEFINE ab == a \o b
  <2>1. ab \in Seq(T) /\ Len(ab) = Len(a) + Len(b)
    BY <1>2, <1>3, ConcatProperties
  <2>2. \A k \in 1..(Len(a) + Len(b)) : ab[k] = IF k <= Len(a) THEN a[k] ELSE b[k - Len(a)]
    BY <1>2, <1>3, ConcatProperties
  <2> HIDE DEF ab
  <2>3. Len(a) + Len(b) = Len(s) - 1 /\ Len(a) = i - 1
    BY <1>1, <1>2, <1>3
  <2>4. DOMAIN ab = 1..(Len(s) - 1)
    BY <2>1, <2>3
  <2> QED
    BY <2>1, <2>2, <2>3, <2>4 DEF ab
<1>6. ASSUME NEW k \in 1..(Len(s) - 1)
      PROVE  (a \o b)[k] = IF k < i THEN s[k] ELSE s[k + 1]
  <2>1. CASE k < i
    <3>1. k \in 1..(i - 1) /\ k <= i - 1
      BY <1>1, <2>1
    <3> QED
      BY <1>2, <1>5, <2>1, <3>1
  <2>2. CASE k >= i
    <3>1. /\ k - (i - 1) \in 1..(Len(s) - i) /\ (k - (i - 1)) + i = k + 1
          /\ ~(k <= i - 1) /\ ~(k < i)
      BY <1>1, <2>2
    <3>2. (a \o b)[k] = b[k - (i - 1)]
      BY <1>5, <3>1
    <3> QED
      BY <1>3, <3>1, <3>2
  <2>3. i \in Int /\ k \in Int
    BY <1>1
  <2>4. k < i \/ k >= i
    BY <2>3
  <2> QED
    BY <2>1, <2>2, <2>4
<1> QED
  BY <1>4, <1>5, <1>6

LEMMA ChannelInit == Init => ChannelInv
<1> SUFFICES ASSUME Init PROVE ChannelInv
  OBVIOUS
<1>1. DOMAIN stack = {} /\ DOMAIN channel = {} /\ ~layoutAsked /\ Len(channel) = 0
  BY DEF Init
<1>2. \A w \in Windows, t \in Tids : ~Shows(tracerWindows, channel, w, 0, t)
  BY ShowsNow DEF Init
<1> QED
  BY <1>1, <1>2 DEF ChannelInv

\* What the interpreter says is true of its windows.
LEMMA InterpreterTrue ==
    ASSUME Typed, ChannelInv, Interpreter
    PROVE  ChannelInv'
<1>1. /\ stack \in Seq(Opened) /\ Len(stack) \in Nat /\ DOMAIN stack = 1..Len(stack)
      /\ \A i \in DOMAIN stack : stack[i] \in Opened /\ stack[i].win \in Windows /\ stack[i].tid \in Tids
      /\ \A i, k \in DOMAIN stack : stack[i].win = stack[k].win => i = k
  <2>1. stack \in Seq(Opened)
    BY DEF Typed, RestTyped, Opened
  <2>2. \A i \in DOMAIN stack : stack[i] \in Opened
    BY <2>1
  <2> QED
    BY <2>1, <2>2 DEF Opened, ChannelInv
<1>2. tracerWindows' = tracerWindows
  BY SentTyped DEF Publish, tracer
<1>3. ASSUME NEW x \in Message, Publish(<<x>>), ~disturbed'
      PROVE  channel' = channel \o <<x>> /\ ~disturbed /\ ~layoutAsked'
  <2>1. <<x>> \in Seq(Message)
    OBVIOUS
  <2>2. Len(<<x>>) <= Capacity - Len(channel)
    BY <1>3, <2>1, PublishTyped
  <2> QED
    BY <1>3, <2>1, <2>2, PublishTyped DEF Publish
\* Messages that leave the stack as it is.
<1>4. ASSUME NEW x \in Message, Publish(<<x>>), stack' = stack, layoutAsked' = layoutAsked,
             x.type \notin {"open", "close"},
             x.type \in {"highlight", "update"} =>
                \E i \in DOMAIN stack : /\ x.win = stack[i].win
                                        /\ x.type = "update" => x.tid \in {0, stack[i].tid}
      PROVE  ChannelInv'
  <2>1. CASE disturbed'
    BY <1>1, <1>4, <2>1 DEF ChannelInv
  <2>2. CASE ~disturbed'
    <3>1. channel' = channel \o <<x>> /\ ~disturbed /\ ~layoutAsked' /\ ~layoutAsked
      BY <1>3, <1>4, <2>2
    <3>2. \A w \in Windows, t \in Tids : Open(w, t)' <=> Open(w, t)
      BY <1>4 DEF Open
    <3>3. \A w : ~About(x, w)
      BY <1>4 DEF About
    <3>4. x.type \in {"highlight", "update"} =>
            \E t \in Tids : Open(x.win, t) /\ (x.type = "update" => x.tid \in {0, t})
      BY <1>1, <1>4 DEF Open
    <3>5. \A i, k \in DOMAIN stack' : stack'[i].win = stack'[k].win => i = k
      BY <1>1, <1>4
    <3> QED
      BY <1>2, <1>4, <3>1, <3>2, <3>3, <3>4, <3>5, Grows
  <2> QED
    BY <2>1, <2>2
<1>5. CASE UpdatesWindow
  <2>1. PICK i \in DOMAIN stack, t \in Tids :
          /\ t \in {0, stack[i].tid}
          /\ Publish(<<[type |-> "update", win |-> stack[i].win, tid |-> t]>>)
    BY <1>1, <1>5, Constants DEF UpdatesWindow
  <2>2. [type |-> "update", win |-> stack[i].win, tid |-> t] \in Message
    BY <1>1, <2>1, Constants, MessagesTyped
  <2> QED
    BY <1>4, <1>5, <2>1, <2>2 DEF UpdatesWindow
<1>6. CASE Highlights
  <2>1. PICK i \in DOMAIN stack : Publish(<<[type |-> "highlight", win |-> stack[i].win]>>)
    BY <1>6 DEF Highlights
  <2>2. [type |-> "highlight", win |-> stack[i].win] \in Message
    BY <1>1, <2>1, MessagesTyped
  <2> QED
    BY <1>4, <1>6, <2>1, <2>2 DEF Highlights
<1>7. CASE OtherMessage
  <2>1. stack' = stack /\ layoutAsked' = layoutAsked
    BY <1>7 DEF OtherMessage
  <2>2. ASSUME NEW t \in Tids, Publish(<<[type |-> "setThread", tid |-> t]>>)
        PROVE  ChannelInv'
    BY <1>4, <2>1, <2>2, MessagesTyped
  <2>3. ASSUME NEW type \in {"error", "fatal"}, Publish(<<[type |-> type]>>)
        PROVE  ChannelInv'
    BY <1>4, <2>1, <2>3, MessagesTyped
  <2> QED
    BY <1>7, <2>2, <2>3 DEF OtherMessage
<1>8. CASE AnswersGetThreads
  <2>1. PICK list \in Reply : Publish(<<[type |-> "threads", list |-> list]>>)
    BY <1>8 DEF AnswersGetThreads
  <2>2. [type |-> "threads", list |-> list] \in Message
    BY MessagesTyped
  <2> QED
    BY <1>4, <1>8, <2>1, <2>2 DEF AnswersGetThreads
<1>9. CASE OpensWindow
  <2>1. PICK w \in Windows, t \in Tids :
          /\ ~IsOpen(w) /\ layoutAsked' = layoutAsked
          /\ stack' = Append(stack, [win |-> w, tid |-> t])
          /\ Publish(<<[type |-> "open", win |-> w, tid |-> t]>>)
    BY <1>9 DEF OpensWindow, OpenMessage
  <2> DEFINE x == [type |-> "open", win |-> w, tid |-> t]
  <2>2. x \in Message /\ x.type = "open" /\ x.win = w /\ x.tid = t
    BY MessagesTyped
  <2>3. [win |-> w, tid |-> t] \in Opened
    BY DEF Opened
  <2>4. /\ DOMAIN stack' = 1..(Len(stack) + 1)
        /\ stack'[Len(stack) + 1].win = w /\ stack'[Len(stack) + 1].tid = t
        /\ \A i \in 1..Len(stack) : stack'[i] = stack[i] /\ stack[i].win # w
    BY <1>1, <2>1, <2>3 DEF IsOpen
  <2>5. \A i, k \in DOMAIN stack' : stack'[i].win = stack'[k].win => i = k
    BY <1>1, <2>4
  <2>6. ASSUME NEW v \in Windows, NEW u \in Tids
        PROVE  Open(v, u)' <=> IF About(x, v) THEN x.type = "open" /\ x.tid = u ELSE Open(v, u)
    <3>1. CASE v = w
      BY <1>1, <2>2, <2>4, <3>1 DEF Open, About
    <3>2. CASE v # w
      BY <1>1, <2>2, <2>4, <3>2 DEF Open, About
    <3> QED
      BY <3>1, <3>2
  <2>7. \A u \in Tids : ~Open(w, u)
    BY <2>1 DEF Open, IsOpen
  <2> HIDE DEF x
  <2>8. CASE disturbed'
    BY <2>5, <2>8 DEF ChannelInv
  <2>9. CASE ~disturbed'
    <3>1. channel' = channel \o <<x>> /\ ~disturbed /\ ~layoutAsked' /\ ~layoutAsked
      BY <1>3, <2>1, <2>2, <2>9 DEF x
    <3> QED
      BY <1>2, <2>2, <2>5, <2>6, <2>7, <3>1, Grows
  <2> QED
    BY <2>8, <2>9
<1>10. CASE ClosesWindow
  <2>1. PICK i \in DOMAIN stack :
          /\ layoutAsked' = layoutAsked /\ stack' = RemoveAt(stack, i)
          /\ Publish(<<[type |-> "close", win |-> stack[i].win]>>)
    BY <1>10 DEF ClosesWindow
  <2> DEFINE x == [type |-> "close", win |-> stack[i].win]
             Old(k) == IF k < i THEN k ELSE k + 1
  <2>2. x \in Message /\ x.type = "close" /\ x.win = stack[i].win
    BY <1>1, MessagesTyped
  <2>3. /\ DOMAIN stack' = 1..(Len(stack) - 1)
        /\ \A k \in 1..(Len(stack) - 1) : stack'[k] = IF k < i THEN stack[k] ELSE stack[k + 1]
    BY <1>1, <2>1, Removed
  <2>4. \A k \in 1..(Len(stack) - 1) : Old(k) \in DOMAIN stack /\ Old(k) # i /\ stack'[k] = stack[Old(k)]
    BY <1>1, <2>3
  <2>5. \A k, l \in 1..(Len(stack) - 1) : Old(k) = Old(l) => k = l
    BY <1>1
  <2>6. \A k \in DOMAIN stack : k # i => \E l \in 1..(Len(stack) - 1) : Old(l) = k
    <3> TAKE k \in DOMAIN stack
    <3>1. CASE k < i
      BY <1>1, <3>1
    <3>2. CASE k > i
      <4>1. k - 1 \in 1..(Len(stack) - 1) /\ Old(k - 1) = k
        BY <1>1, <3>2
      <4> QED
        BY <4>1
    <3> QED
      BY <1>1, <3>1, <3>2
  <2> HIDE DEF Old, x
  <2>7. \A k, l \in DOMAIN stack' : stack'[k].win = stack'[l].win => k = l
    BY <1>1, <2>3, <2>4, <2>5
  <2>8. ASSUME NEW v \in Windows, NEW u \in Tids
        PROVE  Open(v, u)' <=> IF About(x, v) THEN x.type = "open" /\ x.tid = u ELSE Open(v, u)
    <3>1. CASE v = stack[i].win
      <4>1. ~Open(v, u)'
        BY <1>1, <2>3, <2>4, <3>1 DEF Open
      <4> QED
        BY <2>2, <3>1, <4>1 DEF About
    <3>2. CASE v # stack[i].win
      <4>1. Open(v, u)' => Open(v, u)
        BY <2>3, <2>4 DEF Open
      <4>2. Open(v, u) => Open(v, u)'
        <5>1. SUFFICES ASSUME NEW k \in DOMAIN stack, stack[k].win = v, stack[k].tid = u
                       PROVE  Open(v, u)'
          BY DEF Open
        <5>2. k # i
          BY <3>2, <5>1
        <5>3. PICK l \in 1..(Len(stack) - 1) : Old(l) = k
          BY <2>6, <5>2
        <5>4. stack'[l] = stack[k] /\ l \in DOMAIN stack'
          BY <2>3, <2>4, <5>3
        <5> QED
          BY <5>1, <5>4 DEF Open
      <4> QED
        BY <2>2, <3>2, <4>1, <4>2 DEF About
    <3> QED
      BY <3>1, <3>2
  <2>9. CASE disturbed'
    BY <2>7, <2>9 DEF ChannelInv
  <2>10. CASE ~disturbed'
    <3>1. channel' = channel \o <<x>> /\ ~disturbed /\ ~layoutAsked' /\ ~layoutAsked
      BY <1>3, <2>1, <2>2, <2>10 DEF x
    <3> QED
      BY <1>2, <2>2, <2>7, <2>8, <3>1, Grows
  <2> QED
    BY <2>9, <2>10
<1>11. CASE AnswersGetWindowLayout
  <2> DEFINE sent == [i \in DOMAIN stack |-> OpenMessage(stack[i])]
  <2>1. layoutAsked /\ ~layoutAsked' /\ Publish(sent) /\ stack' = stack
    BY <1>11, <1>1 DEF AnswersGetWindowLayout
  <2>2. /\ \A i \in DOMAIN stack : /\ sent[i] \in Message /\ sent[i].type = "open"
                                   /\ sent[i].win = stack[i].win /\ sent[i].tid = stack[i].tid
        /\ DOMAIN sent = DOMAIN stack
    BY <1>1, MessagesTyped DEF OpenMessage
  <2> HIDE DEF sent
  <2>3. sent \in Seq(Message) /\ Len(sent) = Len(stack) /\ DOMAIN sent = 1..Len(stack)
    <3>1. sent = [i \in 1..Len(stack) |-> sent[i]]
      BY <1>1 DEF sent
    <3>2. sent \in [1..Len(stack) -> Message]
      BY <1>1, <2>2, <3>1
    <3> QED
      BY <1>1, <3>2
  <2>4. CASE disturbed'
    BY <1>1, <2>1, <2>4 DEF ChannelInv
  <2>5. CASE ~disturbed'
    <3>1. Len(sent) <= Capacity - Len(channel) /\ ~disturbed
      BY <2>1, <2>3, <2>5, PublishTyped DEF Publish
    <3>2. channel = <<>> /\ \A w \in Windows : tracerWindows[w] = Closed
      BY <2>1, <3>1 DEF ChannelInv
    <3>3. channel' = sent
      BY <2>1, <2>3, <3>1, <3>2, PublishTyped
    <3>4. \A i \in 0..Len(stack), w \in Windows, t \in Tids :
            Shows(tracerWindows, sent, w, i, t) <=>
            \E j \in 1..i : stack[j].win = w /\ stack[j].tid = t
      <4> TAKE i \in 0..Len(stack), w \in Windows, t \in Tids
      <4>1. \A j \in 1..i : stack[j].win = w => Quiet(sent, w, j + 1, i)
        BY <1>1, <2>2 DEF Quiet, About
      <4>2. ~(tracerWindows[w] = t /\ t # Closed)
        BY <3>2
      <4>3. \A j \in 1..i : j \in DOMAIN stack
        BY <1>1
      <4> QED
        BY <2>2, <4>1, <4>2, <4>3 DEF Shows
    <3>5. \A w \in Windows, t \in Tids :
            Shows(tracerWindows, sent, w, Len(sent), t)
            <=> \E i \in DOMAIN stack : stack[i].win = w /\ stack[i].tid = t
      <4>1. Len(sent) \in 0..Len(stack) /\ DOMAIN stack = 1..Len(sent)
        BY <1>1, <2>3
      <4> HIDE DEF Shows
      <4> QED
        BY <3>4, <4>1
    <3>6. ASSUME NEW i \in DOMAIN sent PROVE Apt(tracerWindows, sent, i)
      <4>1. i \in DOMAIN stack /\ i - 1 \in 0..Len(stack) /\ stack[i].win \in Windows
        BY <1>1, <2>2
      <4>2. \A j \in 1..(i - 1) : stack[j].win # stack[i].win
        BY <1>1, <4>1
      <4>3. \A t \in Tids : ~Shows(tracerWindows, sent, stack[i].win, i - 1, t)
        BY <3>4, <4>1, <4>2
      <4> QED
        BY <2>2, <4>1, <4>3 DEF Apt
    <3> QED
      BY <1>1, <1>2, <2>1, <3>1, <3>3, <3>5, <3>6 DEF ChannelInv
  <2> QED
    BY <2>4, <2>5
<1> QED
  BY <1>5, <1>6, <1>7, <1>8, <1>9, <1>10, <1>11 DEF Interpreter

\* The next message fits what the adapter knows.
LEMMA NextApt ==
    ASSUME Typed, ChannelInv, ~disturbed, NEW type, Takes(type)
    PROVE  /\ Taken \in Message /\ Taken.type = type
           /\ type = "highlight" => tracerWindows[Taken.win] # Closed
           /\ type = "update" => /\ tracerWindows[Taken.win] # Closed
                                 /\ Taken.tid \in {0, tracerWindows[Taken.win]}
           /\ type = "open" => tracerWindows[Taken.win] = Closed
<1>1. /\ channel \in Seq(Message) /\ Len(channel) \in Nat /\ channel # <<>>
      /\ 1 \in DOMAIN channel /\ Taken = channel[1]
  BY DEF Typed, RestTyped, Takes, Taken
<1>2. Taken \in Message /\ Taken.type = type
  BY TakesTyped
<1>3. Apt(tracerWindows, channel, 1)
  BY <1>1 DEF ChannelInv
<1>4. \A w \in Windows, t \in Tids :
        Shows(tracerWindows, channel, w, 1 - 1, t) <=> tracerWindows[w] = t /\ t # Closed
  BY ShowsNow
<1>5. type \in {"open", "update", "highlight"} => Taken.win \in Windows
  BY <1>2, Fields
<1>6. tracerWindows \in [Windows -> Tids \cup {Closed}]
  BY DEF Typed, RestTyped
<1>7. CASE type = "highlight"
  <2>1. \E t \in Tids : Shows(tracerWindows, channel, Taken.win, 1 - 1, t)
    BY <1>1, <1>2, <1>3, <1>7 DEF Apt
  <2> QED
    BY <1>2, <1>4, <1>5, <1>7, <2>1
<1>8. CASE type = "update"
  <2>1. \E t \in Tids : Shows(tracerWindows, channel, Taken.win, 1 - 1, t) /\ Taken.tid \in {0, t}
    BY <1>1, <1>2, <1>3, <1>8 DEF Apt
  <2> QED
    BY <1>2, <1>4, <1>5, <1>8, <2>1
<1>9. CASE type = "open"
  <2>1. \A t \in Tids : ~Shows(tracerWindows, channel, Taken.win, 1 - 1, t)
    BY <1>1, <1>2, <1>3, <1>9 DEF Apt
  <2> QED
    BY <1>2, <1>4, <1>5, <1>6, <1>9, <2>1
<1> QED
  BY <1>2, <1>7, <1>8, <1>9

\* What the handlers make of the windows.
LEMMA Handled ==
    ASSUME Typed, ChannelInv, ~disturbed, BridgeStep, ~TellStop
    PROVE  /\ \E type : Takes(type)
           /\ \A w \in Windows : tracerWindows'[w] =
                IF About(Taken, w) THEN (IF Taken.type = "open" THEN Taken.tid ELSE Closed)
                ELSE tracerWindows[w]
<1>1. tracerWindows \in [Windows -> Tids \cup {Closed}]
  BY DEF Typed, RestTyped
<1>2. CASE HandleOpenWindow
  <2>1. Takes("open")
    BY <1>2 DEF HandleOpenWindow
  <2>2. /\ Taken \in Message /\ Taken.type = "open" /\ Taken.win \in Windows
        /\ tracerWindows[Taken.win] = Closed
    BY <2>1, NextApt, Fields
  <2>3. tracerWindows' = [tracerWindows EXCEPT ![Taken.win] = Taken.tid]
    BY <1>1, <1>2, <2>2 DEF HandleOpenWindow, SetView, WithWindow, View
  <2> QED
    BY <1>1, <2>1, <2>2, <2>3 DEF About
<1>3. CASE HandleUpdateWindow
  <2>1. Takes("update")
    BY <1>3 DEF HandleUpdateWindow
  <2>2. /\ Taken \in Message /\ Taken.type = "update" /\ Taken.win \in Windows
        /\ Taken.tid \in Tids /\ tracerWindows[Taken.win] # Closed
        /\ Taken.tid \in {0, tracerWindows[Taken.win]}
    BY <2>1, NextApt, Fields
  <2>3. tracerWindows' = tracerWindows
    <3>1. (IF Taken.tid > 0 \/ tracerWindows[Taken.win] = Closed
           THEN Taken.tid ELSE tracerWindows[Taken.win]) = tracerWindows[Taken.win]
      BY <2>2, Constants
    <3>2. tracerWindows' = [tracerWindows EXCEPT ![Taken.win] =
             IF Taken.tid > 0 \/ tracerWindows[Taken.win] = Closed
             THEN Taken.tid ELSE tracerWindows[Taken.win]]
      BY <1>3, <2>2 DEF HandleUpdateWindow, SetView, WithWindow, View
    <3> QED
      BY <1>1, <2>2, <3>1, <3>2
  <2> QED
    BY <2>1, <2>2, <2>3 DEF About
<1>4. CASE HandleCloseWindow
  <2>1. Takes("close")
    BY <1>4 DEF HandleCloseWindow
  <2>2. Taken \in Message /\ Taken.type = "close" /\ Taken.win \in Windows
    BY <2>1, TakesTyped, Fields
  <2>3. tracerWindows' = [tracerWindows EXCEPT ![Taken.win] = Closed]
    <3>1. CASE tracerWindows[Taken.win] # Closed
      <4>1. SetView(WithoutWindow(View, Taken.win))
        BY <1>4, <3>1 DEF HandleCloseWindow
      <4> QED
        BY <4>1 DEF SetView, WithoutWindow, View
    <3>2. CASE tracerWindows[Taken.win] = Closed
      <4>1. tracerWindows' = tracerWindows
        BY <1>4, <3>2 DEF HandleCloseWindow, tracer
      <4> QED
        BY <1>1, <2>2, <3>2, <4>1
    <3> QED
      BY <3>1, <3>2
  <2> QED
    BY <1>1, <2>1, <2>2, <2>3 DEF About
<1>5. ASSUME NEW type \in {"highlight", "setThread", "error", "fatal", "threads"}, Takes(type),
             UNCHANGED tracer
      PROVE  /\ \E u : Takes(u)
             /\ \A w \in Windows : tracerWindows'[w] =
                  IF About(Taken, w) THEN (IF Taken.type = "open" THEN Taken.tid ELSE Closed)
                  ELSE tracerWindows[w]
  <2>1. Taken.type = type
    BY <1>5, TakesTyped
  <2> QED
    BY <1>5, <2>1 DEF About, tracer
<1>6. CASE HandleSetHighlightLine
  BY <1>5, <1>6 DEF HandleSetHighlightLine
<1>7. CASE HandleSetThread
  BY <1>5, <1>7 DEF HandleSetThread
<1>8. CASE HandleHadError
  BY <1>5, <1>8 DEF HandleHadError
<1>9. CASE HandleFatal
  BY <1>5, <1>9 DEF HandleFatal
<1>10. CASE HandleReplyGetThreads
  BY <1>5, <1>10 DEF HandleReplyGetThreads
<1> QED
  BY <1>2, <1>3, <1>4, <1>6, <1>7, <1>8, <1>9, <1>10 DEF BridgeStep

\* The bridge and main keep to what the interpreter said.
LEMMA ChannelStep == Typed /\ ChannelInv /\ [Next]_vars => ChannelInv'
<1> SUFFICES ASSUME Typed, ChannelInv, [Next]_vars PROVE ChannelInv'
  OBVIOUS
<1>1. CASE Interpreter
  BY <1>1, InterpreterTrue
<1>2. CASE UNCHANGED <<stack, channel, tracerWindows, layoutAsked, disturbed>>
  BY <1>2 DEF ChannelInv, Shows, Apt, Quiet
<1>3. CASE BridgeStep /\ ~TellStop
  <2>1. UNCHANGED <<stack, layoutAsked, disturbed>>
    BY <1>3 DEF BridgeStep, HandleOpenWindow, HandleUpdateWindow, HandleSetHighlightLine,
       HandleCloseWindow, HandleSetThread, HandleHadError, HandleFatal, HandleReplyGetThreads,
       Bridge, requests
  <2>2. CASE disturbed
    BY <2>1, <2>2 DEF ChannelInv
  <2>3. CASE ~disturbed
    <3>1. PICK type : Takes(type)
      BY <1>3, <2>3, Handled
    <3>2. \A w \in Windows : tracerWindows'[w] =
            IF About(Taken, w) THEN (IF Taken.type = "open" THEN Taken.tid ELSE Closed)
            ELSE tracerWindows[w]
      BY <1>3, <2>3, Handled
    <3> QED
      BY <2>1, <2>3, <3>1, <3>2, Shrinks
  <2> QED
    BY <2>2, <2>3
<1>4. CASE TellStop
  BY <1>2, <1>4 DEF TellStop, tracer, requests
<1>5. CASE RequestThreads \/ Disconnect
  BY <1>2, <1>5 DEF RequestThreads, Disconnect, Main, tracer, requests
<1>6. CASE Reconnect
  <2>1. /\ stack' = stack /\ channel' = channel /\ layoutAsked' = TRUE
        /\ \A w \in Windows : tracerWindows'[w] = Closed
        /\ disturbed' \/ channel = <<>>
    BY <1>6 DEF Reconnect
  <2> QED
    BY <2>1 DEF ChannelInv
<1>7. CASE UNCHANGED vars
  BY <1>2, <1>7 DEF vars, tracer, requests
<1> QED
  BY <1>1, <1>3, <1>4, <1>5, <1>6, <1>7 DEF Next, MainStep

-----------------------------------------------------------------------------
(* The last stop.                                                          *)

\* The active window is that of the last stop, and known; and the stop names
\* its thread.
LastInv ==
    /\ activeTracer # NoWindow => activeTracer = LastStop.win
    /\ ~disturbed /\ activeTracer # NoWindow => tracerWindows[activeTracer] # Closed
    /\ StopNamesItsStack

LEMMA LastInit == Init => LastInv
BY DEF Init, LastInv, StopNamesItsStack, LastStop, NoStop

LEMMA LastStep == Typed /\ ChannelInv /\ LastInv /\ [Next]_vars => LastInv'
<1> SUFFICES ASSUME Typed, ChannelInv, LastInv, [Next]_vars PROVE LastInv'
  OBVIOUS
<1>1. /\ tracerWindows \in [Windows -> Tids \cup {Closed}]
      /\ activeTracer \in Windows \cup {NoWindow} /\ activeThread \in Tids
      /\ stop \in Stop \cup {<<>>} /\ told \in Stop
      /\ LastStop \in Stop /\ LastStop.win \in Windows \cup {NoWindow}
  <2>1. stop \in Stop \cup {<<>>} /\ told \in Stop
    BY DEF Typed, RestTyped
  <2>2. LastStop \in Stop
    BY <2>1 DEF LastStop
  <2> QED
    BY <2>1, <2>2, StopsDiffer DEF Typed, RestTyped
\* Steps that leave the window, or none, active.
<1>2. ASSUME activeTracer' \in {activeTracer, NoWindow}, LastStop' = LastStop,
             disturbed => disturbed',
             ~disturbed' => \A w \in Windows :
                tracerWindows'[w] \in {tracerWindows[w], Closed}
                /\ (w = activeTracer' => tracerWindows'[w] = tracerWindows[w])
      PROVE  LastInv'
  BY <1>1, <1>2 DEF LastInv, StopNamesItsStack, Closed
\* Steps that do not change the stop.
<1>3. ASSUME UNCHANGED <<told, stop>> PROVE LastStop' = LastStop
  BY <1>3 DEF LastStop
<1>4. CASE UNCHANGED <<tracer, activeTracer, told, stop>> /\ (disturbed => disturbed')
  BY <1>2, <1>3, <1>4 DEF tracer
<1>5. CASE Interpreter
  <2>1. PICK sent \in Seq(Message) : Publish(sent)
    BY <1>5, SentTyped
  <2>2. disturbed => disturbed'
    BY <2>1 DEF Publish
  <2> QED
    BY <1>4, <2>1, <2>2 DEF Publish, active
<1>6. ASSUME NEW w \in Windows, StopIn(w), activeTracer' = w, told' = told,
             disturbed' = disturbed,
             tracerWindows' \in [Windows -> Tids \cup {Closed}],
             ~disturbed => tracerWindows'[w] # Closed,
             tracerWindows'[w] \in Tids => ActivateThread(tracerWindows'[w])
      PROVE  LastInv'
  <2>1. stop'.win = w /\ stop'.thread = CurrentThread' /\ stop' # <<>>
    BY <1>6 DEF StopIn
  <2>2. LastStop' = stop'
    BY <2>1, WindowsAssumption DEF LastStop
  <2>3. tracerWindows'[w] > 0 => CurrentThread' = tracerWindows'[w]
    BY <1>6, Constants DEF CurrentThread, ActivateThread, Closed
  <2> QED
    BY <1>6, <2>1, <2>2, <2>3 DEF LastInv, StopNamesItsStack
<1>7. CASE HandleOpenWindow
  <2>1. Takes("open") /\ StopIn(Taken.win) /\ activeTracer' = Taken.win /\ told' = told
        /\ disturbed' = disturbed /\ ActivateThread(tracerWindows'[Taken.win])
    BY <1>7 DEF HandleOpenWindow, Bridge
  <2>2. Taken.win \in Windows /\ Taken.tid \in Tids
    BY <2>1, TakesTyped, Fields
  <2>3. /\ tracerWindows' \in [Windows -> Tids \cup {Closed}]
        /\ tracerWindows'[Taken.win] # Closed
    BY <1>1, <1>7, <2>2, Constants DEF HandleOpenWindow, SetView, WithWindow, View
  <2> QED
    BY <1>6, <2>1, <2>2, <2>3
<1>8. CASE HandleSetHighlightLine
  <2>1. /\ Takes("highlight") /\ StopIn(Taken.win) /\ activeTracer' = Taken.win /\ told' = told
        /\ disturbed' = disturbed /\ ActivateThread(ThreadOf(Taken.win))
        /\ tracerWindows' = tracerWindows
    BY <1>8 DEF HandleSetHighlightLine, Bridge, tracer
  <2>2. Taken.win \in Windows
    BY <2>1, TakesTyped, Fields
  <2>3. ~disturbed => tracerWindows[Taken.win] # Closed
    BY <2>1, NextApt
  <2>4. tracerWindows[Taken.win] \in Tids => ThreadOf(Taken.win) = tracerWindows[Taken.win]
    BY Constants DEF ThreadOf
  <2> QED
    BY <1>1, <1>6, <2>1, <2>2, <2>3, <2>4
<1>9. CASE HandleUpdateWindow
  <2>1. /\ Takes("update") /\ UNCHANGED <<activeTracer, told, stop, disturbed>>
    BY <1>9 DEF HandleUpdateWindow, Bridge, active
  <2>2. ~disturbed => \A w \in Windows : tracerWindows'[w] = tracerWindows[w]
    <3>1. Taken.type = "update"
      BY <2>1, TakesTyped
    <3>2. BridgeStep /\ ~TellStop
      BY <1>9, <2>1 DEF BridgeStep, TellStop, Takes
    <3> QED
      BY <3>1, <3>2, Handled DEF About
  <2> QED
    BY <1>2, <1>3, <2>1, <2>2
<1>10. CASE HandleCloseWindow
  <2>1. Takes("close") /\ UNCHANGED <<told, stop, disturbed>>
    BY <1>10 DEF HandleCloseWindow, Bridge
  <2>2. Taken.win \in Windows
    BY <2>1, TakesTyped, Fields
  <2>3. CASE tracerWindows[Taken.win] # Closed
    <3>1. /\ SetView(WithoutWindow(View, Taken.win))
          /\ activeTracer' = IF activeTracer = Taken.win THEN NoWindow ELSE activeTracer
      BY <1>10, <2>3 DEF HandleCloseWindow
    <3>2. tracerWindows' = [tracerWindows EXCEPT ![Taken.win] = Closed]
      BY <3>1 DEF SetView, WithoutWindow, View
    <3>3. activeTracer' # Taken.win
      BY <2>2, <3>1, WindowsAssumption
    <3>4. \A w \in Windows :
            /\ tracerWindows'[w] \in {tracerWindows[w], Closed}
            /\ w = activeTracer' => tracerWindows'[w] = tracerWindows[w]
      BY <1>1, <3>2, <3>3
    <3> QED
      BY <1>2, <1>3, <2>1, <3>1, <3>4
  <2>4. CASE tracerWindows[Taken.win] = Closed
    BY <1>4, <1>10, <2>1, <2>4 DEF HandleCloseWindow
  <2> QED
    BY <2>3, <2>4
<1>11. CASE HandleSetThread
  BY <1>4, <1>11 DEF HandleSetThread, Bridge
<1>12. CASE HandleHadError
  <2>1. /\ stop = <<>> /\ StopIn(NoWindow)
        /\ UNCHANGED <<tracer, activeTracer, told, disturbed>>
    BY <1>12 DEF HandleHadError, Takes, Bridge, active
  <2>2. LastStop' = LastStop
    BY <2>1 DEF LastStop, StopIn
  <2> QED
    BY <1>2, <2>1, <2>2 DEF tracer
<1>13. CASE HandleFatal
  <2>1. activeTracer' = NoWindow /\ UNCHANGED <<tracer, told, stop, disturbed>>
    BY <1>13 DEF HandleFatal
  <2> QED
    BY <1>2, <1>3, <2>1 DEF tracer
<1>14. CASE HandleReplyGetThreads
  BY <1>4, <1>14 DEF HandleReplyGetThreads, active
<1>15. CASE TellStop
  <2>1. /\ stop # <<>> /\ stop' = <<>>
        /\ told' = IF stop.win = NoWindow THEN told ELSE stop
        /\ UNCHANGED <<tracer, activeTracer, disturbed>>
    BY <1>15 DEF TellStop, active
  <2>2. LastStop' = LastStop
    BY <2>1 DEF LastStop
  <2> QED
    BY <1>2, <2>1, <2>2 DEF tracer
<1>16. CASE RequestThreads \/ Disconnect
  BY <1>4, <1>16 DEF RequestThreads, Disconnect, Main, active
<1>17. CASE Reconnect
  <2>1. /\ activeTracer' = NoWindow /\ UNCHANGED <<told, stop>> /\ (disturbed => disturbed')
        /\ \A w \in Windows : tracerWindows'[w] = Closed
    BY <1>17 DEF Reconnect
  <2> QED
    BY <1>2, <1>3, <2>1, WindowsAssumption
<1>18. CASE UNCHANGED vars
  BY <1>4, <1>18 DEF vars, active
<1> QED
  BY <1>5, <1>7, <1>8, <1>9, <1>10, <1>11, <1>12, <1>13, <1>14, <1>15, <1>16, <1>17, <1>18
     DEF Next, BridgeStep, MainStep

LEMMA Invariant == Spec => [](Typed /\ IdsInv /\ ChannelInv /\ LastInv)
<1>1. Init => Typed /\ IdsInv /\ ChannelInv /\ LastInv
  BY TypeInit, IdsInit, ChannelInit, LastInit
<1>2. Typed /\ IdsInv /\ ChannelInv /\ LastInv /\ [Next]_vars
      => (Typed /\ IdsInv /\ ChannelInv /\ LastInv)'
  BY TypeStep, IdsStep, ChannelStep, LastStep
<1> QED
  BY <1>1, <1>2, PTL DEF Spec

\* A control request goes to the window of the last stop, and to a window that
\* the adapter knows to be open, unless the channel was disturbed.
THEOREM ControlWindow == Spec => []ControlTarget
<1>1. LastInv => ControlTarget
  BY DEF LastInv, ControlTarget, CommandWindow
<1> QED
  BY <1>1, Invariant, PTL

\* A stop in a window names the thread in whose stack trace the window is.
THEOREM StopThread == Spec => []StopNamesItsStack
<1>1. LastInv => StopNamesItsStack
  BY DEF LastInv
<1> QED
  BY <1>1, Invariant, PTL

-----------------------------------------------------------------------------
(* Recursive functions.                                                    *)

\* A nonempty set of naturals has a least element.
LEMMA LeastElement ==
    ASSUME NEW T, T \subseteq Nat, T # {}
    PROVE  \E x \in T : \A y \in T : x <= y
<1> DEFINE R    == OpToRel(<, Nat)
           Less == {p \in Nat \X Nat : p[1] < p[2]}
<1>1. R = Less
  BY DEF OpToRel
<1>2. IsWellFoundedOn(Less, Nat)
  BY <1>1, NatLessThanWellFounded
<1>3. \E x \in T : \A y \in T : <<y, x>> \notin Less
  <2> HIDE DEF Less
  <2> QED
    BY <1>2, WFMin
<1>4. PICK x \in T : \A y \in T : <<y, x>> \notin Less
  BY <1>3
<1>5. ASSUME NEW y \in T PROVE x <= y
  <2>1. x \in Nat /\ y \in Nat
    OBVIOUS
  <2>2. <<y, x>> \notin {p \in Nat \X Nat : p[1] < p[2]}
    BY <1>4, <1>5
  <2>3. ~(y < x)
    BY <2>1, <2>2
  <2> QED
    BY <2>1, <2>3
<1> QED
  BY <1>5

\* Induction up to N, for a set.
LEMMA UpTo ==
    ASSUME NEW N \in Nat, NEW S, 0 \in S, \A n \in 1..N : n - 1 \in S => n \in S
    PROVE  0..N \subseteq S
<1> DEFINE T == {n \in 0..N : n \notin S}
<1> SUFFICES ASSUME T # {} PROVE FALSE
  OBVIOUS
<1>1. PICK x \in T : \A y \in T : x <= y
  <2> T \subseteq Nat
    OBVIOUS
  <2> HIDE DEF T
  <2> QED
    BY LeastElement
<1>2. x \in 1..N
  BY <1>1
<1>3. x - 1 \notin T
  BY <1>1, <1>2
<1> QED
  BY <1>1, <1>2, <1>3

\* The function that Picked computes with, and the one that After does.
Picks(g, seq, places) ==
    g = [n \in 0..Len(seq) |->
            IF n = 0 THEN <<>>
            ELSE IF n \in places THEN Append(g[n - 1], seq[n]) ELSE g[n - 1]]

Runs(g, view, list, N) ==
    g = [n \in 0..N |-> IF n = 0 THEN view ELSE AfterMessage(g[n - 1], list[n])]

LEMMA PickedIs ==
    ASSUME NEW seq, Len(seq) \in Nat, NEW places, NEW g, Picks(g, seq, places)
    PROVE  Picked(seq, places) = g[Len(seq)]
<1> DEFINE h == CHOOSE h : Picks(h, seq, places)
           S == {n \in 0..Len(seq) : h[n] = g[n]}
<1>1. Picks(h, seq, places)
  OBVIOUS
<1>2. Picked(seq, places) = h[Len(seq)]
  BY DEF Picked, Picks
<1> HIDE DEF h
<1>3. 0 \in S
  BY <1>1 DEF Picks
<1>4. ASSUME NEW n \in 1..Len(seq), n - 1 \in S PROVE n \in S
  <2>1. n \in 0..Len(seq) /\ n # 0 /\ h[n - 1] = g[n - 1]
    BY <1>4
  <2>2. h[n] = IF n \in places THEN Append(h[n - 1], seq[n]) ELSE h[n - 1]
    BY <1>1, <2>1 DEF Picks
  <2>3. g[n] = IF n \in places THEN Append(g[n - 1], seq[n]) ELSE g[n - 1]
    BY <2>1 DEF Picks
  <2> QED
    BY <2>1, <2>2, <2>3
<1>5. 0..Len(seq) \subseteq S
  <2> HIDE DEF S
  <2> QED
    BY <1>3, <1>4, UpTo
<1> QED
  BY <1>2, <1>5

LEMMA RunsSame ==
    ASSUME NEW view, NEW list, NEW N \in Nat, NEW g, NEW h, NEW M \in 0..N,
           Runs(g, view, list, N), Runs(h, view, list, M)
    PROVE  \A n \in 0..M : g[n] = h[n]
<1> DEFINE S == {n \in 0..M : g[n] = h[n]}
<1>1. 0 \in S
  BY DEF Runs
<1>2. ASSUME NEW n \in 1..M, n - 1 \in S PROVE n \in S
  <2>1. n \in 0..N /\ n \in 0..M /\ n # 0 /\ h[n - 1] = g[n - 1]
    BY <1>2
  <2>2. h[n] = AfterMessage(h[n - 1], list[n])
    BY <2>1 DEF Runs
  <2>3. g[n] = AfterMessage(g[n - 1], list[n])
    BY <2>1 DEF Runs
  <2> QED
    BY <2>1, <2>2, <2>3
<1>3. 0..M \subseteq S
  <2> HIDE DEF S
  <2> QED
    BY <1>1, <1>2, UpTo
<1> QED
  BY <1>3

LEMMA RunsExist ==
    ASSUME NEW view, NEW list, NEW N \in Nat
    PROVE  \E g : Runs(g, view, list, N)
<1> DEFINE S == {n \in 0..N : \E g : Runs(g, view, list, n)}
<1>1. 0 \in S
  <2>1. Runs([n \in 0..0 |-> view], view, list, 0)
    BY DEF Runs
  <2> QED
    BY <2>1
<1>2. ASSUME NEW n \in 1..N, n - 1 \in S PROVE n \in S
  <2>1. PICK g : Runs(g, view, list, n - 1)
    BY <1>2
  <2> DEFINE h == [k \in 0..n |-> IF k = n THEN AfterMessage(g[n - 1], list[n]) ELSE g[k]]
  <2>2. ASSUME NEW k \in 0..n
        PROVE  h[k] = IF k = 0 THEN view ELSE AfterMessage(h[k - 1], list[k])
    <3>1. CASE k = n
      <4>1. n - 1 \in 0..n /\ n - 1 # n /\ n # 0
        OBVIOUS
      <4> QED
        BY <3>1, <4>1
    <3>2. CASE k = 0
      <4>1. g[0] = view
        BY <2>1 DEF Runs
      <4> QED
        BY <3>2, <4>1
    <3>3. CASE k \in 1..(n - 1)
      <4>1. k \in 0..(n - 1) /\ k # 0 /\ k # n /\ k - 1 # n /\ k - 1 \in 0..n
        BY <3>3
      <4>2. g[k] = AfterMessage(g[k - 1], list[k])
        BY <2>1, <4>1 DEF Runs
      <4> QED
        BY <4>1, <4>2
    <3> QED
      BY <3>1, <3>2, <3>3
  <2>3. Runs(h, view, list, n)
    <3>1. h = [k \in 0..n |-> h[k]]
      OBVIOUS
    <3> HIDE DEF h
    <3> QED
      BY <2>2, <3>1 DEF Runs
  <2> QED
    BY <2>3
<1>3. 0..N \subseteq S
  <2> HIDE DEF S
  <2> QED
    BY <1>1, <1>2, UpTo
<1> QED
  BY <1>3

LEMMA AfterIs ==
    ASSUME NEW view, NEW list, Len(list) \in Nat, NEW g, Runs(g, view, list, Len(list))
    PROVE  After(view, list) = g[Len(list)]
<1> DEFINE h == CHOOSE h : Runs(h, view, list, Len(list))
<1>1. Runs(h, view, list, Len(list))
  OBVIOUS
<1>2. After(view, list) = h[Len(list)]
  BY DEF After, Runs
<1> HIDE DEF h
<1> QED
  BY <1>1, <1>2, RunsSame

LEMMA AfterNothing == \A view : After(view, <<>>) = view
<1> TAKE view
<1>1. PICK g : Runs(g, view, <<>>, 0)
  BY RunsExist
<1>2. g[0] = view
  BY <1>1 DEF Runs
<1> QED
  BY <1>1, <1>2, AfterIs

\* One message more at the end.
LEMMA AfterOneMore ==
    ASSUME NEW view, NEW list \in Seq(Message), NEW x \in Message
    PROVE  After(view, list \o <<x>>) = AfterMessage(After(view, list), x)
<1> DEFINE longer == list \o <<x>>
           N == Len(list)
<1>1. /\ N \in Nat /\ Len(longer) = N + 1 /\ longer[N + 1] = x
      /\ \A n \in 1..N : longer[n] = list[n]
  OBVIOUS
<1> HIDE DEF longer, N
<1>2. PICK g : Runs(g, view, longer, N + 1)
  <2>1. N + 1 \in Nat
    BY <1>1
  <2>2. \E g : Runs(g, view, longer, N + 1)
    BY <2>1, RunsExist
  <2> QED
    BY <2>2
<1>3. PICK h : Runs(h, view, list, N)
  BY <1>1, RunsExist
<1>4. \A n \in 0..N : h[n] = IF n = 0 THEN view ELSE AfterMessage(h[n - 1], longer[n])
  <2> TAKE n \in 0..N
  <2>1. n = 0 \/ n \in 1..N
    BY <1>1
  <2> QED
    BY <1>1, <1>3, <2>1 DEF Runs
<1>5. Runs(h, view, longer, N)
  <2>1. h = [n \in 0..N |-> h[n]]
    BY <1>3 DEF Runs
  <2> QED
    BY <1>4, <2>1 DEF Runs
<1>6. g[N] = h[N]
  <2> DEFINE M == N + 1
  <2>1. M \in Nat /\ N \in 0..M /\ N \in 0..N
    BY <1>1
  <2>2. Runs(g, view, longer, M)
    BY <1>2
  <2> HIDE DEF M
  <2>3. \A n \in 0..N : g[n] = h[n]
    BY <1>5, <2>1, <2>2, RunsSame
  <2> QED
    BY <2>1, <2>3
<1>7. g[N + 1] = AfterMessage(g[N], x)
  <2>1. N + 1 \in 0..(N + 1) /\ N + 1 # 0 /\ (N + 1) - 1 = N
    BY <1>1
  <2>2. g[N + 1] = IF N + 1 = 0 THEN view ELSE AfterMessage(g[(N + 1) - 1], longer[N + 1])
    BY <1>2, <2>1 DEF Runs
  <2> QED
    BY <1>1, <2>1, <2>2
<1>8. After(view, longer) = g[N + 1] /\ After(view, list) = h[N]
  BY <1>1, <1>2, <1>3, AfterIs DEF N
<1> QED
  BY <1>6, <1>7, <1>8 DEF longer

\* One message less at the beginning.
LEMMA AfterOneLess ==
    ASSUME NEW view, NEW list \in Seq(Message), list # <<>>
    PROVE  After(AfterMessage(view, Head(list)), Tail(list)) = After(view, list)
<1> DEFINE N == Len(list) - 1
           rest == Tail(list)
           first == AfterMessage(view, Head(list))
<1>1. /\ N \in Nat /\ Len(list) = N + 1 /\ Len(rest) = N /\ Head(list) = list[1]
      /\ \A n \in 1..N : rest[n] = list[n + 1]
  OBVIOUS
<1>2. PICK g : Runs(g, view, list, N + 1)
  <2> HIDE DEF N
  <2> QED
    BY <1>1, RunsExist
<1> DEFINE h == [n \in 0..N |-> g[n + 1]]
<1> HIDE DEF N, rest
<1>3. \A n \in 0..(N + 1) : n # 0 => g[n] = AfterMessage(g[n - 1], list[n])
  BY <1>2 DEF Runs
<1>4. g[0] = view
  BY <1>1, <1>2 DEF Runs
<1>5. ASSUME NEW n \in 0..N
      PROVE  h[n] = IF n = 0 THEN first ELSE AfterMessage(h[n - 1], rest[n])
  <2>1. n + 1 \in 0..(N + 1) /\ n + 1 # 0 /\ (n + 1) - 1 = n
    BY <1>1
  <2>2. g[n + 1] = AfterMessage(g[n], list[n + 1])
    BY <1>3, <2>1
  <2>3. CASE n = 0
    BY <1>1, <1>4, <2>2, <2>3
  <2>4. CASE n \in 1..N
    <3>1. n - 1 \in 0..N /\ (n - 1) + 1 = n /\ n # 0
      BY <1>1, <2>4
    <3>2. h[n - 1] = g[n] /\ h[n] = g[n + 1]
      BY <3>1
    <3> QED
      BY <1>1, <2>2, <2>4, <3>1, <3>2
  <2> QED
    BY <1>1, <2>3, <2>4
<1>6. Runs(h, first, rest, N)
  <2>1. h = [n \in 0..N |-> h[n]]
    OBVIOUS
  <2> HIDE DEF h, first
  <2> QED
    BY <1>5, <2>1 DEF Runs
<1>7. After(first, rest) = h[N]
  <2> HIDE DEF h, first
  <2> QED
    BY <1>1, <1>6, AfterIs
<1>8. After(view, list) = g[N + 1]
  BY <1>1, <1>2, AfterIs
<1>9. h[N] = g[N + 1]
  BY <1>1
<1> QED
  BY <1>7, <1>8, <1>9 DEF rest

-----------------------------------------------------------------------------
(* The order of the windows.                                               *)

\* The order names the windows that are open, each once.
Ordered(view) ==
    /\ view.windows \in [Windows -> Tids \cup {Closed}]
    /\ view.order \in Seq(Windows)
    /\ \A i, k \in DOMAIN view.order : view.order[i] = view.order[k] => i = k
    /\ \A w \in Windows : view.windows[w] # Closed <=> \E i \in DOMAIN view.order : view.order[i] = w

\* A window that is not in the order is not missed.
LEMMA PickedAll ==
    ASSUME NEW seq \in Seq(Windows), NEW w, \A i \in DOMAIN seq : seq[i] # w
    PROVE  Picked(seq, {i \in DOMAIN seq : seq[i] # w}) = seq
<1> DEFINE places == {i \in DOMAIN seq : seq[i] # w}
           g == [n \in 0..Len(seq) |-> SubSeq(seq, 1, n)]
<1>1. Len(seq) \in Nat /\ DOMAIN seq = 1..Len(seq) /\ places = 1..Len(seq)
  OBVIOUS
<1>2. ASSUME NEW n \in 0..Len(seq)
      PROVE  g[n] = IF n = 0 THEN <<>> ELSE IF n \in places THEN Append(g[n - 1], seq[n]) ELSE g[n - 1]
  <2>1. CASE n = 0
    BY <2>1
  <2>2. CASE n \in 1..Len(seq)
    <3>1. n \in places /\ n # 0 /\ n - 1 \in 0..Len(seq)
      BY <1>1, <2>2
    <3>2. SubSeq(seq, 1, n) = Append(SubSeq(seq, 1, n - 1), seq[n])
      BY <1>1, <2>2
    <3> QED
      BY <3>1, <3>2
  <2> QED
    BY <1>1, <2>1, <2>2
<1>3. Picks(g, seq, places)
  <2>1. g = [n \in 0..Len(seq) |-> g[n]]
    OBVIOUS
  <2> HIDE DEF g, places
  <2> QED
    BY <1>2, <2>1 DEF Picks
<1>4. Picked(seq, places) = g[Len(seq)]
  <2> HIDE DEF g, places
  <2> QED
    BY <1>1, <1>3, PickedIs
<1>5. g[Len(seq)] = seq
  BY <1>1
<1> QED
  BY <1>4, <1>5

LEMMA AppendLast ==
    ASSUME NEW a \in Seq(Windows), NEW b \in Seq(Windows), NEW x \in Windows
    PROVE  a \o Append(b, x) = Append(a \o b, x)
<1> DEFINE l == a \o Append(b, x)
           r == Append(a \o b, x)
<1>1. l \in Seq(Windows) /\ r \in Seq(Windows) /\ Len(l) = Len(a) + Len(b) + 1 /\ Len(r) = Len(l)
  OBVIOUS
<1>2. ASSUME NEW i \in 1..Len(l) PROVE l[i] = r[i]
  <2>0. Len(a) \in Nat /\ Len(b) \in Nat /\ i \in 1..(Len(a) + Len(b) + 1) /\ i \in Int
        /\ Len(a \o b) = Len(a) + Len(b) /\ a \o b \in Seq(Windows)
    BY <1>1
  <2>1. CASE i <= Len(a)
    <3>1. l[i] = a[i] /\ (a \o b)[i] = a[i] /\ r[i] = (a \o b)[i]
      BY <2>0, <2>1
    <3> QED
      BY <3>1
  <2>2. CASE i > Len(a) /\ i <= Len(a) + Len(b)
    <3>1. l[i] = Append(b, x)[i - Len(a)] /\ Append(b, x)[i - Len(a)] = b[i - Len(a)]
      BY <2>0, <2>2
    <3>2. (a \o b)[i] = b[i - Len(a)] /\ r[i] = (a \o b)[i]
      BY <2>0, <2>2
    <3> QED
      BY <3>1, <3>2
  <2>3. CASE i = Len(a) + Len(b) + 1
    <3>1. l[i] = Append(b, x)[i - Len(a)] /\ Append(b, x)[i - Len(a)] = x
      BY <2>0, <2>3
    <3>2. r[i] = x
      BY <2>0, <2>3
    <3> QED
      BY <3>1, <3>2
  <2> QED
    BY <2>0, <2>1, <2>2, <2>3
<1> HIDE DEF l, r
<1>3. l = r
  BY <1>1, <1>2
<1> QED
  BY <1>3 DEF l, r

\* A window that is in the order once is removed from its place.
LEMMA PickedWithout ==
    ASSUME NEW seq \in Seq(Windows), NEW p \in DOMAIN seq,
           \A i \in DOMAIN seq : seq[i] = seq[p] => i = p
    PROVE  Picked(seq, {i \in DOMAIN seq : seq[i] # seq[p]}) = RemoveAt(seq, p)
<1> DEFINE places == {i \in DOMAIN seq : seq[i] # seq[p]}
           before == SubSeq(seq, 1, p - 1)
           g == [n \in 0..Len(seq) |->
                    IF n < p THEN SubSeq(seq, 1, n) ELSE before \o SubSeq(seq, p + 1, n)]
<1>1. Len(seq) \in Nat /\ DOMAIN seq = 1..Len(seq) /\ p \in 1..Len(seq)
  OBVIOUS
<1>2. \A n \in 1..Len(seq) : n \in places <=> n # p
  BY <1>1
<1>3. before \in Seq(Windows)
  BY <1>1
<1>4. ASSUME NEW n \in 0..Len(seq)
      PROVE  g[n] = IF n = 0 THEN <<>> ELSE IF n \in places THEN Append(g[n - 1], seq[n]) ELSE g[n - 1]
  <2>1. CASE n = 0
    BY <1>1, <2>1
  <2>2. CASE n \in 1..(p - 1)
    <3>1. n \in places /\ n # 0 /\ n - 1 \in 0..Len(seq) /\ n < p /\ n - 1 < p
      BY <1>1, <1>2, <2>2
    <3>2. SubSeq(seq, 1, n) = Append(SubSeq(seq, 1, n - 1), seq[n])
      BY <1>1, <2>2
    <3> QED
      BY <3>1, <3>2
  <2>3. CASE n = p
    <3>1. n \notin places /\ n # 0 /\ n - 1 \in 0..Len(seq) /\ n - 1 < p /\ ~(n < p)
      BY <1>1, <2>3
    <3>2. SubSeq(seq, p + 1, n) = <<>>
      BY <1>1, <2>3
    <3>3. before \o <<>> = before
      BY <1>3
    <3> QED
      BY <2>3, <3>1, <3>2, <3>3
  <2>4. CASE n \in (p + 1)..Len(seq)
    <3>1. n \in places /\ n # 0 /\ n - 1 \in 0..Len(seq) /\ ~(n - 1 < p) /\ ~(n < p)
      BY <1>1, <1>2, <2>4
    <3>2. SubSeq(seq, p + 1, n) = Append(SubSeq(seq, p + 1, n - 1), seq[n])
      BY <1>1, <2>4
    <3>3. SubSeq(seq, p + 1, n - 1) \in Seq(Windows) /\ seq[n] \in Windows
      BY <1>1, <2>4
    <3>4. before \o Append(SubSeq(seq, p + 1, n - 1), seq[n])
          = Append(before \o SubSeq(seq, p + 1, n - 1), seq[n])
      <4> HIDE DEF before
      <4> QED
        BY <1>3, <3>3, AppendLast
    <3> QED
      BY <3>1, <3>2, <3>4
  <2> QED
    BY <1>1, <2>1, <2>2, <2>3, <2>4
<1>5. Picks(g, seq, places)
  <2>1. g = [n \in 0..Len(seq) |-> g[n]]
    OBVIOUS
  <2> HIDE DEF g, places
  <2> QED
    BY <1>4, <2>1 DEF Picks
<1>6. Picked(seq, places) = g[Len(seq)]
  <2> HIDE DEF g, places
  <2> QED
    BY <1>1, <1>5, PickedIs
<1>7. g[Len(seq)] = RemoveAt(seq, p)
  <2>1. Len(seq) \in 0..Len(seq) /\ ~(Len(seq) < p)
    BY <1>1
  <2>2. g[Len(seq)] = before \o SubSeq(seq, p + 1, Len(seq))
    BY <2>1
  <2> QED
    BY <2>2 DEF RemoveAt
<1> QED
  BY <1>6, <1>7

LEMMA OrderedWith ==
    ASSUME NEW view, Ordered(view), NEW w \in Windows, NEW t \in Tids
    PROVE  Ordered(WithWindow(view, w, t))
<1> DEFINE after == WithWindow(view, w, t)
           n == Len(view.order)
<1>1. /\ view.windows \in [Windows -> Tids \cup {Closed}] /\ view.order \in Seq(Windows)
      /\ n \in Nat /\ DOMAIN view.order = 1..n /\ Closed \notin Tids
  BY Constants DEF Ordered
<1>2. after.windows = [view.windows EXCEPT ![w] =
                         IF t > 0 \/ view.windows[w] = Closed THEN t ELSE view.windows[w]]
  BY DEF WithWindow
<1>3. after.order = IF view.windows[w] = Closed THEN Append(view.order, w) ELSE view.order
  BY DEF WithWindow
<1> HIDE DEF after, n
<1>4. /\ after.windows \in [Windows -> Tids \cup {Closed}]
      /\ after.windows[w] # Closed
      /\ \A v \in Windows : v # w => after.windows[v] = view.windows[v]
  BY <1>1, <1>2
<1>5. CASE view.windows[w] = Closed
  <2>1. \A i \in 1..n : view.order[i] # w
    BY <1>1, <1>5 DEF Ordered
  <2>2. /\ after.order \in Seq(Windows) /\ DOMAIN after.order = 1..(n + 1)
        /\ after.order[n + 1] = w /\ \A i \in 1..n : after.order[i] = view.order[i]
    BY <1>1, <1>3, <1>5 DEF n
  <2>3. \A i \in 1..(n + 1) : i \in 1..n \/ i = n + 1
    BY <1>1
  <2>4. \A i, k \in 1..(n + 1) : after.order[i] = after.order[k] => i = k
    <3>1. \A i, k \in 1..n : view.order[i] = view.order[k] => i = k
      BY <1>1 DEF Ordered
    <3>2. \A i, k \in 1..n : after.order[i] = after.order[k] => i = k
      BY <2>2, <3>1
    <3>3. \A i \in 1..n : after.order[i] # after.order[n + 1]
      BY <2>1, <2>2
    <3> QED
      BY <2>3, <3>2, <3>3
  <2>5. ASSUME NEW v \in Windows
        PROVE  after.windows[v] # Closed <=> \E i \in 1..(n + 1) : after.order[i] = v
    <3>1. n + 1 \in 1..(n + 1) /\ 1..n \subseteq 1..(n + 1)
      BY <1>1
    <3>2. CASE v = w
      BY <1>4, <2>2, <3>1, <3>2
    <3>3. CASE v # w
      <4>1. after.windows[v] # Closed <=> \E i \in 1..n : view.order[i] = v
        BY <1>1, <1>4, <3>3 DEF Ordered
      <4> QED
        BY <2>2, <2>3, <3>1, <3>3, <4>1
    <3> QED
      BY <3>2, <3>3
  <2> QED
    BY <1>4, <2>2, <2>4, <2>5 DEF Ordered, after
<1>6. CASE view.windows[w] # Closed
  <2>1. after.order = view.order
    BY <1>3, <1>6
  <2>2. \A v \in Windows : after.windows[v] # Closed <=> view.windows[v] # Closed
    BY <1>4, <1>6
  <2> QED
    BY <1>4, <2>1, <2>2 DEF Ordered, after
<1> QED
  BY <1>5, <1>6

\* What is left when a window is closed.
LEMMA WithoutIs ==
    ASSUME NEW view, Ordered(view), NEW w \in Windows
    PROVE  /\ WithoutWindow(view, w).windows = [view.windows EXCEPT ![w] = Closed]
           /\ view.windows[w] = Closed => WithoutWindow(view, w).order = view.order
           /\ \A p \in DOMAIN view.order : view.order[p] = w =>
                WithoutWindow(view, w).order = RemoveAt(view.order, p)
<1>1. /\ WithoutWindow(view, w).windows = [view.windows EXCEPT ![w] = Closed]
      /\ WithoutWindow(view, w).order = Picked(view.order, {i \in DOMAIN view.order : view.order[i] # w})
  BY DEF WithoutWindow
<1>2. view.order \in Seq(Windows)
  BY DEF Ordered
<1>3. ASSUME view.windows[w] = Closed PROVE WithoutWindow(view, w).order = view.order
  <2>1. \A i \in DOMAIN view.order : view.order[i] # w
    BY <1>3 DEF Ordered
  <2>2. Picked(view.order, {i \in DOMAIN view.order : view.order[i] # w}) = view.order
    BY <1>2, <2>1, PickedAll
  <2> QED
    BY <1>1, <2>2
<1>4. ASSUME NEW p \in DOMAIN view.order, view.order[p] = w
      PROVE  WithoutWindow(view, w).order = RemoveAt(view.order, p)
  <2>1. \A i \in DOMAIN view.order : view.order[i] = view.order[p] => i = p
    BY DEF Ordered
  <2>2. Picked(view.order, {i \in DOMAIN view.order : view.order[i] # view.order[p]})
        = RemoveAt(view.order, p)
    BY <1>2, <2>1, PickedWithout
  <2> QED
    BY <1>1, <1>4, <2>2
<1> QED
  BY <1>1, <1>3, <1>4

LEMMA OrderedWithout ==
    ASSUME NEW view, Ordered(view), NEW w \in Windows
    PROVE  Ordered(WithoutWindow(view, w))
<1> DEFINE after == WithoutWindow(view, w)
           n == Len(view.order)
<1>1. /\ view.windows \in [Windows -> Tids \cup {Closed}] /\ view.order \in Seq(Windows)
      /\ n \in Nat /\ DOMAIN view.order = 1..n
  BY DEF Ordered
<1>2. /\ after.windows = [view.windows EXCEPT ![w] = Closed]
      /\ view.windows[w] = Closed => after.order = view.order
      /\ \A p \in DOMAIN view.order : view.order[p] = w => after.order = RemoveAt(view.order, p)
  BY WithoutIs
<1> HIDE DEF after, n
<1>3. /\ after.windows \in [Windows -> Tids \cup {Closed}]
      /\ after.windows[w] = Closed
      /\ \A v \in Windows : v # w => after.windows[v] = view.windows[v]
  BY <1>1, <1>2
<1>4. CASE view.windows[w] = Closed
  <2>1. after.order = view.order
    BY <1>2, <1>4
  <2>2. \A v \in Windows : after.windows[v] # Closed <=> view.windows[v] # Closed
    BY <1>3, <1>4
  <2> QED
    BY <1>3, <2>1, <2>2 DEF Ordered, after
<1>5. CASE view.windows[w] # Closed
  <2>1. PICK p \in 1..n : view.order[p] = w
    BY <1>1, <1>5 DEF Ordered
  <2>2. after.order = RemoveAt(view.order, p)
    BY <1>1, <1>2, <2>1
  <2>3. /\ DOMAIN after.order = 1..(n - 1) /\ Len(after.order) = n - 1
        /\ \A k \in 1..(n - 1) : after.order[k] = IF k < p THEN view.order[k] ELSE view.order[k + 1]
    BY <1>1, <2>2, Removed DEF n
  <2>4. after.order \in Seq(Windows)
    <3>1. SubSeq(view.order, 1, p - 1) \in Seq(Windows) /\ SubSeq(view.order, p + 1, n) \in Seq(Windows)
      BY <1>1, <2>1 DEF n
    <3> QED
      BY <2>2, <3>1 DEF RemoveAt, n
  <2>5. \A i, k \in 1..n : view.order[i] = view.order[k] => i = k
    BY <1>1 DEF Ordered
  <2>6. \A k \in 1..(n - 1) : k \in 1..n /\ k + 1 \in 1..n
    BY <1>1
  <2>7. \A i, k \in 1..(n - 1) : after.order[i] = after.order[k] => i = k
    <3> TAKE i, k \in 1..(n - 1)
    <3> HAVE after.order[i] = after.order[k]
    <3>1. (IF i < p THEN i ELSE i + 1) = (IF k < p THEN k ELSE k + 1)
      BY <2>3, <2>5, <2>6
    <3> QED
      BY <1>1, <2>1, <3>1
  <2>8. \A k \in 1..(n - 1) : after.order[k] # w
    <3> TAKE k \in 1..(n - 1)
    <3>1. (IF k < p THEN k ELSE k + 1) # p /\ (IF k < p THEN k ELSE k + 1) \in 1..n
      BY <1>1, <2>1, <2>6
    <3> QED
      BY <2>1, <2>3, <2>5, <3>1
  <2>9. ASSUME NEW v \in Windows
        PROVE  after.windows[v] # Closed <=> \E i \in 1..(n - 1) : after.order[i] = v
    <3>1. CASE v = w
      BY <1>3, <2>8, <3>1
    <3>2. CASE v # w
      <4>1. after.windows[v] # Closed <=> \E i \in 1..n : view.order[i] = v
        BY <1>1, <1>3, <3>2 DEF Ordered
      <4>2. ASSUME NEW i \in 1..n, view.order[i] = v
            PROVE  \E k \in 1..(n - 1) : after.order[k] = v
        <5> DEFINE k == IF i < p THEN i ELSE i - 1
        <5>1. /\ i # p /\ k \in 1..(n - 1) /\ (IF k < p THEN k ELSE k + 1) = i
          BY <1>1, <2>1, <3>2, <4>2
        <5> HIDE DEF k
        <5> QED
          BY <2>3, <4>2, <5>1
      <4>3. ASSUME NEW k \in 1..(n - 1), after.order[k] = v
            PROVE  \E i \in 1..n : view.order[i] = v
        BY <2>3, <2>6, <4>3
      <4> QED
        BY <4>1, <4>2, <4>3
    <3> QED
      BY <3>1, <3>2
  <2> QED
    BY <1>3, <2>3, <2>4, <2>7, <2>9 DEF Ordered, after
<1> QED
  BY <1>4, <1>5

LEMMA OrderedAfter ==
    ASSUME NEW view, Ordered(view), NEW x \in Message
    PROVE  Ordered(AfterMessage(view, x))
BY Fields, OrderedWith, OrderedWithout DEF AfterMessage

\* What the bridge does to the windows is what the message says.
LEMMA Bridged ==
    ASSUME Typed, Ordered(View), BridgeStep, ~TellStop
    PROVE  \E u : Takes(u) /\ View' = AfterMessage(View, Taken)
<1>2. CASE HandleOpenWindow
  <2>1. Takes("open") /\ SetView(WithWindow(View, Taken.win, Taken.tid))
    BY <1>2 DEF HandleOpenWindow
  <2>2. Taken.type = "open"
    BY <2>1, TakesTyped
  <2>3. View' = WithWindow(View, Taken.win, Taken.tid)
    BY <2>1 DEF SetView, WithWindow, View
  <2> QED
    BY <2>1, <2>2, <2>3 DEF AfterMessage
<1>3. CASE HandleUpdateWindow
  <2>1. Takes("update") /\ SetView(WithWindow(View, Taken.win, Taken.tid))
    BY <1>3 DEF HandleUpdateWindow
  <2>2. Taken.type = "update"
    BY <2>1, TakesTyped
  <2>3. View' = WithWindow(View, Taken.win, Taken.tid)
    BY <2>1 DEF SetView, WithWindow, View
  <2> QED
    BY <2>1, <2>2, <2>3 DEF AfterMessage
<1>4. CASE HandleCloseWindow
  <2>1. Takes("close")
    BY <1>4 DEF HandleCloseWindow
  <2>2. Taken \in Message /\ Taken.type = "close" /\ Taken.win \in Windows
    BY <2>1, TakesTyped, Fields
  <2>3. View' = WithoutWindow(View, Taken.win)
    <3>1. CASE tracerWindows[Taken.win] # Closed
      <4>1. SetView(WithoutWindow(View, Taken.win))
        BY <1>4, <3>1 DEF HandleCloseWindow
      <4> QED
        BY <4>1 DEF SetView, WithoutWindow, View
    <3>2. CASE tracerWindows[Taken.win] = Closed
      <4>1. UNCHANGED tracer
        BY <1>4, <3>2 DEF HandleCloseWindow
      <4>2. View.windows[Taken.win] = Closed /\ View.windows = tracerWindows /\ View.order = tracerOrder
        BY <3>2 DEF View
      <4>3. /\ WithoutWindow(View, Taken.win).windows = [tracerWindows EXCEPT ![Taken.win] = Closed]
            /\ WithoutWindow(View, Taken.win).order = tracerOrder
        BY <2>2, <4>2, WithoutIs
      <4>4. [tracerWindows EXCEPT ![Taken.win] = Closed] = tracerWindows
        BY <2>2, <3>2 DEF Typed, RestTyped
      <4>5. View' = [windows |-> tracerWindows, order |-> tracerOrder]
        BY <4>1 DEF View, tracer
      <4>6. WithoutWindow(View, Taken.win) = [windows |-> tracerWindows, order |-> tracerOrder]
        BY <4>3, <4>4 DEF WithoutWindow
      <4> QED
        BY <4>5, <4>6
    <3> QED
      BY <3>1, <3>2
  <2> QED
    BY <2>1, <2>2, <2>3 DEF AfterMessage
<1>5. ASSUME NEW type \in {"highlight", "setThread", "error", "fatal", "threads"}, Takes(type),
             UNCHANGED tracer
      PROVE  \E u : Takes(u) /\ View' = AfterMessage(View, Taken)
  <2>1. Taken.type = type
    BY <1>5, TakesTyped
  <2>2. AfterMessage(View, Taken) = View
    BY <1>5, <2>1 DEF AfterMessage
  <2>3. View' = View
    BY <1>5 DEF View, tracer
  <2> QED
    BY <1>5, <2>2, <2>3
<1>6. CASE HandleSetHighlightLine
  BY <1>5, <1>6 DEF HandleSetHighlightLine
<1>7. CASE HandleSetThread
  BY <1>5, <1>7 DEF HandleSetThread
<1>8. CASE HandleHadError
  BY <1>5, <1>8 DEF HandleHadError
<1>9. CASE HandleFatal
  BY <1>5, <1>9 DEF HandleFatal
<1>10. CASE HandleReplyGetThreads
  BY <1>5, <1>10 DEF HandleReplyGetThreads
<1> QED
  BY <1>2, <1>3, <1>4, <1>6, <1>7, <1>8, <1>9, <1>10 DEF BridgeStep

LEMMA NothingOrdered == Ordered([windows |-> [w \in Windows |-> Closed], order |-> <<>>])
BY DEF Ordered

LEMMA OrderedStep == Typed /\ Ordered(View) /\ [Next]_vars => Ordered(View)'
<1> SUFFICES ASSUME Typed, Ordered(View), [Next]_vars PROVE Ordered(View')
  BY DEF Ordered, View
<1>1. CASE UNCHANGED tracer
  <2>1. View' = View
    BY <1>1 DEF View, tracer
  <2> QED
    BY <2>1
<1>2. CASE Interpreter
  BY <1>1, <1>2, SentTyped DEF Publish
<1>3. CASE BridgeStep /\ ~TellStop
  <2>1. PICK u : Takes(u) /\ View' = AfterMessage(View, Taken)
    BY <1>3, Bridged
  <2>2. Taken \in Message
    BY <2>1, TakesTyped
  <2> QED
    BY <2>1, <2>2, OrderedAfter
<1>4. CASE TellStop
  BY <1>1, <1>4 DEF TellStop
<1>5. CASE RequestThreads \/ Disconnect
  BY <1>1, <1>5 DEF RequestThreads, Disconnect, Main
<1>6. CASE Reconnect
  <2>1. View' = [windows |-> [w \in Windows |-> Closed], order |-> <<>>]
    BY <1>6 DEF Reconnect, View
  <2> QED
    BY <2>1, NothingOrdered
<1>7. CASE UNCHANGED vars
  BY <1>1, <1>7 DEF vars
<1> QED
  BY <1>2, <1>3, <1>4, <1>5, <1>6, <1>7 DEF Next, MainStep

LEMMA OrderedInvariant == Spec => []Ordered(View)
<1>1. Init => Ordered(View)
  <2>1. Init => View = [windows |-> [w \in Windows |-> Closed], order |-> <<>>]
    BY DEF Init, View
  <2> QED
    BY <2>1, NothingOrdered
<1>2. Spec => []Typed
  BY Invariant, PTL
<1> QED
  BY <1>1, <1>2, OrderedStep, PTL DEF Spec

\* Every part of the state is what it is said to be, in every state.
THEOREM TypeCorrect == Spec => []TypeOK
<1>1. Typed /\ Ordered(View) => TypeOK
  BY DEF Typed, Ordered, View, TypeOK
<1> QED
  BY <1>1, Invariant, OrderedInvariant, PTL

-----------------------------------------------------------------------------
(* The stacks follow the interpreter.                                      *)

\* The order is that of the interpreter's windows, with their threads.
Reflects(view, s) ==
    /\ Len(view.order) = Len(s)
    /\ \A i \in 1..Len(s) : view.order[i] = s[i].win /\ view.windows[s[i].win] = s[i].tid

LEMMA OpenedTyped ==
    ASSUME NEW s \in Seq(Opened)
    PROVE  /\ Len(s) \in Nat /\ DOMAIN s = 1..Len(s)
           /\ \A i \in DOMAIN s : /\ s[i] \in Opened /\ s[i].win \in Windows /\ s[i].tid \in Tids
                                 /\ s[i] = [win |-> s[i].win, tid |-> s[i].tid]
<1>1. \A x \in Opened : x.win \in Windows /\ x.tid \in Tids /\ x = [win |-> x.win, tid |-> x.tid]
  BY DEF Opened
<1>2. \A i \in DOMAIN s : s[i] \in Opened
  OBVIOUS
<1>3. Len(s) \in Nat /\ DOMAIN s = 1..Len(s)
  OBVIOUS
<1> QED
  BY <1>1, <1>2, <1>3

LEMMA ReflectsOpen ==
    ASSUME NEW view, Ordered(view), NEW s \in Seq(Opened), Reflects(view, s),
           NEW w \in Windows, NEW t \in Tids, \A i \in DOMAIN s : s[i].win # w
    PROVE  Reflects(WithWindow(view, w, t), Append(s, [win |-> w, tid |-> t]))
<1> DEFINE after == WithWindow(view, w, t)
           n == Len(s)
           longer == Append(s, [win |-> w, tid |-> t])
<1>1. /\ view.windows \in [Windows -> Tids \cup {Closed}] /\ view.order \in Seq(Windows)
      /\ n \in Nat /\ DOMAIN view.order = 1..n /\ DOMAIN s = 1..n /\ Len(view.order) = n
  BY DEF Ordered, Reflects
<1>2. view.windows[w] = Closed
  BY <1>1 DEF Ordered, Reflects
<1>3. after.windows = [view.windows EXCEPT ![w] = t] /\ after.order = Append(view.order, w)
  BY <1>1, <1>2 DEF WithWindow
<1>4. /\ Len(longer) = n + 1 /\ longer[n + 1].win = w /\ longer[n + 1].tid = t
      /\ \A i \in 1..n : longer[i] = s[i]
  BY <1>1
<1>5. /\ Len(after.order) = n + 1 /\ after.order[n + 1] = w
      /\ \A i \in 1..n : after.order[i] = view.order[i]
  BY <1>1, <1>3
<1>6. after.windows[w] = t /\ \A v \in Windows : v # w => after.windows[v] = view.windows[v]
  BY <1>1, <1>3
<1> HIDE DEF after, longer, n
<1>7. ASSUME NEW i \in 1..(n + 1)
      PROVE  after.order[i] = longer[i].win /\ after.windows[longer[i].win] = longer[i].tid
  <2>1. CASE i = n + 1
    BY <1>4, <1>5, <1>6, <2>1
  <2>2. CASE i \in 1..n
    <3>1. view.order[i] = s[i].win /\ view.windows[s[i].win] = s[i].tid
      BY <2>2 DEF Reflects, n
    <3>2. s[i].win \in Windows /\ s[i].win # w
      BY <1>1, <2>2, OpenedTyped
    <3> QED
      BY <1>4, <1>5, <1>6, <2>2, <3>1, <3>2
  <2> QED
    BY <1>1, <2>1, <2>2
<1>8. Reflects(after, longer)
  BY <1>4, <1>5, <1>7 DEF Reflects
<1> QED
  BY <1>8 DEF after, longer

LEMMA ReflectsUpdate ==
    ASSUME NEW view, Ordered(view), NEW s \in Seq(Opened), Reflects(view, s),
           NEW i \in DOMAIN s, NEW t \in {0, s[i].tid}
    PROVE  Reflects(WithWindow(view, s[i].win, t), s)
<1>1. /\ view.windows \in [Windows -> Tids \cup {Closed}] /\ i \in 1..Len(s)
      /\ s[i].win \in Windows /\ s[i].tid \in Tids
  BY OpenedTyped DEF Ordered
<1>2. view.windows[s[i].win] = s[i].tid /\ s[i].tid # Closed
  BY <1>1, Constants DEF Reflects
<1>3. (IF t > 0 \/ view.windows[s[i].win] = Closed THEN t ELSE view.windows[s[i].win])
      = view.windows[s[i].win]
  BY <1>1, <1>2, Constants
<1>4. /\ WithWindow(view, s[i].win, t).windows = view.windows
      /\ WithWindow(view, s[i].win, t).order = view.order
  BY <1>1, <1>2, <1>3 DEF WithWindow
<1> QED
  BY <1>4 DEF Reflects

LEMMA ReflectsClose ==
    ASSUME NEW view, Ordered(view), NEW s \in Seq(Opened), Reflects(view, s),
           NEW i \in DOMAIN s
    PROVE  Reflects(WithoutWindow(view, s[i].win), RemoveAt(s, i))
<1> DEFINE after == WithoutWindow(view, s[i].win)
           n == Len(s)
           shorter == RemoveAt(s, i)
<1>1. /\ view.windows \in [Windows -> Tids \cup {Closed}] /\ view.order \in Seq(Windows)
      /\ n \in Nat /\ DOMAIN view.order = 1..n /\ DOMAIN s = 1..n /\ Len(view.order) = n
      /\ i \in 1..n /\ \A k \in 1..n : s[k].win \in Windows
  BY OpenedTyped DEF Ordered, Reflects
<1>2. /\ after.windows = [view.windows EXCEPT ![s[i].win] = Closed]
      /\ after.order = RemoveAt(view.order, i)
  BY <1>1, WithoutIs DEF Reflects
<1>3. /\ Len(after.order) = n - 1
      /\ \A k \in 1..(n - 1) : after.order[k] = IF k < i THEN view.order[k] ELSE view.order[k + 1]
  <2>1. after.order = RemoveAt(view.order, i) /\ i \in DOMAIN view.order /\ view.order \in Seq(Windows)
    BY <1>1, <1>2
  <2> HIDE DEF after
  <2> QED
    BY <1>1, <2>1, Removed
<1>4. /\ Len(shorter) = n - 1
      /\ \A k \in 1..(n - 1) : shorter[k] = IF k < i THEN s[k] ELSE s[k + 1]
  BY Removed
<1> HIDE DEF after, shorter, n
<1>5. ASSUME NEW k \in 1..(n - 1)
      PROVE  after.order[k] = shorter[k].win /\ after.windows[shorter[k].win] = shorter[k].tid
  <2> DEFINE j == IF k < i THEN k ELSE k + 1
  <2>1. j \in 1..n /\ j # i
    BY <1>1
  <2>2. after.order[k] = view.order[j] /\ shorter[k] = s[j]
    BY <1>3, <1>4
  <2> HIDE DEF j
  <2>3. view.order[j] = s[j].win /\ view.windows[s[j].win] = s[j].tid /\ view.order[i] = s[i].win
    BY <1>1, <2>1 DEF Reflects, n
  <2>4. s[j].win # s[i].win /\ s[j].win \in Windows
    BY <1>1, <2>1, <2>3 DEF Ordered
  <2> QED
    BY <1>1, <1>2, <2>2, <2>3, <2>4
<1>6. Reflects(after, shorter)
  BY <1>3, <1>4, <1>5 DEF Reflects
<1> QED
  BY <1>6 DEF after, shorter

LEMMA OrderedRun ==
    ASSUME NEW view, Ordered(view), NEW list \in Seq(Message)
    PROVE  Ordered(After(view, list))
<1>1. Len(list) \in Nat
  OBVIOUS
<1>2. PICK g : Runs(g, view, list, Len(list))
  BY <1>1, RunsExist
<1> DEFINE S == {n \in 0..Len(list) : Ordered(g[n])}
<1>3. 0 \in S
  BY <1>1, <1>2 DEF Runs
<1>4. ASSUME NEW n \in 1..Len(list), n - 1 \in S PROVE n \in S
  <2>1. n \in 0..Len(list) /\ n # 0 /\ list[n] \in Message
    OBVIOUS
  <2>2. g[n] = AfterMessage(g[n - 1], list[n])
    BY <1>2, <2>1 DEF Runs
  <2> QED
    BY <1>4, <2>1, <2>2, OrderedAfter
<1>5. 0..Len(list) \subseteq S
  <2> HIDE DEF S
  <2> QED
    BY <1>1, <1>3, <1>4, UpTo
<1> QED
  BY <1>1, <1>2, <1>5, AfterIs

\* The layout that is sent after a reconnect.
LEMMA LayoutShown ==
    ASSUME NEW view, Ordered(view), \A w \in Windows : view.windows[w] = Closed,
           NEW s \in Seq(Opened), \A i, k \in DOMAIN s : s[i].win = s[k].win => i = k
    PROVE  Reflects(After(view, [i \in DOMAIN s |-> OpenMessage(s[i])]), s)
<1> DEFINE sent == [i \in DOMAIN s |-> OpenMessage(s[i])]
           n == Len(s)
<1>1. /\ n \in Nat /\ DOMAIN s = 1..n
      /\ \A i \in 1..n : s[i] \in Opened /\ s[i].win \in Windows /\ s[i].tid \in Tids
  BY OpenedTyped
<1>2. sent \in Seq(Message) /\ Len(sent) = n /\ \A i \in 1..n : sent[i] = OpenMessage(s[i])
  <2>1. \A i \in 1..n : OpenMessage(s[i]) \in Message
    BY <1>1, MessagesTyped DEF OpenMessage
  <2>2. sent = [i \in 1..n |-> OpenMessage(s[i])]
    BY <1>1
  <2> HIDE DEF n, sent
  <2> QED
    BY <1>1, <2>1, <2>2
<1> HIDE DEF sent
<1>3. PICK g : Runs(g, view, sent, n)
  BY <1>1, RunsExist
<1> DEFINE S == {k \in 0..n : Ordered(g[k]) /\ Reflects(g[k], SubSeq(s, 1, k))}
<1>4. 0 \in S
  <2>1. g[0] = view /\ 0 \in 0..n
    BY <1>1, <1>3 DEF Runs
  <2>2. SubSeq(s, 1, 0) = <<>> /\ Len(<<>>) = 0
    BY <1>1
  <2>3. view.order \in Seq(Windows) /\ \A i \in DOMAIN view.order : FALSE
    BY DEF Ordered, Closed
  <2>4. Len(view.order) = 0
    <3>1. Len(view.order) \in Nat /\ DOMAIN view.order = 1..Len(view.order)
      BY <2>3
    <3>2. 1 \notin 1..Len(view.order)
      BY <2>3, <3>1
    <3> QED
      BY <3>1, <3>2
  <2> QED
    BY <2>1, <2>2, <2>4 DEF Reflects
<1>5. ASSUME NEW k \in 1..n, k - 1 \in S PROVE k \in S
  <2> DEFINE before == SubSeq(s, 1, k - 1)
  <2>1. k \in 0..n /\ k # 0 /\ Ordered(g[k - 1]) /\ Reflects(g[k - 1], before)
    BY <1>5
  <2>2. g[k] = AfterMessage(g[k - 1], sent[k])
    BY <1>3, <2>1 DEF Runs
  <2>3. g[k] = WithWindow(g[k - 1], s[k].win, s[k].tid)
    <3>1. sent[k].type = "open" /\ sent[k].win = s[k].win /\ sent[k].tid = s[k].tid
      <4>1. sent[k] = OpenMessage(s[k])
        BY <1>2
      <4> QED
        BY <4>1 DEF OpenMessage
    <3> QED
      BY <2>2, <3>1 DEF AfterMessage
  <2>4. SubSeq(s, 1, k) = Append(before, s[k])
    BY <1>1
  <2>5. s[k] = [win |-> s[k].win, tid |-> s[k].tid]
    BY <1>1, OpenedTyped
  <2>6. before \in Seq(Opened) /\ \A i \in DOMAIN before : i \in 1..(k - 1) /\ before[i] = s[i]
    BY <1>1
  <2>7. \A i \in DOMAIN before : before[i].win # s[k].win
    BY <1>1, <2>6
  <2> HIDE DEF before
  <2>8. Reflects(WithWindow(g[k - 1], s[k].win, s[k].tid), Append(before, s[k]))
    BY <1>1, <2>1, <2>5, <2>6, <2>7, ReflectsOpen
  <2>9. Ordered(g[k])
    BY <1>1, <2>1, <2>3, OrderedWith
  <2> QED
    BY <2>1, <2>3, <2>4, <2>8, <2>9
<1>6. 0..n \subseteq S
  <2> HIDE DEF S, n
  <2> QED
    BY <1>1, <1>4, <1>5, UpTo
<1>7. After(view, sent) = g[n]
  <2> HIDE DEF n
  <2> QED
    BY <1>1, <1>2, <1>3, AfterIs
<1>8. SubSeq(s, 1, n) = s /\ n \in 0..n
  BY <1>1
<1> QED
  BY <1>6, <1>7, <1>8 DEF sent

\* What is under way makes the adapter's windows those of the interpreter.
FollowInv == ~disturbed /\ ~layoutAsked => Reflects(Final, stack)

LEMMA FollowInit == Init => FollowInv
<1> SUFFICES ASSUME Init PROVE Reflects(Final, stack)
  BY DEF FollowInv
<1>1. Final = View /\ stack = <<>> /\ View.order = <<>>
  BY AfterNothing DEF Init, Final, View
<1> QED
  BY <1>1 DEF Reflects

\* A message that leaves the stack as it is.
LEMMA SaysNothing ==
    ASSUME NEW view, NEW x, x.type \notin {"open", "update", "close"}
    PROVE  AfterMessage(view, x) = view
BY DEF AfterMessage

\* Each message of the interpreter does to the windows what was done to its own.
LEMMA InterpreterFollowed ==
    ASSUME Typed, ChannelInv, Ordered(View), FollowInv, Interpreter
    PROVE  FollowInv'
<1> SUFFICES ASSUME ~disturbed', ~layoutAsked' PROVE Reflects(Final', stack')
  BY DEF FollowInv
<1>1. stack \in Seq(Opened) /\ channel \in Seq(Message)
  BY DEF Typed, RestTyped, Opened
<1>2. \A i, k \in DOMAIN stack : stack[i].win = stack[k].win => i = k
  BY DEF ChannelInv
<1>3. View' = View
  BY SentTyped DEF Publish, View, tracer
<1>4. Ordered(Final)
  BY <1>1, OrderedRun DEF Final
<1>5. ASSUME NEW x \in Message, Publish(<<x>>), layoutAsked' = layoutAsked
      PROVE  Final' = AfterMessage(Final, x) /\ Reflects(Final, stack)
  <2>1. <<x>> \in Seq(Message)
    OBVIOUS
  <2>2. channel' = channel \o <<x>> /\ ~disturbed
    <3>1. Len(<<x>>) <= Capacity - Len(channel)
      BY <1>5, <2>1, PublishTyped
    <3>2. ~disturbed
      BY <1>5 DEF Publish
    <3> QED
      BY <1>5, <2>1, <3>1, <3>2, PublishTyped
  <2>3. Final' = After(View, channel \o <<x>>)
    BY <1>3, <2>2 DEF Final
  <2> QED
    BY <1>1, <1>5, <2>2, <2>3, AfterOneMore DEF Final, FollowInv
<1>6. CASE OpensWindow
  <2>1. PICK w \in Windows, t \in Tids :
          /\ ~IsOpen(w) /\ stack' = Append(stack, [win |-> w, tid |-> t])
          /\ layoutAsked' = layoutAsked
          /\ Publish(<<OpenMessage([win |-> w, tid |-> t])>>)
    BY <1>6 DEF OpensWindow
  <2> DEFINE x == [type |-> "open", win |-> w, tid |-> t]
  <2>2. OpenMessage([win |-> w, tid |-> t]) = x /\ x \in Message
    BY MessagesTyped DEF OpenMessage
  <2>3. AfterMessage(Final, x) = WithWindow(Final, w, t)
    BY DEF AfterMessage
  <2> HIDE DEF x
  <2>4. Final' = WithWindow(Final, w, t) /\ Reflects(Final, stack)
    BY <1>5, <2>1, <2>2, <2>3
  <2>5. \A i \in DOMAIN stack : stack[i].win # w
    BY <2>1 DEF IsOpen
  <2> QED
    BY <1>1, <1>4, <2>1, <2>4, <2>5, ReflectsOpen
<1>7. CASE UpdatesWindow
  <2>0. PICK i \in DOMAIN stack : \E t \in {0, stack[i].tid} :
          Publish(<<[type |-> "update", win |-> stack[i].win, tid |-> t]>>)
    BY <1>7 DEF UpdatesWindow
  <2>1. PICK t \in {0, stack[i].tid} :
          Publish(<<[type |-> "update", win |-> stack[i].win, tid |-> t]>>)
    BY <2>0
  <2>2. stack' = stack /\ layoutAsked' = layoutAsked
    BY <1>7 DEF UpdatesWindow
  <2> DEFINE x == [type |-> "update", win |-> stack[i].win, tid |-> t]
  <2>3. x \in Message
    BY <1>1, OpenedTyped, MessagesTyped, Constants
  <2>4. AfterMessage(Final, x) = WithWindow(Final, stack[i].win, t)
    BY DEF AfterMessage
  <2>5. Publish(<<x>>)
    BY <2>1
  <2> HIDE DEF x
  <2>6. Final' = WithWindow(Final, stack[i].win, t) /\ Reflects(Final, stack)
    BY <1>5, <2>2, <2>3, <2>4, <2>5
  <2> QED
    BY <1>1, <1>4, <2>2, <2>6, ReflectsUpdate
<1>8. CASE ClosesWindow
  <2>1. PICK i \in DOMAIN stack :
          /\ stack' = RemoveAt(stack, i) /\ layoutAsked' = layoutAsked
          /\ Publish(<<[type |-> "close", win |-> stack[i].win]>>)
    BY <1>8 DEF ClosesWindow
  <2> DEFINE x == [type |-> "close", win |-> stack[i].win]
  <2>2. x \in Message
    BY <1>1, OpenedTyped, MessagesTyped
  <2>3. AfterMessage(Final, x) = WithoutWindow(Final, stack[i].win)
    BY DEF AfterMessage
  <2>4. Publish(<<x>>)
    BY <2>1
  <2> HIDE DEF x
  <2>5. Final' = WithoutWindow(Final, stack[i].win) /\ Reflects(Final, stack)
    BY <1>5, <2>1, <2>2, <2>3, <2>4
  <2> QED
    BY <1>1, <1>4, <2>1, <2>5, ReflectsClose
<1>9. ASSUME NEW x \in Message, Publish(<<x>>), x.type \notin {"open", "update", "close"},
             UNCHANGED <<stack, layoutAsked>>
      PROVE  Reflects(Final', stack')
  BY <1>5, <1>9, SaysNothing
<1>10. CASE Highlights
  <2>1. PICK i \in DOMAIN stack : Publish(<<[type |-> "highlight", win |-> stack[i].win]>>)
    BY <1>10 DEF Highlights
  <2>2. [type |-> "highlight", win |-> stack[i].win] \in Message
    BY <1>1, OpenedTyped, MessagesTyped
  <2> QED
    BY <1>9, <1>10, <2>1, <2>2 DEF Highlights
<1>11. CASE OtherMessage
  <2>1. UNCHANGED <<stack, layoutAsked>>
    BY <1>11 DEF OtherMessage
  <2>2. CASE \E t \in Tids : Publish(<<[type |-> "setThread", tid |-> t]>>)
    BY <1>9, <2>1, <2>2, MessagesTyped
  <2>3. CASE \E type \in {"error", "fatal"} : Publish(<<[type |-> type]>>)
    BY <1>9, <2>1, <2>3, MessagesTyped
  <2> QED
    BY <1>11, <2>2, <2>3 DEF OtherMessage
<1>12. CASE AnswersGetThreads
  <2>1. PICK list \in Reply : Publish(<<[type |-> "threads", list |-> list]>>)
    BY <1>12 DEF AnswersGetThreads
  <2>2. [type |-> "threads", list |-> list] \in Message
    BY MessagesTyped
  <2> QED
    BY <1>9, <1>12, <2>1, <2>2 DEF AnswersGetThreads
<1>13. CASE AnswersGetWindowLayout
  <2> DEFINE sent == [i \in DOMAIN stack |-> OpenMessage(stack[i])]
  <2>1. layoutAsked /\ stack' = stack /\ Publish(sent)
    BY <1>13 DEF AnswersGetWindowLayout
  <2>2. ~disturbed
    BY <2>1 DEF Publish
  <2>3. channel = <<>> /\ \A w \in Windows : tracerWindows[w] = Closed
    BY <2>1, <2>2 DEF ChannelInv
  <2>4. sent \in Seq(Message)
    <3>1. \A i \in 1..Len(stack) : OpenMessage(stack[i]) \in Message
      BY <1>1, OpenedTyped, MessagesTyped DEF OpenMessage
    <3>2. sent = [i \in 1..Len(stack) |-> OpenMessage(stack[i])] /\ Len(stack) \in Nat
      BY <1>1
    <3> HIDE DEF sent
    <3> QED
      BY <3>1, <3>2
  <2>5. Reflects(After(View, sent), stack)
    <3>1. \A w \in Windows : View.windows[w] = Closed
      BY <2>3 DEF View
    <3> QED
      BY <1>1, <1>2, <3>1, LayoutShown
  <2> HIDE DEF sent
  <2>6. channel' = channel \o sent
    <3>1. Len(sent) <= Capacity - Len(channel)
      BY <2>1, <2>4, PublishTyped
    <3> QED
      BY <2>1, <2>4, <3>1, PublishTyped
  <2>7. channel' = sent
    BY <2>3, <2>4, <2>6
  <2> QED
    BY <1>3, <2>1, <2>5, <2>7 DEF Final
<1> QED
  BY <1>6, <1>7, <1>8, <1>10, <1>11, <1>12, <1>13 DEF Interpreter

LEMMA FollowStep == Typed /\ ChannelInv /\ Ordered(View) /\ FollowInv /\ [Next]_vars => FollowInv'
<1> SUFFICES ASSUME Typed, ChannelInv, Ordered(View), FollowInv, [Next]_vars PROVE FollowInv'
  OBVIOUS
<1>1. CASE UNCHANGED <<tracer, channel, stack, layoutAsked, disturbed>>
  <2>1. Final' = Final
    BY <1>1 DEF Final, View, tracer
  <2> QED
    BY <1>1, <2>1 DEF FollowInv
<1>2. CASE Interpreter
  BY <1>2, InterpreterFollowed
<1>3. CASE BridgeStep /\ ~TellStop
  <2>1. UNCHANGED <<stack, layoutAsked, disturbed>>
    BY <1>3 DEF BridgeStep, HandleOpenWindow, HandleUpdateWindow, HandleSetHighlightLine,
       HandleCloseWindow, HandleSetThread, HandleHadError, HandleFatal, HandleReplyGetThreads,
       Bridge, requests
  <2>2. PICK u : Takes(u) /\ View' = AfterMessage(View, Taken)
    BY <1>3, Bridged
  <2>3. channel \in Seq(Message) /\ channel # <<>> /\ channel' = Tail(channel)
    BY <2>2 DEF Takes, Typed, RestTyped
  <2>4. Final' = Final
    BY <2>2, <2>3, AfterOneLess DEF Final, Taken
  <2> QED
    BY <2>1, <2>4 DEF FollowInv
<1>4. CASE TellStop
  BY <1>1, <1>4 DEF TellStop, requests
<1>5. CASE RequestThreads \/ Disconnect
  BY <1>1, <1>5 DEF RequestThreads, Disconnect, Main, requests
<1>6. CASE Reconnect
  BY <1>6 DEF Reconnect, FollowInv
<1>7. CASE UNCHANGED vars
  BY <1>1, <1>7 DEF vars, requests
<1> QED
  BY <1>2, <1>3, <1>4, <1>5, <1>6, <1>7 DEF Next, MainStep

\* The stack trace of every thread becomes the interpreter's stack for it.
THEOREM StacksFollow == Spec => []StackFollowsInterpreter
<1>1. Typed /\ ChannelInv /\ Ordered(View) /\ FollowInv => StackFollowsInterpreter
  <2> SUFFICES ASSUME Typed, Ordered(View), Reflects(Final, stack), NEW t
               PROVE  Frames(Final, t) = OpenFor(t)
    BY DEF FollowInv, StackFollowsInterpreter
  <2>1. stack \in Seq(Opened) /\ channel \in Seq(Message)
    BY DEF Typed, RestTyped, Opened
  <2>2. Final.order \in Seq(Windows)
    BY <2>1, OrderedRun DEF Final, Ordered
  <2> DEFINE wins == [i \in DOMAIN stack |-> stack[i].win]
             n == Len(stack)
  <2>3. n \in Nat /\ DOMAIN stack = 1..n /\ Len(Final.order) = n /\ DOMAIN Final.order = 1..n
        /\ \A i \in 1..n : Final.order[i] = stack[i].win /\ Final.windows[stack[i].win] = stack[i].tid
    BY <2>1, <2>2 DEF Reflects
  <2>4. Final.order = wins
    BY <2>2, <2>3
  <2>5. {i \in DOMAIN Final.order : Final.windows[Final.order[i]] = t}
        = {i \in DOMAIN stack : stack[i].tid = t}
    BY <2>3
  <2> QED
    BY <2>4, <2>5 DEF Frames, OpenFor
<1>2. Init => FollowInv
  BY FollowInit
<1>3. Spec => []FollowInv
  BY <1>2, FollowStep, Invariant, OrderedInvariant, PTL DEF Spec
<1> QED
  BY <1>1, <1>3, Invariant, OrderedInvariant, PTL

=============================================================================

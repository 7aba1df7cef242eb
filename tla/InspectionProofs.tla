-------------------------- MODULE InspectionProofs --------------------------
(***************************************************************************)
(* Proofs about Inspection: type correctness, that an answered request     *)
(* leaves nothing that waits, that what is kept for a frame is kept for an *)
(* open window, that references are stable, that an evaluate gets its own  *)
(* answer, and that a symbol shows its own value.                          *)
(***************************************************************************)
EXTENDS Inspection, FiniteSetTheorems, TLAPS

\* The disjuncts of Next, for a proof step each.
LEMMA Steps ==
    ASSUME [Next]_vars
    PROVE  \/ Interpreter \/ (\E f \in Frames : Scopes(f))
           \/ SendGetValueTip \/ SymbolTipsArrived \/ SymbolTipsTimeOut \/ BuildScope
           \/ Evaluate \/ SendEvaluate \/ GetResult \/ EvaluateTimesOut
           \/ HandlePayload \/ UNCHANGED vars
BY DEF Next, MainStep

-----------------------------------------------------------------------------
(* Nothing that waits is left behind. *)

\* What waits belongs to the request that main is at, and an evaluate does not
\* wait any more once its result is there.
WaitInv ==
    /\ \A q \in pendingSymbolTips : main \in {"send", "wait"} /\ q.frame = frame
    /\ \A t \in evaluateWaiters : main \in {"ask", "answer"} /\ t = token
    /\ main \in {"ask", "answer"} /\ result # NoValue => evaluateWaiters = {}

LEMMA WaitInit == Init => WaitInv
BY DEF Init, WaitInv

LEMMA WaitBridge ==
    ASSUME WaitInv, HandlePayload
    PROVE  WaitInv'
<1>1. pendingSymbolTips' \subseteq pendingSymbolTips /\ evaluateWaiters' \subseteq evaluateWaiters
  BY DEF HandlePayload, ShowWindow, CloseWindow, UnbindFrame, ValueTip, DispatchValueTip,
         SetPromptType, Terminate
<1>2. UNCHANGED <<main, frame, token>>
  BY DEF HandlePayload, waiting
<1>3. result' # result => evaluateWaiters' = {}
  BY DEF HandlePayload, ShowWindow, CloseWindow, ValueTip, DispatchValueTip, SetPromptType,
         Terminate, WaitInv
<1> QED
  BY <1>1, <1>2, <1>3 DEF WaitInv

LEMMA WaitScopes ==
    ASSUME WaitInv, NEW f \in Frames, Scopes(f)
    PROVE  WaitInv'
<1>1. pendingSymbolTips = {} /\ evaluateWaiters' = {}
  BY DEF Scopes, WaitInv
<1>2. \A q \in todo' : q.frame = f
  BY DEF Scopes, PrepareSymbolTips
<1>3. pendingSymbolTips' = todo'
  BY <1>1 DEF Scopes, PrepareSymbolTips
<1>4. frame' = f /\ (todo' # {} => main' = "send")
  BY DEF Scopes
<1> QED
  BY <1>1, <1>2, <1>3, <1>4 DEF WaitInv

LEMMA WaitStep == WaitInv /\ [Next]_vars => WaitInv'
<1> SUFFICES ASSUME WaitInv, [Next]_vars PROVE WaitInv'
  OBVIOUS
<1>1. CASE Interpreter
  BY <1>1 DEF Interpreter, Open, Update, Close, RunOrStop, SendTip, Disconnect, Emit, waiting, WaitInv
<1>2. CASE \E f \in Frames : Scopes(f)
  BY <1>2, WaitScopes
<1>3. CASE SendGetValueTip
  <2>1. pendingSymbolTips' \subseteq pendingSymbolTips
    BY <1>3 DEF SendGetValueTip
  <2>2. main' \in {"send", "wait"} /\ main = "send" /\ UNCHANGED <<frame, token, evaluateWaiters>>
    BY <1>3 DEF SendGetValueTip
  <2> QED
    BY <2>1, <2>2 DEF WaitInv
<1>4. CASE SymbolTipsArrived \/ SymbolTipsTimeOut
  <2>1. pendingSymbolTips = PendingFor(frame)
    BY DEF WaitInv, PendingFor
  <2>2. pendingSymbolTips' = {} /\ evaluateWaiters' = {}
    BY <1>4, <2>1 DEF SymbolTipsArrived, SymbolTipsTimeOut, WaitInv
  <2> QED
    BY <2>2 DEF WaitInv
<1>5. CASE BuildScope
  BY <1>5 DEF BuildScope, WaitInv
<1>6. CASE Evaluate
  BY <1>6 DEF Evaluate, WaitInv
<1>7. CASE SendEvaluate
  BY <1>7 DEF SendEvaluate, Fail, WaitInv
<1>8. CASE GetResult \/ EvaluateTimesOut
  BY <1>8 DEF GetResult, EvaluateTimesOut, Fail, WaitInv
<1>9. CASE HandlePayload
  BY <1>9, WaitBridge
<1>10. CASE UNCHANGED vars
  BY <1>10 DEF vars, waiting, WaitInv
<1> QED
  BY Steps, <1>1, <1>2, <1>3, <1>4, <1>5, <1>6, <1>7, <1>8, <1>9, <1>10

\* Whatever is sent, refused, late or cut off by a fatal signal, a request that
\* has been answered leaves neither a pending tip nor a waiter in the adapter.
THEOREM NothingLeft == Spec => []NothingPending
<1>1. WaitInv => NothingPending
  BY DEF WaitInv, NothingPending
<1> QED
  BY <1>1, WaitInit, WaitStep, PTL DEF Spec

-----------------------------------------------------------------------------
(* Types. *)

LEMMA ValuesTyped ==
    /\ NoValue \in Value \cup {NoValue} /\ NoSymbol \in Symbol
    /\ NoReply \in [to : {"nothing", "scopes", "evaluate"}, ref : Nat, value : Value \cup {NoValue}]
    /\ Refs \subseteq Nat /\ EvaluateTokens \subseteq Nat /\ None \in Nat
BY DEF NoSymbol, Symbol, NoReply, Refs, EvaluateTokens, None

LEMMA MessageFacts ==
    ASSUME NEW m \in Message
    PROVE  /\ m.type \in {"open", "update"} =>
                  m.frame \in Frames /\ m.text \in Texts \cup {NoText} /\ m.in \in 0..MaxPhase
           /\ m.type = "close" => m.frame \in Frames
           /\ m.type = "tip" => m.value \in Value
BY BoundsAssumption DEF Message

LEMMA TypeInit == Init => TypeOK
<1> SUFFICES ASSUME Init PROVE TypeOK
  OBVIOUS
<1>1. symbols \in [Frames -> [Names -> Symbol]] /\ scopeRef \in [Frames -> Refs \cup {None}]
  BY ValuesTyped DEF Init
<1>2. variablesByRef \in [Refs -> [Names -> Symbol] \cup {Dropped}]
  BY DEF Init
<1>3. text \in [Frames -> Texts \cup {NoText}]
  BY DEF Init
<1>4. /\ phase \in [Frames -> 0..MaxPhase] /\ shown \in [Frames -> 0..MaxPhase]
      /\ closes \in [Frames -> SUBSET (1..MaxPhase)]
  BY BoundsAssumption DEF Init
<1>5. /\ nextVariablesRef \in 1..(MaxRefs + 1) /\ nextEvaluateToken \in 1..(MaxEvaluates + 1)
      /\ nextSymbolTipToken \in FirstSymbolToken..(FirstSymbolToken + MaxSymbolTips)
  BY BoundsAssumption DEF Init
<1>6. channel \in Seq(Message)
  BY DEF Init
<1>7. /\ tracer \in SUBSET Frames /\ pendingSymbolTips \in SUBSET SymbolTip
      /\ todo \in SUBSET SymbolTip /\ asked \in SUBSET (SymbolTip \cup EvaluateTip)
      /\ evaluateWaiters \in SUBSET EvaluateTokens /\ result \in Value \cup {NoValue}
  BY DEF Init
<1>8. /\ main \in {"idle", "send", "wait", "build", "ask", "answer"}
      /\ frame \in Frames \cup {None} /\ token \in EvaluateTokens \cup {None}
      /\ promptBusy \in BOOLEAN /\ terminated \in BOOLEAN /\ running \in BOOLEAN
  BY DEF Init
<1>9. reply \in [to : {"nothing", "scopes", "evaluate"}, ref : Nat, value : Value \cup {NoValue}]
  BY ValuesTyped DEF Init
<1> QED
  BY <1>1, <1>2, <1>3, <1>4, <1>5, <1>6, <1>7, <1>8, <1>9 DEF TypeOK

\* A message is appended or lost.
LEMMA AppendedOrLost ==
    ASSUME TypeOK, NEW message, Emit(message)
    PROVE  /\ channel \in Seq(Message) /\ Len(channel) \in Nat
           /\ \/ channel' = channel /\ ~HasRoom
              \/ channel' = Append(channel, message) /\ HasRoom
BY DEF Emit, TypeOK

LEMMA PhaseChanges ==
    ASSUME TypeOK, NEW f \in Frames, ChangePhase(f)
    PROVE  /\ phase'[f] \in 1..MaxPhase /\ phase'[f] = phase[f] + 1
           /\ phase' \in [Frames -> 0..MaxPhase]
           /\ \A g \in Frames \ {f} : phase'[g] = phase[g]
<1>1. phase \in [Frames -> 0..MaxPhase] /\ phase[f] \in Nat
  BY BoundsAssumption DEF TypeOK
<1>2. phase[f] + 1 \in 1..MaxPhase
  BY <1>1, BoundsAssumption DEF ChangePhase
<1> QED
  BY <1>1, <1>2 DEF ChangePhase

LEMMA EmitTyped ==
    ASSUME TypeOK, NEW message \in Message, Emit(message),
           phase' \in [Frames -> 0..MaxPhase], closes' \in [Frames -> SUBSET (1..MaxPhase)],
           running' \in BOOLEAN, asked' \subseteq asked
    PROVE  TypeOK'
<1>1. channel' \in Seq(Message)
  BY AppendedOrLost
<1>2. reply' \in [to : {"nothing", "scopes", "evaluate"}, ref : Nat, value : Value \cup {NoValue}]
  BY ValuesTyped DEF Emit
<1>3. UNCHANGED <<maps, caches, session, waiting, result, nextSymbolTipToken,
                  nextEvaluateToken, pendingSymbolTips, evaluateWaiters>>
  BY DEF Emit
<1> QED
  BY <1>1, <1>2, <1>3 DEF TypeOK, maps, caches, session, waiting

LEMMA TypeInterpreter ==
    ASSUME TypeOK, Interpreter
    PROVE  TypeOK'
<1>0. /\ phase \in [Frames -> 0..MaxPhase] /\ closes \in [Frames -> SUBSET (1..MaxPhase)]
      /\ running \in BOOLEAN /\ asked \subseteq SymbolTip \cup EvaluateTip
  BY DEF TypeOK
<1>1. ASSUME NEW f \in Frames, NEW t \in Texts \cup {NoText}, Open(f, t) PROVE TypeOK'
  <2>1. phase'[f] \in 1..MaxPhase /\ phase' \in [Frames -> 0..MaxPhase]
    BY <1>0, <1>1, PhaseChanges DEF Open
  <2>2. [type |-> "open", frame |-> f, text |-> t, in |-> phase'[f]] \in Message
    BY <2>1 DEF Message
  <2> QED
    BY <1>0, <1>1, <2>1, <2>2, EmitTyped DEF Open
<1>2. ASSUME NEW f \in Frames, NEW t \in Texts, Update(f, t) PROVE TypeOK'
  <2>1. phase[f] \in 1..MaxPhase
    BY <1>0, <1>2, BoundsAssumption DEF Update, IsOpen
  <2>2. [type |-> "update", frame |-> f, text |-> t, in |-> phase[f]] \in Message
    BY <2>1 DEF Message
  <2> QED
    BY <1>0, <1>2, <2>2, EmitTyped DEF Update, interpreter
<1>3. ASSUME NEW f \in Frames, Close(f) PROVE TypeOK'
  <2>1. phase'[f] \in 1..MaxPhase /\ phase' \in [Frames -> 0..MaxPhase]
    BY <1>0, <1>3, PhaseChanges DEF Close
  <2>2. closes' \in [Frames -> SUBSET (1..MaxPhase)]
    BY <1>0, <1>3, <2>1 DEF Close
  <2>3. [type |-> "close", frame |-> f] \in Message
    BY DEF Message
  <2> QED
    BY <1>0, <1>3, <2>1, <2>2, <2>3, EmitTyped DEF Close
<1>4. CASE RunOrStop
  <2>1. [type |-> IF running THEN "ready" ELSE "busy"] \in Message
    BY DEF Message
  <2> QED
    BY <1>0, <1>4, <2>1, EmitTyped DEF RunOrStop
<1>5. CASE Disconnect
  <2>1. [type |-> "fatal"] \in Message
    BY DEF Message
  <2> QED
    BY <1>0, <1>5, <2>1, EmitTyped DEF Disconnect, interpreter
<1>6. ASSUME NEW q \in asked, SendTip(q) PROVE TypeOK'
  <2>1. /\ q.token \in SymbolTokens \cup EvaluateTokens /\ q.of \in Names \cup EvaluateTokens
        /\ q.frame = None \/ q.frame \in Frames
    BY <1>0 DEF SymbolTip, EvaluateTip
  <2>2. (IF q.frame = None THEN 0 ELSE phase[q.frame]) \in 0..MaxPhase
    BY <1>0, <2>1, BoundsAssumption
  <2>3. [of |-> q.of, in |-> IF q.frame = None THEN 0 ELSE phase[q.frame]] \in Value
    BY <2>1, <2>2 DEF Value
  <2>4. [type |-> "tip", token |-> q.token,
         value |-> [of |-> q.of, in |-> IF q.frame = None THEN 0 ELSE phase[q.frame]]] \in Message
    BY <2>1, <2>3 DEF Message
  <2> QED
    BY <1>0, <1>6, <2>4, EmitTyped DEF SendTip, interpreter
<1> QED
  BY <1>1, <1>2, <1>3, <1>4, <1>5, <1>6 DEF Interpreter

LEMMA DropTyped ==
    ASSUME TypeOK, NEW f \in Frames, DropScope(f)
    PROVE  /\ variablesByRef' \in [Refs -> [Names -> Symbol] \cup {Dropped}]
           /\ scopeRef' \in [Frames -> Refs \cup {None}]
BY DEF TypeOK, DropScope

LEMMA TypeBridge ==
    ASSUME TypeOK, HandlePayload
    PROVE  TypeOK'
<1> DEFINE m == Head(channel)
<1>1. m \in Message /\ channel' \in Seq(Message)
  BY DEF TypeOK, HandlePayload
<1>2. /\ reply' \in [to : {"nothing", "scopes", "evaluate"}, ref : Nat, value : Value \cup {NoValue}]
      /\ UNCHANGED <<interpreter, waiting, asked, nextSymbolTipToken, nextEvaluateToken>>
  BY ValuesTyped DEF HandlePayload
<1> DEFINE Kept ==
       /\ tracer' \in SUBSET Frames
       /\ text' \in [Frames -> Texts \cup {NoText}]
       /\ shown' \in [Frames -> 0..MaxPhase]
       /\ symbols' \in [Frames -> [Names -> Symbol]]
       /\ scopeRef' \in [Frames -> Refs \cup {None}]
       /\ variablesByRef' \in [Refs -> [Names -> Symbol] \cup {Dropped}]
       /\ UNCHANGED nextVariablesRef
       /\ pendingSymbolTips' \in SUBSET SymbolTip
       /\ evaluateWaiters' \in SUBSET EvaluateTokens
       /\ result' \in Value \cup {NoValue}
       /\ promptBusy' \in BOOLEAN /\ terminated' \in BOOLEAN
<1>3. CASE ShowWindow(m)
  <2>1. m.frame \in Frames /\ m.text \in Texts \cup {NoText} /\ m.in \in 0..MaxPhase
    BY <1>1, <1>3, MessageFacts DEF ShowWindow
  <2>2. Kept
    BY <1>3, <2>1 DEF ShowWindow, caches, session, TypeOK
  <2> QED
    BY <1>1, <1>2, <2>2 DEF TypeOK, interpreter, waiting
<1>4. CASE CloseWindow(m)
  <2>1. m.frame \in Frames
    BY <1>1, <1>4, MessageFacts DEF CloseWindow
  <2>2. /\ variablesByRef' \in [Refs -> [Names -> Symbol] \cup {Dropped}]
        /\ scopeRef' \in [Frames -> Refs \cup {None}]
    BY <1>4, <2>1, DropTyped DEF CloseWindow, UnbindFrame
  <2>3. symbols' \in [Frames -> [Names -> Symbol]]
    BY <1>4, <2>1, ValuesTyped DEF CloseWindow, UnbindFrame, TypeOK
  <2>4. shown' \in [Frames -> 0..MaxPhase]
    BY <1>4, <2>1, BoundsAssumption DEF CloseWindow, TypeOK
  <2>5. Kept
    BY <1>4, <2>1, <2>2, <2>3, <2>4 DEF CloseWindow, UnbindFrame, session, TypeOK
  <2> QED
    BY <1>1, <1>2, <2>5 DEF TypeOK, interpreter, waiting
<1>5. CASE ValueTip(m)
  <2>1. m.value \in Value
    BY <1>1, <1>5, MessageFacts DEF ValueTip
  <2>2. symbols' \in [Frames -> [Names -> Symbol]]
    <3>1. CASE UNCHANGED symbols
      BY <3>1 DEF TypeOK
    <3>2. ASSUME NEW q \in pendingSymbolTips, StoreSymbol(q, m.value)
          PROVE  symbols' \in [Frames -> [Names -> Symbol]]
      <4>1. q.frame \in Frames /\ q.of \in Names
        BY DEF TypeOK, SymbolTip
      <4>2. symbols[q.frame][q.of] \in Symbol
        BY <4>1 DEF TypeOK
      <4>3. [symbols[q.frame][q.of] EXCEPT !.value = m.value] \in Symbol
        BY <2>1, <4>2 DEF Symbol
      <4>4. [symbols[q.frame] EXCEPT ![q.of].value = m.value] \in [Names -> Symbol]
        BY <4>1, <4>3 DEF TypeOK
      <4> QED
        BY <3>2, <4>1, <4>4 DEF StoreSymbol, TypeOK
    <3> QED
      BY <1>5, <3>1, <3>2 DEF ValueTip, DispatchValueTip
  <2>3. Kept
    BY <1>5, <2>1, <2>2 DEF ValueTip, DispatchValueTip, maps, session, TypeOK
  <2> QED
    BY <1>1, <1>2, <2>3 DEF TypeOK, interpreter, waiting
<1>6. CASE SetPromptType(m)
  <2>1. Kept
    BY <1>6 DEF SetPromptType, maps, caches, TypeOK
  <2> QED
    BY <1>1, <1>2, <2>1 DEF TypeOK, interpreter, waiting
<1>7. CASE Terminate(m)
  <2>1. Kept
    BY <1>7 DEF Terminate, maps, caches, TypeOK
  <2> QED
    BY <1>1, <1>2, <2>1 DEF TypeOK, interpreter, waiting
<1> QED
  BY <1>3, <1>4, <1>5, <1>6, <1>7 DEF HandlePayload

LEMMA RefreshTyped ==
    ASSUME TypeOK, NEW f \in Frames, RefreshFrameSymbols(f)
    PROVE  /\ symbols' \in [Frames -> [Names -> Symbol]]
           /\ variablesByRef' \in [Refs -> [Names -> Symbol] \cup {Dropped}]
           /\ scopeRef' \in [Frames -> Refs \cup {None}]
<1>1. \A n \in Names : symbols[f][n] \in Symbol
  BY DEF TypeOK
<1>2. \A n \in Names : symbols[f][n].kind \in Kinds \cup {"absent"}
                      /\ symbols[f][n].value \in Value \cup {NoValue}
  BY <1>1 DEF Symbol
<1>3. text[f] # NoText => text[f] \in [Names -> Kinds \cup {"absent"}]
  BY DEF TypeOK, Texts
<1>4. \A n \in Names : Visible(f)[n] \in Kinds \cup {"absent"}
  BY <1>2, <1>3 DEF Visible
<1>5. \A n \in Names :
        [kind  |-> Visible(f)[n],
         value |-> IF Visible(f)[n] = "absent" THEN NoValue ELSE symbols[f][n].value] \in Symbol
  BY <1>2, <1>4 DEF Symbol
<1>6. Refreshed(f) \in [Names -> Symbol]
  BY <1>5 DEF Refreshed
<1>7. symbols' \in [Frames -> [Names -> Symbol]]
  BY <1>6 DEF RefreshFrameSymbols, TypeOK
<1> QED
  BY <1>7, DropTyped DEF RefreshFrameSymbols, TypeOK

LEMMA QueriesTyped ==
    ASSUME TypeOK, NEW f \in Frames, PrepareSymbolTips(f)
    PROVE  /\ todo' \in SUBSET SymbolTip /\ pendingSymbolTips' \in SUBSET SymbolTip
           /\ nextSymbolTipToken' \in FirstSymbolToken..(FirstSymbolToken + MaxSymbolTips)
<1> DEFINE names  == NamesToAsk(f)
           tokens == nextSymbolTipToken..(nextSymbolTipToken + Cardinality(names) - 1)
<1>1. names \subseteq Names /\ Cardinality(names) \in Nat
  <2>1. names \subseteq Names
    BY DEF NamesToAsk
  <2>2. IsFiniteSet(names)
    BY <2>1, NamesAssumption, FS_Subset
  <2> QED
    BY <2>1, <2>2, FS_CardinalityType
<1>2. PICK nameOf \in Bijection(tokens, names) :
        /\ todo' = {[token |-> t, of |-> nameOf[t], frame |-> f] : t \in tokens}
        /\ pendingSymbolTips' = pendingSymbolTips \cup todo'
        /\ nextSymbolTipToken' = nextSymbolTipToken + Cardinality(names)
        /\ nextSymbolTipToken' <= FirstSymbolToken + MaxSymbolTips
  BY DEF PrepareSymbolTips
<1>3. \A t \in tokens : nameOf[t] \in Names
  BY <1>1, <1>2 DEF Bijection, Injection
<1>4. nextSymbolTipToken' \in FirstSymbolToken..(FirstSymbolToken + MaxSymbolTips)
  BY <1>1, <1>2, BoundsAssumption DEF TypeOK
<1>5. tokens \subseteq SymbolTokens
  BY <1>1, <1>2, BoundsAssumption DEF TypeOK, SymbolTokens
<1>6. todo' \in SUBSET SymbolTip
  BY <1>2, <1>3, <1>5 DEF SymbolTip
<1> QED
  BY <1>2, <1>4, <1>6 DEF TypeOK

\* An evaluate that has begun has a token.
HasToken == main \in {"ask", "answer"} => token \in EvaluateTokens

LEMMA TokenStep == TypeOK /\ HasToken /\ [Next]_vars => HasToken'
<1> SUFFICES ASSUME TypeOK, HasToken, [Next]_vars PROVE HasToken'
  OBVIOUS
<1>1. CASE Interpreter
  BY <1>1 DEF Interpreter, Open, Update, Close, RunOrStop, SendTip, Disconnect, Emit, waiting, HasToken
<1>2. CASE \E f \in Frames : Scopes(f)
  BY <1>2 DEF Scopes, HasToken
<1>3. CASE SendGetValueTip \/ SymbolTipsArrived \/ SymbolTipsTimeOut \/ BuildScope
  BY <1>3 DEF SendGetValueTip, SymbolTipsArrived, SymbolTipsTimeOut, BuildScope, HasToken
<1>4. CASE Evaluate
  BY <1>4, BoundsAssumption DEF Evaluate, HasToken, EvaluateTokens, TypeOK
<1>5. CASE SendEvaluate \/ GetResult \/ EvaluateTimesOut
  BY <1>5 DEF SendEvaluate, GetResult, EvaluateTimesOut, Fail, HasToken
<1>6. CASE HandlePayload
  BY <1>6 DEF HandlePayload, waiting, HasToken
<1>7. CASE UNCHANGED vars
  BY <1>7 DEF vars, waiting, HasToken
<1> QED
  BY Steps, <1>1, <1>2, <1>3, <1>4, <1>5, <1>6, <1>7

LEMMA TypeStep == TypeOK /\ HasToken /\ [Next]_vars => TypeOK'
<1> SUFFICES ASSUME TypeOK, HasToken, [Next]_vars PROVE TypeOK'
  OBVIOUS
<1>0. /\ tracer \subseteq Frames /\ todo \subseteq SymbolTip /\ token \in EvaluateTokens \cup {None}
      /\ asked \subseteq SymbolTip \cup EvaluateTip
      /\ pendingSymbolTips \subseteq SymbolTip /\ evaluateWaiters \subseteq EvaluateTokens
  BY DEF TypeOK
<1>1. CASE Interpreter
  BY <1>1, TypeInterpreter
<1>2. ASSUME NEW f \in Frames, Scopes(f) PROVE TypeOK'
  BY <1>2, RefreshTyped, QueriesTyped, ValuesTyped
  DEF Scopes, RefreshFrameSymbols, TypeOK, maps, session, interpreter
<1>3. CASE SendGetValueTip
  BY <1>3, <1>0, ValuesTyped DEF SendGetValueTip, Elsewhere, TypeOK, maps, caches, session, interpreter
<1>4. CASE SymbolTipsArrived \/ SymbolTipsTimeOut
  BY <1>4, <1>0, ValuesTyped
  DEF SymbolTipsArrived, SymbolTipsTimeOut, Elsewhere, TypeOK, maps, caches, session, interpreter
<1>5. CASE BuildScope
  <2>1. CASE frame \notin tracer
    BY <1>5, <2>1, ValuesTyped DEF BuildScope, TypeOK, maps, caches, session, interpreter
  <2>2. CASE frame \in tracer /\ HasScope(frame)
    <3>1. UNCHANGED caches /\ reply' = [to |-> "scopes", ref |-> scopeRef'[frame], value |-> NoValue]
      BY <1>5, <2>2 DEF BuildScope, caches
    <3>2. scopeRef'[frame] \in Nat
      BY <2>2, <3>1, <1>0, ValuesTyped DEF TypeOK, caches
    <3> QED
      BY <1>5, <3>1, <3>2, ValuesTyped DEF BuildScope, TypeOK, maps, caches, session, interpreter
  <2>3. CASE frame \in tracer /\ AllocateScope(frame)
    <3>1. frame \in Frames /\ nextVariablesRef \in Refs /\ nextVariablesRef' \in 1..(MaxRefs + 1)
      BY <2>3, <1>0, BoundsAssumption DEF AllocateScope, Refs, TypeOK
    <3>2. scopeRef' \in [Frames -> Refs \cup {None}]
      BY <2>3, <3>1 DEF AllocateScope, TypeOK
    <3>3. variablesByRef' \in [Refs -> [Names -> Symbol] \cup {Dropped}]
      BY <2>3, <3>1 DEF AllocateScope, TypeOK
    <3>4. scopeRef'[frame] \in Nat
      BY <3>1, <3>2, ValuesTyped
    <3>5. reply' = [to |-> "scopes", ref |-> scopeRef'[frame], value |-> NoValue] /\ UNCHANGED symbols
      BY <1>5, <2>3 DEF BuildScope
    <3> QED
      BY <1>5, <3>1, <3>2, <3>3, <3>4, <3>5, ValuesTyped
      DEF BuildScope, TypeOK, maps, session, interpreter
  <2> QED
    BY <1>5, <2>1, <2>2, <2>3 DEF BuildScope
<1>6. CASE Evaluate
  <2>1. token' \in EvaluateTokens /\ nextEvaluateToken' \in 1..(MaxEvaluates + 1)
    BY <1>6, BoundsAssumption DEF Evaluate, EvaluateTokens, TypeOK
  <2> QED
    BY <1>6, <2>1, <1>0, ValuesTyped DEF Evaluate, Elsewhere, TypeOK, maps, caches, session, interpreter
<1>7. ASSUME Fail PROVE TypeOK'
  BY <1>7, <1>0, ValuesTyped DEF Fail, Elsewhere, TypeOK, maps, caches, session, interpreter
<1>8. CASE SendEvaluate
  <2>1. ASSUME main = "ask", asked' = asked \cup {[token |-> token, of |-> token, frame |-> None]}
        PROVE  asked' \in SUBSET (SymbolTip \cup EvaluateTip)
    BY <2>1, <1>0 DEF EvaluateTip, HasToken
  <2> QED
    BY <1>7, <1>8, <2>1, ValuesTyped DEF SendEvaluate, Elsewhere, TypeOK, maps, caches, session, interpreter
<1>9. CASE GetResult
  BY <1>9, <1>0, ValuesTyped DEF GetResult, Elsewhere, TypeOK, maps, caches, session, interpreter
<1>10. CASE EvaluateTimesOut
  BY <1>7, <1>10 DEF EvaluateTimesOut
<1>11. CASE HandlePayload
  BY <1>11, TypeBridge
<1>12. CASE UNCHANGED vars
  BY <1>12 DEF vars, TypeOK, maps, caches, session, interpreter, waiting
<1> QED
  BY Steps, <1>1, <1>2, <1>3, <1>4, <1>5, <1>6, <1>8, <1>9, <1>10, <1>11, <1>12

\* Every reachable state is well typed, and an evaluate under way has a token.
THEOREM TypeCorrect == Spec => [](TypeOK /\ HasToken)
<1>1. Init => TypeOK /\ HasToken
  BY TypeInit DEF Init, HasToken
<1>2. TypeOK /\ HasToken /\ [Next]_vars => (TypeOK /\ HasToken)'
  BY TypeStep, TokenStep
<1> QED
  BY <1>1, <1>2, PTL DEF Spec

-----------------------------------------------------------------------------
(* What is kept for a frame. *)

\* The two parts of OnlyOpenFrames.
ClosedFramesEmpty ==
    \A f \in Frames \ tracer :
        scopeRef[f] = None /\ (\A n \in Names : symbols[f][n] = NoSymbol) /\ PendingFor(f) = {}

RefsOwned == \A r \in Refs : variablesByRef[r] # Dropped => \E f \in tracer : scopeRef[f] = r

\* A closed frame names no reference, so whoever names one is an open frame.
LEMMA DropOwned ==
    ASSUME TypeOK, RefsOwned, NEW f \in Frames, DropScope(f), tracer \ {f} \subseteq tracer'
    PROVE  RefsOwned'
<1> SUFFICES ASSUME NEW r \in Refs, variablesByRef'[r] # Dropped
             PROVE  \E g \in tracer' : scopeRef'[g] = r
  BY DEF RefsOwned
<1>1. r # scopeRef[f] /\ variablesByRef[r] # Dropped
  BY DEF DropScope
<1>2. PICK g \in tracer : scopeRef[g] = r
  BY <1>1 DEF RefsOwned
<1>3. g # f /\ g \in Frames
  BY <1>1, <1>2 DEF TypeOK
<1>4. scopeRef'[g] = r /\ g \in tracer'
  BY <1>2, <1>3 DEF DropScope, TypeOK
<1> QED
  BY <1>4

LEMMA AllocateOwned ==
    ASSUME TypeOK, RefsOwned, frame \in tracer, ~HasScope(frame), AllocateScope(frame), UNCHANGED tracer
    PROVE  RefsOwned'
<1> SUFFICES ASSUME NEW r \in Refs, variablesByRef'[r] # Dropped
             PROVE  \E g \in tracer : scopeRef'[g] = r
  BY DEF RefsOwned
<1>1. frame \in Frames /\ scopeRef'[frame] = nextVariablesRef
  BY DEF AllocateScope, TypeOK
<1>2. CASE r = nextVariablesRef
  BY <1>1, <1>2
<1>3. CASE r # nextVariablesRef
  <2>1. variablesByRef[r] # Dropped
    BY <1>3 DEF AllocateScope, TypeOK
  <2>2. PICK g \in tracer : scopeRef[g] = r
    BY <2>1 DEF RefsOwned
  <2>3. r # None
    BY DEF Refs, None
  <2>4. g # frame
    BY <2>1, <2>2, <2>3 DEF HasScope
  <2> QED
    BY <2>2, <2>4 DEF AllocateScope, TypeOK
<1> QED
  BY <1>2, <1>3

LEMMA FramesBridge ==
    ASSUME TypeOK, ClosedFramesEmpty, RefsOwned, HandlePayload
    PROVE  (ClosedFramesEmpty /\ RefsOwned)'
<1> DEFINE m == Head(channel)
<1>1. m \in Message
  BY DEF TypeOK, HandlePayload
<1>2. CASE ShowWindow(m)
  BY <1>2 DEF ShowWindow, caches, ClosedFramesEmpty, RefsOwned, PendingFor
<1>3. CASE CloseWindow(m)
  <2>1. m.frame \in Frames
    BY <1>1, <1>3, MessageFacts DEF CloseWindow
  <2>2. DropScope(m.frame) /\ tracer \ {m.frame} \subseteq tracer' /\ RefsOwned'
    BY <1>3, <2>1, DropOwned DEF CloseWindow, UnbindFrame
  <2>3. ASSUME NEW f \in Frames \ tracer'
        PROVE  scopeRef'[f] = None /\ (\A n \in Names : symbols'[f][n] = NoSymbol) /\ PendingFor(f)' = {}
    <3>1. CASE f = m.frame
      BY <1>3, <2>1, <3>1 DEF CloseWindow, UnbindFrame, DropScope, PendingFor, TypeOK
    <3>2. CASE f # m.frame
      <4>1. f \in Frames \ tracer
        BY <1>3, <2>3, <3>2 DEF CloseWindow
      <4>2. scopeRef'[f] = scopeRef[f] /\ symbols'[f] = symbols[f] /\ pendingSymbolTips' \subseteq pendingSymbolTips
        BY <1>3, <2>1, <3>2, <4>1 DEF CloseWindow, UnbindFrame, DropScope, TypeOK
      <4> QED
        BY <4>1, <4>2 DEF ClosedFramesEmpty, PendingFor
    <3> QED
      BY <3>1, <3>2
  <2> QED
    BY <2>2, <2>3 DEF ClosedFramesEmpty
<1>4. CASE ValueTip(m)
  <2>1. UNCHANGED <<tracer, scopeRef, variablesByRef>> /\ pendingSymbolTips' \subseteq pendingSymbolTips
    BY <1>4 DEF ValueTip, DispatchValueTip, maps
  <2>2. ASSUME NEW f \in Frames \ tracer PROVE symbols'[f] = symbols[f]
    <3>1. CASE UNCHANGED symbols
      BY <3>1
    <3>2. ASSUME NEW q \in pendingSymbolTips, StoreSymbol(q, m.value) PROVE symbols'[f] = symbols[f]
      <4>1. q.frame \in Frames /\ q.frame # f
        BY <2>2 DEF ClosedFramesEmpty, PendingFor, TypeOK, SymbolTip
      <4> QED
        BY <3>2, <4>1 DEF StoreSymbol, TypeOK
    <3> QED
      BY <1>4, <3>1, <3>2 DEF ValueTip, DispatchValueTip
  <2> QED
    BY <2>1, <2>2 DEF ClosedFramesEmpty, RefsOwned, PendingFor
<1>5. CASE SetPromptType(m) \/ Terminate(m)
  BY <1>5 DEF SetPromptType, Terminate, maps, caches, ClosedFramesEmpty, RefsOwned, PendingFor
<1> QED
  BY <1>2, <1>3, <1>4, <1>5 DEF HandlePayload

LEMMA FramesStep ==
    TypeOK /\ WaitInv /\ ClosedFramesEmpty /\ RefsOwned /\ [Next]_vars => (ClosedFramesEmpty /\ RefsOwned)'
<1> SUFFICES ASSUME TypeOK, WaitInv, ClosedFramesEmpty, RefsOwned, [Next]_vars
             PROVE  (ClosedFramesEmpty /\ RefsOwned)'
  OBVIOUS
<1>0. ASSUME UNCHANGED <<tracer, caches>>, pendingSymbolTips' \subseteq pendingSymbolTips
      PROVE  (ClosedFramesEmpty /\ RefsOwned)'
  BY <1>0 DEF caches, ClosedFramesEmpty, RefsOwned, PendingFor
<1>1. CASE Interpreter
  BY <1>0, <1>1 DEF Interpreter, Open, Update, Close, RunOrStop, SendTip, Disconnect, Emit, maps
<1>2. ASSUME NEW f \in Frames, Scopes(f) PROVE (ClosedFramesEmpty /\ RefsOwned)'
  <2>1. UNCHANGED tracer /\ f \in tracer /\ pendingSymbolTips = {} /\ RefreshFrameSymbols(f)
    BY <1>2 DEF Scopes, maps, WaitInv
  <2>2. CASE DropScope(f)
    <3>1. RefsOwned'
      BY <2>1, <2>2, DropOwned
    <3>2. \A q \in pendingSymbolTips' : q.frame = f
      BY <1>2, <2>1 DEF Scopes, PrepareSymbolTips
    <3>3. \A g \in Frames \ tracer : scopeRef'[g] = scopeRef[g] /\ symbols'[g] = symbols[g]
      BY <2>1, <2>2 DEF DropScope, RefreshFrameSymbols, TypeOK
    <3> QED
      BY <2>1, <3>1, <3>2, <3>3 DEF ClosedFramesEmpty, PendingFor
  <2>3. CASE UNCHANGED <<variablesByRef, scopeRef>>
    <3>1. RefsOwned'
      BY <2>1, <2>3 DEF RefsOwned
    <3>2. \A q \in pendingSymbolTips' : q.frame = f
      BY <1>2, <2>1 DEF Scopes, PrepareSymbolTips
    <3>3. \A g \in Frames \ tracer : symbols'[g] = symbols[g]
      BY <2>1 DEF RefreshFrameSymbols, TypeOK
    <3> QED
      BY <2>1, <2>3, <3>1, <3>2, <3>3 DEF ClosedFramesEmpty, PendingFor
  <2> QED
    BY <2>1, <2>2, <2>3 DEF RefreshFrameSymbols
<1>3. CASE SendGetValueTip \/ SymbolTipsArrived \/ SymbolTipsTimeOut
  BY <1>0, <1>3 DEF SendGetValueTip, SymbolTipsArrived, SymbolTipsTimeOut, Elsewhere, maps
<1>4. CASE BuildScope
  <2>1. UNCHANGED <<tracer, pendingSymbolTips>>
    BY <1>4 DEF BuildScope, maps
  <2>2. CASE UNCHANGED caches
    BY <1>0, <2>1, <2>2
  <2>3. CASE frame \in tracer /\ ~HasScope(frame) /\ AllocateScope(frame) /\ UNCHANGED symbols
    <3>1. RefsOwned'
      BY <2>1, <2>3, AllocateOwned
    <3>2. \A g \in Frames \ tracer : scopeRef'[g] = scopeRef[g]
      BY <2>3 DEF AllocateScope, TypeOK
    <3> QED
      BY <2>1, <2>3, <3>1, <3>2 DEF ClosedFramesEmpty, PendingFor
  <2> QED
    BY <1>4, <2>2, <2>3 DEF BuildScope, caches
<1>5. CASE Evaluate \/ SendEvaluate \/ GetResult \/ EvaluateTimesOut
  BY <1>0, <1>5 DEF Evaluate, SendEvaluate, GetResult, EvaluateTimesOut, Fail, Elsewhere, maps
<1>6. CASE HandlePayload
  BY <1>6, FramesBridge
<1>7. CASE UNCHANGED vars
  BY <1>0, <1>7 DEF vars, maps
<1> QED
  BY Steps, <1>1, <1>2, <1>3, <1>4, <1>5, <1>6, <1>7

\* Whenever windows are closed, also in the middle of a scopes request, symbols,
\* scopes, pending tips and references are those of windows that are open.
THEOREM KeptForOpenFrames == Spec => []OnlyOpenFrames
<1>1. Init => ClosedFramesEmpty /\ RefsOwned
  BY DEF Init, ClosedFramesEmpty, RefsOwned, PendingFor
<1>2. ClosedFramesEmpty /\ RefsOwned => OnlyOpenFrames
  BY DEF ClosedFramesEmpty, RefsOwned, OnlyOpenFrames
<1> QED
  BY <1>1, <1>2, WaitInit, WaitStep, TypeCorrect, FramesStep, PTL DEF Spec

-----------------------------------------------------------------------------
(* Stable references. *)

\* A reference that a frame names can be expanded and is named by no other.
ScopeInv ==
    \A f \in Frames : scopeRef[f] # None =>
        /\ scopeRef[f] < nextVariablesRef
        /\ variablesByRef[scopeRef[f]] # Dropped
        /\ \A g \in Frames : scopeRef[g] = scopeRef[f] => g = f

LEMMA ScopesAreNotDropped == \A scope \in [Names -> Symbol] : scope # Dropped
<1> SUFFICES ASSUME NEW scope \in [Names -> Symbol], scope = Dropped PROVE FALSE
  OBVIOUS
<1>1. DOMAIN scope = Names /\ DOMAIN Dropped = {}
  BY DEF Dropped
<1> QED
  BY <1>1, NamesAssumption

LEMMA DropStable ==
    ASSUME TypeOK, ScopeInv, NEW f \in Frames, DropScope(f), UNCHANGED nextVariablesRef,
           ScopeNeedsReset(f) \/ f \notin tracer'
    PROVE  ScopeInv' /\ KeepsScopes
<1>1. /\ scopeRef'[f] = None
      /\ \A g \in Frames \ {f} : scopeRef'[g] = scopeRef[g]
  BY DEF DropScope, TypeOK
<1>2. \A g \in Frames \ {f} : scopeRef[g] # None => variablesByRef'[scopeRef[g]] = variablesByRef[scopeRef[g]]
  BY DEF DropScope, ScopeInv, TypeOK
<1>3. ScopeInv'
  BY <1>1, <1>2 DEF ScopeInv
<1> QED
  BY <1>1, <1>3 DEF KeepsScopes

LEMMA AllocateStable ==
    ASSUME TypeOK, ScopeInv, frame \in tracer, ~HasScope(frame), AllocateScope(frame)
    PROVE  ScopeInv' /\ KeepsScopes
<1>1. frame \in Frames /\ scopeRef[frame] = None
  BY DEF HasScope, ScopeInv, TypeOK
<1>2. /\ nextVariablesRef \in Refs /\ nextVariablesRef' = nextVariablesRef + 1
      /\ nextVariablesRef \in Nat
  BY BoundsAssumption DEF AllocateScope, Refs, TypeOK
<1>3. /\ scopeRef'[frame] = nextVariablesRef
      /\ \A g \in Frames \ {frame} : scopeRef'[g] = scopeRef[g]
  BY <1>1 DEF AllocateScope, TypeOK
<1>4. /\ variablesByRef'[nextVariablesRef] # Dropped
      /\ \A r \in Refs \ {nextVariablesRef} : variablesByRef'[r] = variablesByRef[r]
  BY <1>1, <1>2, ScopesAreNotDropped DEF AllocateScope, TypeOK
<1>5. \A g \in Frames : scopeRef[g] # None => scopeRef[g] \in Refs /\ scopeRef[g] < nextVariablesRef
  BY DEF ScopeInv, TypeOK
<1>6. \A g \in Frames \ {frame} : scopeRef'[g] # None =>
          /\ scopeRef'[g] < nextVariablesRef /\ scopeRef'[g] # nextVariablesRef
          /\ variablesByRef'[scopeRef'[g]] # Dropped
  BY <1>2, <1>3, <1>4, <1>5 DEF ScopeInv, Refs
<1>7. ScopeInv'
  <2> SUFFICES ASSUME NEW f \in Frames, scopeRef'[f] # None
               PROVE  /\ scopeRef'[f] < nextVariablesRef'
                      /\ variablesByRef'[scopeRef'[f]] # Dropped
                      /\ \A g \in Frames : scopeRef'[g] = scopeRef'[f] => g = f
    BY DEF ScopeInv
  <2>1. CASE f = frame
    BY <1>2, <1>3, <1>4, <1>6, <2>1 DEF Refs, None
  <2>2. CASE f # frame
    <3>1. scopeRef'[f] = scopeRef[f] /\ scopeRef[f] \in Nat
      BY <1>3, <1>5, <2>2 DEF Refs
    <3>2. scopeRef'[f] < nextVariablesRef'
      BY <1>2, <1>6, <2>2, <3>1
    <3>3. \A g \in Frames : scopeRef'[g] = scopeRef'[f] => g = f
      BY <1>3, <1>6, <2>2, <3>1 DEF ScopeInv
    <3> QED
      BY <1>6, <2>2, <3>2, <3>3
  <2> QED
    BY <2>1, <2>2
<1> QED
  BY <1>1, <1>2, <1>3, <1>7 DEF KeepsScopes

LEMMA StableStep == TypeOK /\ ScopeInv /\ [Next]_vars => ScopeInv' /\ [KeepsScopes]_vars
<1> SUFFICES ASSUME TypeOK, ScopeInv, [Next]_vars PROVE ScopeInv' /\ KeepsScopes
  OBVIOUS
<1>0. ASSUME UNCHANGED <<scopeRef, variablesByRef, nextVariablesRef>>
      PROVE  ScopeInv' /\ KeepsScopes
  BY <1>0 DEF ScopeInv, KeepsScopes
<1>1. CASE Interpreter
  BY <1>0, <1>1 DEF Interpreter, Open, Update, Close, RunOrStop, SendTip, Disconnect, Emit, caches
<1>2. ASSUME NEW f \in Frames, Scopes(f) PROVE ScopeInv' /\ KeepsScopes
  BY <1>0, <1>2, DropStable DEF Scopes, RefreshFrameSymbols
<1>3. CASE SendGetValueTip \/ SymbolTipsArrived \/ SymbolTipsTimeOut
  BY <1>0, <1>3 DEF SendGetValueTip, SymbolTipsArrived, SymbolTipsTimeOut, Elsewhere, caches
<1>4. CASE BuildScope
  BY <1>0, <1>4, AllocateStable DEF BuildScope, caches
<1>5. CASE Evaluate \/ SendEvaluate \/ GetResult \/ EvaluateTimesOut
  BY <1>0, <1>5 DEF Evaluate, SendEvaluate, GetResult, EvaluateTimesOut, Fail, Elsewhere, caches
<1>6. CASE HandlePayload
  <2> DEFINE m == Head(channel)
  <2>1. m \in Message
    BY <1>6 DEF TypeOK, HandlePayload
  <2>2. CASE CloseWindow(m)
    <3>1. m.frame \in Frames /\ m.frame \notin tracer'
      BY <2>1, <2>2, MessageFacts DEF CloseWindow
    <3> QED
      BY <2>2, <3>1, DropStable DEF CloseWindow, UnbindFrame
  <2>3. CASE ShowWindow(m) \/ ValueTip(m) \/ SetPromptType(m) \/ Terminate(m)
    BY <1>0, <2>3 DEF ShowWindow, ValueTip, SetPromptType, Terminate, caches
  <2> QED
    BY <1>6, <2>2, <2>3 DEF HandlePayload
<1>7. CASE UNCHANGED vars
  BY <1>0, <1>7 DEF vars, caches
<1> QED
  BY Steps, <1>1, <1>2, <1>3, <1>4, <1>5, <1>6, <1>7

\* The reference a client was given for a frame stays the frame's while its
\* window is open and shows the same symbols, and no other scope ever gets it.
THEOREM ReferencesStable == Spec => ScopeStable
<1>1. Init => ScopeInv
  BY DEF Init, ScopeInv
<1> QED
  BY <1>1, TypeCorrect, StableStep, PTL DEF Spec, ScopeStable

-----------------------------------------------------------------------------
(* An evaluate gets its own value. *)

\* Tokens that have been given to evaluates come back with their own values,
\* because the tokens of symbol tips are others.
AskedOwn   == \A q \in asked : q.token \in EvaluateTokens => q.of = q.token
OwnTip(m)  == m.type = "tip" /\ m.token \in EvaluateTokens => m.value.of = m.token
ChannelOwn == \A i \in 1..Len(channel) : OwnTip(channel[i])
ResultOwn  == main \in {"ask", "answer"} /\ result # NoValue => result.of = token
OwnInv     == AskedOwn /\ ChannelOwn /\ ResultOwn /\ EvaluateIsOwn

LEMMA EmitOwn ==
    ASSUME TypeOK, OwnInv, NEW message, OwnTip(message), Emit(message), asked' \subseteq asked
    PROVE  OwnInv'
<1>1. \A i \in 1..Len(channel') : \/ i \in 1..Len(channel) /\ channel'[i] = channel[i]
                                  \/ channel'[i] = message
  BY AppendedOrLost
<1>2. ASSUME NEW i \in 1..Len(channel') PROVE OwnTip(channel'[i])
  BY <1>1, <1>2 DEF OwnInv, ChannelOwn
<1>3. ChannelOwn'
  BY <1>2 DEF ChannelOwn, OwnTip
<1>4. AskedOwn' /\ EvaluateIsOwn' /\ ResultOwn'
  BY DEF Emit, waiting, OwnInv, AskedOwn, EvaluateIsOwn, ResultOwn, NoReply
<1> QED
  BY <1>3, <1>4 DEF OwnInv

LEMMA InterpreterOwn ==
    ASSUME TypeOK, OwnInv, Interpreter
    PROVE  OwnInv'
<1>1. ASSUME NEW f \in Frames, NEW t, Open(f, t) PROVE OwnInv'
  BY <1>1, EmitOwn DEF Open, OwnTip
<1>2. ASSUME NEW f \in Frames, NEW t, Update(f, t) PROVE OwnInv'
  BY <1>2, EmitOwn DEF Update, OwnTip
<1>3. ASSUME NEW f \in Frames, Close(f) PROVE OwnInv'
  BY <1>3, EmitOwn DEF Close, OwnTip
<1>4. CASE RunOrStop
  <2>1. OwnTip([type |-> IF running THEN "ready" ELSE "busy"])
    BY DEF OwnTip
  <2> QED
    BY <1>4, <2>1, EmitOwn DEF RunOrStop
<1>5. CASE Disconnect
  BY <1>5, EmitOwn DEF Disconnect, OwnTip
<1>6. ASSUME NEW q \in asked, SendTip(q) PROVE OwnInv'
  <2> DEFINE message == [type |-> "tip", token |-> q.token,
                         value |-> [of |-> q.of, in |-> IF q.frame = None THEN 0 ELSE phase[q.frame]]]
  <2>1. OwnTip(message)
    BY DEF OwnInv, AskedOwn, OwnTip
  <2>2. Emit(message) /\ asked' \subseteq asked
    BY <1>6 DEF SendTip
  <2> QED
    BY <2>1, <2>2, EmitOwn
<1> QED
  BY <1>1, <1>2, <1>3, <1>4, <1>5, <1>6 DEF Interpreter

LEMMA BridgeOwn ==
    ASSUME TypeOK, WaitInv, OwnInv, HandlePayload
    PROVE  OwnInv'
<1> DEFINE m == Head(channel)
<1>1. channel \in Seq(Message) /\ channel # <<>> /\ channel' = Tail(channel)
  BY DEF TypeOK, HandlePayload
<1>2. /\ Len(channel') = Len(channel) - 1 /\ Len(channel) \in Nat \ {0} /\ m = channel[1]
      /\ \A i \in 1..Len(channel') : channel'[i] = channel[i + 1]
  BY <1>1
<1>3. ASSUME NEW i \in 1..Len(channel') PROVE OwnTip(channel'[i])
  <2>1. i + 1 \in 1..Len(channel)
    BY <1>2, <1>3
  <2> QED
    BY <1>2, <1>3, <2>1 DEF OwnInv, ChannelOwn
<1>4. ChannelOwn'
  BY <1>3 DEF ChannelOwn, OwnTip
<1>5. OwnTip(m)
  BY <1>2 DEF OwnInv, ChannelOwn
<1>6. UNCHANGED <<asked, main, token>> /\ reply' = NoReply
  BY DEF HandlePayload, waiting
<1>7. ASSUME result' # result PROVE result' = m.value /\ m.value.of = token
  <2>1. ValueTip(m) /\ m.token \in evaluateWaiters /\ m.token = token /\ result' = m.value
    BY <1>7 DEF HandlePayload, ShowWindow, CloseWindow, ValueTip, DispatchValueTip, SetPromptType, Terminate
  <2> QED
    BY <1>5, <2>1 DEF OwnTip, ValueTip, TypeOK
<1>8. ResultOwn'
  BY <1>6, <1>7 DEF OwnInv, ResultOwn
<1>9. AskedOwn' /\ EvaluateIsOwn'
  BY <1>6 DEF OwnInv, AskedOwn, EvaluateIsOwn, NoReply
<1> QED
  BY <1>4, <1>8, <1>9 DEF OwnInv

LEMMA OwnStep == TypeOK /\ WaitInv /\ OwnInv /\ [Next]_vars => OwnInv'
<1> SUFFICES ASSUME TypeOK, WaitInv, OwnInv, [Next]_vars PROVE OwnInv'
  OBVIOUS
<1>0. ASSUME UNCHANGED channel PROVE ChannelOwn'
  BY <1>0 DEF OwnInv, ChannelOwn, OwnTip
<1>1. CASE Interpreter
  BY <1>1, InterpreterOwn
<1>2. ASSUME NEW f \in Frames, Scopes(f) PROVE OwnInv'
  <2>1. main' \notin {"ask", "answer"} /\ reply' = NoReply /\ UNCHANGED <<asked, channel>>
    BY <1>2 DEF Scopes
  <2> QED
    BY <1>0, <2>1 DEF OwnInv, AskedOwn, ResultOwn, EvaluateIsOwn, NoReply
<1>3. CASE SendGetValueTip
  <2>1. PICK q \in todo : asked' \subseteq asked \cup {q}
    BY <1>3 DEF SendGetValueTip
  <2>2. q.token \notin EvaluateTokens
    BY BoundsAssumption DEF TypeOK, SymbolTip, SymbolTokens, EvaluateTokens
  <2>3. main' \notin {"ask", "answer"} /\ reply' = NoReply /\ UNCHANGED channel
    BY <1>3 DEF SendGetValueTip, Elsewhere
  <2> QED
    BY <1>0, <2>1, <2>2, <2>3 DEF OwnInv, AskedOwn, ResultOwn, EvaluateIsOwn, NoReply
<1>4. CASE SymbolTipsArrived \/ SymbolTipsTimeOut
  <2>1. main' \notin {"ask", "answer"} /\ reply' = NoReply /\ UNCHANGED <<asked, channel>>
    BY <1>4 DEF SymbolTipsArrived, SymbolTipsTimeOut, Elsewhere
  <2> QED
    BY <1>0, <2>1 DEF OwnInv, AskedOwn, ResultOwn, EvaluateIsOwn, NoReply
<1>5. CASE BuildScope
  <2>1. main' \notin {"ask", "answer"} /\ reply'.to # "evaluate" /\ UNCHANGED <<asked, channel>>
    BY <1>5 DEF BuildScope, NoReply
  <2> QED
    BY <1>0, <2>1 DEF OwnInv, AskedOwn, ResultOwn, EvaluateIsOwn
<1>6. CASE Evaluate
  <2>1. result' = NoValue /\ reply' = NoReply /\ UNCHANGED <<asked, channel>>
    BY <1>6 DEF Evaluate, Elsewhere
  <2> QED
    BY <1>0, <2>1 DEF OwnInv, AskedOwn, ResultOwn, EvaluateIsOwn, NoReply
<1>7. ASSUME Fail PROVE OwnInv'
  <2>1. main' \notin {"ask", "answer"} /\ reply' = NoReply /\ UNCHANGED <<asked, channel>>
    BY <1>7 DEF Fail, Elsewhere
  <2> QED
    BY <1>0, <2>1 DEF OwnInv, AskedOwn, ResultOwn, EvaluateIsOwn, NoReply
<1>8. CASE SendEvaluate
  <2>1. ASSUME asked' = asked \cup {[token |-> token, of |-> token, frame |-> None]},
               main = "ask", reply' = NoReply, UNCHANGED <<channel, token, result>>
        PROVE  OwnInv'
    BY <1>0, <2>1 DEF OwnInv, AskedOwn, ResultOwn, EvaluateIsOwn, NoReply
  <2> QED
    BY <1>7, <1>8, <2>1 DEF SendEvaluate, Elsewhere
<1>9. CASE GetResult
  <2>1. reply'.value.of = reply'.ref
    BY <1>9 DEF GetResult, OwnInv, ResultOwn
  <2>2. main' \notin {"ask", "answer"} /\ UNCHANGED <<asked, channel>>
    BY <1>9 DEF GetResult, Elsewhere
  <2> QED
    BY <1>0, <2>1, <2>2 DEF OwnInv, AskedOwn, ResultOwn, EvaluateIsOwn
<1>10. CASE EvaluateTimesOut
  BY <1>7, <1>10 DEF EvaluateTimesOut
<1>11. CASE HandlePayload
  BY <1>11, BridgeOwn
<1>12. CASE UNCHANGED vars
  BY <1>0, <1>12 DEF vars, waiting, OwnInv, AskedOwn, ResultOwn, EvaluateIsOwn
<1> QED
  BY Steps, <1>1, <1>2, <1>3, <1>4, <1>5, <1>6, <1>8, <1>9, <1>10, <1>11, <1>12

\* However late the answers of evaluates that timed out, and whatever scopes
\* requests ask in between: a watch or hover evaluate shows its own value.
THEOREM OwnAnswers == Spec => []EvaluateIsOwn
<1>1. Init => OwnInv
  BY DEF Init, OwnInv, AskedOwn, ChannelOwn, OwnTip, ResultOwn, EvaluateIsOwn, NoReply
<1>2. OwnInv => EvaluateIsOwn
  BY DEF OwnInv
<1> QED
  BY <1>1, <1>2, WaitInit, WaitStep, TypeCorrect, OwnStep, PTL DEF Spec

-----------------------------------------------------------------------------
(* A symbol shows its own value. *)

\* What the adapter and the messages on their way to it say of a window, in
\* order: position 0 is the adapter, then come the messages of channel, and the
\* position behind the last one is the interpreter.
ShownBy(m, f, o) == m.type \in {"open", "update"} /\ m.frame = f /\ m.in = o

Answers(m, q) == m.type = "tip" /\ m.token = q.token

\* At position i the window of f is said to be in phase o.
Shows(i, f, o) ==
    \/ i = 0 /\ f \in tracer /\ o = shown[f]
    \/ i \in 1..Len(channel) /\ ShownBy(channel[i], f, o)

\* At position j it is found in phase p.
Finds(j, f, p) ==
    \/ j \in 1..Len(channel) /\ ShownBy(channel[j], f, p)
    \/ /\ j \in 1..Len(channel)
       /\ \E q \in pendingSymbolTips :
             Answers(channel[j], q) /\ q.frame = f /\ channel[j].value.in = p
    \/ j = Len(channel) + 1 /\ p = phase[f]

ClosedBy(m, f) == m.type = "close" /\ m.frame = f

ClosedBetween(i, j, f) ==
    \E k \in 1..Len(channel) : i < k /\ k < j /\ ClosedBy(channel[k], f)

\* What is told of a window on the two sides of a CloseWindow that was not lost
\* is told before and behind the message.
ShowInv ==
    \A f \in Frames : \A i \in 0..Len(channel), j \in 1..(Len(channel) + 1) :
        \A o, p \in 0..MaxPhase : \A c \in closes[f] :
            i < j /\ Shows(i, f, o) /\ Finds(j, f, p) /\ ~SameSide(c, o, p) => ClosedBetween(i, j, f)

\* Nobody knows of a phase that has not begun.
PastInv ==
    \A f \in Frames :
        /\ shown[f] <= phase[f]
        /\ \A n \in Names : symbols[f][n].value.in <= phase[f]
        /\ \A c \in closes[f] : c <= phase[f]
        /\ \A j \in 1..(Len(channel) + 1) : \A p \in 0..MaxPhase : Finds(j, f, p) => p <= phase[f]

\* A window whose last CloseWindow was not lost is closed.
ClosedInv == \A f \in Frames : phase[f] \in closes[f] => ~IsOpen(f)

\* A token stands for one query, and an answer to a query that is still pending
\* is about the name it asked for.
Issued ==
    /\ \A q \in pendingSymbolTips \cup todo \cup asked : q.token < nextSymbolTipToken
    /\ \A j \in 1..Len(channel) : channel[j].type = "tip" => channel[j].token < nextSymbolTipToken

OneQuery == \A p \in pendingSymbolTips : \A q \in todo \cup asked : q.token = p.token => q = p

NameOwn ==
    \A q \in pendingSymbolTips : \A j \in 1..Len(channel) :
        Answers(channel[j], q) => channel[j].value.of = q.of

TokenInv == Issued /\ OneQuery /\ NameOwn

TipInv == ShowInv /\ PastInv /\ ClosedInv /\ TokenInv /\ TipIsOwn

LEMMA PhaseTypes ==
    ASSUME TypeOK, NEW f \in Frames
    PROVE  /\ phase[f] \in 0..MaxPhase /\ shown[f] \in 0..MaxPhase /\ closes[f] \subseteq 1..MaxPhase
           /\ \A n \in Names : symbols[f][n].value.in \in 0..MaxPhase
           /\ 0..MaxPhase \subseteq Nat /\ 1..MaxPhase \subseteq Nat
<1>1. \A n \in Names : symbols[f][n] \in Symbol
  BY DEF TypeOK
<1>2. \A n \in Names : symbols[f][n].value \in Value \cup {NoValue}
  BY <1>1 DEF Symbol
<1>3. \A n \in Names : symbols[f][n].value.in \in 0..MaxPhase
  BY <1>2, BoundsAssumption DEF Value, NoValue
<1> QED
  BY <1>3, BoundsAssumption DEF TypeOK

LEMMA TipInit == Init => TipInv
<1> SUFFICES ASSUME Init PROVE TipInv
  OBVIOUS
<1>1. /\ channel = <<>> /\ tracer = {} /\ pendingSymbolTips = {} /\ todo = {} /\ asked = {}
      /\ \A f \in Frames, n \in Names : symbols[f][n] = NoSymbol
      /\ \A f \in Frames : phase[f] = 0 /\ shown[f] = 0 /\ closes[f] = {}
  BY DEF Init
<1>2. ShowInv /\ ClosedInv
  BY <1>1 DEF ShowInv, ClosedInv
<1>3. PastInv
  BY <1>1 DEF PastInv, Finds, NoSymbol, NoValue
<1>4. TokenInv
  BY <1>1 DEF TokenInv, Issued, OneQuery, NameOwn
<1>5. TipIsOwn
  BY <1>1 DEF TipIsOwn, NoSymbol
<1> QED
  BY <1>2, <1>3, <1>4, <1>5 DEF TipInv

\* What the interpreter does to its windows, and tells of them.
Tells(message) ==
    /\ \A f \in Frames :
          \/ phase'[f] = phase[f] /\ closes'[f] = closes[f]
          \/ phase'[f] = phase[f] + 1 /\ closes'[f] = closes[f]
          \/ /\ phase'[f] = phase[f] + 1 /\ closes'[f] = closes[f] \cup {phase'[f]}
             /\ IsOpen(f) /\ ClosedBy(message, f) /\ HasRoom
    /\ message.type \in {"open", "update"} =>
          message.in = phase'[message.frame] /\ phase'[message.frame] \notin closes'[message.frame]
    /\ \A q \in pendingSymbolTips : Answers(message, q) => message.value.in = phase'[q.frame]

LEMMA EmitShows ==
    ASSUME TypeOK, TypeOK', ShowInv, PastInv, ClosedInv, TipIsOwn,
           NEW message \in Message, Emit(message), Tells(message)
    PROVE  ShowInv' /\ PastInv' /\ ClosedInv' /\ TipIsOwn'
<1> DEFINE last == Len(channel) + 1
<1>1. /\ Len(channel) \in Nat /\ last \in Nat
      /\ \A k \in 1..Len(channel) : channel'[k] = channel[k]
      /\ \/ Len(channel') = Len(channel) /\ ~HasRoom
         \/ Len(channel') = last /\ channel'[last] = message /\ HasRoom
  BY AppendedOrLost
<1>2. UNCHANGED <<tracer, shown, symbols, pendingSymbolTips>>
  BY DEF Emit, maps, caches
<1>3. \A f \in Frames :
        /\ phase[f] \in Nat /\ phase'[f] \in Nat /\ shown[f] \in Nat
        /\ phase'[f] \in {phase[f], phase[f] + 1}
        /\ \A c \in closes'[f] : c \in Nat /\ c <= phase'[f]
        /\ \A c \in closes'[f] :
              c \in closes[f] \/ (c = phase[f] + 1 /\ ClosedBy(message, f) /\ HasRoom)
  <2> TAKE f \in Frames
  <2>1. /\ phase[f] \in Nat /\ shown[f] \in Nat
        /\ \A c \in closes[f] : c \in Nat /\ c <= phase[f]
    BY PhaseTypes DEF PastInv
  <2> QED
    BY <2>1 DEF Tells
<1>4. ASSUME NEW f \in Frames, NEW j \in 1..(Len(channel') + 1), NEW p, Finds(j, f, p)'
      PROVE  \/ j \in 1..Len(channel) /\ Finds(j, f, p)
             \/ j >= last /\ p = phase'[f] /\ (j = last /\ HasRoom => ~ClosedBy(message, f))
  <2>1. CASE j \in 1..Len(channel)
    <3>1. Finds(j, f, p)
      BY <1>1, <1>2, <1>4, <2>1 DEF Finds
    <3> QED
      BY <2>1, <3>1
  <2>2. CASE j = last /\ HasRoom
    <3>1. j \in 1..Len(channel') /\ channel'[j] = message /\ j # Len(channel') + 1
      BY <1>1, <2>2
    <3>2. CASE ShownBy(message, f, p)
      BY <2>2, <3>2 DEF ShownBy, ClosedBy, Tells
    <3>3. CASE \E q \in pendingSymbolTips :
                  Answers(message, q) /\ q.frame = f /\ message.value.in = p
      BY <2>2, <3>3 DEF Answers, ClosedBy, Tells
    <3> QED
      BY <1>2, <1>4, <3>1, <3>2, <3>3 DEF Finds
  <2>3. CASE j = Len(channel') + 1
    BY <1>1, <1>4, <2>3 DEF Finds
  <2> QED
    BY <1>1, <1>4, <2>1, <2>2, <2>3
<1>5. ASSUME NEW f \in Frames, NEW i \in 0..Len(channel'), NEW o, Shows(i, f, o)'
      PROVE  \/ i \in 0..Len(channel) /\ Shows(i, f, o) /\ o <= phase[f]
             \/ i = last /\ o = phase'[f] /\ o \notin closes'[f] /\ ~ClosedBy(message, f)
  <2>1. CASE i = 0
    BY <1>1, <1>2, <1>5, <2>1 DEF Shows, PastInv
  <2>2. CASE i \in 1..Len(channel)
    <3>1. ShownBy(channel[i], f, o)
      BY <1>1, <1>5, <2>2 DEF Shows
    <3>2. Finds(i, f, o) /\ Shows(i, f, o)
      BY <2>2, <3>1 DEF Finds, Shows
    <3>3. channel[i] \in Message
      BY <2>2 DEF TypeOK
    <3>4. o \in 0..MaxPhase
      BY <3>1, <3>3, MessageFacts DEF ShownBy
    <3> QED
      BY <1>1, <2>2, <3>2, <3>4 DEF PastInv
  <2>3. CASE i = last /\ i \in 1..Len(channel')
    BY <1>1, <1>5, <2>3 DEF Shows, ShownBy, ClosedBy, Tells
  <2> QED
    BY <1>1, <1>5, <2>1, <2>2, <2>3
<1>6. PastInv'
  <2> SUFFICES ASSUME NEW f \in Frames
               PROVE  /\ shown'[f] <= phase'[f]
                      /\ \A n \in Names : symbols'[f][n].value.in <= phase'[f]
                      /\ \A c \in closes'[f] : c <= phase'[f]
                      /\ \A j \in 1..(Len(channel') + 1) : \A p \in 0..MaxPhase :
                            Finds(j, f, p)' => p <= phase'[f]
    BY DEF PastInv
  <2>1. shown'[f] <= phase'[f] /\ \A n \in Names : symbols'[f][n].value.in <= phase'[f]
    BY <1>2, <1>3, PhaseTypes DEF PastInv
  <2>2. ASSUME NEW j \in 1..(Len(channel') + 1), NEW p \in 0..MaxPhase, Finds(j, f, p)'
        PROVE  p <= phase'[f]
    <3>1. p \in Nat
      BY BoundsAssumption
    <3>2. CASE j \in 1..Len(channel) /\ Finds(j, f, p)
      <4>1. p <= phase[f]
        BY <1>1, <3>2 DEF PastInv
      <4> QED
        BY <1>3, <3>1, <4>1
    <3>3. CASE p = phase'[f]
      BY <3>1, <3>3
    <3> QED
      BY <1>4, <2>2, <3>2, <3>3
  <2> QED
    BY <1>3, <2>1, <2>2
<1>7. ClosedInv'
  <2> SUFFICES ASSUME NEW f \in Frames, phase'[f] \in closes'[f] PROVE ~IsOpen(f)'
    BY DEF ClosedInv
  <2>1. CASE phase'[f] = phase[f] /\ closes'[f] = closes[f]
    BY <2>1 DEF ClosedInv, IsOpen
  <2>2. CASE phase'[f] = phase[f] + 1 /\ closes'[f] = closes[f]
    BY <1>3, <2>2 DEF PastInv
  <2>3. CASE phase'[f] = phase[f] + 1 /\ IsOpen(f)
    BY <1>3, <2>3 DEF IsOpen
  <2> QED
    BY <2>1, <2>2, <2>3 DEF Tells
<1>8. TipIsOwn'
  <2> SUFFICES ASSUME NEW f \in Frames, NEW n \in Names, symbols[f][n].value # NoValue, NEW c \in closes'[f]
               PROVE  symbols[f][n].value.of = n /\ SameSide(c, shown[f], symbols[f][n].value.in)
    <3>1. \A f \in Frames : \A n \in Names : symbols[f][n].value # NoValue => symbols[f][n].value.of = n
      BY DEF TipIsOwn
    <3> QED
      BY <1>2, <3>1 DEF TipIsOwn, SameSide
  <2>1. CASE c \in closes[f]
    BY <2>1 DEF TipIsOwn
  <2>2. CASE c = phase[f] + 1
    BY <1>3, <2>2, PhaseTypes DEF PastInv, TipIsOwn, SameSide
  <2> QED
    BY <1>3, <2>1, <2>2
<1>9. ASSUME NEW f \in Frames, NEW i \in 0..Len(channel), NEW j, NEW k, j \in Nat, k \in Nat, j <= k,
             ClosedBetween(i, j, f)
      PROVE  ClosedBetween(i, k, f)'
  <2>1. PICK l \in 1..Len(channel) : i < l /\ l < j /\ ClosedBy(channel[l], f)
    BY <1>9 DEF ClosedBetween
  <2>2. l \in 1..Len(channel') /\ l < k /\ channel'[l] = channel[l]
    BY <1>1, <1>9, <2>1
  <2> QED
    BY <2>1, <2>2 DEF ClosedBetween
<1>10. ASSUME NEW f \in Frames, NEW i \in 0..Len(channel'), NEW j \in 1..(Len(channel') + 1),
              NEW o \in 0..MaxPhase, NEW p \in 0..MaxPhase, NEW c \in closes'[f],
              i < j, Shows(i, f, o)', Finds(j, f, p)', ~SameSide(c, o, p)
       PROVE  ClosedBetween(i, j, f)'
  <2>0. o \in Nat /\ p \in Nat /\ c \in Nat /\ i \in Nat /\ j \in Nat
    BY <1>1, <1>3, BoundsAssumption
  <2>1. CASE i = last /\ o = phase'[f] /\ o \notin closes'[f] /\ ~ClosedBy(message, f)
    <3>1. p = phase'[f]
      BY <1>1, <1>4, <1>10, <2>1
    <3>2. c # o /\ c <= o
      BY <1>3, <2>1
    <3> QED
      BY <1>10, <2>0, <2>1, <3>1, <3>2 DEF SameSide
  <2>2. CASE i \in 0..Len(channel) /\ Shows(i, f, o) /\ o <= phase[f]
    <3>1. CASE j \in 1..Len(channel) /\ Finds(j, f, p)
      <4>1. p <= phase[f] /\ j \in 1..(Len(channel) + 1)
        BY <1>1, <3>1 DEF PastInv
      <4>2. c \in closes[f]
        BY <1>3, <1>10, <2>0, <2>2, <4>1 DEF SameSide
      <4>3. ClosedBetween(i, j, f)
        BY <1>10, <2>2, <3>1, <4>1, <4>2 DEF ShowInv
      <4>4. j <= j
        BY <2>0
      <4> QED
        BY <1>9, <2>0, <2>2, <4>3, <4>4
    <3>2. CASE j >= last /\ p = phase'[f] /\ (j = last /\ HasRoom => ~ClosedBy(message, f))
      <4>1. CASE c \in closes[f]
        <5>1. c <= phase[f] /\ phase[f] \in 0..MaxPhase
          BY <4>1, PhaseTypes DEF PastInv
        <5>2. ~SameSide(c, o, phase[f])
          BY <1>3, <1>10, <2>0, <3>2, <5>1 DEF SameSide
        <5>3. Finds(last, f, phase[f]) /\ last \in 1..(Len(channel) + 1) /\ i < last
          BY <1>1, <2>2 DEF Finds
        <5>4. ClosedBetween(i, last, f)
          BY <2>2, <4>1, <5>1, <5>2, <5>3 DEF ShowInv
        <5> QED
          BY <1>1, <1>9, <2>0, <2>2, <3>2, <5>4
      <4>2. CASE ClosedBy(message, f) /\ HasRoom
        <5>1. last \in 1..Len(channel') /\ i < last /\ last < j /\ channel'[last] = message
          BY <1>1, <2>0, <2>2, <3>2, <4>2
        <5> QED
          BY <4>2, <5>1 DEF ClosedBetween
      <4> QED
        BY <1>3, <4>1, <4>2
    <3> QED
      BY <1>4, <1>10, <3>1, <3>2
  <2> QED
    BY <1>5, <1>10, <2>1, <2>2
<1> QED
  BY <1>6, <1>7, <1>8, <1>10 DEF ShowInv

\* The value that a tip brings is stored for the query it answers.
LEMMA StoredValue ==
    ASSUME TypeOK, NEW m \in Message, ValueTip(m), NEW f \in Frames, NEW n \in Names
    PROVE  \/ symbols'[f][n].value = symbols[f][n].value
           \/ /\ symbols'[f][n].value = m.value
              /\ \E q \in pendingSymbolTips : Answers(m, q) /\ q.frame = f /\ q.of = n
<1>1. CASE UNCHANGED symbols
  BY <1>1
<1>2. ASSUME NEW q \in pendingSymbolTips, q.token = m.token,
             symbols' = [symbols EXCEPT ![q.frame][q.of].value = m.value]
      PROVE  \/ symbols'[f][n].value = symbols[f][n].value
             \/ symbols'[f][n].value = m.value /\ Answers(m, q) /\ q.frame = f /\ q.of = n
  <2>1. q.frame \in Frames /\ q.of \in Names
    BY DEF TypeOK, SymbolTip
  <2>2. /\ symbols \in [Frames -> [Names -> Symbol]]
        /\ symbols[q.frame] \in [Names -> Symbol] /\ symbols[q.frame][q.of] \in Symbol
    BY <2>1 DEF TypeOK
  <2>3. symbols'[q.frame] = [symbols[q.frame] EXCEPT ![q.of].value = m.value]
    BY <1>2, <2>1, <2>2
  <2>4. symbols'[q.frame][q.of].value = m.value
    BY <2>1, <2>2, <2>3 DEF Symbol
  <2>5. /\ f # q.frame => symbols'[f] = symbols[f]
        /\ n # q.of => symbols'[q.frame][n] = symbols[q.frame][n]
    BY <1>2, <2>1, <2>2, <2>3
  <2>6. Answers(m, q)
    BY <1>2 DEF Answers, ValueTip
  <2> QED
    BY <2>4, <2>5, <2>6
<1> QED
  BY <1>1, <1>2 DEF ValueTip, DispatchValueTip, StoreSymbol

\* The adapter takes over what the first message says.
LEMMA BridgeShows ==
    ASSUME TypeOK, TypeOK', ShowInv, PastInv, ClosedInv, HandlePayload
    PROVE  ShowInv' /\ PastInv' /\ ClosedInv'
<1> DEFINE m == Head(channel)
<1>1. channel \in Seq(Message) /\ channel # <<>> /\ channel' = Tail(channel)
  BY DEF TypeOK, HandlePayload
<1>2. /\ Len(channel') = Len(channel) - 1 /\ Len(channel) \in Nat \ {0} /\ m = channel[1]
      /\ \A i \in 1..Len(channel') : channel'[i] = channel[i + 1]
  BY <1>1
<1>3. m \in Message
  BY <1>1
<1>4. UNCHANGED <<phase, closes>> /\ pendingSymbolTips' \subseteq pendingSymbolTips
  BY DEF HandlePayload, interpreter, ShowWindow, CloseWindow, UnbindFrame, ValueTip,
         DispatchValueTip, SetPromptType, Terminate
<1>5. ASSUME NEW f \in Frames
      PROVE  \/ ShownBy(m, f, shown'[f])
             \/ ClosedBy(m, f) /\ f \notin tracer' /\ shown'[f] = 0
             \/ ~ClosedBy(m, f) /\ shown'[f] = shown[f] /\ (f \in tracer' => f \in tracer)
  <2>1. CASE ShowWindow(m)
    <3>1. m.frame \in Frames
      BY <1>3, <2>1, MessageFacts DEF ShowWindow
    <3>2. CASE f = m.frame
      BY <2>1, <3>1, <3>2 DEF ShowWindow, ShownBy, TypeOK
    <3>3. CASE f # m.frame
      BY <2>1, <3>1, <3>3 DEF ShowWindow, ClosedBy, TypeOK
    <3> QED
      BY <3>2, <3>3
  <2>2. CASE CloseWindow(m)
    BY <2>2 DEF CloseWindow, ClosedBy, TypeOK
  <2>3. CASE ValueTip(m) \/ SetPromptType(m) \/ Terminate(m)
    BY <2>3 DEF ValueTip, SetPromptType, Terminate, maps, ClosedBy
  <2> QED
    BY <2>1, <2>2, <2>3 DEF HandlePayload
<1>6. ASSUME NEW f \in Frames, NEW j \in 1..(Len(channel') + 1), NEW p, Finds(j, f, p)'
      PROVE  j + 1 \in 1..(Len(channel) + 1) /\ Finds(j + 1, f, p)
  <2>1. j + 1 \in 1..(Len(channel) + 1)
    BY <1>2, <1>6
  <2>2. Finds(j + 1, f, p)
    BY <1>2, <1>4, <1>6, <2>1 DEF Finds
  <2> QED
    BY <2>1, <2>2
<1>7. ASSUME NEW f \in Frames, NEW p \in 0..MaxPhase, Finds(1, f, p)
      PROVE  p <= phase[f]
  BY <1>2, <1>7 DEF PastInv
<1>8. PastInv'
  <2> SUFFICES ASSUME NEW f \in Frames
               PROVE  /\ shown'[f] <= phase[f]
                      /\ \A n \in Names : symbols'[f][n].value.in <= phase[f]
                      /\ \A c \in closes[f] : c <= phase[f]
                      /\ \A j \in 1..(Len(channel') + 1) : \A p \in 0..MaxPhase :
                            Finds(j, f, p)' => p <= phase[f]
    BY <1>4 DEF PastInv
  <2>1. shown'[f] <= phase[f]
    <3>1. CASE ShownBy(m, f, shown'[f])
      <4>1. Finds(1, f, shown'[f])
        BY <1>2, <3>1 DEF Finds
      <4>2. shown'[f] \in 0..MaxPhase
        BY PhaseTypes DEF TypeOK
      <4> QED
        BY <1>7, <4>1, <4>2
    <3>2. CASE shown'[f] = 0 \/ shown'[f] = shown[f]
      BY <3>2, PhaseTypes DEF PastInv
    <3> QED
      BY <1>5, <3>1, <3>2
  <2>2. ASSUME NEW n \in Names PROVE symbols'[f][n].value.in <= phase[f]
    <3>1. CASE symbols'[f][n].value = symbols[f][n].value
      BY <3>1 DEF PastInv
    <3>2. CASE symbols'[f][n] = NoSymbol
      BY <3>2, PhaseTypes DEF NoSymbol, NoValue
    <3>3. CASE ValueTip(m)
      <4>1. ASSUME NEW q \in pendingSymbolTips, Answers(m, q), q.frame = f, symbols'[f][n].value = m.value
            PROVE  symbols'[f][n].value.in <= phase[f]
        <5>1. m.value.in \in 0..MaxPhase
          BY <1>3, <4>1, MessageFacts DEF Answers, Value
        <5>2. Finds(1, f, m.value.in)
          BY <1>2, <4>1 DEF Finds
        <5> QED
          BY <1>7, <4>1, <5>1, <5>2
      <4> QED
        BY <1>3, <3>1, <3>3, <4>1, StoredValue
    <3>4. CASE CloseWindow(m)
      <4>1. symbols'[f] = symbols[f] \/ symbols'[f] = [k \in Names |-> NoSymbol]
        BY <3>4 DEF CloseWindow, UnbindFrame, TypeOK
      <4> QED
        BY <3>1, <3>2, <4>1
    <3>5. CASE ShowWindow(m) \/ SetPromptType(m) \/ Terminate(m)
      BY <3>1, <3>5 DEF ShowWindow, SetPromptType, Terminate, caches
    <3> QED
      BY <3>3, <3>4, <3>5 DEF HandlePayload
  <2>3. \A j \in 1..(Len(channel') + 1) : \A p \in 0..MaxPhase : Finds(j, f, p)' => p <= phase[f]
    BY <1>6 DEF PastInv
  <2> QED
    BY <2>1, <2>2, <2>3 DEF PastInv
<1>9. ASSUME NEW f \in Frames, NEW i \in 0..Len(channel'), NEW j \in 1..(Len(channel') + 1),
             NEW o \in 0..MaxPhase, NEW p \in 0..MaxPhase, NEW c \in closes[f],
             i < j, Shows(i, f, o)', Finds(j, f, p)', ~SameSide(c, o, p)
      PROVE  ClosedBetween(i, j, f)'
  <2>1. j + 1 \in 1..(Len(channel) + 1) /\ i + 1 \in 0..Len(channel) /\ Finds(j + 1, f, p)
    BY <1>2, <1>6, <1>9
  <2>2. ASSUME NEW k \in 0..Len(channel), k < j + 1, Shows(k, f, o)
        PROVE  \E l \in 1..Len(channel) : k < l /\ l < j + 1 /\ ClosedBy(channel[l], f)
    <3>1. ClosedBetween(k, j + 1, f)
      BY <1>9, <2>1, <2>2 DEF ShowInv
    <3> QED
      BY <3>1 DEF ClosedBetween
  <2>3. ASSUME NEW l \in 1..Len(channel), i + 1 < l, l < j + 1, ClosedBy(channel[l], f)
        PROVE  ClosedBetween(i, j, f)'
    <3>1. /\ l - 1 \in 1..Len(channel') /\ i < l - 1 /\ l - 1 < j
          /\ channel'[l - 1] = channel[l]
      BY <1>2, <2>3
    <3> QED
      BY <2>3, <3>1 DEF ClosedBetween
  <2>4. ASSUME Shows(i + 1, f, o) PROVE ClosedBetween(i, j, f)'
    <3>1. i + 1 < j + 1
      BY <1>2, <1>9
    <3>2. PICK l \in 1..Len(channel) : i + 1 < l /\ l < j + 1 /\ ClosedBy(channel[l], f)
      BY <2>1, <2>2, <2>4, <3>1
    <3> QED
      BY <2>3, <3>2
  <2>5. CASE i # 0
    <3>1. Shows(i + 1, f, o)
      BY <1>2, <1>9, <2>1, <2>5 DEF Shows
    <3> QED
      BY <2>4, <3>1
  <2>6. CASE i = 0
    <3>1. f \in tracer' /\ o = shown'[f]
      BY <1>9, <2>6 DEF Shows
    <3>2. CASE ShownBy(m, f, shown'[f])
      <4>1. Shows(i + 1, f, o)
        BY <1>2, <2>6, <3>1, <3>2 DEF Shows
      <4> QED
        BY <2>4, <4>1
    <3>3. CASE ~ClosedBy(m, f) /\ shown'[f] = shown[f] /\ f \in tracer
      <4>1. Shows(0, f, o) /\ 0 < j + 1
        BY <1>9, <3>1, <3>3 DEF Shows
      <4>2. PICK l \in 1..Len(channel) : 0 < l /\ l < j + 1 /\ ClosedBy(channel[l], f)
        BY <1>2, <2>2, <4>1
      <4>3. l # 1
        BY <1>2, <3>3, <4>2
      <4>4. i + 1 < l
        BY <2>6, <4>2, <4>3
      <4> QED
        BY <2>3, <4>2, <4>4
    <3> QED
      BY <1>5, <3>1, <3>2, <3>3
  <2> QED
    BY <2>5, <2>6
<1>10. ClosedInv'
  BY <1>4 DEF ClosedInv, IsOpen
<1> QED
  BY <1>4, <1>8, <1>9, <1>10 DEF ShowInv

\* What is found first in the channel is on the adapter's side of every close.
LEMMA FirstIsShown ==
    ASSUME TypeOK, ShowInv, NEW f \in Frames, f \in tracer, NEW p \in 0..MaxPhase, Finds(1, f, p),
           NEW c \in closes[f]
    PROVE  SameSide(c, shown[f], p)
<1>1. Shows(0, f, shown[f]) /\ shown[f] \in 0..MaxPhase
  BY DEF Shows, TypeOK
<1>2. Len(channel) \in Nat
  BY DEF TypeOK
<1>3. ~ClosedBetween(0, 1, f)
  BY DEF ClosedBetween
<1> QED
  BY <1>1, <1>2, <1>3 DEF ShowInv

LEMMA BridgeTokens ==
    ASSUME TypeOK, TokenInv, HandlePayload
    PROVE  TokenInv'
<1>1. channel \in Seq(Message) /\ channel # <<>> /\ channel' = Tail(channel)
  BY DEF TypeOK, HandlePayload
<1>2. /\ Len(channel') = Len(channel) - 1 /\ Len(channel) \in Nat \ {0}
      /\ \A i \in 1..Len(channel') : channel'[i] = channel[i + 1] /\ i + 1 \in 1..Len(channel)
  BY <1>1
<1>3. pendingSymbolTips' \subseteq pendingSymbolTips /\ UNCHANGED <<todo, asked, nextSymbolTipToken>>
  BY DEF HandlePayload, waiting, ShowWindow, CloseWindow, UnbindFrame, ValueTip,
         DispatchValueTip, SetPromptType, Terminate
<1>4. Issued' /\ OneQuery'
  BY <1>2, <1>3 DEF TokenInv, Issued, OneQuery
<1>5. NameOwn'
  BY <1>2, <1>3 DEF TokenInv, NameOwn, Answers
<1> QED
  BY <1>4, <1>5 DEF TokenInv

\* The value that is stored is that of a query that is still pending: no
\* CloseWindow of its window has come since.
LEMMA BridgeTip ==
    ASSUME TypeOK, ClosedFramesEmpty, TipInv, HandlePayload
    PROVE  TipIsOwn'
<1> DEFINE m == Head(channel)
<1>1. channel \in Seq(Message) /\ channel # <<>>
  BY DEF TypeOK, HandlePayload
<1>2. m = channel[1] /\ 1 \in 1..Len(channel) /\ m \in Message
  BY <1>1
<1>3. TipIsOwn /\ ShowInv /\ NameOwn /\ UNCHANGED closes
  BY DEF TipInv, TokenInv, HandlePayload, interpreter
<1>4. CASE ShowWindow(m)
  <2>1. /\ m.frame \in Frames /\ m.in \in 0..MaxPhase
        /\ UNCHANGED symbols /\ shown' = [shown EXCEPT ![m.frame] = m.in]
    BY <1>2, <1>4, MessageFacts DEF ShowWindow, caches
  <2>2. \A f \in Frames : f # m.frame => shown'[f] = shown[f]
    BY <2>1 DEF TypeOK
  <2>3. shown'[m.frame] = m.in
    BY <2>1 DEF TypeOK
  <2>4. ASSUME NEW n \in Names, symbols[m.frame][n].value # NoValue
        PROVE  /\ symbols[m.frame][n].value.of = n
               /\ \A c \in closes[m.frame] : SameSide(c, m.in, symbols[m.frame][n].value.in)
    <3>1. m.frame \in tracer
      BY <2>1, <2>4 DEF ClosedFramesEmpty, NoSymbol
    <3>2. Finds(1, m.frame, m.in)
      BY <1>2, <1>4 DEF Finds, ShownBy, ShowWindow
    <3>3. ASSUME NEW c \in closes[m.frame]
          PROVE  SameSide(c, m.in, symbols[m.frame][n].value.in)
      <4>1. SameSide(c, shown[m.frame], m.in)
        BY <1>3, <2>1, <3>1, <3>2, FirstIsShown
      <4>2. SameSide(c, shown[m.frame], symbols[m.frame][n].value.in)
        BY <1>3, <2>1, <2>4 DEF TipIsOwn
      <4>3. /\ c \in Nat /\ m.in \in Nat /\ shown[m.frame] \in Nat
            /\ symbols[m.frame][n].value.in \in Nat
        BY <2>1, PhaseTypes
      <4> QED
        BY <4>1, <4>2, <4>3 DEF SameSide
    <3> QED
      BY <1>3, <2>1, <2>4, <3>3 DEF TipIsOwn
  <2>5. ASSUME NEW f \in Frames, NEW n \in Names, symbols'[f][n].value # NoValue
        PROVE  /\ symbols'[f][n].value.of = n
               /\ \A c \in closes[f] : SameSide(c, shown'[f], symbols'[f][n].value.in)
    <3>1. CASE f = m.frame
      BY <2>1, <2>3, <2>4, <2>5, <3>1
    <3>2. CASE f # m.frame
      BY <1>3, <2>1, <2>2, <2>5, <3>2 DEF TipIsOwn
    <3> QED
      BY <3>1, <3>2
  <2> QED
    BY <1>3, <2>5 DEF TipIsOwn, SameSide
<1>5. CASE CloseWindow(m)
  <2>1. m.frame \in Frames
    BY <1>2, <1>5, MessageFacts DEF CloseWindow
  <2>2. /\ \A n \in Names : symbols'[m.frame][n] = NoSymbol
        /\ \A f \in Frames \ {m.frame} : symbols'[f] = symbols[f] /\ shown'[f] = shown[f]
    BY <1>5, <2>1 DEF CloseWindow, UnbindFrame, TypeOK
  <2> QED
    BY <1>3, <2>2 DEF TipIsOwn, NoSymbol, SameSide
<1>6. CASE ValueTip(m)
  <2>1. UNCHANGED shown
    BY <1>6 DEF ValueTip, maps
  <2>2. ASSUME NEW f \in Frames, NEW n \in Names, symbols'[f][n].value # NoValue
        PROVE  /\ symbols'[f][n].value.of = n
               /\ \A c \in closes[f] : SameSide(c, shown[f], symbols'[f][n].value.in)
    <3>1. CASE symbols'[f][n].value = symbols[f][n].value
      BY <1>3, <2>2, <3>1 DEF TipIsOwn
    <3>2. ASSUME NEW q \in pendingSymbolTips, Answers(m, q), q.frame = f, q.of = n,
                 symbols'[f][n].value = m.value
          PROVE  /\ symbols'[f][n].value.of = n
                 /\ \A c \in closes[f] : SameSide(c, shown[f], symbols'[f][n].value.in)
      <4>1. m.value.of = n
        BY <1>2, <1>3, <3>2 DEF NameOwn
      <4>2. f \in tracer
        BY <3>2 DEF ClosedFramesEmpty, PendingFor
      <4>3. m.value.in \in 0..MaxPhase /\ Finds(1, f, m.value.in)
        BY <1>2, <1>6, <3>2, MessageFacts DEF ValueTip, Value, Finds
      <4> QED
        BY <1>3, <3>2, <4>1, <4>2, <4>3, FirstIsShown
    <3> QED
      BY <1>2, <1>6, <3>1, <3>2, StoredValue
  <2> QED
    BY <1>3, <2>1, <2>2 DEF TipIsOwn, SameSide
<1>7. CASE SetPromptType(m) \/ Terminate(m)
  BY <1>3, <1>7 DEF SetPromptType, Terminate, maps, caches, TipIsOwn, SameSide
<1> QED
  BY <1>4, <1>5, <1>6, <1>7 DEF HandlePayload

LEMMA BridgeTips ==
    ASSUME TypeOK, ClosedFramesEmpty, TipInv, HandlePayload
    PROVE  TipInv'
BY TypeBridge, BridgeShows, BridgeTokens, BridgeTip DEF TipInv

LEMMA EmitTokens ==
    ASSUME TypeOK, TokenInv, NEW message \in Message, Emit(message), asked' \subseteq asked,
           message.type = "tip" => message.token < nextSymbolTipToken,
           \A q \in pendingSymbolTips : Answers(message, q) => message.value.of = q.of
    PROVE  TokenInv'
<1>1. \A i \in 1..Len(channel') : \/ i \in 1..Len(channel) /\ channel'[i] = channel[i]
                                  \/ channel'[i] = message
  BY AppendedOrLost
<1>2. UNCHANGED <<todo, pendingSymbolTips, nextSymbolTipToken>>
  BY DEF Emit, waiting
<1>3. Issued'
  <2>1. \A j \in 1..Len(channel') : channel'[j].type = "tip" => channel'[j].token < nextSymbolTipToken
    BY <1>1 DEF TokenInv, Issued
  <2> QED
    BY <1>2, <2>1 DEF TokenInv, Issued
<1>4. OneQuery'
  BY <1>2 DEF TokenInv, OneQuery
<1>5. NameOwn'
  BY <1>1, <1>2 DEF TokenInv, NameOwn, Answers
<1> QED
  BY <1>3, <1>4, <1>5 DEF TokenInv

\* What an opened, changed or closed window, or another message than a tip, does.
LEMMA EmitTips ==
    ASSUME TypeOK, TypeOK', TipInv, NEW message \in Message, Emit(message), asked' \subseteq asked,
           message.type # "tip", Tells(message)
    PROVE  TipInv'
<1>1. \A q \in pendingSymbolTips : ~Answers(message, q)
  BY DEF Answers
<1>2. ShowInv' /\ PastInv' /\ ClosedInv' /\ TipIsOwn'
  BY EmitShows DEF TipInv
<1>3. TokenInv'
  BY <1>1, EmitTokens DEF TipInv
<1> QED
  BY <1>2, <1>3 DEF TipInv

LEMMA InterpreterTips ==
    ASSUME TypeOK, TipInv, Interpreter
    PROVE  TipInv'
<1>0. TypeOK' /\ \A f \in Frames : phase[f] \in Nat /\ \A c \in closes[f] : c \in Nat /\ c <= phase[f]
  BY TypeInterpreter, PhaseTypes DEF TipInv, PastInv
<1>1. ASSUME NEW f \in Frames, NEW t \in Texts \cup {NoText}, Open(f, t) PROVE TipInv'
  <2>1. PICK message : message = [type |-> "open", frame |-> f, text |-> t, in |-> phase'[f]]
    OBVIOUS
  <2>2. /\ phase'[f] \in 1..MaxPhase /\ phase'[f] = phase[f] + 1
        /\ \A g \in Frames \ {f} : phase'[g] = phase[g]
    BY <1>1, PhaseChanges DEF Open
  <2>3. message \in Message /\ message.type = "open" /\ message.frame = f /\ message.in = phase'[f]
    BY <2>1, <2>2 DEF Message
  <2>4. Emit(message) /\ UNCHANGED <<asked, closes>>
    BY <1>1, <2>1 DEF Open
  <2>5. phase'[f] \notin closes'[f]
    BY <1>0, <2>2, <2>4
  <2>6. Tells(message)
    BY <2>2, <2>3, <2>4, <2>5 DEF Tells, Answers
  <2> QED
    BY <1>0, <2>3, <2>4, <2>6, EmitTips
<1>2. ASSUME NEW f \in Frames, NEW t \in Texts, Update(f, t) PROVE TipInv'
  <2>1. PICK message : message = [type |-> "update", frame |-> f, text |-> t, in |-> phase[f]]
    OBVIOUS
  <2>2. phase[f] \in 1..MaxPhase
    BY <1>2, PhaseTypes DEF Update, IsOpen
  <2>3. message \in Message /\ message.type = "update" /\ message.frame = f /\ message.in = phase[f]
    BY <2>1, <2>2 DEF Message
  <2>4. Emit(message) /\ UNCHANGED <<asked, phase, closes>>
    BY <1>2, <2>1 DEF Update, interpreter
  <2>5. phase[f] \notin closes[f]
    BY <1>2 DEF Update, TipInv, ClosedInv
  <2>6. Tells(message)
    BY <2>3, <2>4, <2>5 DEF Tells, Answers
  <2> QED
    BY <1>0, <2>3, <2>4, <2>6, EmitTips
<1>3. ASSUME NEW f \in Frames, Close(f) PROVE TipInv'
  <2>1. PICK message : message = [type |-> "close", frame |-> f]
    OBVIOUS
  <2>2. message \in Message /\ message.type = "close" /\ ClosedBy(message, f)
    BY <2>1 DEF Message, ClosedBy
  <2>3. Emit(message) /\ UNCHANGED asked
    BY <1>3, <2>1 DEF Close
  <2>4. phase'[f] = phase[f] + 1 /\ \A g \in Frames \ {f} : phase'[g] = phase[g]
    BY <1>3, PhaseChanges DEF Close
  <2>5. CASE HasRoom
    <3>1. /\ closes'[f] = closes[f] \cup {phase'[f]}
          /\ \A g \in Frames \ {f} : closes'[g] = closes[g]
      BY <1>3, <2>5 DEF Close, TypeOK
    <3>2. IsOpen(f)
      BY <1>3 DEF Close
    <3>3. Tells(message)
      BY <2>2, <2>4, <2>5, <3>1, <3>2 DEF Tells, Answers
    <3> QED
      BY <1>0, <2>2, <2>3, <3>3, EmitTips
  <2>6. CASE ~HasRoom
    <3>1. UNCHANGED closes
      BY <1>3, <2>6 DEF Close
    <3>2. Tells(message)
      BY <2>2, <2>4, <3>1 DEF Tells, Answers
    <3> QED
      BY <1>0, <2>2, <2>3, <3>2, EmitTips
  <2> QED
    BY <2>5, <2>6
<1>4. CASE RunOrStop
  <2>1. PICK message : message = [type |-> IF running THEN "ready" ELSE "busy"]
    OBVIOUS
  <2>2. message \in Message /\ message.type \in {"ready", "busy"}
    BY <2>1 DEF Message
  <2>3. Emit(message) /\ UNCHANGED <<asked, phase, closes>>
    BY <1>4, <2>1 DEF RunOrStop
  <2>4. Tells(message)
    BY <2>2, <2>3 DEF Tells, Answers
  <2> QED
    BY <1>0, <2>2, <2>3, <2>4, EmitTips
<1>5. CASE Disconnect
  <2>1. PICK message : message = [type |-> "fatal"]
    OBVIOUS
  <2>2. message \in Message /\ message.type = "fatal"
    BY <2>1 DEF Message
  <2>3. Emit(message) /\ UNCHANGED <<asked, phase, closes>>
    BY <1>5, <2>1 DEF Disconnect, interpreter
  <2>4. Tells(message)
    BY <2>2, <2>3 DEF Tells, Answers
  <2> QED
    BY <1>0, <2>2, <2>3, <2>4, EmitTips
<1>6. ASSUME NEW q \in asked, SendTip(q) PROVE TipInv'
  <2>1. PICK message : message = [type |-> "tip", token |-> q.token,
            value |-> [of |-> q.of, in |-> IF q.frame = None THEN 0 ELSE phase[q.frame]]]
    OBVIOUS
  <2>2. q \in SymbolTip \/ q \in EvaluateTip
    BY DEF TypeOK
  <2>3. /\ q.token \in SymbolTokens \cup EvaluateTokens /\ q.of \in Names \cup EvaluateTokens
        /\ q.frame = None \/ q.frame \in Frames
    BY <2>2 DEF SymbolTip, EvaluateTip
  <2>4. (IF q.frame = None THEN 0 ELSE phase[q.frame]) \in 0..MaxPhase
    BY <2>3, PhaseTypes, BoundsAssumption
  <2>5. message \in Message
    BY <2>1, <2>3, <2>4 DEF Message, Value
  <2>6. Emit(message) /\ asked' \subseteq asked /\ UNCHANGED <<phase, closes>>
    BY <1>6, <2>1 DEF SendTip, interpreter
  <2>7. message.type = "tip" /\ message.token = q.token /\ message.value.of = q.of
    BY <2>1
  <2>8. message.token < nextSymbolTipToken
    BY <2>7 DEF TipInv, TokenInv, Issued
  <2>9. ASSUME NEW p \in pendingSymbolTips, Answers(message, p)
        PROVE  message.value.of = p.of /\ message.value.in = phase[p.frame]
    <3>1. q = p
      BY <2>7, <2>9 DEF Answers, TipInv, TokenInv, OneQuery
    <3>2. q.frame \in Frames
      BY <3>1 DEF TypeOK, SymbolTip
    <3>3. q.frame # None
      BY <3>2, FramesAssumption DEF None
    <3> QED
      BY <2>1, <3>1, <3>3
  <2>10. Tells(message)
    BY <2>6, <2>7, <2>9 DEF Tells
  <2>11. ShowInv' /\ PastInv' /\ ClosedInv' /\ TipIsOwn'
    BY <1>0, <2>5, <2>6, <2>10, EmitShows DEF TipInv
  <2>12. TokenInv'
    BY <2>5, <2>6, <2>7, <2>8, <2>9, EmitTokens DEF TipInv
  <2> QED
    BY <2>11, <2>12 DEF TipInv
<1> QED
  BY <1>1, <1>2, <1>3, <1>4, <1>5, <1>6 DEF Interpreter

\* The queries of a scopes request have tokens of their own, that none before
\* them had.
LEMMA QueriesIssued ==
    ASSUME TypeOK, NEW f \in Frames, PrepareSymbolTips(f)
    PROVE  /\ nextSymbolTipToken' >= nextSymbolTipToken
           /\ \A q \in todo' : q.token >= nextSymbolTipToken /\ q.token < nextSymbolTipToken'
           /\ \A p, q \in todo' : p.token = q.token => p = q
<1> DEFINE names  == NamesToAsk(f)
           tokens == nextSymbolTipToken..(nextSymbolTipToken + Cardinality(names) - 1)
<1>1. Cardinality(names) \in Nat
  <2>1. IsFiniteSet(names)
    BY NamesAssumption, FS_Subset DEF NamesToAsk
  <2> QED
    BY <2>1, FS_CardinalityType
<1>2. PICK nameOf \in Bijection(tokens, names) :
        /\ todo' = {[token |-> t, of |-> nameOf[t], frame |-> f] : t \in tokens}
        /\ nextSymbolTipToken' = nextSymbolTipToken + Cardinality(names)
  BY DEF PrepareSymbolTips
<1>3. nextSymbolTipToken \in Nat
  BY BoundsAssumption DEF TypeOK
<1> QED
  BY <1>1, <1>2, <1>3

LEMMA ScopesTips ==
    ASSUME TypeOK, WaitInv, TipInv, NEW f \in Frames, Scopes(f)
    PROVE  TipInv'
<1>1. /\ UNCHANGED <<channel, phase, closes, shown, tracer, asked>>
      /\ RefreshFrameSymbols(f) /\ PrepareSymbolTips(f)
  BY DEF Scopes, maps, interpreter
<1>2. pendingSymbolTips' = todo'
  BY DEF Scopes, PrepareSymbolTips, WaitInv
<1>3. /\ nextSymbolTipToken' >= nextSymbolTipToken
      /\ \A q \in todo' : q.token >= nextSymbolTipToken /\ q.token < nextSymbolTipToken'
      /\ \A p, q \in todo' : p.token = q.token => p = q
  BY <1>1, QueriesIssued
<1>4. nextSymbolTipToken \in Nat /\ nextSymbolTipToken' \in Nat
  BY <1>1, QueriesTyped, BoundsAssumption DEF TypeOK
<1>5. /\ \A q \in asked : q.token \in Nat /\ q.token < nextSymbolTipToken
      /\ \A q \in todo' : q.token \in Nat
  <2>1. asked \subseteq SymbolTip \cup EvaluateTip /\ todo' \subseteq SymbolTip
    BY <1>1, QueriesTyped DEF TypeOK
  <2>2. SymbolTokens \subseteq Nat /\ EvaluateTokens \subseteq Nat
    BY BoundsAssumption DEF SymbolTokens, EvaluateTokens
  <2> QED
    BY <2>1, <2>2 DEF SymbolTip, EvaluateTip, TipInv, TokenInv, Issued
<1>6. \A j \in 1..Len(channel) : channel[j].type = "tip" =>
            channel[j].token \in Nat /\ channel[j].token < nextSymbolTipToken
  <2>1. \A j \in 1..Len(channel) : channel[j] \in Message
    BY DEF TypeOK
  <2>2. SymbolTokens \subseteq Nat /\ EvaluateTokens \subseteq Nat
    BY BoundsAssumption DEF SymbolTokens, EvaluateTokens
  <2>3. \A j \in 1..Len(channel) : channel[j].type = "tip" => channel[j].token \in Nat
    BY <2>1, <2>2 DEF Message
  <2> QED
    BY <2>3 DEF TipInv, TokenInv, Issued
<1>7. Issued'
  BY <1>1, <1>2, <1>3, <1>4, <1>5, <1>6 DEF Issued
<1>8. OneQuery'
  BY <1>1, <1>2, <1>3, <1>4, <1>5 DEF OneQuery
<1>9. \A q \in pendingSymbolTips' : \A j \in 1..Len(channel') : ~Answers(channel'[j], q)
  BY <1>1, <1>2, <1>3, <1>4, <1>5, <1>6 DEF Answers
<1>10. NameOwn'
  BY <1>9 DEF NameOwn, Answers
<1>11. ASSUME NEW g \in Frames, NEW j, NEW p, Finds(j, g, p)' PROVE Finds(j, g, p)
  BY <1>1, <1>9, <1>11 DEF Finds, Answers
<1>12. ShowInv'
  <2>1. \A g \in Frames : \A i \in 0..Len(channel) : \A o : Shows(i, g, o)' <=> Shows(i, g, o)
    BY <1>1 DEF Shows
  <2>2. \A g \in Frames : \A i, j : ClosedBetween(i, j, g) => ClosedBetween(i, j, g)'
    BY <1>1 DEF ClosedBetween
  <2> QED
    BY <1>1, <1>11, <2>1, <2>2 DEF TipInv, ShowInv, SameSide
<1>13. \A g \in Frames, n \in Names : symbols'[g][n].value \in {symbols[g][n].value, NoValue}
  <2>1. symbols' = [symbols EXCEPT ![f] = Refreshed(f)]
    BY <1>1 DEF RefreshFrameSymbols
  <2>2. \A n \in Names : Refreshed(f)[n].value \in {symbols[f][n].value, NoValue}
    BY DEF Refreshed
  <2> QED
    BY <2>1, <2>2 DEF TypeOK
<1>14. PastInv'
  <2>1. \A g \in Frames, n \in Names : symbols'[g][n].value.in <= phase[g]
    BY <1>13, PhaseTypes DEF TipInv, PastInv, NoValue
  <2> QED
    BY <1>1, <1>11, <2>1 DEF TipInv, PastInv
<1>15. TipIsOwn'
  BY <1>1, <1>13 DEF TipInv, TipIsOwn, SameSide
<1>16. ClosedInv'
  BY <1>1 DEF TipInv, ClosedInv, IsOpen
<1> QED
  BY <1>7, <1>8, <1>10, <1>12, <1>14, <1>15, <1>16 DEF TipInv, TokenInv

\* Steps that only forget queries, or take one from those to send to those sent.
LEMMA QuietTips ==
    ASSUME TipInv, UNCHANGED <<channel, phase, closes, shown, tracer, symbols, nextSymbolTipToken>>,
           pendingSymbolTips' \subseteq pendingSymbolTips, todo' \subseteq todo,
           \A q \in asked' : \/ q \in todo \cup asked
                             \/ q.token < nextSymbolTipToken
                                /\ \A p \in pendingSymbolTips : p.token # q.token
    PROVE  TipInv'
<1>1. ASSUME NEW f \in Frames, NEW j, NEW p, Finds(j, f, p)' PROVE Finds(j, f, p)
  BY <1>1 DEF Finds, Answers
<1>2. ShowInv'
  <2>1. \A f \in Frames : \A i \in 0..Len(channel) : \A o : Shows(i, f, o)' <=> Shows(i, f, o)
    BY DEF Shows
  <2>2. \A f \in Frames : \A i, j : ClosedBetween(i, j, f) => ClosedBetween(i, j, f)'
    BY DEF ClosedBetween
  <2> QED
    BY <1>1, <2>1, <2>2 DEF TipInv, ShowInv, SameSide
<1>3. PastInv'
  BY <1>1 DEF TipInv, PastInv
<1>4. ClosedInv'
  BY DEF TipInv, ClosedInv, IsOpen
<1>5. Issued'
  BY DEF TipInv, TokenInv, Issued
<1>6. OneQuery'
  BY DEF TipInv, TokenInv, OneQuery
<1>7. NameOwn'
  BY DEF TipInv, TokenInv, NameOwn, Answers
<1>8. TipIsOwn'
  BY DEF TipInv, TipIsOwn, SameSide
<1> QED
  BY <1>2, <1>3, <1>4, <1>5, <1>6, <1>7, <1>8 DEF TipInv, TokenInv

LEMMA TipStep ==
    TypeOK /\ HasToken /\ WaitInv /\ ClosedFramesEmpty /\ TipInv /\ [Next]_vars => TipInv'
<1> SUFFICES ASSUME TypeOK, HasToken, WaitInv, ClosedFramesEmpty, TipInv, [Next]_vars PROVE TipInv'
  OBVIOUS
<1>1. CASE Interpreter
  BY <1>1, InterpreterTips
<1>2. ASSUME NEW f \in Frames, Scopes(f) PROVE TipInv'
  BY <1>2, ScopesTips
<1>3. CASE SendGetValueTip \/ SymbolTipsArrived \/ SymbolTipsTimeOut
  BY <1>3, QuietTips
  DEF SendGetValueTip, SymbolTipsArrived, SymbolTipsTimeOut, Elsewhere, maps, caches, interpreter
<1>4. CASE BuildScope
  <2>1. UNCHANGED symbols
    BY <1>4 DEF BuildScope, caches
  <2> QED
    BY <1>4, <2>1, QuietTips DEF BuildScope, maps, interpreter
<1>5. CASE Evaluate \/ Fail \/ GetResult
  BY <1>5, QuietTips DEF Evaluate, Fail, GetResult, Elsewhere, maps, caches, interpreter
<1>6. CASE SendEvaluate
  <2>1. CASE main = "ask" /\ asked' = asked \cup {[token |-> token, of |-> token, frame |-> None]}
             /\ UNCHANGED <<Elsewhere, todo, pendingSymbolTips>>
    <3>1. token \in EvaluateTokens
      BY <2>1 DEF HasToken
    <3>2. token < nextSymbolTipToken
      BY <3>1, BoundsAssumption DEF EvaluateTokens, TypeOK
    <3>3. \A p \in pendingSymbolTips : p.token # token
      BY <3>1, BoundsAssumption DEF EvaluateTokens, SymbolTokens, SymbolTip, TypeOK
    <3> QED
      BY <2>1, <3>2, <3>3, QuietTips DEF Elsewhere, maps, caches, interpreter
  <2> QED
    BY <1>5, <1>6, <2>1 DEF SendEvaluate
<1>7. CASE EvaluateTimesOut
  BY <1>5, <1>7 DEF EvaluateTimesOut
<1>8. CASE HandlePayload
  BY <1>8, BridgeTips
<1>9. CASE UNCHANGED vars
  BY <1>9, QuietTips DEF vars, maps, caches, interpreter, waiting
<1> QED
  BY Steps, <1>1, <1>2, <1>3, <1>4, <1>5, <1>6, <1>7, <1>8, <1>9

\* Windows are closed and opened again while values are on their way, messages
\* are lost, requests give up and ask again: a symbol only ever shows a value of
\* its own name, evaluated in its window as it is shown, or with no CloseWindow
\* between the two that the bridge was told of.
THEOREM OwnValues == Spec => []TipIsOwn
<1>1. TipInv => TipIsOwn
  BY DEF TipInv
<1>2. Init => ClosedFramesEmpty /\ RefsOwned
  BY DEF Init, ClosedFramesEmpty, RefsOwned, PendingFor
<1> QED
  BY <1>1, <1>2, TipInit, WaitInit, WaitStep, TypeCorrect, FramesStep, TipStep, PTL DEF Spec

=============================================================================

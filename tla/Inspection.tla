----------------------------- MODULE Inspection -----------------------------
(***************************************************************************)
(* Looking at values while the interpreter is stopped: the scopes request  *)
(* and the evaluate requests in watch and hover context of                 *)
(* internal/dap/adapter/server.go.  Both ask the interpreter with          *)
(* GetValueTip and recognize the answer by its token.                      *)
(*                                                                         *)
(* The main goroutine handles a request in several critical sections, with *)
(* sends and waits between them; the bridge goroutine meanwhile opens,     *)
(* changes and closes tracer windows (a frame is a tracer window), stores  *)
(* the values that arrive and ends the session.                            *)
(*                                                                         *)
(* The dispatcher drops what comes for the bridge while its channel is     *)
(* full, so that any message may be lost, also one that closes a window.   *)
(*                                                                         *)
(* A value is where it comes from: what was asked for and the window it    *)
(* was evaluated in, as it was then (its phase: how often it had been      *)
(* opened or closed; of an evaluate it is not told).  Each frame shows a   *)
(* source of its own, and its text is the symbols it makes visible.  A     *)
(* scope and everything that can be expanded below it is allocated and     *)
(* dropped together, and is one reference here.                            *)
(***************************************************************************)
EXTENDS Integers, Sequences, FiniteSets, SequencesExt

CONSTANTS
    Frames,             \* windows of the tracer
    Names,              \* names of symbols
    Kinds,              \* what a visible symbol is: "local", "global"
    FirstSymbolToken,   \* nextSymbolTipToken of a new session: 100000
    MaxSymbolTips,      \* bound: tokens of scopes requests
    MaxEvaluates,       \* bound: tokens of evaluate requests
    MaxTokens,          \* bound: tokens of both
    MaxRefs,            \* bound: scopes built
    MaxPhase,           \* bound: openings and closings of a window
    Capacity            \* room in the channel of the bridge

\* Evaluate tokens count up from 1 in the same space: the two meet after 99999
\* evaluates.
ASSUME BoundsAssumption ==
    /\ MaxSymbolTips \in Nat /\ MaxEvaluates \in Nat /\ MaxRefs \in Nat
    /\ MaxTokens \in Nat /\ MaxPhase \in Nat /\ Capacity \in Nat \ {0}
    /\ FirstSymbolToken \in Nat /\ MaxEvaluates < FirstSymbolToken

ASSUME NamesAssumption == IsFiniteSet(Names) /\ Names # {}

ASSUME FramesAssumption == 0 \notin Frames      \* 0 stands for no frame

VARIABLES
    tracer,             \* tracerWindows
    text,               \* the symbols of a frame's source text, if it has one
    symbols,            \* frameSymbols
    scopeRef,           \* frameScopeRef
    variablesByRef,     \* the symbol values in the scope of a reference
    nextVariablesRef, nextSymbolTipToken, nextEvaluateToken,
    pendingSymbolTips,  \* queries of scopes requests that wait for an answer
    evaluateWaiters,    \* tokens
    result,             \* the channel of the evaluate main waits for
    promptBusy,         \* promptTypeSeen and promptType = 0
    terminated,
    main, frame, token, \* where main stands, for which frame or evaluate
    todo,               \* the queries main has yet to send
    reply,              \* history: the answer of the last step, if it gave one
    channel,            \* what the dispatcher has passed on to the bridge
    asked,              \* GetValueTip commands accepted and not answered
    running,            \* interpreter
    phase,              \* interpreter: how often a window was opened or closed
    shown,              \* history: the phase of the window the adapter knows
    closes              \* history: the phases whose CloseWindow was not lost

maps        == <<tracer, text, shown>>
caches      == <<symbols, scopeRef, variablesByRef, nextVariablesRef>>
session     == <<promptBusy, terminated>>
interpreter == <<running, phase, closes>>
waiting     == <<main, frame, token, todo>>
vars == <<maps, caches, session, interpreter, waiting, reply, channel, asked, result,
          nextSymbolTipToken, nextEvaluateToken, pendingSymbolTips, evaluateWaiters>>

SymbolTokens   == FirstSymbolToken..(FirstSymbolToken + MaxSymbolTips - 1)
EvaluateTokens == 1..MaxEvaluates
Refs  == 1..MaxRefs
None  == 0
\* bound: a text shows some symbol
Texts == {t \in [Names -> Kinds \cup {"absent"}] : \E n \in Names : t[n] # "absent"}
NoText == <<>>          \* no source, or none stored

Value   == [of : Names \cup EvaluateTokens, in : 0..MaxPhase]
NoValue == [of |-> None, in |-> 0]
Symbol  == [kind : Kinds \cup {"absent"}, value : Value \cup {NoValue}]
NoSymbol == [kind |-> "absent", value |-> NoValue]

NoReply == [to |-> "nothing", ref |-> None, value |-> NoValue]
Dropped == <<>>

Message ==
    [type : {"open", "update"}, frame : Frames, text : Texts \cup {NoText}, in : 1..MaxPhase]
    \cup [type : {"close"}, frame : Frames]
    \cup [type : {"tip"}, token : SymbolTokens \cup EvaluateTokens, value : Value]
    \cup [type : {"busy", "ready", "fatal"}]

SymbolTip   == [token : SymbolTokens, of : Names, frame : Frames]
EvaluateTip == [token : EvaluateTokens, of : EvaluateTokens, frame : {None}]

TypeOK ==
    /\ tracer \in SUBSET Frames
    /\ text \in [Frames -> Texts \cup {NoText}]
    /\ symbols \in [Frames -> [Names -> Symbol]]
    /\ scopeRef \in [Frames -> Refs \cup {None}]
    /\ variablesByRef \in [Refs -> [Names -> Symbol] \cup {Dropped}]
    /\ nextVariablesRef \in 1..(MaxRefs + 1)
    /\ nextSymbolTipToken \in FirstSymbolToken..(FirstSymbolToken + MaxSymbolTips)
    /\ nextEvaluateToken \in 1..(MaxEvaluates + 1)
    /\ pendingSymbolTips \in SUBSET SymbolTip
    /\ evaluateWaiters \in SUBSET EvaluateTokens
    /\ result \in Value \cup {NoValue}
    /\ promptBusy \in BOOLEAN /\ terminated \in BOOLEAN
    /\ main \in {"idle", "send", "wait", "build", "ask", "answer"}
    /\ frame \in Frames \cup {None} /\ token \in EvaluateTokens \cup {None}
    /\ todo \in SUBSET SymbolTip
    /\ reply \in [to : {"nothing", "scopes", "evaluate"}, ref : Nat,
                  value : Value \cup {NoValue}]
    /\ channel \in Seq(Message)
    /\ asked \in SUBSET (SymbolTip \cup EvaluateTip)
    /\ phase \in [Frames -> 0..MaxPhase] /\ shown \in [Frames -> 0..MaxPhase]
    /\ closes \in [Frames -> SUBSET (1..MaxPhase)] /\ running \in BOOLEAN

Init ==
    /\ tracer = {}
    /\ text = [f \in Frames |-> NoText]
    /\ symbols = [f \in Frames |-> [n \in Names |-> NoSymbol]]
    /\ scopeRef = [f \in Frames |-> None]
    /\ variablesByRef = [r \in Refs |-> Dropped]
    /\ nextVariablesRef = 1
    /\ nextSymbolTipToken = FirstSymbolToken /\ nextEvaluateToken = 1
    /\ pendingSymbolTips = {}
    /\ evaluateWaiters = {} /\ result = NoValue
    /\ promptBusy = FALSE /\ terminated = FALSE
    /\ main = "idle" /\ frame = None /\ token = None /\ todo = {}
    /\ reply = NoReply
    /\ channel = <<>> /\ asked = {}
    /\ phase = [f \in Frames |-> 0] /\ shown = phase
    /\ closes = [f \in Frames |-> {}] /\ running = FALSE

-----------------------------------------------------------------------------
(* The interpreter (external), and the publish that loses its messages.  A *)
(* window may be used again for another function, and a GetValueTip is     *)
(* answered whenever it likes, or never.                                   *)

HasRoom == Len(channel) < Capacity

\* publish and tryPublish: a message for a full channel is dropped.
Emit(message) ==
    /\ ~terminated /\ [type |-> "fatal"] \notin Range(channel)
    /\ channel' = IF HasRoom THEN Append(channel, message) ELSE channel
    /\ reply' = NoReply
    /\ UNCHANGED <<maps, caches, session, waiting, result, nextSymbolTipToken,
                   nextEvaluateToken, pendingSymbolTips, evaluateWaiters>>

IsOpen(f) == phase[f] % 2 = 1

ChangePhase(f) ==
    /\ phase[f] < MaxPhase
    /\ phase' = [phase EXCEPT ![f] = @ + 1]

Open(f, t) ==
    /\ ~IsOpen(f)
    /\ ChangePhase(f)
    /\ Emit([type |-> "open", frame |-> f, text |-> t, in |-> phase'[f]])
    /\ UNCHANGED <<asked, running, closes>>

Update(f, t) ==
    /\ IsOpen(f)
    /\ Emit([type |-> "update", frame |-> f, text |-> t, in |-> phase[f]])
    /\ UNCHANGED <<asked, interpreter>>

Close(f) ==
    /\ IsOpen(f)
    /\ ChangePhase(f)
    /\ Emit([type |-> "close", frame |-> f])
    /\ closes' = IF HasRoom THEN [closes EXCEPT ![f] = @ \cup {phase'[f]}] ELSE closes
    /\ UNCHANGED <<asked, running>>

RunOrStop ==
    /\ running' = ~running
    /\ Emit([type |-> IF running THEN "ready" ELSE "busy"])
    /\ UNCHANGED <<asked, phase, closes>>

SendTip(q) ==
    /\ asked' = asked \ {q}
    /\ Emit([type |-> "tip", token |-> q.token,
             value |-> [of |-> q.of, in |-> IF q.frame = None THEN 0 ELSE phase[q.frame]]])
    /\ UNCHANGED interpreter

Disconnect ==
    /\ Emit([type |-> "fatal"])
    /\ UNCHANGED <<asked, interpreter>>

Interpreter ==
    \/ \E f \in Frames : Close(f) \/ \E t \in Texts : Open(f, t) \/ Update(f, t)
    \/ \E f \in Frames : Open(f, NoText)
    \/ RunOrStop \/ Disconnect
    \/ \E q \in asked : SendTip(q)

-----------------------------------------------------------------------------
(* main: the scopes request. *)

\* extractVisibleSymbols: a frame without a text keeps the symbols it has.
Visible(f) == IF text[f] = NoText THEN [n \in Names |-> symbols[f][n].kind] ELSE text[f]

Refreshed(f) ==
    [n \in Names |->
        [kind  |-> Visible(f)[n],
         value |-> IF Visible(f)[n] = "absent" THEN NoValue ELSE symbols[f][n].value]]

ScopeNeedsReset(f) == \E n \in Names : symbols[f][n].kind # Visible(f)[n]

\* dropVariableReference, for the scope of f
DropScope(f) ==
    /\ variablesByRef' = [r \in Refs |-> IF r = scopeRef[f] THEN Dropped ELSE variablesByRef[r]]
    /\ scopeRef' = [scopeRef EXCEPT ![f] = None]

RefreshFrameSymbols(f) ==
    /\ symbols' = [symbols EXCEPT ![f] = Refreshed(f)]
    /\ \/ ScopeNeedsReset(f) /\ DropScope(f)
       \/ ~ScopeNeedsReset(f) /\ UNCHANGED <<variablesByRef, scopeRef>>
    /\ UNCHANGED nextVariablesRef

\* The symbols whose value is not known; none while the interpreter is busy.
NamesToAsk(f) ==
    {n \in Names : ~promptBusy /\ symbols'[f][n].kind # "absent" /\ symbols'[f][n].value = NoValue}

Mut_PrepareSymbolTips(f) ==
    LET names  == NamesToAsk(f)
        tokens == nextSymbolTipToken..(nextSymbolTipToken + Cardinality(names) - 1) IN
    \E nameOf \in Bijection(tokens, names) :
        /\ todo' = {[token |-> t, of |-> nameOf[t], frame |-> f] : t \in tokens}
        /\ pendingSymbolTips' = pendingSymbolTips \cup todo'
        /\ UNCHANGED nextSymbolTipToken

\* prepareSymbolTipRequestsLocked.  The names get consecutive tokens, in any
\* order.
PrepareSymbolTips(f) ==
    LET names  == NamesToAsk(f)
        tokens == nextSymbolTipToken..(nextSymbolTipToken + Cardinality(names) - 1) IN
    \E nameOf \in Bijection(tokens, names) :
        /\ todo' = {[token |-> t, of |-> nameOf[t], frame |-> f] : t \in tokens}
        /\ pendingSymbolTips' = pendingSymbolTips \cup todo'
        /\ nextSymbolTipToken' = nextSymbolTipToken + Cardinality(names)
        /\ nextSymbolTipToken' <= FirstSymbolToken + MaxSymbolTips

TokensBounded ==
    (nextSymbolTipToken' - FirstSymbolToken) + (nextEvaluateToken' - 1) <= MaxTokens

Scopes(f) ==
    /\ main = "idle"
    /\ ~terminated /\ f \in tracer
    /\ RefreshFrameSymbols(f)
    /\ PrepareSymbolTips(f)
    /\ main' = IF todo' = {} THEN "build" ELSE "send"
    /\ frame' = f
    /\ reply' = NoReply
    /\ UNCHANGED <<maps, session, interpreter, token, channel, asked, result,
                   nextEvaluateToken, evaluateWaiters>>
    /\ TokensBounded

\* What main's steps between two sections leave alone.
Elsewhere == <<maps, caches, session, interpreter, channel, nextSymbolTipToken>>

SendGetValueTip ==
    /\ main = "send"
    /\ \E q \in todo :
        /\ \A other \in todo : q.token <= other.token
        /\ todo' = todo \ {q}
        /\ \/ asked' = asked \cup {q} /\ UNCHANGED pendingSymbolTips
           \/ pendingSymbolTips' = pendingSymbolTips \ {q} /\ UNCHANGED asked
    /\ main' = IF todo' = {} THEN "wait" ELSE "send"
    /\ reply' = NoReply
    /\ UNCHANGED <<Elsewhere, frame, token, result, nextEvaluateToken, evaluateWaiters>>

PendingFor(f) == {q \in pendingSymbolTips : q.frame = f}

SymbolTipsArrived ==
    /\ main = "wait" /\ PendingFor(frame) = {}
    /\ main' = "build" /\ reply' = NoReply
    /\ UNCHANGED <<Elsewhere, frame, token, todo, asked, result, nextEvaluateToken,
                   pendingSymbolTips, evaluateWaiters>>

Mut_SymbolTipsTimeOut ==
    /\ main = "wait"
    /\ main' = "build" /\ reply' = NoReply
    /\ UNCHANGED <<Elsewhere, frame, token, todo, asked, result, nextEvaluateToken,
                   pendingSymbolTips, evaluateWaiters>>

SymbolTipsTimeOut ==
    /\ main = "wait"
    /\ pendingSymbolTips' = pendingSymbolTips \ PendingFor(frame)
    /\ main' = "build" /\ reply' = NoReply
    /\ UNCHANGED <<Elsewhere, frame, token, todo, asked, result, nextEvaluateToken,
                   evaluateWaiters>>

HasScope(f) == scopeRef[f] # None /\ variablesByRef[scopeRef[f]] # Dropped

Mut_AllocateScope(f) ==
    /\ nextVariablesRef <= MaxRefs
    /\ nextVariablesRef' = nextVariablesRef + 1
    /\ variablesByRef' = [variablesByRef EXCEPT ![nextVariablesRef] = symbols[f]]
    /\ scopeRef' = [scopeRef EXCEPT ![f] = nextVariablesRef']

AllocateScope(f) ==
    /\ nextVariablesRef <= MaxRefs
    /\ nextVariablesRef' = nextVariablesRef + 1
    /\ variablesByRef' = [variablesByRef EXCEPT ![nextVariablesRef] = symbols[f]]
    /\ scopeRef' = [scopeRef EXCEPT ![f] = nextVariablesRef]

BuildScope ==
    /\ main = "build"
    /\ \/ frame \notin tracer
          /\ reply' = NoReply
          /\ UNCHANGED caches
       \/ /\ frame \in tracer
          /\ \/ HasScope(frame) /\ UNCHANGED <<variablesByRef, scopeRef, nextVariablesRef>>
             \/ ~HasScope(frame) /\ AllocateScope(frame)
          /\ reply' = [to |-> "scopes", ref |-> scopeRef'[frame], value |-> NoValue]
          /\ UNCHANGED symbols
    /\ main' = "idle" /\ frame' = None
    /\ UNCHANGED <<maps, session, interpreter, channel, token, todo, asked, result,
                   nextSymbolTipToken, nextEvaluateToken, pendingSymbolTips, evaluateWaiters>>

-----------------------------------------------------------------------------
(* main: evaluate in watch or hover context. *)

\* The window of the request, or the active one, is passed on and not kept.
Evaluate ==
    /\ main = "idle"
    /\ ~terminated /\ ~promptBusy
    /\ nextEvaluateToken <= MaxEvaluates
    /\ token' = nextEvaluateToken /\ nextEvaluateToken' = nextEvaluateToken + 1
    /\ evaluateWaiters' = evaluateWaiters \cup {token'}
    /\ result' = NoValue
    /\ main' = "ask" /\ reply' = NoReply
    /\ UNCHANGED <<Elsewhere, frame, todo, asked, pendingSymbolTips>>
    /\ TokensBounded

\* Every failure of an evaluate.
Fail ==
    /\ evaluateWaiters' = evaluateWaiters \ {token}
    /\ main' = "idle" /\ token' = None /\ reply' = NoReply
    /\ UNCHANGED <<Elsewhere, frame, todo, asked, result, nextEvaluateToken, pendingSymbolTips>>

SendEvaluate ==
    /\ main = "ask"
    /\ \/ /\ asked' = asked \cup {[token |-> token, of |-> token, frame |-> None]}
          /\ main' = "answer" /\ reply' = NoReply
          /\ UNCHANGED <<Elsewhere, frame, token, todo, result, nextEvaluateToken,
                         pendingSymbolTips, evaluateWaiters>>
       \/ Fail

GetResult ==
    /\ main = "answer" /\ result # NoValue
    /\ reply' = [to |-> "evaluate", ref |-> token, value |-> result]
    /\ result' = NoValue
    /\ main' = "idle" /\ token' = None
    /\ UNCHANGED <<Elsewhere, frame, todo, asked, nextEvaluateToken, pendingSymbolTips, evaluateWaiters>>

EvaluateTimesOut ==
    /\ main = "answer"
    /\ Fail

-----------------------------------------------------------------------------
(* The bridge: HandleRidePayload. *)

\* dispatchValueTip.  A waiter's channel has room for its one answer; only the
\* request that waits reads it.
StoreSymbol(q, value) ==
    symbols' = IF symbols[q.frame][q.of].kind = "absent" THEN symbols
               ELSE [symbols EXCEPT ![q.frame][q.of].value = value]

Mut_DispatchValueTip(m) ==
    /\ m.token \in EvaluateTokens
    /\ result' = m.value
    /\ evaluateWaiters' = {}
    /\ UNCHANGED <<symbols, pendingSymbolTips>>

DispatchValueTip(m) ==
    \/ /\ m.token \in evaluateWaiters
       /\ evaluateWaiters' = evaluateWaiters \ {m.token}
       /\ result' = IF m.token = token THEN m.value ELSE result
       /\ UNCHANGED <<symbols, pendingSymbolTips>>
    \/ /\ m.token \notin evaluateWaiters
       /\ \/ \E q \in pendingSymbolTips :
              /\ q.token = m.token
              /\ pendingSymbolTips' = pendingSymbolTips \ {q}
              /\ StoreSymbol(q, m.value)
          \/ /\ \A q \in pendingSymbolTips : q.token # m.token
             /\ UNCHANGED <<symbols, pendingSymbolTips>>
       /\ UNCHANGED <<evaluateWaiters, result>>

\* unbindToken, for a tracer window
UnbindFrame(f) ==
    /\ DropScope(f)
    /\ symbols' = [symbols EXCEPT ![f] = [n \in Names |-> NoSymbol]]
    /\ pendingSymbolTips' = pendingSymbolTips \ PendingFor(f)

\* OpenWindow and UpdateWindow of a tracer window
ShowWindow(m) ==
    /\ m.type \in {"open", "update"}
    /\ tracer' = tracer \cup {m.frame}
    /\ text' = [text EXCEPT ![m.frame] = m.text]
    /\ shown' = [shown EXCEPT ![m.frame] = m.in]
    /\ UNCHANGED <<caches, session, pendingSymbolTips, evaluateWaiters, result>>

CloseWindow(m) ==
    /\ m.type = "close"
    /\ UnbindFrame(m.frame)
    /\ tracer' = tracer \ {m.frame}
    /\ text' = [text EXCEPT ![m.frame] = NoText]
    /\ shown' = [shown EXCEPT ![m.frame] = 0]
    /\ UNCHANGED <<nextVariablesRef, session, evaluateWaiters, result>>

ValueTip(m) ==
    /\ m.type = "tip"
    /\ DispatchValueTip(m)
    /\ UNCHANGED <<maps, session, scopeRef, variablesByRef, nextVariablesRef>>

SetPromptType(m) ==
    /\ m.type \in {"busy", "ready"}
    /\ promptBusy' = (m.type = "busy")
    /\ UNCHANGED <<maps, caches, terminated, pendingSymbolTips, evaluateWaiters, result>>

\* terminateSessionFromRide
Terminate(m) ==
    /\ m.type = "fatal"
    /\ terminated' = TRUE /\ promptBusy' = FALSE
    /\ evaluateWaiters' = {} /\ pendingSymbolTips' = {}
    /\ UNCHANGED <<maps, caches, result>>

HandlePayload ==
    /\ channel # <<>>
    /\ channel' = Tail(channel)
    /\ LET m == Head(channel) IN
       ShowWindow(m) \/ CloseWindow(m) \/ ValueTip(m) \/ SetPromptType(m) \/ Terminate(m)
    /\ reply' = NoReply
    /\ UNCHANGED <<interpreter, waiting, asked, nextSymbolTipToken, nextEvaluateToken>>

-----------------------------------------------------------------------------
MainStep ==
    \/ \E f \in Frames : Scopes(f)
    \/ SendGetValueTip \/ SymbolTipsArrived \/ SymbolTipsTimeOut \/ BuildScope
    \/ Evaluate \/ SendEvaluate \/ GetResult \/ EvaluateTimesOut

Next == Interpreter \/ MainStep \/ HandlePayload

Spec == Init /\ [][Next]_vars

-----------------------------------------------------------------------------
(* Properties. *)

SameSide(c, p, q) == (p < c /\ q < c) \/ (c < p /\ c < q)

\* A value is stored under the symbol it was asked for, and was evaluated in the
\* window it is shown for as that is: no CloseWindow that the bridge was told of
\* lies between the two, however windows are closed and opened again while the
\* value is on its way.  The values of an earlier opening are shown for a window
\* only when every CloseWindow since then was lost.
TipIsOwn ==
    \A f \in Frames, n \in Names :
        LET value == symbols[f][n].value IN
        value # NoValue =>
            /\ value.of = n
            /\ \A c \in closes[f] : SameSide(c, shown[f], value.in)

\* A watch or hover evaluate is answered with its own value, never with that of
\* an evaluate that timed out before it.
EvaluateIsOwn == reply.to = "evaluate" => reply.value.of = reply.ref

\* A request that has been answered leaves nothing that waits for a value.
NothingPending == main = "idle" => pendingSymbolTips = {} /\ evaluateWaiters = {}

\* docs/prs/50.md: state "is cleaned up on frame unbind".  What is kept for a
\* frame is kept for a tracer window that is open, and every reference that can
\* still be expanded is the scope of one.
OnlyOpenFrames ==
    /\ \A f \in Frames \ tracer :
          scopeRef[f] = None /\ (\A n \in Names : symbols[f][n] = NoSymbol) /\ PendingFor(f) = {}
    /\ \A r \in Refs : variablesByRef[r] # Dropped => \E f \in tracer : scopeRef[f] = r

\* docs/prs/50.md: references "remain stable across repeated refresh for
\* unchanged symbol sets".  The scope of a frame changes only when the window is
\* closed or its visible symbols have changed, and a reference is never given
\* to another scope.
KeepsScopes ==
    \A f \in Frames :
        /\ scopeRef[f] # None /\ f \in tracer' /\ ~ScopeNeedsReset(f) => scopeRef'[f] = scopeRef[f]
        /\ scopeRef'[f] \notin {None, scopeRef[f]} => scopeRef'[f] >= nextVariablesRef

ScopeStable == [][KeepsScopes]_vars

-----------------------------------------------------------------------------
(* What a document says, and the code does not do. *)

\* docs/prs/50.md: scopes fetches the values "before building the scope
\* object".  The scope that is answered shows the values the adapter has.
ScopeShowsValues ==
    reply.to = "scopes" =>
        \A f \in tracer : scopeRef[f] = reply.ref => variablesByRef[reply.ref] = symbols[f]
=============================================================================

------------------------- MODULE BreakpointsProofs -------------------------
(***************************************************************************)
(* Proofs about Breakpoints: type correctness, the agreement of the maps   *)
(* between windows and sources, the texts kept, that references are never  *)
(* reused, and what becomes of deferred lines: a file has one set of them, *)
(* no window of the file is missed, and none that was answered is lost.    *)
(***************************************************************************)
EXTENDS Breakpoints, FiniteSetTheorems, TLAPS

-----------------------------------------------------------------------------
(* Types. *)

\* A request that waits to be sent names its file, if only by a reference the
\* adapter has allocated.
RequestNamed ==
    main = "send" /\ request.path = NoPath => pathBySourceRef[request.ref] # NoPath

Typed == TypeOK /\ RequestNamed

LEMMA RefsFacts == 0 \notin Refs /\ 0 \notin Requests /\ Refs \subseteq Nat /\ Requests \subseteq Nat
BY DEF Refs, Requests

LEMMA TypeInit == Init => Typed
<1> SUFFICES ASSUME Init PROVE Typed
  OBVIOUS
<1>1. attached \in BOOLEAN /\ controller \in BOOLEAN /\ reconnected \in BOOLEAN
  BY DEF Init
<1>2. MaxRefs \in Nat /\ MaxRequests \in Nat
  BY BoundsAssumption
<1>3. nextSourceRef \in 1..(MaxRefs + 1) /\ asked \in 0..MaxRequests /\ failures \in Nat
  BY <1>2 DEF Init
<1>4. /\ sourceByToken \in [Tokens -> Binding]
      /\ tokenBySourceRef \in [Refs -> Tokens \cup {NoToken}]
      /\ sourceRefByPath \in [Paths -> Refs \cup {0}]
      /\ pathBySourceRef \in [Refs -> Paths \cup {NoPath}]
  BY DEF Init, Binding
<1>5. /\ pendingByPath \in [Paths -> Requests \cup {0}]
      /\ pendingBySourceRef \in [Refs -> Requests \cup {0}]
      /\ answered \in [Paths -> Requests \cup {0}]
      /\ sourceText \in SUBSET Paths /\ windows \in SUBSET Tokens
      /\ sent \in SUBSET Sent /\ retained \in SUBSET Paths
  BY DEF Init
<1>6. /\ main \in {"idle", "sync", "send", "clear"}
      /\ request \in IF main \in {"send", "clear"} THEN Asked ELSE {NoRequest}
      /\ bridge \in {"idle", "send", "complete"}
      /\ intent \in IF bridge = "idle" THEN {NoRequest} ELSE Intent
  BY DEF Init
<1>7. TypeOK
  BY <1>1, <1>3, <1>4, <1>5, <1>6 DEF TypeOK
<1> QED
  BY <1>7 DEF Init, Typed, RequestNamed

\* What the arguments of a setBreakpoints request can be.
LEMMA SourcesTyped ==
    ASSUME TypeOK, NEW src \in Sources
    PROVE  /\ src.path \in Paths \cup {NoPath} /\ src.ref \in Refs \cup {0}
           /\ src.path = NoPath => src.ref # 0 /\ pathBySourceRef[src.ref] # NoPath
           /\ TokenFor(src) \in Tokens \cup {NoToken}
<1>1. CASE src \in {[path |-> p, ref |-> 0] : p \in Paths}
  <2>1. PICK p \in Paths : src = [path |-> p, ref |-> 0]
    BY <1>1
  <2>2. src.path = p /\ src.ref = 0 /\ p # NoPath
    BY <2>1, PathsAssumption
  <2>3. sourceRefByPath[p] # 0 => tokenBySourceRef[sourceRefByPath[p]] \in Tokens \cup {NoToken}
    BY DEF TypeOK
  <2> QED
    BY <2>2, <2>3 DEF TokenFor
<1>2. CASE src \in {[path |-> NoPath, ref |-> r] : r \in {x \in Refs : pathBySourceRef[x] # NoPath}}
  <2>1. PICK r \in Refs : pathBySourceRef[r] # NoPath /\ src = [path |-> NoPath, ref |-> r]
    BY <1>2
  <2>2. src.path = NoPath /\ src.ref = r /\ r # 0
    BY <2>1, RefsFacts
  <2> QED
    BY <2>1, <2>2 DEF TokenFor, TypeOK
<1>3. CASE src \in {[path |-> pathBySourceRef[r], ref |-> r] : r \in {x \in Refs : pathBySourceRef[x] # NoPath}}
  <2>1. PICK r \in Refs : pathBySourceRef[r] # NoPath /\ src = [path |-> pathBySourceRef[r], ref |-> r]
    BY <1>3
  <2>2. src.path = pathBySourceRef[r] /\ src.ref = r /\ r # 0
    BY <2>1, RefsFacts
  <2> QED
    BY <2>1, <2>2 DEF TokenFor, TypeOK
<1> QED
  BY <1>1, <1>2, <1>3 DEF Sources

\* Deferred lines stay typed, whatever names they are replaced under.
LEMMA ReplaceTyped ==
    ASSUME TypeOK, NEW src, NEW lines \in Requests \cup {0}, Replace(src, lines)
    PROVE  /\ pendingByPath' \in [Paths -> Requests \cup {0}]
           /\ pendingBySourceRef' \in [Refs -> Requests \cup {0}]
BY DEF TypeOK, Replace

LEMMA AnswerTyped ==
    ASSUME TypeOK, NEW src, NEW id \in Requests, Answer(src, id)
    PROVE  answered' \in [Paths -> Requests \cup {0}]
BY DEF TypeOK, Answer

LEMMA TypeRequests ==
    ASSUME Typed, SetBreakpoints
    PROVE  Typed'
<1> USE DEF Typed
<1>1. PICK src \in Sources : Defer(src) \/ Take(src)
  BY DEF SetBreakpoints
<1>2. asked \in 0..MaxRequests /\ asked < MaxRequests /\ asked' = asked + 1
  BY <1>1 DEF TypeOK, Defer, Take, Ask
<1>3. asked + 1 \in Requests /\ asked' \in 0..MaxRequests
  BY <1>2, BoundsAssumption DEF Requests
<1>4. CASE Defer(src)
  <2>1. /\ pendingByPath' \in [Paths -> Requests \cup {0}]
        /\ pendingBySourceRef' \in [Refs -> Requests \cup {0}]
    BY <1>3, <1>4, ReplaceTyped DEF Defer
  <2>2. answered' \in [Paths -> Requests \cup {0}]
    BY <1>3, <1>4, AnswerTyped DEF Defer
  <2>3. main' = "sync" /\ request' = request /\ main = "idle"
    BY <1>4 DEF Defer, Ask
  <2>4. attached' \in BOOLEAN /\ controller' \in BOOLEAN /\ reconnected' \in BOOLEAN
    BY <1>4 DEF Defer, TypeOK, session
  <2>5. TypeOK'
    BY <1>3, <1>4, <2>1, <2>2, <2>3, <2>4 DEF Defer, TypeOK, session, maps, bridges, sends
  <2> QED
    BY <2>3, <2>5 DEF RequestNamed
<1>5. CASE Take(src)
  <2>1. TokenFor(src) \in Tokens
    BY <1>5, SourcesTyped DEF Take
  <2>2. request' \in Asked
    BY <1>3, <1>5, <2>1, SourcesTyped DEF Take, Asked
  <2>3. main' = "send"
    BY <1>5 DEF Take
  <2>4. attached' \in BOOLEAN /\ controller' \in BOOLEAN /\ reconnected' \in BOOLEAN
    BY <1>5 DEF Take, TypeOK, session
  <2>5. TypeOK'
    BY <1>3, <1>5, <2>2, <2>3, <2>4 DEF Take, TypeOK, session, maps, pending, bridges, sends
  <2>6. RequestNamed'
    BY <1>5, SourcesTyped DEF Take, RequestNamed, maps
  <2> QED
    BY <2>5, <2>6
<1> QED
  BY <1>1, <1>4, <1>5

\* What history keeps of a message is typed.
LEMMA SendingTyped ==
    ASSUME Typed
    PROVE  /\ main = "send" => Sending(request) \in Sent
           /\ bridge = "send" => Sending(intent) \in Sent
<1>1. ASSUME main = "send" PROVE Sending(request) \in Sent
  <2>1. request \in Asked
    BY <1>1 DEF Typed, TypeOK
  <2>2. request.path = NoPath => request.ref \in Refs /\ pathBySourceRef[request.ref] \in Paths
    BY <1>1, <2>1 DEF Typed, TypeOK, RequestNamed, Asked
  <2> QED
    BY <2>1, <2>2 DEF Sending, Sent, Asked
<1>2. ASSUME bridge = "send" PROVE Sending(intent) \in Sent
  <2>1. intent \in Intent
    BY <1>2 DEF Typed, TypeOK
  <2> QED
    BY <2>1, PathsAssumption DEF Sending, Sent, Intent
<1> QED
  BY <1>1, <1>2

LEMMA TypeMain ==
    ASSUME Typed, SyncLayout \/ SendSucceeds \/ SendFails \/ ClearDeferred
    PROVE  Typed'
<1> USE DEF Typed
<1>0. attached' \in BOOLEAN /\ controller' \in BOOLEAN /\ reconnected' \in BOOLEAN
  BY DEF SyncLayout, SendSucceeds, SendFails, ClearDeferred, TypeOK, session, history
<1>1. CASE SyncLayout
  <2>1. TypeOK'
    BY <1>0, <1>1 DEF SyncLayout, TypeOK, session, maps, pending, bridges, history, asks, sends
  <2> QED
    BY <1>1, <2>1 DEF SyncLayout, RequestNamed
<1>2. CASE SendSucceeds
  <2>1. sent' \in SUBSET Sent
    BY <1>2, SendingTyped DEF SendSucceeds, TypeOK
  <2>2. main' = "clear" /\ request' \in Asked
    BY <1>2 DEF SendSucceeds, TypeOK
  <2>3. TypeOK'
    BY <1>0, <1>2, <2>1, <2>2 DEF SendSucceeds, TypeOK, session, maps, pending, bridges, asks
  <2> QED
    BY <2>2, <2>3 DEF RequestNamed
<1>3. CASE SendFails
  <2>1. main' = "idle" /\ request' = NoRequest /\ failures' \in Nat
    BY <1>3 DEF SendFails, SendError, TypeOK
  <2>2. TypeOK'
    BY <1>0, <1>3, <2>1 DEF SendFails, TypeOK, session, maps, pending, bridges, asks
  <2> QED
    BY <2>1, <2>2 DEF RequestNamed
<1>4. CASE ClearDeferred
  <2>1. /\ pendingByPath' \in [Paths -> Requests \cup {0}]
        /\ pendingBySourceRef' \in [Refs -> Requests \cup {0}]
    BY <1>4, ReplaceTyped DEF ClearDeferred
  <2>2. request.id \in Requests
    BY <1>4 DEF ClearDeferred, TypeOK, Asked
  <2>3. answered' \in [Paths -> Requests \cup {0}]
    BY <1>4, <2>2, AnswerTyped DEF ClearDeferred
  <2>4. main' = "idle" /\ request' = NoRequest
    BY <1>4 DEF ClearDeferred
  <2>5. TypeOK'
    BY <1>0, <1>4, <2>1, <2>3, <2>4 DEF ClearDeferred, TypeOK, session, maps, bridges, sends
  <2> QED
    BY <2>4, <2>5 DEF RequestNamed
<1> QED
  BY <1>1, <1>2, <1>3, <1>4

\* Binding a window keeps the maps typed.
LEMMA ShowTyped ==
    ASSUME TypeOK, NEW t \in Tokens, NEW p \in Paths \cup {NoPath}, NEW hasText,
           ShowSource(t, p, hasText)
    PROVE  /\ sourceByToken' \in [Tokens -> Binding]
           /\ tokenBySourceRef' \in [Refs -> Tokens \cup {NoToken}]
           /\ sourceRefByPath' \in [Paths -> Refs \cup {0}]
           /\ pathBySourceRef' \in [Refs -> Paths \cup {NoPath}]
           /\ nextSourceRef' \in 1..(MaxRefs + 1)
           /\ sourceText' \in SUBSET Paths
           /\ \A r \in Refs : p \in Paths /\ pathBySourceRef[r] # NoPath => pathBySourceRef'[r] # NoPath
<1> DEFINE r == RefFor(p)
<1>1. CASE p = NoPath
  BY <1>1, PathsAssumption DEF ShowSource, maps, TypeOK
<1>2. CASE p # NoPath
  <2>1. p \in Paths
    BY <1>2
  <2>2. sourceRefByPath[p] \in Refs \cup {0} /\ nextSourceRef \in 1..(MaxRefs + 1)
    BY <2>1 DEF TypeOK
  <2>3. MaxRefs \in Nat /\ (nextSourceRef <= MaxRefs \/ sourceRefByPath[p] # 0)
    BY <1>2, BoundsAssumption DEF ShowSource
  <2>4. r \in Refs
    BY <2>2, <2>3 DEF RefFor, Refs
  <2>5. nextSourceRef' \in 1..(MaxRefs + 1)
    <3>1. nextSourceRef' = IF r = nextSourceRef THEN r + 1 ELSE nextSourceRef
      BY <1>2 DEF ShowSource
    <3> QED
      BY <3>1, <2>2, <2>3, <2>4 DEF Refs
  <2>6. sourceRefByPath' = [sourceRefByPath EXCEPT ![p] = r]
        /\ pathBySourceRef' = [pathBySourceRef EXCEPT ![r] = p]
    BY <1>2 DEF ShowSource
  <2>7. /\ sourceRefByPath' \in [Paths -> Refs \cup {0}]
        /\ pathBySourceRef' \in [Refs -> Paths \cup {NoPath}]
        /\ \A x \in Refs : pathBySourceRef[x] # NoPath => pathBySourceRef'[x] # NoPath
    <3> HIDE DEF r
    <3> QED
      BY <1>2, <2>1, <2>4, <2>6 DEF TypeOK
  <2>8. tokenBySourceRef' = [x \in Refs |-> IF x = r THEN t
                                ELSE IF OwnsRef(t, x) THEN NoToken
                                ELSE tokenBySourceRef[x]]
    BY <1>2 DEF ShowSource
  <2>9. sourceByToken' = [x \in Tokens |-> IF x = t THEN [path |-> p, ref |-> r]
                                  ELSE IF x \in DisplacedBy(t, r) THEN Unbound
                                  ELSE sourceByToken[x]]
    BY <1>2 DEF ShowSource
  <2>10. tokenBySourceRef' \in [Refs -> Tokens \cup {NoToken}]
    <3> HIDE DEF r
    <3> QED
      BY <2>8 DEF TypeOK
  <2>11. [path |-> p, ref |-> r] \in Binding /\ Unbound \in Binding
    <3> HIDE DEF r
    <3> QED
      BY <2>1, <2>4 DEF Binding
  <2>12. sourceByToken' \in [Tokens -> Binding]
    <3> HIDE DEF r
    <3> QED
      BY <2>9, <2>11 DEF TypeOK
  <2>13. sourceText' \subseteq sourceText \cup {p}
    BY <1>2 DEF ShowSource
  <2> QED
    BY <2>1, <2>5, <2>7, <2>10, <2>12, <2>13 DEF TypeOK
<1> QED
  BY <1>1, <1>2

LEMMA HideTyped ==
    ASSUME TypeOK, NEW t \in Tokens, HideSource(t)
    PROVE  /\ sourceByToken' \in [Tokens -> Binding]
           /\ tokenBySourceRef' \in [Refs -> Tokens \cup {NoToken}]
           /\ sourceText' \in SUBSET Paths
<1>1. Unbound \in Binding
  BY DEF Binding
<1>2. sourceByToken' = [sourceByToken EXCEPT ![t] = Unbound]
  BY DEF HideSource
<1>3. sourceByToken' \in [Tokens -> Binding]
  BY <1>1, <1>2 DEF TypeOK
<1>4. tokenBySourceRef' \in [Refs -> Tokens \cup {NoToken}]
  BY DEF HideSource, TypeOK
<1> QED
  BY <1>3, <1>4 DEF HideSource, TypeOK

LEMMA TypeShow ==
    ASSUME Typed, NEW t \in Tokens, NEW p \in Paths \cup {NoPath}, NEW hasText,
           ShowWindow(t, p, hasText), windows' \in SUBSET Tokens
    PROVE  Typed'
<1> USE DEF Typed
<1>1. ShowSource(t, p, hasText)
  BY DEF ShowWindow
<1>2. /\ sourceByToken' \in [Tokens -> Binding]
      /\ tokenBySourceRef' \in [Refs -> Tokens \cup {NoToken}]
      /\ sourceRefByPath' \in [Paths -> Refs \cup {0}]
      /\ pathBySourceRef' \in [Refs -> Paths \cup {NoPath}]
      /\ nextSourceRef' \in 1..(MaxRefs + 1)
      /\ sourceText' \in SUBSET Paths
  BY <1>1, ShowTyped
<1>3. /\ attached' \in BOOLEAN /\ controller' \in BOOLEAN /\ reconnected' \in BOOLEAN
  BY DEF ShowWindow, TypeOK, session
<1>4. /\ pendingByPath' \in [Paths -> Requests \cup {0}]
      /\ pendingBySourceRef' \in [Refs -> Requests \cup {0}]
      /\ main' = main /\ request' = request
      /\ main' \in {"idle", "sync", "send", "clear"}
      /\ request' \in IF main' \in {"send", "clear"} THEN Asked ELSE {NoRequest}
      /\ asked' \in 0..MaxRequests /\ answered' \in [Paths -> Requests \cup {0}]
      /\ sent' \in SUBSET Sent /\ failures' \in Nat
  BY DEF ShowWindow, TypeOK, pending, mains, asks
<1>5. intent' \in Intent \cup {NoRequest}
  <2> DEFINE b == sourceByToken'[t]
             id == IF pendingBySourceRef'[b.ref] # 0 THEN pendingBySourceRef'[b.ref]
                                                     ELSE pendingByPath'[b.path]
  <2>1. \/ intent' = NoRequest
        \/ /\ b # Unbound /\ id # 0
           /\ intent' = [id |-> id, path |-> b.path, ref |-> b.ref, token |-> t]
    BY DEF ShowWindow, Collect, IntentFor, DeferredFor, Unbound
  <2>2. ASSUME b # Unbound, id # 0
        PROVE  [id |-> id, path |-> b.path, ref |-> b.ref, token |-> t] \in Intent
    <3>1. b \in [path : Paths, ref : Refs]
      BY <1>2, <2>2 DEF Binding
    <3>2. b.path \in Paths /\ b.ref \in Refs
      BY <3>1
    <3>3. id \in Requests
      BY <1>4, <2>2, <3>2
    <3> QED
      BY <3>2, <3>3 DEF Intent
  <2> QED
    BY <2>1, <2>2
<1>6. /\ bridge' \in {"idle", "send", "complete"}
      /\ intent' \in IF bridge' = "idle" THEN {NoRequest} ELSE Intent
  <2>1. bridge' = IF intent' = NoRequest THEN "idle" ELSE "send"
    BY DEF ShowWindow, Collect
  <2> QED
    BY <1>5, <2>1
<1>7. retained' \in SUBSET Paths
  BY DEF ShowWindow, TypeOK
<1>8. TypeOK'
  BY <1>2, <1>3, <1>4, <1>6, <1>7 DEF TypeOK
<1>9. RequestNamed'
  <2>1. \A r \in Refs : pathBySourceRef[r] # NoPath => pathBySourceRef'[r] # NoPath
    BY <1>1, ShowTyped, PathsAssumption DEF ShowSource, maps
  <2>2. main = "send" => request \in Asked
    BY DEF TypeOK
  <2> QED
    BY <1>4, <2>1, <2>2 DEF RequestNamed, Asked
<1> QED
  BY <1>8, <1>9

LEMMA TypeBridge ==
    ASSUME Typed, BridgeStep
    PROVE  Typed'
<1> USE DEF Typed
<1>1. CASE OpenWindow
  <2>1. PICK t \in Tokens \ windows, p \in Paths \cup {NoPath}, hasText \in BOOLEAN :
            ShowWindow(t, p, hasText) /\ windows' = windows \cup {t}
    BY <1>1 DEF OpenWindow
  <2>2. windows' \in SUBSET Tokens
    BY <2>1 DEF TypeOK
  <2> QED
    BY <2>1, <2>2, TypeShow
<1>2. CASE UpdateWindow
  <2>1. PICK t \in windows, p \in Paths \cup {NoPath}, hasText \in BOOLEAN :
            ShowWindow(t, p, hasText) /\ UNCHANGED windows
    BY <1>2 DEF UpdateWindow
  <2>2. windows' \in SUBSET Tokens /\ t \in Tokens
    BY <2>1 DEF TypeOK
  <2> QED
    BY <2>1, <2>2, TypeShow
<1>3. ASSUME NEW t \in Tokens, CloseWindow(t) PROVE Typed'
  <2>1. HideSource(t)
    BY <1>3 DEF CloseWindow
  <2>2. /\ attached' \in BOOLEAN /\ controller' \in BOOLEAN /\ reconnected' \in BOOLEAN
    BY <1>3 DEF CloseWindow, TypeOK, session, history
  <2>3. TypeOK'
    BY <1>3, <2>1, <2>2, HideTyped
    DEF CloseWindow, HideSource, TypeOK, pending, mains, bridges, history, asks, sends
  <2> QED
    BY <1>3, <2>3 DEF CloseWindow, HideSource, RequestNamed, mains
<1>4. CASE IntentSucceeds
  <2>1. sent' \in SUBSET Sent
    BY <1>4, SendingTyped DEF IntentSucceeds, TypeOK
  <2>2. /\ attached' \in BOOLEAN /\ controller' \in BOOLEAN /\ reconnected' \in BOOLEAN
    BY <1>4 DEF IntentSucceeds, TypeOK, session
  <2>3. bridge' = "complete" /\ intent' \in Intent
    BY <1>4 DEF IntentSucceeds, TypeOK
  <2>4. TypeOK'
    BY <1>4, <2>1, <2>2, <2>3 DEF IntentSucceeds, TypeOK, maps, pending, mains, asks
  <2> QED
    BY <1>4, <2>4 DEF IntentSucceeds, RequestNamed, mains, maps
<1>5. CASE IntentFails
  <2>1. intent.path \in Paths
    BY <1>5 DEF IntentFails, TypeOK, Intent
  <2>2. /\ attached' \in BOOLEAN /\ controller' \in BOOLEAN /\ reconnected' \in BOOLEAN
    BY <1>5 DEF IntentFails, TypeOK, session
  <2>3. bridge' = "idle" /\ intent' = NoRequest /\ failures' \in Nat /\ retained' \in SUBSET Paths
    BY <1>5, <2>1 DEF IntentFails, SendError, TypeOK
  <2>4. TypeOK'
    BY <1>5, <2>2, <2>3 DEF IntentFails, TypeOK, maps, pending, mains, asks
  <2> QED
    BY <1>5, <2>4 DEF IntentFails, RequestNamed, mains, maps
<1>6. CASE CompleteIntent
  <2>1. /\ pendingByPath' \in [Paths -> Requests \cup {0}]
        /\ pendingBySourceRef' \in [Refs -> Requests \cup {0}]
    BY <1>6 DEF CompleteIntent, TypeOK
  <2>2. /\ attached' \in BOOLEAN /\ controller' \in BOOLEAN /\ reconnected' \in BOOLEAN
    BY <1>6 DEF CompleteIntent, TypeOK, session, history
  <2>3. bridge' = "idle" /\ intent' = NoRequest
    BY <1>6 DEF CompleteIntent
  <2>4. TypeOK'
    BY <1>6, <2>1, <2>2, <2>3 DEF CompleteIntent, TypeOK, maps, mains, history, asks, sends
  <2> QED
    BY <1>6, <2>4 DEF CompleteIntent, RequestNamed, mains, maps
<1> QED
  BY <1>1, <1>2, <1>3, <1>4, <1>5, <1>6 DEF BridgeStep

LEMMA TypeSession ==
    ASSUME Typed, SessionStep
    PROVE  Typed'
<1> USE DEF Typed
<1>0. /\ attached' \in BOOLEAN /\ controller' \in BOOLEAN /\ reconnected' \in BOOLEAN
  BY DEF SessionStep, Terminate, DropController, Reconnect, TypeOK, history
<1>1. CASE Terminate
  <2>1. TypeOK'
    BY <1>0, <1>1 DEF Terminate, TypeOK, maps, pending, mains, bridges, history, asks, sends
  <2> QED
    BY <1>1, <2>1 DEF Terminate, RequestNamed, mains, maps
<1>2. CASE DropController
  <2>1. TypeOK'
    BY <1>0, <1>2 DEF DropController, TypeOK, maps, pending, mains, bridges, history, asks, sends
  <2> QED
    BY <1>2, <2>1 DEF DropController, RequestNamed, mains, maps
<1>3. CASE Reconnect
  <2>1. Unbound \in Binding
    BY DEF Binding
  <2>2. sourceByToken' \in [Tokens -> Binding] /\ tokenBySourceRef' \in [Refs -> Tokens \cup {NoToken}]
        /\ sourceText' \in SUBSET Paths /\ windows' \in SUBSET Tokens
    BY <1>3, <2>1 DEF Reconnect
  <2>3. TypeOK'
    BY <1>0, <1>3, <2>2 DEF Reconnect, TypeOK, pending, mains, bridges, asks, sends
  <2> QED
    BY <1>3, <2>3 DEF Reconnect, RequestNamed, mains
<1> QED
  BY <1>1, <1>2, <1>3 DEF SessionStep

LEMMA TypeStep == Typed /\ [Next]_vars => Typed'
<1> SUFFICES ASSUME Typed, [Next]_vars PROVE Typed'
  OBVIOUS
<1>1. CASE MainStep
  BY <1>1, TypeRequests, TypeMain DEF MainStep
<1>2. CASE BridgeStep
  BY <1>2, TypeBridge
<1>3. CASE SessionStep
  BY <1>3, TypeSession
<1>4. CASE UNCHANGED vars
  <2>1. /\ attached' \in BOOLEAN /\ controller' \in BOOLEAN /\ reconnected' \in BOOLEAN
    BY <1>4 DEF Typed, TypeOK, vars, session, history
  <2>2. TypeOK'
    BY <1>4, <2>1 DEF Typed, TypeOK, vars, maps, pending, mains, bridges, history, asks, sends
  <2> QED
    BY <1>4, <2>2 DEF Typed, RequestNamed, vars, mains, maps
<1> QED
  BY <1>1, <1>2, <1>3, <1>4 DEF Next

\* Every reachable state is well typed (TypeOK), and a request in hand names a
\* file.
THEOREM TypeCorrect == Spec => [](TypeOK /\ RequestNamed)
<1>1. Init => Typed
  BY TypeInit
<1>2. Typed /\ [Next]_vars => Typed'
  BY TypeStep
<1> QED
  BY <1>1, <1>2, PTL DEF Spec, Typed

-----------------------------------------------------------------------------
(* The maps.  MapsAgree is not inductive alone: binding a file for the     *)
(* first time takes nextSourceRef, which must not name a file already.     *)

FreshRef == \A r \in Refs : r >= nextSourceRef => pathBySourceRef[r] = NoPath

MapsInv == MapsAgree /\ FreshRef

LEMMA MapsInit == Init => MapsInv
<1> SUFFICES ASSUME Init PROVE MapsInv
  OBVIOUS
<1>1. FreshRef
  BY DEF Init, FreshRef
<1>2. \A p \in Paths, r \in Refs : sourceRefByPath[p] = r <=> pathBySourceRef[r] = p
  BY RefsFacts, PathsAssumption DEF Init
<1> QED
  BY <1>1, <1>2 DEF Init, MapsAgree, MapsInv

\* A reference that names no file is registered for no window.
LEMMA UnnamedRef ==
    ASSUME TypeOK, MapsAgree, NEW r \in Refs, pathBySourceRef[r] = NoPath
    PROVE  tokenBySourceRef[r] = NoToken
<1> SUFFICES ASSUME tokenBySourceRef[r] # NoToken PROVE FALSE
  OBVIOUS
<1> DEFINE t == tokenBySourceRef[r]
<1>1. t \in Tokens /\ sourceByToken[t].ref = r
  BY DEF TypeOK, MapsAgree
<1>2. sourceByToken[t] # Unbound
  BY <1>1, RefsFacts DEF Unbound
<1>3. sourceByToken[t].path \in Paths
  BY <1>1, <1>2 DEF TypeOK, Binding
<1> QED
  BY <1>1, <1>2, <1>3, PathsAssumption DEF MapsAgree

\* What RefFor gives a file: its reference, or one that names nothing yet.
LEMMA RefForFacts ==
    ASSUME TypeOK, MapsInv, NEW p \in Paths,
           nextSourceRef <= MaxRefs \/ sourceRefByPath[p] # 0
    PROVE  /\ RefFor(p) \in Refs
           /\ \/ sourceRefByPath[p] = RefFor(p) /\ pathBySourceRef[RefFor(p)] = p
                 /\ RefFor(p) # nextSourceRef
              \/ /\ sourceRefByPath[p] = 0 /\ RefFor(p) = nextSourceRef
                 /\ pathBySourceRef[RefFor(p)] = NoPath
                 /\ tokenBySourceRef[RefFor(p)] = NoToken
<1>1. sourceRefByPath[p] \in Refs \cup {0} /\ nextSourceRef \in 1..(MaxRefs + 1) /\ MaxRefs \in Nat
  BY BoundsAssumption DEF TypeOK
<1>2. CASE sourceRefByPath[p] # 0
  <2>1. RefFor(p) = sourceRefByPath[p] /\ RefFor(p) \in Refs
    BY <1>1, <1>2 DEF RefFor
  <2>2. pathBySourceRef[RefFor(p)] = p
    BY <2>1 DEF MapsInv, MapsAgree
  <2>3. RefFor(p) # nextSourceRef
    BY <1>1, <2>1, <2>2, PathsAssumption, RefsFacts DEF MapsInv, FreshRef
  <2> QED
    BY <2>1, <2>2, <2>3
<1>3. CASE sourceRefByPath[p] = 0
  <2>1. RefFor(p) = nextSourceRef /\ RefFor(p) \in Refs
    BY <1>1, <1>3 DEF RefFor, Refs
  <2>2. pathBySourceRef[RefFor(p)] = NoPath
    BY <1>1, <2>1 DEF MapsInv, FreshRef
  <2> QED
    BY <1>3, <2>1, <2>2, UnnamedRef DEF MapsInv
<1> QED
  BY <1>2, <1>3

LEMMA MapsShow ==
    ASSUME TypeOK, MapsInv, NEW t \in Tokens, NEW p \in Paths \cup {NoPath}, NEW hasText,
           ShowSource(t, p, hasText)
    PROVE  /\ MapsInv'
           /\ \A r \in Refs : pathBySourceRef[r] # NoPath => pathBySourceRef'[r] = pathBySourceRef[r]
<1> DEFINE r == RefFor(p)
<1>1. CASE p = NoPath
  BY <1>1 DEF ShowSource, maps, MapsInv, MapsAgree, FreshRef
<1>2. CASE p # NoPath
  <2>1. p \in Paths /\ (nextSourceRef <= MaxRefs \/ sourceRefByPath[p] # 0)
    BY <1>2 DEF ShowSource
  <2>2. /\ r \in Refs
        /\ \/ sourceRefByPath[p] = r /\ pathBySourceRef[r] = p /\ r # nextSourceRef
           \/ /\ sourceRefByPath[p] = 0 /\ r = nextSourceRef
              /\ pathBySourceRef[r] = NoPath /\ tokenBySourceRef[r] = NoToken
    BY <2>1, RefForFacts
  <2>3. /\ sourceRefByPath' = [sourceRefByPath EXCEPT ![p] = r]
        /\ pathBySourceRef' = [pathBySourceRef EXCEPT ![r] = p]
        /\ nextSourceRef' = IF r = nextSourceRef THEN r + 1 ELSE nextSourceRef
        /\ tokenBySourceRef' = [x \in Refs |-> IF x = r THEN t
                                ELSE IF OwnsRef(t, x) THEN NoToken
                                ELSE tokenBySourceRef[x]]
        /\ sourceByToken' = [x \in Tokens |-> IF x = t THEN [path |-> p, ref |-> r]
                                  ELSE IF x \in DisplacedBy(t, r) THEN Unbound
                                  ELSE sourceByToken[x]]
    BY <1>2 DEF ShowSource
  <2> HIDE DEF r
  <2>4. \A x \in Refs : pathBySourceRef'[x] = IF x = r THEN p ELSE pathBySourceRef[x]
    BY <2>2, <2>3 DEF TypeOK
  <2>5. \A q \in Paths : sourceRefByPath'[q] = IF q = p THEN r ELSE sourceRefByPath[q]
    BY <2>1, <2>3 DEF TypeOK
  <2>6. ASSUME NEW x \in Tokens, sourceByToken'[x] # Unbound
        PROVE  /\ tokenBySourceRef'[sourceByToken'[x].ref] = x
               /\ pathBySourceRef'[sourceByToken'[x].ref] = sourceByToken'[x].path
    <3>1. CASE x = t
      <4>1. sourceByToken'[x].path = p /\ sourceByToken'[x].ref = r
        BY <2>3, <3>1
      <4> QED
        BY <2>2, <2>3, <2>4, <3>1, <4>1
    <3>2. CASE x # t
      <4>1. x \notin DisplacedBy(t, r) /\ sourceByToken'[x] = sourceByToken[x]
        BY <2>3, <2>6, <3>2
      <4> DEFINE y == sourceByToken[x].ref
      <4>2. y \in Refs /\ tokenBySourceRef[y] = x /\ pathBySourceRef[y] = sourceByToken[x].path
        BY <2>6, <4>1 DEF TypeOK, Binding, MapsInv, MapsAgree
      <4>3. y # r
        BY <3>2, <4>1, <4>2, TokensAssumption DEF DisplacedBy
      <4>4. ~OwnsRef(t, y)
        BY <3>2, <4>2 DEF OwnsRef
      <4> QED
        BY <2>3, <2>4, <4>1, <4>2, <4>3, <4>4
    <3> QED
      BY <3>1, <3>2
  <2>7. ASSUME NEW y \in Refs, tokenBySourceRef'[y] # NoToken
        PROVE  sourceByToken'[tokenBySourceRef'[y]].ref = y
    <3>1. CASE y = r
      BY <2>3, <3>1
    <3>2. CASE y # r
      <4> DEFINE x == tokenBySourceRef[y]
      <4>1. ~OwnsRef(t, y) /\ tokenBySourceRef'[y] = x
        BY <2>3, <2>7, <3>2
      <4>2. x \in Tokens /\ sourceByToken[x].ref = y
        BY <2>7, <4>1 DEF TypeOK, MapsInv, MapsAgree
      <4>3. x # t
        BY <4>1, <4>2 DEF OwnsRef
      <4>4. x \notin DisplacedBy(t, r)
        <5> SUFFICES ASSUME x = tokenBySourceRef[r], x # NoToken PROVE FALSE
          BY DEF DisplacedBy
        <5> QED
          BY <2>2, <3>2, <4>2 DEF MapsInv, MapsAgree
      <4> QED
        BY <2>3, <4>1, <4>2, <4>3, <4>4
    <3> QED
      BY <3>1, <3>2
  <2>8. ASSUME NEW q \in Paths, NEW y \in Refs
        PROVE  sourceRefByPath'[q] = y <=> pathBySourceRef'[y] = q
    <3>1. sourceRefByPath[q] = y <=> pathBySourceRef[y] = q
      BY DEF MapsInv, MapsAgree
    <3>2. sourceRefByPath[p] = y <=> pathBySourceRef[y] = p
      BY <2>1 DEF MapsInv, MapsAgree
    <3>3. sourceRefByPath[q] = r <=> pathBySourceRef[r] = q
      BY <2>2 DEF MapsInv, MapsAgree
    <3> QED
      BY <2>1, <2>2, <2>4, <2>5, <3>1, <3>2, <3>3, RefsFacts, PathsAssumption
  <2>9. FreshRef'
    <3>1. nextSourceRef \in Nat /\ Refs \subseteq Nat
      BY RefsFacts, BoundsAssumption DEF TypeOK
    <3>2. nextSourceRef' >= nextSourceRef /\ (r = nextSourceRef => nextSourceRef' = r + 1)
      BY <2>3, <3>1
    <3>3. pathBySourceRef[r] = p => r < nextSourceRef
      BY <1>2, <2>2, <3>1 DEF MapsInv, FreshRef
    <3>4. r < nextSourceRef'
      <4>1. CASE r = nextSourceRef
        BY <3>1, <3>2, <4>1
      <4>2. CASE r # nextSourceRef
        <5>1. r < nextSourceRef /\ nextSourceRef' = nextSourceRef
          BY <2>2, <2>3, <3>3, <4>2
        <5> QED
          BY <5>1
      <4> QED
        BY <4>1, <4>2
    <3>5. ASSUME NEW x \in Refs, x >= nextSourceRef' PROVE pathBySourceRef'[x] = NoPath
      <4>1. nextSourceRef' \in Nat
        BY <2>3, <3>1
      <4>2. x # r /\ x >= nextSourceRef
        BY <2>2, <3>1, <3>2, <3>4, <3>5, <4>1
      <4> QED
        BY <2>4, <4>2 DEF MapsInv, FreshRef
    <3> QED
      BY <3>5 DEF FreshRef
  <2>10. MapsAgree'
    BY <2>6, <2>7, <2>8 DEF MapsAgree, Unbound
  <2> QED
    BY <2>2, <2>4, <2>9, <2>10 DEF MapsInv
<1> QED
  BY <1>1, <1>2

LEMMA MapsHide ==
    ASSUME TypeOK, MapsInv, NEW t \in Tokens, HideSource(t)
    PROVE  MapsInv'
<1>1. /\ tokenBySourceRef' = [x \in Refs |-> IF OwnsRef(t, x) THEN NoToken ELSE tokenBySourceRef[x]]
      /\ \A x \in Tokens : sourceByToken'[x] = IF x = t THEN Unbound ELSE sourceByToken[x]
      /\ sourceRefByPath' = sourceRefByPath /\ pathBySourceRef' = pathBySourceRef
      /\ nextSourceRef' = nextSourceRef
  BY DEF HideSource, TypeOK
<1>2. ASSUME NEW x \in Tokens, sourceByToken'[x] # Unbound
      PROVE  /\ tokenBySourceRef'[sourceByToken'[x].ref] = x
             /\ pathBySourceRef'[sourceByToken'[x].ref] = sourceByToken'[x].path
  <2>1. x # t /\ sourceByToken'[x] = sourceByToken[x]
    BY <1>1, <1>2
  <2> DEFINE y == sourceByToken[x].ref
  <2>2. y \in Refs /\ tokenBySourceRef[y] = x /\ pathBySourceRef[y] = sourceByToken[x].path
    BY <1>2, <2>1 DEF TypeOK, Binding, MapsInv, MapsAgree
  <2>3. ~OwnsRef(t, y)
    BY <2>1, <2>2 DEF OwnsRef
  <2> QED
    BY <1>1, <2>1, <2>2, <2>3
<1>3. ASSUME NEW y \in Refs, tokenBySourceRef'[y] # NoToken
      PROVE  sourceByToken'[tokenBySourceRef'[y]].ref = y
  <2>1. ~OwnsRef(t, y) /\ tokenBySourceRef'[y] = tokenBySourceRef[y]
    BY <1>1, <1>3
  <2>2. tokenBySourceRef[y] \in Tokens /\ sourceByToken[tokenBySourceRef[y]].ref = y
    BY <1>3, <2>1 DEF TypeOK, MapsInv, MapsAgree
  <2>3. tokenBySourceRef[y] # t
    BY <2>1, <2>2 DEF OwnsRef
  <2> QED
    BY <1>1, <2>1, <2>2, <2>3
<1>4. MapsAgree'
  BY <1>1, <1>2, <1>3 DEF MapsInv, MapsAgree, Unbound
<1> QED
  BY <1>1, <1>4 DEF MapsInv, FreshRef

\* Only the bridge's OpenWindow, UpdateWindow and CloseWindow, and a
\* reconnect, touch the maps.
LEMMA MapsSteps ==
    ASSUME TypeOK, [Next]_vars
    PROVE  \/ UNCHANGED maps
           \/ \E t \in Tokens, p \in Paths \cup {NoPath}, hasText \in BOOLEAN : ShowWindow(t, p, hasText)
           \/ \E t \in Tokens : CloseWindow(t)
           \/ Reconnect
<1>1. CASE MainStep
  BY <1>1 DEF MainStep, SetBreakpoints, Defer, Take, SyncLayout, SendSucceeds, SendFails, ClearDeferred
<1>2. CASE BridgeStep
  <2>1. windows \subseteq Tokens
    BY DEF TypeOK
  <2>2. CASE OpenWindow
    BY <2>2 DEF OpenWindow
  <2>3. CASE UpdateWindow
    BY <2>1, <2>3 DEF UpdateWindow
  <2>4. CASE IntentSucceeds \/ IntentFails \/ CompleteIntent
    BY <2>4 DEF IntentSucceeds, IntentFails, CompleteIntent
  <2> QED
    BY <1>2, <2>2, <2>3, <2>4 DEF BridgeStep
<1>3. CASE SessionStep
  BY <1>3 DEF SessionStep, Terminate, DropController
<1> QED
  BY <1>1, <1>2, <1>3 DEF Next, vars

LEMMA MapsReconnect ==
    ASSUME TypeOK, MapsInv, Reconnect
    PROVE  MapsInv'
<1>1. /\ \A t \in Tokens : sourceByToken'[t] = Unbound
      /\ \A r \in Refs : tokenBySourceRef'[r] = NoToken
      /\ sourceRefByPath' = sourceRefByPath /\ pathBySourceRef' = pathBySourceRef
      /\ nextSourceRef' = nextSourceRef
  BY DEF Reconnect
<1> QED
  BY <1>1 DEF MapsInv, MapsAgree, FreshRef, Unbound

LEMMA MapsStep == TypeOK /\ MapsInv /\ [Next]_vars => MapsInv'
<1> SUFFICES ASSUME TypeOK, MapsInv, [Next]_vars PROVE MapsInv'
  OBVIOUS
<1>1. CASE UNCHANGED maps
  BY <1>1 DEF maps, MapsInv, MapsAgree, FreshRef, Unbound
<1>2. ASSUME NEW t \in Tokens, NEW p \in Paths \cup {NoPath}, NEW hasText \in BOOLEAN,
             ShowWindow(t, p, hasText)
      PROVE  MapsInv'
  BY <1>2, MapsShow DEF ShowWindow
<1>3. ASSUME NEW t \in Tokens, CloseWindow(t) PROVE MapsInv'
  BY <1>3, MapsHide DEF CloseWindow
<1> QED
  BY <1>1, <1>2, <1>3, MapsSteps, MapsReconnect

LEMMA MapsCorrect == Spec => [](TypeOK /\ MapsInv)
<1>1. Init => MapsInv
  BY MapsInit
<1>2. TypeOK /\ MapsInv /\ [Next]_vars => MapsInv'
  BY MapsStep
<1> QED
  BY <1>1, <1>2, TypeCorrect, PTL DEF Spec

\* The two views of the windows agree in every reachable state (MapsAgree).
THEOREM MappingConsistent == Spec => []MapsAgree
<1>1. MapsInv => MapsAgree
  BY DEF MapsInv
<1> QED
  BY <1>1, MapsCorrect, PTL

\* A source reference never comes to name another file (RefsStable).
THEOREM RefsNeverReused == Spec => RefsStable
<1>1. ASSUME TypeOK, MapsInv, [Next]_vars
      PROVE  \A r \in Refs : pathBySourceRef[r] # NoPath => pathBySourceRef'[r] = pathBySourceRef[r]
  <2>1. ASSUME NEW t \in Tokens, NEW p \in Paths \cup {NoPath}, NEW hasText \in BOOLEAN,
               ShowWindow(t, p, hasText)
        PROVE  \A r \in Refs : pathBySourceRef[r] # NoPath => pathBySourceRef'[r] = pathBySourceRef[r]
    BY <1>1, <2>1, MapsShow DEF ShowWindow
  <2> QED
    BY <1>1, <2>1, MapsSteps DEF maps, CloseWindow, HideSource, Reconnect
<1>2. TypeOK /\ MapsInv /\ [Next]_vars
      => [\A r \in Refs : pathBySourceRef[r] # NoPath => pathBySourceRef'[r] = pathBySourceRef[r]]_vars
  BY <1>1
<1> QED
  BY <1>2, MapsCorrect, PTL DEF Spec, RefsStable

-----------------------------------------------------------------------------
(* The texts.  A text outlives a window only with another window's help:   *)
(* the maps must agree for LosesText to see that no other window is left.  *)

LEMMA TextShow ==
    ASSUME TypeOK, MapsInv, TextOnlyWhileMapped, NEW t \in Tokens,
           NEW p \in Paths \cup {NoPath}, NEW hasText, ShowSource(t, p, hasText)
    PROVE  TextOnlyWhileMapped'
<1>1. CASE p = NoPath
  BY <1>1 DEF ShowSource, maps, TextOnlyWhileMapped, Mapped
<1>2. CASE p # NoPath
  <2> DEFINE r == RefFor(p)
  <2>1. /\ p \in Paths /\ r \in Refs /\ r # 0
        /\ pathBySourceRef[r] \in {p, NoPath}
    BY <1>2, RefForFacts, RefsFacts DEF ShowSource
  <2>2. /\ \A q \in Paths : sourceRefByPath'[q] = IF q = p THEN r ELSE sourceRefByPath[q]
        /\ tokenBySourceRef' = [x \in Refs |-> IF x = r THEN t
                                ELSE IF OwnsRef(t, x) THEN NoToken
                                ELSE tokenBySourceRef[x]]
        /\ sourceByToken' = [x \in Tokens |-> IF x = t THEN [path |-> p, ref |-> r]
                                  ELSE IF x \in DisplacedBy(t, r) THEN Unbound
                                  ELSE sourceByToken[x]]
    BY <1>2 DEF ShowSource, TypeOK
  <2>3. \A q \in sourceText' :
            q = p \/ (q \in sourceText /\ ~(q = sourceByToken[t].path /\ LosesText(q)))
    BY <1>2 DEF ShowSource
  <2> HIDE DEF r
  <2>4. Mapped(p)'
    <3>1. sourceByToken'[t].path = p
      BY <2>2
    <3> QED
      BY <2>1, <2>2, <3>1, TokensAssumption DEF Mapped
  <2>5. ASSUME NEW q \in sourceText, q # p, q # sourceByToken[t].path PROVE Mapped(q)'
    <3> DEFINE y == sourceRefByPath[q]
               x == tokenBySourceRef[y]
    <3>1. q \in Paths /\ y \in Refs /\ x \in Tokens /\ sourceByToken[x].path = q
      BY DEF TypeOK, TextOnlyWhileMapped, Mapped
    <3>2. pathBySourceRef[y] = q /\ sourceByToken[x].ref = y
      BY <3>1, TokensAssumption DEF MapsInv, MapsAgree
    <3>3. x # t /\ y # r
      BY <2>1, <2>5, <3>1, <3>2, PathsAssumption
    <3>4. x \notin DisplacedBy(t, r)
      <4> SUFFICES ASSUME x = tokenBySourceRef[r], x # NoToken PROVE FALSE
        BY DEF DisplacedBy
      <4> QED
        BY <2>1, <3>2, <3>3 DEF MapsInv, MapsAgree
    <3>5. ~OwnsRef(t, y)
      BY <3>3 DEF OwnsRef
    <3>6. sourceRefByPath'[q] = y /\ tokenBySourceRef'[y] = x /\ sourceByToken'[x] = sourceByToken[x]
      BY <2>2, <2>5, <3>1, <3>3, <3>4, <3>5
    <3> QED
      BY <3>1, <3>6, RefsFacts, TokensAssumption DEF Mapped
  <2>6. ASSUME NEW q \in sourceText, q # p, ~LosesText(q) PROVE Mapped(q)'
    BY <2>6, PathsAssumption DEF LosesText, TypeOK
  <2> QED
    BY <2>3, <2>4, <2>5, <2>6 DEF TextOnlyWhileMapped
<1> QED
  BY <1>1, <1>2

LEMMA TextHide ==
    ASSUME TypeOK, MapsInv, TextOnlyWhileMapped, NEW t \in Tokens, HideSource(t)
    PROVE  TextOnlyWhileMapped'
<1>1. /\ tokenBySourceRef' = [x \in Refs |-> IF OwnsRef(t, x) THEN NoToken ELSE tokenBySourceRef[x]]
      /\ \A x \in Tokens : sourceByToken'[x] = IF x = t THEN Unbound ELSE sourceByToken[x]
      /\ sourceRefByPath' = sourceRefByPath
  BY DEF HideSource, TypeOK
<1>2. \A q \in sourceText' : q \in sourceText /\ ~(q = sourceByToken[t].path /\ LosesText(q))
  BY DEF HideSource
<1>3. ASSUME NEW q \in sourceText, q # sourceByToken[t].path PROVE Mapped(q)'
  <2> DEFINE y == sourceRefByPath[q]
             x == tokenBySourceRef[y]
  <2>1. q \in Paths /\ y \in Refs /\ x \in Tokens /\ sourceByToken[x].path = q
    BY DEF TypeOK, TextOnlyWhileMapped, Mapped
  <2>2. x # t
    BY <1>3, <2>1
  <2>3. tokenBySourceRef'[y] = x /\ sourceByToken'[x] = sourceByToken[x]
    BY <1>1, <2>1, <2>2 DEF OwnsRef
  <2> QED
    BY <1>1, <2>1, <2>3, RefsFacts, TokensAssumption DEF Mapped
<1>4. ASSUME NEW q \in sourceText, ~LosesText(q) PROVE Mapped(q)'
  BY <1>4, PathsAssumption DEF LosesText, TypeOK
<1> QED
  BY <1>2, <1>3, <1>4 DEF TextOnlyWhileMapped

LEMMA TextStep ==
    TypeOK /\ MapsInv /\ TextOnlyWhileMapped /\ [Next]_vars => TextOnlyWhileMapped'
<1> SUFFICES ASSUME TypeOK, MapsInv, TextOnlyWhileMapped, [Next]_vars
             PROVE  TextOnlyWhileMapped'
  OBVIOUS
<1>1. CASE UNCHANGED maps
  BY <1>1 DEF maps, TextOnlyWhileMapped, Mapped
<1>2. ASSUME NEW t \in Tokens, NEW p \in Paths \cup {NoPath}, NEW hasText \in BOOLEAN,
             ShowWindow(t, p, hasText)
      PROVE  TextOnlyWhileMapped'
  BY <1>2, TextShow DEF ShowWindow
<1>3. ASSUME NEW t \in Tokens, CloseWindow(t) PROVE TextOnlyWhileMapped'
  BY <1>3, TextHide DEF CloseWindow
<1>4. CASE Reconnect
  BY <1>4 DEF Reconnect, TextOnlyWhileMapped
<1> QED
  BY <1>1, <1>2, <1>3, <1>4, MapsSteps

\* A file's text is kept only while a window shows the file
\* (TextOnlyWhileMapped): source requests never get the text of a window
\* that is gone.
THEOREM TextsFresh == Spec => []TextOnlyWhileMapped
<1>1. Init => TextOnlyWhileMapped
  BY DEF Init, TextOnlyWhileMapped
<1>2. TypeOK /\ MapsInv /\ TextOnlyWhileMapped /\ [Next]_vars => TextOnlyWhileMapped'
  BY TextStep
<1> QED
  BY <1>1, <1>2, MapsCorrect, PTL DEF Spec

-----------------------------------------------------------------------------
(* Deferred lines.  A file has two places for them, its path and its       *)
(* reference.  That the two never disagree depends on references being     *)
(* each file's own and on every request clearing all names of its file.    *)

\* A request that names its source as src is about file p.
Names(src, p) ==
    /\ p \in Paths /\ src.path \in {p, NoPath}
    /\ src.path = NoPath => src.ref # 0
    /\ src.ref # 0 => src.ref \in Refs /\ pathBySourceRef[src.ref] = p

PendingInv ==
    /\ \A r \in Refs, p \in Paths :
          pathBySourceRef[r] = p /\ pendingByPath[p] # 0 /\ pendingBySourceRef[r] # 0
          => pendingByPath[p] = pendingBySourceRef[r]
    /\ \A r \in Refs : pathBySourceRef[r] = NoPath => pendingBySourceRef[r] = 0

WasSent(p, id) == \E m \in sent : m.path = p /\ m.id = id

RequestInv ==
    /\ main \in {"send", "clear"} => \E p \in Paths : Names(request, p)
    /\ main = "clear" => \A p \in Paths : Names(request, p) => WasSent(p, request.id)

\* What the bridge has in hand: it is of one file, and without a reconnect
\* nothing newer is deferred for that file meanwhile, because its window is
\* there.
IntentInv ==
    bridge # "idle" =>
       /\ pathBySourceRef[intent.ref] = intent.path
       /\ bridge = "complete" => WasSent(intent.path, intent.id)
       /\ ~reconnected => /\ tokenBySourceRef[intent.ref] # NoToken
                          /\ Pending(intent.path) \subseteq {0, intent.id}

DeferredInv == PendingInv /\ RequestInv /\ IntentInv

\* The deferred lines of a file, by its path or by the reference that names it.
LEMMA PendingMember ==
    ASSUME TypeOK, MapsInv, NEW p \in Paths, NEW n
    PROVE  n \in Pending(p) <=>
              \/ pendingByPath[p] = n
              \/ \E r \in Refs : pathBySourceRef[r] = p /\ pendingBySourceRef[r] = n
<1>1. sourceRefByPath[p] \in Refs \cup {0} /\ 0 \notin Refs
  BY RefsFacts DEF TypeOK
<1>2. \A r \in Refs : sourceRefByPath[p] = r <=> pathBySourceRef[r] = p
  BY DEF MapsInv, MapsAgree
<1>3. n \in Pending(p) <=> pendingByPath[p] = n \/
          (sourceRefByPath[p] # 0 /\ pendingBySourceRef[sourceRefByPath[p]] = n)
  BY DEF Pending
<1> QED
  BY <1>1, <1>2, <1>3

\* A reference that names a file goes on naming it (the step of RefsNeverReused).
LEMMA RefsStay ==
    ASSUME TypeOK, MapsInv, [Next]_vars
    PROVE  \A r \in Refs : pathBySourceRef[r] # NoPath => pathBySourceRef'[r] = pathBySourceRef[r]
<1>1. ASSUME NEW t \in Tokens, NEW p \in Paths \cup {NoPath}, NEW hasText \in BOOLEAN,
             ShowWindow(t, p, hasText)
      PROVE  \A r \in Refs : pathBySourceRef[r] # NoPath => pathBySourceRef'[r] = pathBySourceRef[r]
  BY <1>1, MapsShow DEF ShowWindow
<1> QED
  BY <1>1, MapsSteps DEF maps, CloseWindow, HideSource, Reconnect

\* A source that a client can name is one file.
LEMMA SourceNames ==
    ASSUME TypeOK, NEW src \in Sources
    PROVE  \E p \in Paths : Names(src, p)
<1>1. CASE src \in {[path |-> p, ref |-> 0] : p \in Paths}
  <2>1. PICK p \in Paths : src = [path |-> p, ref |-> 0]
    BY <1>1
  <2>2. src.path = p /\ src.ref = 0 /\ p # NoPath
    BY <2>1, PathsAssumption
  <2> QED
    BY <2>2 DEF Names
<1>2. CASE src \in {[path |-> NoPath, ref |-> r] : r \in {x \in Refs : pathBySourceRef[x] # NoPath}}
  <2>1. PICK r \in Refs : pathBySourceRef[r] # NoPath /\ src = [path |-> NoPath, ref |-> r]
    BY <1>2
  <2>2. src.path = NoPath /\ src.ref = r /\ r # 0 /\ pathBySourceRef[r] \in Paths
    BY <2>1, RefsFacts DEF TypeOK
  <2> QED
    BY <2>2 DEF Names
<1>3. CASE src \in {[path |-> pathBySourceRef[r], ref |-> r] : r \in {x \in Refs : pathBySourceRef[x] # NoPath}}
  <2>1. PICK r \in Refs : pathBySourceRef[r] # NoPath /\ src = [path |-> pathBySourceRef[r], ref |-> r]
    BY <1>3
  <2>2. src.path = pathBySourceRef[r] /\ src.ref = r /\ r # 0 /\ pathBySourceRef[r] \in Paths
    BY <2>1, RefsFacts DEF TypeOK
  <2>3. src.path # NoPath
    BY <2>2, PathsAssumption
  <2> QED
    BY <2>2, <2>3 DEF Names
<1> QED
  BY <1>1, <1>2, <1>3 DEF Sources

\* The names of one file: its path and its reference, if it has one.
LEMMA NamesFacts ==
    ASSUME TypeOK, MapsInv, NEW src, NEW p, Names(src, p)
    PROVE  /\ p \in Paths /\ p # NoPath
           /\ \A q \in Paths : q \in PathsOf(src) <=> q = p
           /\ \A r \in Refs : r \in RefsOf(src) <=> pathBySourceRef[r] = p
           /\ \A r \in Refs : src.ref = r => pathBySourceRef[r] = p
           /\ src.path = p \/ (src.path = NoPath /\ src.ref \in Refs)
           /\ \A r \in Refs : pathBySourceRef[r] = p => TokenFor(src) = tokenBySourceRef[r]
<1>1. p \in Paths /\ p # NoPath /\ 0 \notin Refs
  BY PathsAssumption, RefsFacts DEF Names
<1>2. \A q \in Paths : q \in PathsOf(src) <=> q = p
  BY <1>1, PathsAssumption DEF Names, PathsOf
<1>3. \A r \in Refs : sourceRefByPath[p] = r <=> pathBySourceRef[r] = p
  BY <1>1 DEF MapsInv, MapsAgree
<1>4. src.ref = 0 \/ src.ref \in Refs
  BY DEF Names
<1>5. \A r \in Refs : src.ref = r => pathBySourceRef[r] = p
  BY <1>1 DEF Names
<1>6. src.path = p \/ (src.path = NoPath /\ src.ref \in Refs)
  BY DEF Names
<1>7. ASSUME NEW r \in Refs PROVE r \in RefsOf(src) <=> pathBySourceRef[r] = p
  <2>1. CASE src.path = p
    BY <1>1, <1>3, <1>5, <2>1 DEF RefsOf
  <2>2. CASE src.path = NoPath /\ src.ref \in Refs
    <3>1. RefsOf(src) = {src.ref}
      BY <2>2 DEF RefsOf
    <3>2. sourceRefByPath[p] = src.ref
      BY <1>3, <1>5, <2>2
    <3> QED
      BY <1>3, <3>1, <3>2
  <2> QED
    BY <1>6, <2>1, <2>2
<1>8. ASSUME NEW r \in Refs, pathBySourceRef[r] = p PROVE TokenFor(src) = tokenBySourceRef[r]
  <2>1. r # 0 /\ sourceRefByPath[p] = r
    BY <1>1, <1>3, <1>8
  <2>2. CASE src.ref = 0
    BY <1>1, <1>6, <2>1, <2>2 DEF TokenFor
  <2>3. CASE src.ref \in Refs
    <3>1. src.ref = r
      BY <1>3, <1>5, <2>1, <2>3
    <3> QED
      BY <2>1, <3>1 DEF TokenFor
  <2> QED
    BY <1>4, <2>2, <2>3
<1> QED
  BY <1>1, <1>2, <1>5, <1>6, <1>7, <1>8

\* What Replace does: the lines of file p are these or none, those of other
\* files stay.
LEMMA NamesReplace ==
    ASSUME TypeOK, MapsInv, PendingInv, NEW src, NEW p, Names(src, p),
           NEW lines, Replace(src, lines), UNCHANGED maps, TypeOK', MapsInv'
    PROVE  /\ PendingInv'
           /\ lines \in Pending(p)' /\ Pending(p)' \subseteq {0, lines}
           /\ \A q \in Paths \ {p} : Pending(q)' = Pending(q)
<1>1. /\ p \in Paths /\ p # NoPath
      /\ \A q \in Paths : q \in PathsOf(src) <=> q = p
      /\ \A r \in Refs : r \in RefsOf(src) <=> pathBySourceRef[r] = p
      /\ \A r \in Refs : src.ref = r => pathBySourceRef[r] = p
      /\ src.path = p \/ (src.path = NoPath /\ src.ref \in Refs)
  BY NamesFacts
<1>2. pathBySourceRef' = pathBySourceRef /\ sourceRefByPath' = sourceRefByPath
  BY DEF maps
<1>3. /\ \A q \in Paths : pendingByPath'[q] = IF q = src.path THEN lines
                                              ELSE IF q = p THEN 0 ELSE pendingByPath[q]
      /\ \A r \in Refs : pendingBySourceRef'[r] = IF r = src.ref THEN lines
                                                  ELSE IF pathBySourceRef[r] = p THEN 0
                                                  ELSE pendingBySourceRef[r]
  BY <1>1 DEF Replace
<1>4. \A q \in Paths \ {p} : pendingByPath'[q] = pendingByPath[q]
  BY <1>1, <1>3, PathsAssumption
<1>5. \A r \in Refs : pathBySourceRef[r] # p => pendingBySourceRef'[r] = pendingBySourceRef[r]
  BY <1>1, <1>3
<1>6. /\ pendingByPath'[p] \in {0, lines}
      /\ \A r \in Refs : pathBySourceRef[r] = p => pendingBySourceRef'[r] \in {0, lines}
  BY <1>1, <1>3
<1>7. PendingInv'
  <2>1. ASSUME NEW r \in Refs, NEW q \in Paths, pathBySourceRef'[r] = q,
               pendingByPath'[q] # 0, pendingBySourceRef'[r] # 0
        PROVE  pendingByPath'[q] = pendingBySourceRef'[r]
    <3>1. CASE q = p
      BY <1>2, <1>6, <2>1, <3>1
    <3>2. CASE q # p
      BY <1>2, <1>4, <1>5, <2>1, <3>2 DEF PendingInv
    <3> QED
      BY <3>1, <3>2
  <2>2. ASSUME NEW r \in Refs, pathBySourceRef'[r] = NoPath PROVE pendingBySourceRef'[r] = 0
    BY <1>1, <1>2, <1>5, <2>2 DEF PendingInv
  <2> QED
    BY <2>1, <2>2 DEF PendingInv
<1>8. \A n : n \in Pending(p)' <=>
          \/ pendingByPath'[p] = n
          \/ \E r \in Refs : pathBySourceRef'[r] = p /\ pendingBySourceRef'[r] = n
  <2>1. \A r \in Refs : sourceRefByPath'[p] = r <=> pathBySourceRef'[r] = p
    BY <1>1 DEF MapsInv, MapsAgree
  <2>2. sourceRefByPath'[p] \in Refs \cup {0} /\ 0 \notin Refs
    BY <1>1, RefsFacts DEF TypeOK
  <2>3. Pending(p)' = {pendingByPath'[p]} \cup
            (IF sourceRefByPath'[p] # 0 THEN {pendingBySourceRef'[sourceRefByPath'[p]]} ELSE {})
    BY DEF Pending
  <2> QED
    BY <2>1, <2>2, <2>3
<1>9. lines \in Pending(p)'
  <2>1. CASE src.path = p
    BY <1>1, <1>3, <1>8, <2>1
  <2>2. CASE src.path = NoPath /\ src.ref \in Refs
    BY <1>1, <1>2, <1>3, <1>8, <2>2
  <2> QED
    BY <1>1, <2>1, <2>2
<1>10. Pending(p)' \subseteq {0, lines}
  BY <1>2, <1>6, <1>8
<1>11. ASSUME NEW q \in Paths \ {p} PROVE Pending(q)' = Pending(q)
  <2>1. sourceRefByPath[q] # 0 => sourceRefByPath[q] \in Refs /\ pathBySourceRef[sourceRefByPath[q]] = q
    BY DEF TypeOK, MapsInv, MapsAgree
  <2> QED
    BY <1>2, <1>4, <1>5, <2>1 DEF Pending
<1> QED
  BY <1>7, <1>9, <1>10, <1>11

\* Who changes the deferred lines: setBreakpoints, which replaces those of
\* one file, and the bridge, which removes what it has sent.
LEMMA PendingSteps ==
    ASSUME TypeOK, MapsInv, RequestInv, [Next]_vars
    PROVE  \/ UNCHANGED pending /\ answered' = answered
           \/ \E src \in Sources, p \in Paths : Defer(src) /\ Names(src, p)
           \/ ClearDeferred /\ \E p \in Paths : Names(request, p)
           \/ CompleteIntent
<1>1. CASE MainStep
  <2>1. ASSUME NEW src \in Sources, Defer(src)
        PROVE  \E p \in Paths : Defer(src) /\ Names(src, p)
    BY <2>1, SourceNames
  <2>2. ClearDeferred => \E p \in Paths : Names(request, p)
    BY DEF ClearDeferred, RequestInv
  <2>3. \/ UNCHANGED pending /\ answered' = answered
        \/ \E src \in Sources : Defer(src)
        \/ ClearDeferred
    BY <1>1 DEF MainStep, SetBreakpoints, Take, SyncLayout, SendSucceeds, SendFails,
                     asks, history
  <2> QED
    BY <2>1, <2>2, <2>3
<1>2. CASE BridgeStep
  BY <1>2 DEF BridgeStep, OpenWindow, UpdateWindow, ShowWindow, CloseWindow,
              IntentSucceeds, IntentFails, asks, history
<1>3. CASE SessionStep
  BY <1>3 DEF SessionStep, Terminate, DropController, Reconnect, asks, history
<1> QED
  BY <1>1, <1>2, <1>3 DEF Next, vars, asks, history

\* A step that leaves the deferred lines alone keeps what is deferred for a
\* file; giving the file a reference adds nothing.
LEMMA PendingStays ==
    ASSUME TypeOK, MapsInv, PendingInv, [Next]_vars, TypeOK', MapsInv', UNCHANGED pending
    PROVE  /\ PendingInv'
           /\ \A p \in Paths : Pending(p) \subseteq Pending(p)' /\ Pending(p)' \subseteq Pending(p) \cup {0}
<1>1. pendingByPath' = pendingByPath /\ pendingBySourceRef' = pendingBySourceRef
  BY DEF pending
<1>2. \A r \in Refs : pathBySourceRef[r] # NoPath => pathBySourceRef'[r] = pathBySourceRef[r]
  BY RefsStay
<1>3. \A r \in Refs : pathBySourceRef'[r] # pathBySourceRef[r] => pendingBySourceRef[r] = 0
  BY <1>2 DEF PendingInv
<1>4. PendingInv'
  BY <1>1, <1>2, <1>3, PathsAssumption DEF PendingInv
<1>5. ASSUME NEW p \in Paths
      PROVE  Pending(p) \subseteq Pending(p)' /\ Pending(p)' \subseteq Pending(p) \cup {0}
  <2>1. /\ \A r \in Refs : sourceRefByPath[p] = r <=> pathBySourceRef[r] = p
        /\ \A r \in Refs : sourceRefByPath'[p] = r <=> pathBySourceRef'[r] = p
        /\ sourceRefByPath[p] \in Refs \cup {0} /\ sourceRefByPath'[p] \in Refs \cup {0}
    BY DEF TypeOK, MapsInv, MapsAgree
  <2>2. CASE sourceRefByPath[p] # 0
    <3>1. sourceRefByPath'[p] = sourceRefByPath[p]
      BY <1>2, <2>1, <2>2, PathsAssumption
    <3> QED
      BY <1>1, <3>1 DEF Pending
  <2>3. CASE sourceRefByPath[p] = 0
    <3>1. Pending(p) = {pendingByPath[p]}
      BY <2>3 DEF Pending
    <3>2. sourceRefByPath'[p] # 0 => pendingBySourceRef[sourceRefByPath'[p]] = 0
      BY <1>3, <2>1, <2>3, RefsFacts
    <3>3. Pending(p)' = {pendingByPath[p]} \/ Pending(p)' = {pendingByPath[p], 0}
      BY <1>1, <3>2 DEF Pending
    <3> QED
      BY <3>1, <3>3
  <2> QED
    BY <2>2, <2>3
<1> QED
  BY <1>4, <1>5

\* The bridge removes all lines of the file it has sent, and no others.
LEMMA PendingCompleted ==
    ASSUME Typed, MapsInv, PendingInv, IntentInv, CompleteIntent, TypeOK', MapsInv',
           NEW f, f = intent.path
    PROVE  /\ PendingInv'
           /\ f \in Paths
           /\ Pending(f)' = {0}
           /\ \A q \in Paths \ {f} : Pending(q)' = Pending(q)
<1> DEFINE r == intent.ref
<1>1. f \in Paths /\ r \in Refs /\ pathBySourceRef[r] = f
  BY DEF CompleteIntent, Typed, TypeOK, Intent, IntentInv
<1>2. /\ \A q \in Paths : pendingByPath'[q] = IF q = f THEN 0 ELSE pendingByPath[q]
      /\ \A x \in Refs : pendingBySourceRef'[x] = IF x = r THEN 0 ELSE pendingBySourceRef[x]
  BY DEF CompleteIntent, Typed, TypeOK
<1>3. pathBySourceRef' = pathBySourceRef /\ sourceRefByPath' = sourceRefByPath
  BY DEF CompleteIntent, maps
<1>4. /\ \A q \in Paths, x \in Refs : sourceRefByPath[q] = x <=> pathBySourceRef[x] = q
      /\ \A q \in Paths : sourceRefByPath[q] \in Refs \cup {0}
      /\ 0 \notin Refs
  BY RefsFacts DEF Typed, TypeOK, MapsInv, MapsAgree
<1> HIDE DEF r
<1>5. PendingInv'
  BY <1>2, <1>3 DEF PendingInv
<1>6. sourceRefByPath[f] = r
  BY <1>1, <1>4
<1>7. Pending(f)' = {0}
  <2>1. pendingByPath'[f] = 0 /\ sourceRefByPath'[f] = r /\ r # 0 /\ pendingBySourceRef'[r] = 0
    BY <1>1, <1>2, <1>3, <1>4, <1>6
  <2> QED
    BY <2>1 DEF Pending
<1>8. ASSUME NEW q \in Paths \ {f} PROVE Pending(q)' = Pending(q)
  <2>1. sourceRefByPath[q] # r
    BY <1>1, <1>4, <1>8
  <2> QED
    BY <1>2, <1>3, <1>4, <2>1 DEF Pending
<1> QED
  BY <1>1, <1>5, <1>7, <1>8

LEMMA PendingInit == Init => DeferredInv
BY DEF Init, DeferredInv, PendingInv, RequestInv, IntentInv

LEMMA PendingStep ==
    ASSUME Typed, MapsInv, DeferredInv, [Next]_vars, TypeOK', MapsInv'
    PROVE  PendingInv'
<1> USE DEF DeferredInv
<1>1. CASE UNCHANGED pending
  BY <1>1, PendingStays DEF Typed
<1>2. ASSUME NEW src \in Sources, NEW p \in Paths, Defer(src), Names(src, p)
      PROVE  PendingInv'
  BY <1>2, NamesReplace DEF Typed, Defer
<1>3. ASSUME ClearDeferred, NEW p \in Paths, Names(request, p)
      PROVE  PendingInv'
  BY <1>3, NamesReplace DEF Typed, ClearDeferred
<1>4. CASE CompleteIntent
  BY <1>4, PendingCompleted
<1> QED
  BY <1>1, <1>2, <1>3, <1>4, PendingSteps DEF Typed

LEMMA SentStays ==
    ASSUME [Next]_vars
    PROVE  sent \subseteq sent'
<1>1. CASE MainStep
  BY <1>1 DEF MainStep, SetBreakpoints, Defer, Take, SyncLayout, SendSucceeds, SendFails,
              ClearDeferred, sends, history
<1>2. CASE BridgeStep
  BY <1>2 DEF BridgeStep, OpenWindow, UpdateWindow, ShowWindow, CloseWindow,
              IntentSucceeds, IntentFails, CompleteIntent, sends, history
<1>3. CASE SessionStep
  BY <1>3 DEF SessionStep, Terminate, DropController, Reconnect, sends, history
<1> QED
  BY <1>1, <1>2, <1>3 DEF Next, vars, sends, history

LEMMA RequestStep ==
    ASSUME Typed, MapsInv, RequestInv, [Next]_vars
    PROVE  RequestInv'
<1>1. CASE UNCHANGED mains
  <2>1. main' = main /\ request' = request
    BY <1>1 DEF mains
  <2>2. ASSUME NEW p \in Paths, Names(request, p) PROVE Names(request, p)'
    BY <2>1, <2>2, RefsStay, PathsAssumption DEF Names, Typed
  <2>3. ASSUME main = "clear", NEW q \in Paths, Names(request, q)'
        PROVE  WasSent(q, request.id)'
    <3>1. PICK p \in Paths : Names(request, p)
      BY <2>3 DEF RequestInv
    <3>2. Names(request, p)' /\ WasSent(p, request.id)
      BY <2>2, <2>3, <3>1 DEF RequestInv
    <3>3. p = q
      BY <2>3, <3>2, PathsAssumption DEF Names
    <3> QED
      BY <2>1, <3>2, <3>3, SentStays DEF WasSent
  <2> QED
    BY <2>1, <2>2, <2>3 DEF RequestInv
<1>2. CASE main' \in {"idle", "sync"}
  BY <1>2 DEF RequestInv
<1>3. ASSUME NEW src \in Sources, Take(src) PROVE RequestInv'
  <2>1. PICK p \in Paths : Names(src, p)
    BY SourceNames DEF Typed
  <2>2. /\ main' = "send" /\ request'.path = src.path /\ request'.ref = src.ref
        /\ pathBySourceRef' = pathBySourceRef
    BY <1>3 DEF Take, maps
  <2>3. Names(request, p)'
    BY <2>1, <2>2 DEF Names
  <2> QED
    BY <2>1, <2>2, <2>3 DEF RequestInv
<1>4. CASE SendSucceeds
  <2>1. /\ main = "send" /\ main' = "clear" /\ request' = request
        /\ pathBySourceRef' = pathBySourceRef /\ sent' = sent \cup {Sending(request)}
    BY <1>4 DEF SendSucceeds, maps
  <2>2. PICK p \in Paths : Names(request, p)
    BY <2>1 DEF RequestInv
  <2>3. ASSUME NEW q \in Paths, Names(request, q)' PROVE WasSent(q, request.id)'
    <3>1. Names(request, q)
      BY <2>1, <2>3 DEF Names
    <3>2. Sending(request).path = q /\ Sending(request).id = request.id
      BY <3>1 DEF Names, Sending
    <3> QED
      BY <2>1, <3>2 DEF WasSent
  <2>4. Names(request, p)'
    BY <2>1, <2>2 DEF Names
  <2> QED
    BY <2>1, <2>3, <2>4 DEF RequestInv
<1>5. CASE MainStep
  BY <1>2, <1>3, <1>4, <1>5 DEF MainStep, SetBreakpoints, Defer, SyncLayout, SendFails, ClearDeferred
<1>6. CASE BridgeStep
  BY <1>1, <1>6 DEF BridgeStep, OpenWindow, UpdateWindow, ShowWindow, CloseWindow,
              IntentSucceeds, IntentFails, CompleteIntent
<1>7. CASE SessionStep
  BY <1>1, <1>7 DEF SessionStep, Terminate, DropController, Reconnect
<1> QED
  BY <1>1, <1>5, <1>6, <1>7 DEF Next, vars

\* Nothing is deferred for a file that a window shows.
LEMMA DeferUnmapped ==
    ASSUME TypeOK, MapsInv, NEW src, NEW p, Names(src, p), TokenFor(src) = NoToken
    PROVE  /\ \A r \in Refs : pathBySourceRef[r] = p => tokenBySourceRef[r] = NoToken
           /\ ~Mapped(p)
<1>1. p \in Paths /\ \A r \in Refs : pathBySourceRef[r] = p => tokenBySourceRef[r] = NoToken
  BY NamesFacts
<1>2. sourceRefByPath[p] # 0 => sourceRefByPath[p] \in Refs /\ pathBySourceRef[sourceRefByPath[p]] = p
  BY <1>1 DEF TypeOK, MapsInv, MapsAgree
<1> QED
  BY <1>1, <1>2 DEF Mapped

\* A window that the bridge has just bound: what it takes in hand is of the
\* file the window shows.
LEMMA IntentShow ==
    ASSUME TypeOK', MapsInv', PendingInv', NEW t \in Tokens, Collect(t)
    PROVE  IntentInv'
<1> SUFFICES ASSUME bridge' # "idle"
             PROVE  /\ bridge' = "send"
                    /\ pathBySourceRef'[intent'.ref] = intent'.path
                    /\ tokenBySourceRef'[intent'.ref] # NoToken
                    /\ Pending(intent.path)' \subseteq {0, intent'.id}
  BY DEF IntentInv
<1> DEFINE b == sourceByToken'[t]
           id == IF pendingBySourceRef'[b.ref] # 0 THEN pendingBySourceRef'[b.ref]
                                                   ELSE pendingByPath'[b.path]
<1>1. bridge' = "send" /\ intent' # NoRequest
  BY DEF Collect
<1>2. b # Unbound /\ intent' = [id |-> id, path |-> b.path, ref |-> b.ref, token |-> t]
  BY <1>1 DEF Collect, IntentFor, DeferredFor, Unbound
<1>3. b.path \in Paths /\ b.ref \in Refs
  BY <1>2 DEF TypeOK, Binding
<1>4. tokenBySourceRef'[b.ref] = t /\ pathBySourceRef'[b.ref] = b.path
  BY <1>2 DEF MapsInv, MapsAgree, Unbound
<1>5. sourceRefByPath'[b.path] = b.ref /\ b.ref # 0
  <2>1. \A q \in Paths, r \in Refs : sourceRefByPath'[q] = r <=> pathBySourceRef'[r] = q
    BY DEF MapsInv, MapsAgree
  <2> HIDE DEF b
  <2> QED
    BY <1>3, <1>4, <2>1, RefsFacts
<1>6. intent'.id = id /\ intent'.path = b.path /\ intent'.ref = b.ref
  BY <1>2
<1>7. Pending(intent.path)' = {pendingByPath'[b.path], pendingBySourceRef'[b.ref]}
  <2> HIDE DEF b
  <2> QED
    BY <1>5, <1>6 DEF Pending
<1>8. pendingByPath'[b.path] \in {0, id} /\ pendingBySourceRef'[b.ref] \in {0, id}
  <2>1. pendingByPath'[b.path] # 0 /\ pendingBySourceRef'[b.ref] # 0
        => pendingByPath'[b.path] = pendingBySourceRef'[b.ref]
    BY <1>3, <1>4 DEF PendingInv
  <2> HIDE DEF b
  <2> QED
    BY <2>1
<1> QED
  BY <1>1, <1>4, <1>6, <1>7, <1>8, TokensAssumption

LEMMA IntentStep ==
    ASSUME Typed, MapsInv, DeferredInv, [Next]_vars, Typed', MapsInv', PendingInv'
    PROVE  IntentInv'
<1> USE DEF DeferredInv, Typed
<1>1. CASE bridge' = "idle"
  BY <1>1 DEF IntentInv
<1>2. ASSUME NEW t \in Tokens, Collect(t) PROVE IntentInv'
  BY <1>2, IntentShow
<1>3. CASE IntentSucceeds
  <2>1. /\ bridge = "send" /\ intent' = intent /\ sent' = sent \cup {Sending(intent)}
        /\ pathBySourceRef' = pathBySourceRef /\ tokenBySourceRef' = tokenBySourceRef
        /\ sourceRefByPath' = sourceRefByPath /\ reconnected' = reconnected
        /\ pendingByPath' = pendingByPath /\ pendingBySourceRef' = pendingBySourceRef
    BY <1>3 DEF IntentSucceeds, maps, pending
  <2>2. intent.path \in Paths
    BY <2>1 DEF TypeOK, Intent
  <2>3. Sending(intent).path = intent.path /\ Sending(intent).id = intent.id
    BY <2>2, PathsAssumption DEF Sending
  <2>4. WasSent(intent.path, intent.id)'
    BY <2>1, <2>3 DEF WasSent
  <2> QED
    BY <2>1, <2>4 DEF IntentInv, Pending
<1>4. CASE UNCHANGED bridges /\ (MainStep \/ SessionStep \/ UNCHANGED vars)
  <2> SUFFICES ASSUME bridge # "idle" PROVE IntentInv'
    BY <1>1, <1>4 DEF bridges
  <2>1. bridge' = bridge /\ intent' = intent
    BY <1>4 DEF bridges
  <2>2. PICK f \in Paths : f = intent.path
    BY DEF TypeOK, Intent
  <2>3. PICK r \in Refs : r = intent.ref
    BY DEF TypeOK, Intent
  <2>4. pathBySourceRef[r] = f /\ pathBySourceRef'[r] = f
    BY <2>2, <2>3, RefsStay, PathsAssumption DEF IntentInv
  <2>5. bridge = "complete" => WasSent(intent.path, intent.id)'
    BY <2>1, SentStays DEF IntentInv, WasSent
  <2>6. ASSUME ~reconnected'
        PROVE  tokenBySourceRef'[r] # NoToken /\ Pending(f)' \subseteq {0, intent.id}
    <3>1. ~reconnected /\ tokenBySourceRef' = tokenBySourceRef
      BY <1>4, <2>6 DEF MainStep, SetBreakpoints, Defer, Take, SyncLayout, SendSucceeds, SendFails,
                        ClearDeferred, SessionStep, Terminate, DropController, Reconnect,
                        maps, vars, history
    <3>2. tokenBySourceRef[r] # NoToken /\ Pending(f) \subseteq {0, intent.id}
      BY <2>2, <2>3, <3>1 DEF IntentInv
    <3>3. CASE UNCHANGED pending
      BY <3>1, <3>2, <3>3, PendingStays
    <3>4. ASSUME NEW src \in Sources, NEW p \in Paths, Defer(src), Names(src, p)
          PROVE  Pending(f)' = Pending(f)
      <4>1. p # f
        BY <2>4, <3>2, <3>4, DeferUnmapped DEF Defer
      <4> QED
        BY <3>4, <4>1, NamesReplace DEF Defer
    <3>5. ASSUME ClearDeferred, NEW p \in Paths, Names(request, p)
          PROVE  Pending(f)' = Pending(f) \/ Pending(f)' \subseteq {0}
      BY <3>5, NamesReplace DEF ClearDeferred
    <3>6. ~CompleteIntent
      BY <2>1 DEF CompleteIntent
    <3> QED
      BY <3>1, <3>2, <3>3, <3>4, <3>5, <3>6, PendingSteps
  <2>7. ~reconnected' => tokenBySourceRef'[r] # NoToken /\ Pending(intent.path)' \subseteq {0, intent.id}
    BY <2>1, <2>2, <2>6 DEF Pending
  <2> QED
    BY <2>1, <2>2, <2>3, <2>4, <2>5, <2>7 DEF IntentInv
<1>5. CASE MainStep
  BY <1>4, <1>5 DEF MainStep, SetBreakpoints, Defer, Take, SyncLayout, SendSucceeds, SendFails, ClearDeferred
<1>6. CASE SessionStep
  BY <1>4, <1>6 DEF SessionStep, Terminate, DropController, Reconnect
<1>7. CASE BridgeStep
  <2>1. ASSUME NEW t \in Tokens, NEW p \in Paths \cup {NoPath}, NEW hasText \in BOOLEAN,
               ShowWindow(t, p, hasText)
        PROVE  IntentInv'
    BY <1>2, <2>1 DEF ShowWindow
  <2>2. CASE OpenWindow
    BY <2>1, <2>2 DEF OpenWindow
  <2>3. CASE UpdateWindow
    <3>1. windows \subseteq Tokens
      BY DEF TypeOK
    <3> QED
      BY <2>1, <2>3, <3>1 DEF UpdateWindow
  <2>4. CASE \E t \in Tokens : CloseWindow(t)
    BY <1>1, <2>4 DEF CloseWindow, bridges
  <2> QED
    BY <1>1, <1>3, <1>7, <2>2, <2>3, <2>4 DEF BridgeStep, IntentFails, CompleteIntent
<1>8. CASE UNCHANGED vars
  BY <1>4, <1>8 DEF vars
<1> QED
  BY <1>5, <1>6, <1>7, <1>8 DEF Next

LEMMA DeferredStep == Typed /\ MapsInv /\ DeferredInv /\ [Next]_vars => DeferredInv'
<1> SUFFICES ASSUME Typed, MapsInv, DeferredInv, [Next]_vars PROVE DeferredInv'
  OBVIOUS
<1>1. Typed' /\ MapsInv'
  BY TypeStep, MapsStep DEF Typed
<1>2. PendingInv'
  BY <1>1, PendingStep DEF Typed
<1>3. RequestInv'
  BY RequestStep DEF DeferredInv
<1>4. IntentInv'
  BY <1>1, <1>2, IntentStep
<1> QED
  BY <1>2, <1>3, <1>4 DEF DeferredInv

LEMMA DeferredCorrect == Spec => [](Typed /\ MapsInv /\ DeferredInv)
<1>1. Init => DeferredInv
  BY PendingInit
<1>2. Typed /\ MapsInv /\ DeferredInv /\ [Next]_vars => DeferredInv'
  BY DeferredStep
<1> QED
  BY <1>1, <1>2, TypeCorrect, MapsCorrect, PTL DEF Spec, Typed

\* A file never has two different sets of deferred lines, however clients
\* name it (OnePendingSet).
THEOREM PendingOne == Spec => []OnePendingSet
<1>1. ASSUME TypeOK, MapsInv, PendingInv PROVE OnePendingSet
  <2> SUFFICES ASSUME NEW p \in Paths PROVE Cardinality(Pending(p) \ {0}) <= 1
    BY DEF OnePendingSet
  <2>1. sourceRefByPath[p] # 0 => sourceRefByPath[p] \in Refs /\ pathBySourceRef[sourceRefByPath[p]] = p
    BY <1>1 DEF TypeOK, MapsInv, MapsAgree
  <2>2. \E n : Pending(p) \subseteq {0, n}
    <3>1. CASE sourceRefByPath[p] = 0
      <4>1. Pending(p) = {pendingByPath[p]}
        BY <3>1 DEF Pending
      <4> QED
        BY <4>1
    <3>2. CASE sourceRefByPath[p] # 0
      <4> DEFINE x == pendingByPath[p]
                 y == pendingBySourceRef[sourceRefByPath[p]]
      <4>1. Pending(p) = {x, y}
        BY <3>2 DEF Pending
      <4>2. x = 0 \/ y = 0 \/ x = y
        BY <1>1, <2>1, <3>2 DEF PendingInv
      <4> HIDE DEF x, y
      <4> QED
        BY <4>1, <4>2
    <3> QED
      BY <3>1, <3>2
  <2>3. PICK n : Pending(p) \subseteq {0, n}
    BY <2>2
  <2>4. IsFiniteSet({n}) /\ Cardinality({n}) = 1
    BY FS_Singleton
  <2>5. Pending(p) \ {0} \subseteq {n}
    BY <2>3
  <2>6. Cardinality(Pending(p) \ {0}) <= Cardinality({n})
    BY <2>4, <2>5, FS_Subset
  <2> QED
    BY <2>4, <2>6
<1>2. Typed /\ MapsInv /\ DeferredInv => OnePendingSet
  BY <1>1 DEF Typed, DeferredInv
<1> QED
  BY <1>2, DeferredCorrect, PTL

-----------------------------------------------------------------------------
(* No window is missed.                                                    *)

\* A step that binds or closes a window maps no file but the one it shows.
LEMMA MappedBefore ==
    ASSUME TypeOK, MapsInv, NEW t \in Tokens, NEW p \in Paths \cup {NoPath}, NEW hasText,
           ShowSource(t, p, hasText) \/ HideSource(t),
           NEW q \in Paths, ShowSource(t, p, hasText) => q # p, Mapped(q)'
    PROVE  Mapped(q)
<1>1. CASE HideSource(t)
  <2>1. /\ tokenBySourceRef' = [x \in Refs |-> IF OwnsRef(t, x) THEN NoToken ELSE tokenBySourceRef[x]]
        /\ \A x \in Tokens : sourceByToken'[x] = IF x = t THEN Unbound ELSE sourceByToken[x]
        /\ sourceRefByPath' = sourceRefByPath
    BY <1>1 DEF HideSource, TypeOK
  <2> DEFINE y == sourceRefByPath[q]
             x == tokenBySourceRef[y]
  <2>2. y \in Refs \cup {0}
    BY DEF TypeOK
  <2>3. y # 0 /\ tokenBySourceRef'[y] # NoToken /\ sourceByToken'[tokenBySourceRef'[y]].path = q
    BY <2>1 DEF Mapped
  <2>4. tokenBySourceRef'[y] = x
    BY <2>1, <2>2, <2>3
  <2>5. x \in Tokens
    BY <2>2, <2>3, <2>4 DEF TypeOK
  <2>6. x # t
    BY <2>1, <2>3, <2>4, <2>5, PathsAssumption DEF Unbound
  <2> QED
    BY <2>1, <2>3, <2>4, <2>5, <2>6 DEF Mapped
<1>2. CASE ShowSource(t, p, hasText) /\ p = NoPath
  <2>1. UNCHANGED maps
    BY <1>2 DEF ShowSource
  <2> QED
    BY <2>1 DEF maps, Mapped
<1>3. CASE ShowSource(t, p, hasText) /\ p # NoPath
  <2> DEFINE r == RefFor(p)
  <2>1. /\ p \in Paths /\ r \in Refs
        /\ pathBySourceRef[r] \in {p, NoPath}
    BY <1>3, RefForFacts DEF ShowSource
  <2>2. /\ \A z \in Paths : sourceRefByPath'[z] = IF z = p THEN r ELSE sourceRefByPath[z]
        /\ tokenBySourceRef' = [x \in Refs |-> IF x = r THEN t
                                ELSE IF OwnsRef(t, x) THEN NoToken
                                ELSE tokenBySourceRef[x]]
        /\ sourceByToken' = [x \in Tokens |-> IF x = t THEN [path |-> p, ref |-> r]
                                  ELSE IF x \in DisplacedBy(t, r) THEN Unbound
                                  ELSE sourceByToken[x]]
    BY <1>3 DEF ShowSource, TypeOK
  <2> HIDE DEF r
  <2> DEFINE y == sourceRefByPath[q]
             x == tokenBySourceRef[y]
  <2>3. sourceRefByPath'[q] = y /\ y \in Refs \cup {0}
    BY <1>3, <2>2 DEF TypeOK
  <2>4. y # 0 /\ tokenBySourceRef'[y] # NoToken /\ sourceByToken'[tokenBySourceRef'[y]].path = q
    BY <2>3 DEF Mapped
  <2>5. y \in Refs /\ pathBySourceRef[y] = q
    BY <2>3, <2>4 DEF MapsInv, MapsAgree
  <2>6. y # r
    BY <1>3, <2>1, <2>5, PathsAssumption
  <2>7. tokenBySourceRef'[y] = x /\ x \in Tokens
    <3>1. tokenBySourceRef'[y] = IF OwnsRef(t, y) THEN NoToken ELSE x
      BY <2>2, <2>5, <2>6
    <3>2. x \in Tokens \cup {NoToken}
      BY <2>5 DEF TypeOK
    <3> QED
      BY <2>4, <3>1, <3>2
  <2>8. sourceByToken'[x].path = q
    BY <2>4, <2>7
  <2>9. x # t
    BY <1>3, <2>2, <2>7, <2>8
  <2>10. sourceByToken'[x] = sourceByToken[x] \/ sourceByToken'[x] = Unbound
    BY <2>2, <2>7, <2>9
  <2>11. sourceByToken[x].path = q
    BY <2>8, <2>10, PathsAssumption DEF Unbound
  <2> QED
    BY <2>4, <2>7, <2>11, TokensAssumption DEF Mapped
<1> QED
  BY <1>1, <1>2, <1>3

\* What a file has deferred does not depend on the windows, only a file's
\* first window adds an empty place.
LEMMA HasPendingStays ==
    ASSUME TypeOK, MapsInv, PendingInv, [Next]_vars, TypeOK', MapsInv', UNCHANGED pending,
           NEW q \in Paths, HasPending(q)'
    PROVE  HasPending(q)
<1>1. Pending(q)' \subseteq Pending(q) \cup {0}
  BY PendingStays
<1>2. Pending(q)' # {0} /\ pendingByPath'[q] \in Pending(q)'
  BY DEF HasPending, Pending
<1> QED
  BY <1>1, <1>2 DEF HasPending

LEMMA MissedShow ==
    ASSUME Typed, MapsInv, PendingInv, NoMissedWindow, [Next]_vars, Typed', MapsInv',
           NEW t \in Tokens, NEW p \in Paths \cup {NoPath}, NEW hasText \in BOOLEAN,
           ShowWindow(t, p, hasText)
    PROVE  NoMissedWindow'
<1> USE DEF Typed
<1>1. /\ bridge = "idle" /\ controller' = controller /\ UNCHANGED pending
      /\ ShowSource(t, p, hasText) /\ Collect(t)
      /\ retained' = retained \ {intent'.path}
  BY DEF ShowWindow, session
<1> SUFFICES ASSUME NEW q \in Paths, HasPending(q)', Mapped(q)', controller'
             PROVE  (bridge' # "idle" /\ intent'.path = q) \/ q \in retained'
  BY DEF NoMissedWindow
<1>2. CASE q = p
  <2> DEFINE b == sourceByToken'[t]
             r == RefFor(p)
  <2>1. p \in Paths /\ p # NoPath
    BY <1>2, PathsAssumption
  <2>2. b = [path |-> p, ref |-> r] /\ sourceRefByPath'[p] = r
    BY <1>1, <2>1 DEF ShowSource, TypeOK
  <2>3. b.path = p /\ b.ref = r /\ b # Unbound
    <3>1. b.path = p /\ b.ref = r
      BY <2>2
    <3> QED
      BY <2>1, <3>1 DEF Unbound
  <2>4. pendingByPath'[p] # 0 \/ pendingBySourceRef'[r] # 0
    <3> HIDE DEF r
    <3> QED
      BY <1>2, <2>2 DEF HasPending, Pending
  <2>5. DeferredFor(sourceByToken[t])' # 0
    <3>1. DeferredFor(sourceByToken[t])'
              = IF pendingBySourceRef'[b.ref] # 0 THEN pendingBySourceRef'[b.ref]
                                                  ELSE pendingByPath'[b.path]
      BY DEF DeferredFor
    <3> HIDE DEF r, b
    <3> QED
      BY <2>3, <2>4, <3>1
  <2>6. intent'.path = p
    BY <1>1, <2>3, <2>5 DEF Collect, IntentFor
  <2>7. bridge' # "idle"
    BY <1>1, <2>1, <2>6 DEF Collect, NoRequest
  <2> QED
    BY <1>2, <2>6, <2>7
<1>3. CASE q # p
  <2>1. Mapped(q) /\ HasPending(q)
    BY <1>1, <1>3, MappedBefore, HasPendingStays
  <2>2. q \in retained
    BY <1>1, <2>1 DEF NoMissedWindow
  <2>3. intent'.path = q => bridge' # "idle"
    BY <1>1, PathsAssumption DEF Collect, NoRequest
  <2> QED
    BY <1>1, <2>2, <2>3
<1> QED
  BY <1>2, <1>3

LEMMA MissedStep ==
    Typed /\ MapsInv /\ DeferredInv /\ NoMissedWindow /\ [Next]_vars => NoMissedWindow'
<1> SUFFICES ASSUME Typed, MapsInv, DeferredInv, NoMissedWindow, [Next]_vars
             PROVE  NoMissedWindow'
  OBVIOUS
<1> USE DEF DeferredInv
<1>0. Typed' /\ MapsInv' /\ TypeOK /\ TypeOK'
  BY TypeStep, MapsStep DEF Typed
<1>1. ASSUME NEW t \in Tokens, NEW p \in Paths \cup {NoPath}, NEW hasText \in BOOLEAN,
             ShowWindow(t, p, hasText)
      PROVE  NoMissedWindow'
  BY <1>0, <1>1, MissedShow
<1>2. ASSUME NEW t \in Tokens, CloseWindow(t) PROVE NoMissedWindow'
  <2>1. /\ bridge' = bridge /\ intent' = intent /\ retained' = retained /\ controller' = controller
        /\ UNCHANGED pending /\ HideSource(t)
    BY <1>2 DEF CloseWindow, bridges, history, sends, session
  <2>2. \A q \in Paths : Mapped(q)' => Mapped(q)
    <3>1. ~(t \in {}) /\ NoPath \in Paths \cup {NoPath}
      OBVIOUS
    <3>2. ASSUME NEW q \in Paths, Mapped(q)' PROVE Mapped(q)
      BY <1>0, <2>1, <3>1, <3>2, PathsAssumption, MappedBefore
    <3> QED
      BY <3>2
  <2>3. \A q \in Paths : HasPending(q)' => HasPending(q)
    BY <1>0, <2>1, HasPendingStays
  <2> QED
    BY <2>1, <2>2, <2>3 DEF NoMissedWindow
<1>3. CASE Reconnect
  <2>1. \A r \in Refs : tokenBySourceRef'[r] = NoToken
    BY <1>3 DEF Reconnect
  <2>2. \A q \in Paths : ~Mapped(q)'
    <3>1. \A q \in Paths : sourceRefByPath'[q] \in Refs \cup {0}
      BY <1>0 DEF TypeOK
    <3> QED
      BY <2>1, <3>1 DEF Mapped
  <2> QED
    BY <2>2 DEF NoMissedWindow
<1>4. CASE CompleteIntent
  <2>1. PICK f : f = intent.path
    OBVIOUS
  <2>2. f \in Paths /\ Pending(f)' = {0} /\ \A q \in Paths \ {f} : Pending(q)' = Pending(q)
    BY <1>0, <1>4, <2>1, PendingCompleted
  <2>3. \A q \in Paths : Mapped(q)' <=> Mapped(q)
    BY <1>4 DEF CompleteIntent, maps, Mapped
  <2> QED
    BY <1>4, <2>1, <2>2, <2>3 DEF NoMissedWindow, HasPending, CompleteIntent, session, history, sends
<1>5. CASE UNCHANGED <<maps, pending>>
  <2>1. \A q \in Paths : (HasPending(q)' <=> HasPending(q)) /\ (Mapped(q)' <=> Mapped(q))
    BY <1>5 DEF maps, pending, HasPending, Pending, Mapped
  <2>2. CASE UNCHANGED bridges /\ retained' = retained /\ (controller' = controller \/ ~controller')
    BY <2>1, <2>2 DEF NoMissedWindow, bridges
  <2>3. CASE IntentSucceeds
    BY <2>1, <2>3 DEF NoMissedWindow, IntentSucceeds, session
  <2>4. CASE IntentFails
    BY <2>1, <2>4 DEF NoMissedWindow, IntentFails, session
  <2>5. CASE MainStep
    BY <2>2, <2>5 DEF MainStep, SetBreakpoints, Defer, Take, SyncLayout, SendSucceeds, SendFails,
                      ClearDeferred, session, sends, history
  <2>6. CASE SessionStep
    BY <1>3, <2>2, <2>6 DEF SessionStep, Terminate, DropController, sends, history
  <2>7. CASE UNCHANGED vars
    BY <2>2, <2>7 DEF vars, session, sends, history
  <2>8. CASE OpenWindow
    BY <1>1, <2>8 DEF OpenWindow
  <2>9. CASE UpdateWindow
    <3>1. windows \subseteq Tokens
      BY <1>0 DEF TypeOK
    <3> QED
      BY <1>1, <2>9, <3>1 DEF UpdateWindow
  <2>10. CASE BridgeStep
    BY <1>2, <1>4, <2>3, <2>4, <2>8, <2>9, <2>10 DEF BridgeStep
  <2> QED
    BY <2>5, <2>6, <2>7, <2>10 DEF Next
<1>6. ASSUME NEW src \in Sources, NEW p \in Paths, Defer(src), Names(src, p)
      PROVE  NoMissedWindow'
  <2>1. ~Mapped(p) /\ \A q \in Paths : Mapped(q)' <=> Mapped(q)
    BY <1>0, <1>6, DeferUnmapped DEF Defer, maps, Mapped
  <2>2. \A q \in Paths \ {p} : Pending(q)' = Pending(q)
    BY <1>0, <1>6, NamesReplace DEF Defer
  <2> QED
    BY <1>6, <2>1, <2>2 DEF NoMissedWindow, HasPending, Defer, session, bridges, sends
<1>7. ASSUME ClearDeferred, NEW p \in Paths, Names(request, p)
      PROVE  NoMissedWindow'
  <2>1. \A q \in Paths : Mapped(q)' <=> Mapped(q)
    BY <1>7 DEF ClearDeferred, maps, Mapped
  <2>2. /\ \A q \in Paths \ {p} : Pending(q)' = Pending(q)
        /\ 0 \in Pending(p)' /\ Pending(p)' \subseteq {0, 0}
    BY <1>0, <1>7, NamesReplace DEF ClearDeferred
  <2>3. \A q \in Paths : HasPending(q)' => HasPending(q)
    BY <2>2 DEF HasPending
  <2> QED
    BY <1>7, <2>1, <2>3 DEF NoMissedWindow, ClearDeferred, session, bridges, sends
<1>8. UNCHANGED pending => UNCHANGED maps \/ NoMissedWindow'
  BY <1>0, <1>1, <1>2, <1>3, MapsSteps
<1> QED
  BY <1>0, <1>4, <1>5, <1>6, <1>7, <1>8, PendingSteps

\* The bridge misses no window of a file with deferred lines
\* (NoMissedWindow): it has them in hand, or failed to send them, or there is
\* no interpreter to send them to.
THEOREM WindowsServed == Spec => []NoMissedWindow
<1>1. Init => NoMissedWindow
  BY DEF Init, NoMissedWindow, Mapped
<1>2. Typed /\ MapsInv /\ DeferredInv /\ NoMissedWindow /\ [Next]_vars => NoMissedWindow'
  BY MissedStep
<1> QED
  BY <1>1, <1>2, DeferredCorrect, PTL DEF Spec

-----------------------------------------------------------------------------
(* No answered request is lost.                                            *)

\* An answer with success is about one file.
LEMMA AnswerNames ==
    ASSUME TypeOK, MapsInv, NEW src, NEW p, Names(src, p), NEW id, Answer(src, id)
    PROVE  \A q \in Paths : answered'[q] = IF q = p THEN id ELSE answered[q]
<1>1. \A q \in Paths : q \in PathsOf(src) <=> q = p
  BY NamesFacts
<1> QED
  BY <1>1 DEF Answer

LEMMA NotLostStep ==
    Typed /\ MapsInv /\ DeferredInv /\ DeferredNotLost /\ [Next]_vars => DeferredNotLost'
<1> SUFFICES ASSUME Typed, MapsInv, DeferredInv, DeferredNotLost, [Next]_vars
             PROVE  DeferredNotLost'
  OBVIOUS
<1> USE DEF DeferredInv
<1>0. Typed' /\ MapsInv' /\ TypeOK /\ TypeOK'
  BY TypeStep, MapsStep DEF Typed
<1>1. ~reconnected' => ~reconnected
  <2>1. CASE MainStep
    BY <2>1 DEF MainStep, SetBreakpoints, Defer, Take, SyncLayout, SendSucceeds, SendFails,
                ClearDeferred, history
  <2>2. CASE BridgeStep
    BY <2>2 DEF BridgeStep, OpenWindow, UpdateWindow, ShowWindow, CloseWindow,
                IntentSucceeds, IntentFails, CompleteIntent, history
  <2>3. CASE SessionStep
    BY <2>3 DEF SessionStep, Terminate, DropController, Reconnect, history
  <2> QED
    BY <2>1, <2>2, <2>3 DEF Next, vars, history
<1> SUFFICES ASSUME ~reconnected, NEW q \in Paths, NEW n, n = answered'[q], n # 0
             PROVE  n \in Pending(q)' \/ WasSent(q, n)'
  BY <1>1 DEF DeferredNotLost, WasSent
<1>2. answered[q] = n => n \in Pending(q) \/ WasSent(q, n)'
  BY SentStays DEF DeferredNotLost, WasSent
<1>3. CASE UNCHANGED pending /\ answered' = answered
  <2>1. Pending(q) \subseteq Pending(q)'
    BY <1>0, <1>3, PendingStays
  <2> QED
    BY <1>2, <1>3, <2>1
<1>4. ASSUME NEW src \in Sources, NEW p \in Paths, Defer(src), Names(src, p)
      PROVE  n \in Pending(q)' \/ WasSent(q, n)'
  <2>1. answered'[q] = IF q = p THEN asked + 1 ELSE answered[q]
    BY <1>0, <1>4, AnswerNames DEF Defer
  <2>2. asked + 1 \in Pending(p)' /\ \A z \in Paths \ {p} : Pending(z)' = Pending(z)
    BY <1>0, <1>4, NamesReplace DEF Defer
  <2> QED
    BY <1>2, <2>1, <2>2
<1>5. ASSUME ClearDeferred, NEW p \in Paths, Names(request, p)
      PROVE  n \in Pending(q)' \/ WasSent(q, n)'
  <2>1. answered'[q] = IF q = p THEN request.id ELSE answered[q]
    BY <1>0, <1>5, AnswerNames DEF ClearDeferred
  <2>2. \A z \in Paths \ {p} : Pending(z)' = Pending(z)
    BY <1>0, <1>5, NamesReplace DEF ClearDeferred
  <2>3. WasSent(p, request.id)
    BY <1>5 DEF ClearDeferred, RequestInv
  <2>4. PICK id : id = request.id
    OBVIOUS
  <2>5. WasSent(p, id)'
    BY <2>3, <2>4, SentStays DEF WasSent
  <2> QED
    BY <1>2, <2>1, <2>2, <2>4, <2>5
<1>6. CASE CompleteIntent
  <2>1. PICK f, id : f = intent.path /\ id = intent.id
    OBVIOUS
  <2>2. f \in Paths /\ \A z \in Paths \ {f} : Pending(z)' = Pending(z)
    BY <1>0, <1>6, <2>1, PendingCompleted
  <2>3. answered' = answered /\ bridge = "complete"
    BY <1>6 DEF CompleteIntent, history, asks
  <2>4. WasSent(f, id) /\ Pending(f) \subseteq {0, id}
    BY <2>1, <2>3 DEF IntentInv
  <2>5. WasSent(f, id)'
    BY <2>4, SentStays DEF WasSent
  <2>6. q = f /\ n \in Pending(q) => n = id
    BY <2>3, <2>4
  <2> QED
    BY <1>2, <2>2, <2>3, <2>5, <2>6
<1> QED
  BY <1>0, <1>3, <1>4, <1>5, <1>6, PendingSteps

\* What a client was told is verified has been sent, or is still deferred, as
\* long as nobody reconnects (DeferredNotLost).
THEOREM AnsweredKept == Spec => []DeferredNotLost
<1>1. Init => DeferredNotLost
  BY DEF Init, DeferredNotLost
<1>2. Typed /\ MapsInv /\ DeferredInv /\ DeferredNotLost /\ [Next]_vars => DeferredNotLost'
  BY NotLostStep
<1> QED
  BY <1>1, <1>2, DeferredCorrect, PTL DEF Spec

=============================================================================

---------------------------- MODULE Breakpoints ----------------------------
(***************************************************************************)
(* Source mapping and breakpoints of the DAP adapter,                      *)
(* internal/dap/adapter/server.go.  DAP names a source by its path (or a   *)
(* source reference), RIDE by the token of the window that shows it.  The  *)
(* adapter keeps both views in maps guarded by Server.mu, sends the        *)
(* breakpoints of a mapped source at once and keeps those of an unmapped   *)
(* one until a window shows it.                                            *)
(*                                                                         *)
(* Two goroutines: main executes HandleRequest, one request at a time, and *)
(* the bridge executes HandleRidePayload, one message at a time.  Both     *)
(* release the mutex before they send, so a region under the mutex is one  *)
(* action and a send is another.  The behaviours start when runtime.start  *)
(* has given the server its controller.                                    *)
(*                                                                         *)
(* The lines of a setBreakpoints request are represented by the number of  *)
(* the request, the text of a source by whether there is one.  An absent   *)
(* entry of a Go map is 0, NoPath, NoToken or Unbound here.                *)
(***************************************************************************)
EXTENDS Integers, FiniteSets

CONSTANTS
    Paths,          \* files
    NoPath,         \* the empty file name: a window without a file
    Tokens,         \* valid window tokens (token > 0 in the code)
    NoToken,
    MaxRefs,        \* bound: source references allocated
    MaxRequests,    \* bound: setBreakpoints requests
    MaxFailures,    \* bound: sends that return an error
    MayEnd,         \* whether the session may end and the controller go
    MayReconnect    \* whether someone calls HandleRideReconnect, which no
                    \* code of the repository but the tests does

ASSUME PathsAssumption == NoPath \notin Paths
ASSUME TokensAssumption == NoToken \notin Tokens
ASSUME BoundsAssumption ==
    /\ MaxRefs \in Nat /\ MaxRequests \in Nat /\ MaxFailures \in Nat
    /\ MayEnd \in BOOLEAN /\ MayReconnect \in BOOLEAN

Refs     == 1..MaxRefs
Requests == 1..MaxRequests

VARIABLES
    attached,           \* state = stateAttachedOrLaunched
    controller,         \* rideController is not nil
    sourceByToken, tokenBySourceRef, sourceRefByPath, pathBySourceRef,
    nextSourceRef,
    sourceText,         \* the keys of sourceTextByPath
    pendingByPath, pendingBySourceRef,
    main, request,      \* where main stands, and the request it handles
    bridge, intent,     \* where the bridge stands, and what it has to send
    windows,            \* the windows the interpreter has told of
    asked,              \* history: number of setBreakpoints requests
    answered,           \* history: per path, the last one answered with success
    sent,               \* history: the SetLineAttributes accepted by SendCommand
    retained,           \* history: paths whose last deferred send failed
    reconnected,        \* history: HandleRideReconnect was called
    failures            \* counter for the bound

maps     == <<sourceByToken, tokenBySourceRef, sourceRefByPath,
              pathBySourceRef, nextSourceRef, sourceText>>
pending  == <<pendingByPath, pendingBySourceRef>>
session  == <<attached, controller>>
mains    == <<main, request>>
bridges  == <<bridge, intent>>
asks     == <<asked, answered>>
sends    == <<sent, retained, failures>>
history  == <<asks, sends, reconnected>>
vars     == <<session, maps, pending, mains, bridges, windows, history>>

Unbound   == [path |-> NoPath, ref |-> 0]
NoRequest == [id |-> 0, path |-> NoPath, ref |-> 0, token |-> NoToken]

Binding == [path : Paths, ref : Refs] \cup {Unbound}
Asked   == {m \in [id : Requests, path : Paths \cup {NoPath}, ref : Refs \cup {0},
                  token : Tokens] : m.path = NoPath => m.ref # 0}
Intent  == [id : Requests, path : Paths, ref : Refs, token : Tokens]
Sent    == [id : Requests, path : Paths, token : Tokens]

TypeOK ==
    /\ attached \in BOOLEAN /\ controller \in BOOLEAN
    /\ sourceByToken \in [Tokens -> Binding]
    /\ tokenBySourceRef \in [Refs -> Tokens \cup {NoToken}]
    /\ sourceRefByPath \in [Paths -> Refs \cup {0}]
    /\ pathBySourceRef \in [Refs -> Paths \cup {NoPath}]
    /\ nextSourceRef \in 1..(MaxRefs + 1)
    /\ sourceText \in SUBSET Paths
    /\ pendingByPath \in [Paths -> Requests \cup {0}]
    /\ pendingBySourceRef \in [Refs -> Requests \cup {0}]
    /\ main \in {"idle", "sync", "send", "clear"}
    /\ request \in IF main \in {"send", "clear"} THEN Asked ELSE {NoRequest}
    /\ bridge \in {"idle", "send", "complete"}
    /\ intent \in IF bridge = "idle" THEN {NoRequest} ELSE Intent
    /\ windows \in SUBSET Tokens
    /\ asked \in 0..MaxRequests
    /\ answered \in [Paths -> Requests \cup {0}]
    /\ sent \in SUBSET Sent
    /\ reconnected \in BOOLEAN
    /\ retained \in SUBSET Paths
    /\ failures \in Nat

Init ==
    /\ attached = TRUE /\ controller = TRUE
    /\ sourceByToken = [t \in Tokens |-> Unbound]
    /\ tokenBySourceRef = [r \in Refs |-> NoToken]
    /\ sourceRefByPath = [p \in Paths |-> 0]
    /\ pathBySourceRef = [r \in Refs |-> NoPath]
    /\ nextSourceRef = 1
    /\ sourceText = {}
    /\ pendingByPath = [p \in Paths |-> 0]
    /\ pendingBySourceRef = [r \in Refs |-> 0]
    /\ main = "idle" /\ request = NoRequest
    /\ bridge = "idle" /\ intent = NoRequest
    /\ windows = {}
    /\ asked = 0 /\ answered = [p \in Paths |-> 0]
    /\ sent = {} /\ retained = {} /\ reconnected = FALSE
    /\ failures = 0

-----------------------------------------------------------------------------
(* Binding a window to a source. *)

\* hasActiveTokenForPath
Mapped(p) ==
    /\ p \in Paths
    /\ sourceRefByPath[p] # 0
    /\ tokenBySourceRef[sourceRefByPath[p]] # NoToken
    /\ sourceByToken[tokenBySourceRef[sourceRefByPath[p]]].path = p

RefFor(p) == IF sourceRefByPath[p] # 0 THEN sourceRefByPath[p] ELSE nextSourceRef

\* Whether token t is the one its own binding is registered under.
OwnsRef(t, r) == r = sourceByToken[t].ref /\ tokenBySourceRef[r] = t

Mut_DisplacedBy(t, r) == {}

\* The other token that shows the source r, and loses it to t.
DisplacedBy(t, r) == {tokenBySourceRef[r]} \ {t, NoToken}

Mut_LosesText(p) == FALSE

\* Whether a path that a window left keeps no window.
LosesText(p) == p # NoPath /\ ~Mapped(p)'

\* bindTokenToSource and storeSourceText
ShowSource(t, p, hasText) ==
    LET r == RefFor(p) IN
    IF p = NoPath
    THEN UNCHANGED maps
    ELSE /\ nextSourceRef <= MaxRefs \/ sourceRefByPath[p] # 0
         /\ nextSourceRef' = IF r = nextSourceRef THEN r + 1 ELSE nextSourceRef
         /\ sourceRefByPath' = [sourceRefByPath EXCEPT ![p] = r]
         /\ pathBySourceRef' = [pathBySourceRef EXCEPT ![r] = p]
         /\ tokenBySourceRef' =
                [x \in Refs |-> IF x = r THEN t
                                ELSE IF OwnsRef(t, x) THEN NoToken
                                ELSE tokenBySourceRef[x]]
         /\ sourceByToken' =
                [x \in Tokens |-> IF x = t THEN [path |-> p, ref |-> r]
                                  ELSE IF x \in DisplacedBy(t, r) THEN Unbound
                                  ELSE sourceByToken[x]]
         /\ sourceText' = (sourceText \ {q \in {sourceByToken[t].path} \ {p} : LosesText(q)})
                          \cup (IF hasText THEN {p} ELSE {})

\* unbindToken, what it does to the sources
HideSource(t) ==
    /\ tokenBySourceRef' =
           [x \in Refs |-> IF OwnsRef(t, x) THEN NoToken ELSE tokenBySourceRef[x]]
    /\ sourceByToken' = [sourceByToken EXCEPT ![t] = Unbound]
    /\ UNCHANGED <<sourceRefByPath, pathBySourceRef, nextSourceRef>>
    /\ sourceText' = sourceText \ {q \in {sourceByToken[t].path} : LosesText(q)}

-----------------------------------------------------------------------------
(* Requests: setBreakpoints on the main goroutine. *)

Mut_DeferredFor(b) == pendingByPath[b.path]

\* The deferred lines of a bound source, by reference before by path.
DeferredFor(b) ==
    IF pendingBySourceRef[b.ref] # 0 THEN pendingBySourceRef[b.ref]
                                     ELSE pendingByPath[b.path]

\* A client names a source by its path, by a reference the adapter has
\* allocated, or by both.
Sources ==
    {[path |-> p, ref |-> 0] : p \in Paths} \cup
    {[path |-> NoPath, ref |-> r] : r \in {x \in Refs : pathBySourceRef[x] # NoPath}} \cup
    {[path |-> pathBySourceRef[r], ref |-> r] :
        r \in {x \in Refs : pathBySourceRef[x] # NoPath}}

RefsOf(src) ==
    {src.ref} \cup (IF src.path # NoPath THEN {sourceRefByPath[src.path]} ELSE {})

Mut_PathsOf(src) == {src.path}

PathsOf(src) ==
    {src.path} \cup (IF src.ref # 0 THEN {pathBySourceRef[src.ref]} ELSE {})

\* resolveTokenForSetBreakpoints
TokenFor(src) ==
    LET r == IF src.ref # 0 THEN src.ref ELSE sourceRefByPath[src.path]
    IN IF r # 0 THEN tokenBySourceRef[r] ELSE NoToken

\* clearDeferredBreakpoints, then lines (0: none) under the names in src
Replace(src, lines) ==
    /\ pendingByPath' = [p \in Paths |-> IF p = src.path THEN lines
                                         ELSE IF p \in PathsOf(src) THEN 0
                                         ELSE pendingByPath[p]]
    /\ pendingBySourceRef' = [r \in Refs |-> IF r = src.ref THEN lines
                                             ELSE IF r \in RefsOf(src) THEN 0
                                             ELSE pendingBySourceRef[r]]

Answer(src, id) ==
    answered' = [p \in Paths |-> IF p \in PathsOf(src) THEN id ELSE answered[p]]

Ask ==
    /\ main = "idle"
    /\ attached /\ controller
    /\ asked < MaxRequests
    /\ asked' = asked + 1

\* setBreakpoints for a source no window shows.
Defer(src) ==
    /\ Ask
    /\ TokenFor(src) = NoToken
    /\ Replace(src, asked + 1)
    /\ Answer(src, asked + 1)
    /\ main' = "sync"
    /\ UNCHANGED <<session, maps, request, bridges, windows, sends, reconnected>>

\* requestWindowLayoutSync: GetWindowLayout, whatever becomes of it.
SyncLayout ==
    /\ main = "sync"
    /\ main' = "idle"
    /\ UNCHANGED <<session, maps, pending, request, bridges, windows, history>>

\* setBreakpoints for a source a window shows: the token is read under the mutex.
Take(src) ==
    /\ Ask
    /\ TokenFor(src) # NoToken
    /\ request' = [id |-> asked + 1, path |-> src.path, ref |-> src.ref,
                   token |-> TokenFor(src)]
    /\ main' = "send"
    /\ UNCHANGED <<session, maps, pending, bridges, windows, answered, sends,
                   reconnected>>

SetBreakpoints == \E src \in Sources : Defer(src) \/ Take(src)

SendError == failures < MaxFailures /\ failures' = failures + 1

\* What history remembers of a SetLineAttributes: the file, not how it was named.
Sending(m) ==
    [id |-> m.id, token |-> m.token,
     path |-> IF m.path # NoPath THEN m.path ELSE pathBySourceRef[m.ref]]

SendSucceeds ==
    /\ main = "send"
    /\ sent' = sent \cup {Sending(request)}
    /\ main' = "clear"
    /\ UNCHANGED <<session, maps, pending, request, bridges, windows, asks,
                   retained, failures, reconnected>>

Mut_SendFails ==
    /\ main = "send"
    /\ SendError
    /\ Replace(request, 0)
    /\ main' = "idle" /\ request' = NoRequest
    /\ UNCHANGED <<session, maps, bridges, windows, asks, sent, retained, reconnected>>

SendFails ==
    /\ main = "send"
    /\ SendError
    /\ main' = "idle" /\ request' = NoRequest
    /\ UNCHANGED <<session, maps, pending, bridges, windows, asks, sent,
                   retained, reconnected>>

\* setBreakpoints takes the mutex again, and answers.
ClearDeferred ==
    /\ main = "clear"
    /\ Replace(request, 0)
    /\ Answer(request, request.id)
    /\ main' = "idle" /\ request' = NoRequest
    /\ UNCHANGED <<session, maps, bridges, windows, asked, sends, reconnected>>

-----------------------------------------------------------------------------
(* Payloads: the bridge goroutine. *)

Mut_IntentFor(t) ==
    LET b == sourceByToken[t] IN
    IF controller /\ b # Unbound
    THEN [id |-> DeferredFor(b), path |-> b.path, ref |-> b.ref, token |-> t]
    ELSE NoRequest

\* collectDeferredBreakpointIntentLocked
IntentFor(t) ==
    LET b == sourceByToken[t] IN
    IF controller /\ b # Unbound /\ DeferredFor(b) # 0
    THEN [id |-> DeferredFor(b), path |-> b.path, ref |-> b.ref, token |-> t]
    ELSE NoRequest

Collect(t) ==
    /\ intent' = IntentFor(t)'
    /\ bridge' = IF intent' = NoRequest THEN "idle" ELSE "send"

\* OpenWindow and UpdateWindow do the same to the sources.
ShowWindow(t, p, hasText) ==
    /\ bridge = "idle"
    /\ ShowSource(t, p, hasText)
    /\ UNCHANGED <<session, pending, mains, asks, sent, failures, reconnected>>
    /\ Collect(t)
    /\ retained' = retained \ {intent'.path}

OpenWindow ==
    \E t \in Tokens \ windows, p \in Paths \cup {NoPath}, hasText \in BOOLEAN :
        ShowWindow(t, p, hasText) /\ windows' = windows \cup {t}

UpdateWindow ==
    \E t \in windows, p \in Paths \cup {NoPath}, hasText \in BOOLEAN :
        ShowWindow(t, p, hasText) /\ UNCHANGED windows

CloseWindow(t) ==
    /\ bridge = "idle"
    /\ t \in windows
    /\ windows' = windows \ {t}
    /\ HideSource(t)
    /\ UNCHANGED <<session, pending, mains, bridges, history>>

\* executeOutboundIntents, outside the mutex
IntentSucceeds ==
    /\ bridge = "send"
    /\ sent' = sent \cup {Sending(intent)}
    /\ bridge' = "complete"
    /\ UNCHANGED <<session, maps, pending, mains, intent, windows, asks,
                   retained, failures, reconnected>>

IntentFails ==
    /\ bridge = "send"
    /\ SendError
    /\ retained' = retained \cup {intent.path}
    /\ bridge' = "idle" /\ intent' = NoRequest
    /\ UNCHANGED <<session, maps, pending, mains, windows, asks, sent, reconnected>>

\* executeOutboundIntents takes the mutex again.
CompleteIntent ==
    /\ bridge = "complete"
    /\ pendingByPath' = [pendingByPath EXCEPT ![intent.path] = 0]
    /\ pendingBySourceRef' = [pendingBySourceRef EXCEPT ![intent.ref] = 0]
    /\ bridge' = "idle" /\ intent' = NoRequest
    /\ UNCHANGED <<session, maps, mains, windows, history>>

-----------------------------------------------------------------------------
(* The session. *)

\* Disconnect, SysError or InternalError, or main's disconnect request.
Terminate ==
    /\ MayEnd /\ attached
    /\ bridge = "idle" \/ main = "idle"
    /\ attached' = FALSE
    /\ UNCHANGED <<controller, maps, pending, mains, bridges, windows, history>>

\* runtime.stop: SetRideController(nil), on the main goroutine
DropController ==
    /\ MayEnd /\ controller
    /\ main = "idle"
    /\ controller' = FALSE
    /\ UNCHANGED <<attached, maps, pending, mains, bridges, windows, history>>

\* HandleRideReconnect, by a goroutine of its caller: references and deferred
\* breakpoints stay.
Reconnect ==
    /\ MayReconnect
    /\ attached' = TRUE
    /\ sourceByToken' = [t \in Tokens |-> Unbound]
    /\ tokenBySourceRef' = [r \in Refs |-> NoToken]
    /\ sourceText' = {}
    /\ windows' = {}
    /\ reconnected' = TRUE
    /\ UNCHANGED <<controller, sourceRefByPath, pathBySourceRef, nextSourceRef,
                   pending, mains, bridges, asks, sends>>

-----------------------------------------------------------------------------
MainStep == SetBreakpoints \/ SyncLayout \/ SendSucceeds \/ SendFails \/ ClearDeferred

BridgeStep ==
    \/ OpenWindow \/ UpdateWindow \/ \E t \in Tokens : CloseWindow(t)
    \/ IntentSucceeds \/ IntentFails \/ CompleteIntent

SessionStep == Terminate \/ DropController \/ Reconnect

Next == MainStep \/ BridgeStep \/ SessionStep

Spec == Init /\ [][Next]_vars

-----------------------------------------------------------------------------
(* Properties. *)

\* The two views of the windows agree, over rebinding a window to another file,
\* two windows on one file, closing and reconnecting: a token is registered
\* under the reference of its own binding and no other, and references and
\* paths are each other's inverse.
MapsAgree ==
    /\ \A t \in Tokens : sourceByToken[t] # Unbound =>
          /\ tokenBySourceRef[sourceByToken[t].ref] = t
          /\ pathBySourceRef[sourceByToken[t].ref] = sourceByToken[t].path
    /\ \A r \in Refs : tokenBySourceRef[r] # NoToken =>
          sourceByToken[tokenBySourceRef[r]].ref = r
    /\ \A p \in Paths, r \in Refs : sourceRefByPath[p] = r <=> pathBySourceRef[r] = p

\* The text of a file is kept only while a window shows the file, so that a
\* source request after that is answered from the disk.
TextOnlyWhileMapped == \A p \in sourceText : Mapped(p)

\* The deferred lines of a file, whichever name they are kept under.
Pending(p) ==
    {pendingByPath[p]} \cup
    (IF sourceRefByPath[p] # 0 THEN {pendingBySourceRef[sourceRefByPath[p]]} ELSE {})

\* A file has at most one set of deferred lines, whether clients name it by
\* path, by reference or by both: the latest replaces the others.
OnePendingSet == \A p \in Paths : Cardinality(Pending(p) \ {0}) <= 1

HasPending(p) == Pending(p) # {0}

\* No window of a file with deferred lines is missed: the bridge is about to
\* send them, or tried and failed, or had no controller.
NoMissedWindow ==
    \A p \in Paths : HasPending(p) /\ Mapped(p) =>
        (bridge # "idle" /\ intent.path = p) \/ p \in retained \/ ~controller

\* The lines of the last setBreakpoints that was answered with success have
\* been sent or are still deferred, over failed sends, windows that come and
\* go, and both goroutines removing deferred lines after their own send.  Only
\* a reconnect between the two steps of the bridge can lose newer lines.
DeferredNotLost ==
    ~reconnected => \A p \in Paths : answered[p] # 0 =>
        answered[p] \in Pending(p) \/ \E m \in sent : m.path = p /\ m.id = answered[p]

\* A source reference, once allocated, names the same file for the rest of the
\* session (docs/traceability/assumptions.md), reconnects included.
RefsStable ==
    [][\A r \in Refs : pathBySourceRef[r] # NoPath =>
          pathBySourceRef'[r] = pathBySourceRef[r]]_vars

-----------------------------------------------------------------------------
(* What the documentation says, and the code does not guarantee.           *)

\* docs/prs/17.md: "latest deferred breakpoint set replaces prior deferred set
\* for the same source identity": lines are not sent after later ones.
NoOldAfterNew ==
    [][\A m \in sent' \ sent, n \in sent : n.path = m.path => n.id <= m.id]_vars

=============================================================================

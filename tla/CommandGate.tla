---------------------------- MODULE CommandGate ----------------------------
(***************************************************************************)
(* What Dispatcher.SendCommand (internal/ride/sessionstate/dispatcher.go)  *)
(* promises its callers about the commands they pass, without saying when  *)
(* or by which goroutine they are written.  A command taken by SendCommand *)
(* is held until it is written to the transport, refused (the write failed *)
(* and SendCommand returns the error) or dropped.  Before a fatal signal   *)
(* only Execute commands may be dropped.                                   *)
(***************************************************************************)
EXTENDS Naturals

VARIABLES held, written, refused, cancelled, fatal

vars == <<held, written, refused, cancelled, fatal>>

Known == held \cup written \cup refused \cup cancelled

Init == held = {} /\ written = {} /\ refused = {} /\ cancelled = {} /\ fatal = FALSE

Accept ==
    \E c \in held' :
        /\ \A d \in Known : d.id # c.id
        /\ held' = held \cup {c}
        /\ UNCHANGED <<written, refused, cancelled, fatal>>

Write ==
    \E c \in held :
        /\ held' = held \ {c}
        /\ written' = written \cup {c}
        /\ UNCHANGED <<refused, cancelled, fatal>>

Refuse ==
    \E c \in held :
        /\ held' = held \ {c}
        /\ refused' = refused \cup {c}
        /\ UNCHANGED <<written, cancelled, fatal>>

\* HadError
DropExecutes ==
    \E S \in SUBSET {c \in held : c.name = "Execute"} :
        /\ held' = held \ S
        /\ cancelled' = cancelled \cup S
        /\ UNCHANGED <<written, refused, fatal>>

\* Disconnect, SysError, InternalError
DropAny ==
    /\ fatal' = TRUE
    /\ \E S \in SUBSET held :
        /\ held' = held \ S
        /\ cancelled' = cancelled \cup S
        /\ UNCHANGED <<written, refused>>

Next == Accept \/ Write \/ Refuse \/ DropExecutes \/ DropAny

Spec == Init /\ [][Next]_vars

=============================================================================

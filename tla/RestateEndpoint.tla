-------------------------- MODULE RestateEndpoint --------------------------
(***************************************************************************)
(* The HTTP/2 server through which Restate calls the workflow.  When the   *)
(* API stops, the server accepts nobody any more and asks the sessions it  *)
(* has to close, which they do after the calls they carry; five seconds    *)
(* later it ends those that have not.  A call that is cut off is made      *)
(* again elsewhere (ShowtimeWorkflow).                                     *)
(***************************************************************************)
EXTENDS FiniteSets

CONSTANTS Connection

VARIABLES
    server,      \* "new", "listening", "failed", "closing" or "stopped"
    sessions,    \* the set the endpoint keeps
    closing,     \* sessions that were asked to close: they take no more calls
    calls,       \* sessions with a call under way, which may never end
    elapsed      \* the five seconds are over

vars == <<server, sessions, closing, calls, elapsed>>

TypeOK ==
    /\ server \in {"new", "listening", "failed", "closing", "stopped"}
    /\ calls \subseteq sessions /\ closing \subseteq sessions /\ sessions \subseteq Connection
    /\ elapsed \in BOOLEAN

Init ==
    /\ server = "new" /\ elapsed = FALSE
    /\ sessions = {} /\ closing = {} /\ calls = {}

\* onApplicationBootstrap: listening, or an error, and the API does not start
Bootstrap ==
    /\ server = "new" /\ server' \in {"listening", "failed"}
    /\ UNCHANGED <<sessions, closing, calls, elapsed>>

Connect(s) ==
    /\ server = "listening" /\ s \notin sessions
    /\ sessions' = sessions \union {s}
    /\ UNCHANGED <<server, closing, calls, elapsed>>

Call(s) ==
    /\ s \in sessions \ closing
    /\ calls' = calls \union {s}
    /\ UNCHANGED <<server, sessions, closing, elapsed>>

Return(s) ==
    /\ s \in calls /\ calls' = calls \ {s}
    /\ UNCHANGED <<server, sessions, closing, elapsed>>

\* 'close': after the last call of a session that is closing, or the peer left
Close(s) ==
    /\ s \in sessions
    /\ sessions' = sessions \ {s} /\ closing' = closing \ {s} /\ calls' = calls \ {s}
    /\ UNCHANGED <<server, elapsed>>

\* onApplicationShutdown
Shutdown ==
    /\ server = "listening" /\ server' = "closing"
    /\ closing' = sessions
    /\ UNCHANGED <<sessions, calls, elapsed>>

\* forceClose ends all that are left
ForceClose ==
    /\ server = "closing" /\ ~elapsed /\ elapsed' = TRUE
    /\ sessions' = {} /\ closing' = {} /\ calls' = {}
    /\ UNCHANGED server

\* server.close calls back when no connection is left
Closed ==
    /\ server = "closing" /\ sessions = {}
    /\ server' = "stopped"
    /\ UNCHANGED <<sessions, closing, calls, elapsed>>

Next ==
    \/ Bootstrap \/ Shutdown \/ ForceClose \/ Closed
    \/ \E s \in Connection : Connect(s) \/ Call(s) \/ Return(s) \/ Close(s)

\* idle sessions close when they were asked to, the timer fires, and close
\* calls back; nobody promises that a call returns
Fairness ==
    /\ WF_vars(ForceClose) /\ WF_vars(Closed)
    /\ \A s \in Connection : WF_vars(s \in closing \ calls /\ Close(s))

Spec == Init /\ [][Next]_vars /\ Fairness

-----------------------------------------------------------------------------
\* The shutdown of the API (onApplicationShutdown) does not wait for ever for a
\* call that is under way.
ShutdownEnds == server = "closing" ~> server = "stopped"
=============================================================================

--------------------------- MODULE ServiceLifecycle -------------------------
(***************************************************************************)
(* The life of a process: it connects to MongoDB, works on accounts, and   *)
(* ends on a signal.  The logger's handlers of SIGINT and SIGTERM exit as  *)
(* soon as the logs are flushed; connect() installs one more handler of    *)
(* SIGINT, which closes the connection first.  All handlers of a signal    *)
(* run side by side, and the first to be done ends the process.            *)
(***************************************************************************)
EXTENDS AccountOperations

CONSTANT Restarts    \* bounds how often the process is started again

ASSUME RestartsAssumption == Restarts \in Nat

VARIABLES
    process,     \* what the process is at
    handlers,    \* the signal handlers under way
    restarts

processVars == <<process, handlers, restarts>>
lifecycleVars == <<accounts, reason, session, held, changes, ledger, exposed, muddled,
                   process, handlers, restarts>>

LifecycleTypeOK ==
    /\ OperationsTypeOK
    /\ process \in {"starting", "connected", "closed", "exited"}
    /\ handlers \subseteq {"flushLogs", "disconnect"}
    /\ restarts \in Nat

LifecycleInit ==
    /\ OperationsInit
    /\ process = "starting"
    /\ handlers = {}
    /\ restarts = 0

\* A connect that fails throws, and may be tried again.
Connect ==
    /\ process = "starting"
    /\ process' = "connected"
    /\ UNCHANGED <<operationVars, handlers, restarts>>

Work == process = "connected" /\ Operate /\ UNCHANGED processVars

\* The handlers installed for a signal: connect() has run to its end or not.
HandlersOf(signal) ==
    IF signal = "SIGINT" /\ process # "starting" THEN {"flushLogs", "disconnect"}
                                                 ELSE {"flushLogs"}

Signal(signal) ==
    /\ process # "exited"
    /\ handlers' = handlers \cup HandlersOf(signal)
    /\ UNCHANGED <<operationVars, process, restarts>>

\* connection.close() is answered.
CloseConnection ==
    /\ "disconnect" \in handlers
    /\ process = "connected"
    /\ process' = "closed"
    /\ EndSessions
    /\ UNCHANGED <<handlers, restarts>>

Exit ==
    /\ process' = "exited"
    /\ handlers' = {}
    /\ Abandon
    /\ UNCHANGED restarts

\* Mutant: the handler leaves the exit to the other one.
FlushOnly ==
    /\ "flushLogs" \in handlers
    /\ process # "exited"
    /\ handlers' = handlers \ {"flushLogs"}
    /\ UNCHANGED <<operationVars, process, restarts>>

ExitWhenFlushed == "flushLogs" \in handlers /\ process # "exited" /\ Exit

\* After the close, or when it fails: disconnect throws, and a rejection that
\* nobody handles ends the process too.
ExitWhenDisconnected == "disconnect" \in handlers /\ process # "exited" /\ Exit

Restart ==
    /\ process = "exited"
    /\ restarts < Restarts
    /\ process' = "starting"
    /\ restarts' = restarts + 1
    /\ UNCHANGED <<operationVars, handlers>>

ServerExpires == (\E s \in Sessions : Expire(s)) /\ UNCHANGED processVars

Ended == process = "exited" /\ UNCHANGED lifecycleVars

LifecycleNext ==
    \/ Connect \/ Work
    \/ \E signal \in {"SIGINT", "SIGTERM"} : Signal(signal)
    \/ CloseConnection \/ ExitWhenFlushed \/ ExitWhenDisconnected
    \/ Restart \/ ServerExpires \/ Ended

\* Flushing calls back (the destinations are local streams); the close of a
\* connection may hang, and the server is trusted with nothing.
LifecycleSpec ==
    LifecycleInit /\ [][LifecycleNext]_lifecycleVars /\ WF_lifecycleVars(ExitWhenFlushed)

-----------------------------------------------------------------------------
(* Properties.                                                             *)

\* Once a signal has come the process ends, even if the connection never
\* closes: each handler exits on its own.
SignalEndsProcess == handlers # {} ~> process = "exited"
=============================================================================

----------------------------- MODULE ServerLife -----------------------------
(***************************************************************************)
(* The life of one server process: start(), connections and the requests   *)
(* on them, the cleanup timer, and shutdown on a signal.                   *)
(*                                                                         *)
(* A connection carries one request after the other.  Node stops accepting *)
(* connections at server.close, drops the idle ones, and calls back when   *)
(* the last is gone; one that was busy may carry a further request before. *)
(*                                                                         *)
(* A definition commented "Mutant" is used by no other: it is a plausible  *)
(* mistake in the definition that follows.                                 *)
(***************************************************************************)
CONSTANTS
  Conns,     \* connections (bound: how many at once)
  Signals    \* SIGTERM and SIGINT (bound: each comes once)

VARIABLES
  phase,        \* of start(): "redis", "database", "up"; or "exited"
  code,         \* "none" until the process exits, then its exit code
  interval,     \* invitationCleanupInterval is set and runs
  cleaning,     \* a cleanup is under way
  conn,         \* connections: free, idle, busy
  signalled,    \* signals delivered
  closer,       \* per signal, what its shutdown() waits for, if anything
  armed         \* a forced exit is scheduled

lvars == <<phase, code, interval, cleaning, conn, signalled, closer, armed>>
process == <<phase, code>>
jobs == <<interval, cleaning>>
stopping == <<signalled, closer, armed>>

LInit ==
  /\ phase = "redis"
  /\ code = "none"
  /\ interval = FALSE
  /\ cleaning = FALSE
  /\ conn = [c \in Conns |-> "free"]
  /\ signalled = {}
  /\ closer = [s \in Signals |-> "none"]
  /\ armed = FALSE

Running == phase # "exited"

Exit(n) ==
  /\ phase' = "exited"
  /\ code' = n
  /\ UNCHANGED <<jobs, conn, stopping>>

\* server.close has been called.
Closing == \E s \in Signals : closer[s] # "none"

-----------------------------------------------------------------------------
(* start().                                                                *)

ConnectRedis ==
  /\ phase = "redis"
  /\ phase' = "database"
  /\ UNCHANGED <<code, jobs, conn, stopping>>

\* $connect answers: listen, clean up once, set the timer.
Listen ==
  /\ phase = "database"
  /\ phase' = "up"
  /\ interval' = TRUE
  /\ cleaning' = TRUE
  /\ UNCHANGED <<code, conn, stopping>>

StartFails ==
  /\ phase \in {"redis", "database"}
  /\ Exit("1")

\* unhandledRejection, or the process is killed.
Crash == Running /\ Exit("1")

-----------------------------------------------------------------------------
(* The cleanup job.                                                        *)

TimerFires ==
  /\ phase = "up" /\ interval
  /\ cleaning' = TRUE
  /\ UNCHANGED <<process, interval, conn, stopping>>

\* Its failure is caught and logged: shutdown waits for no cleanup, and may
\* disconnect the database under one.
CleanupEnds ==
  /\ phase = "up" /\ cleaning
  /\ cleaning' = FALSE
  /\ UNCHANGED <<process, interval, conn, stopping>>

-----------------------------------------------------------------------------
(* Connections.                                                            *)

Connect(c) ==
  /\ phase = "up" /\ ~Closing
  /\ conn[c] = "free"
  /\ conn' = [conn EXCEPT ![c] = "busy"]
  /\ UNCHANGED <<process, jobs, stopping>>

NextRequest(c) ==
  /\ phase = "up"
  /\ conn[c] = "idle"
  /\ conn' = [conn EXCEPT ![c] = "busy"]
  /\ UNCHANGED <<process, jobs, stopping>>

Answer(c) ==
  /\ phase = "up"
  /\ conn[c] = "busy"
  /\ conn' = [conn EXCEPT ![c] = "idle"]
  /\ UNCHANGED <<process, jobs, stopping>>

\* The client leaves, or an idle connection times out.
HangUp(c) ==
  /\ phase = "up"
  /\ conn[c] # "free"
  /\ conn' = [conn EXCEPT ![c] = "free"]
  /\ UNCHANGED <<process, jobs, stopping>>

-----------------------------------------------------------------------------
(* shutdown(signal).                                                       *)

\* Mutants: the timer is left alone; nothing forces the exit.
SignalWithTimer(s) ==
  /\ Running
  /\ s \notin signalled
  /\ signalled' = signalled \cup {s}
  /\ IF phase = "up"
     THEN /\ closer' = [closer EXCEPT ![s] = "close"]
          /\ armed' = TRUE
          /\ conn' = [c \in Conns |-> IF conn[c] = "idle" THEN "free" ELSE conn[c]]
     ELSE UNCHANGED <<closer, armed, conn>>
  /\ UNCHANGED <<process, jobs>>
SignalUnforced(s) ==
  /\ Running
  /\ s \notin signalled
  /\ signalled' = signalled \cup {s}
  /\ interval' = FALSE
  /\ IF phase = "up"
     THEN /\ closer' = [closer EXCEPT ![s] = "close"]
          /\ conn' = [c \in Conns |-> IF conn[c] = "idle" THEN "free" ELSE conn[c]]
     ELSE UNCHANGED <<closer, conn>>
  /\ UNCHANGED <<process, cleaning, armed>>

\* Before listen there is no server to close, and that is all: start() goes on.
Signal(s) ==
  /\ Running
  /\ s \notin signalled
  /\ signalled' = signalled \cup {s}
  /\ interval' = FALSE
  /\ IF phase = "up"
     THEN /\ closer' = [closer EXCEPT ![s] = "close"]
          /\ armed' = TRUE
          /\ conn' = [c \in Conns |-> IF conn[c] = "idle" THEN "free" ELSE conn[c]]
     ELSE UNCHANGED <<closer, armed, conn>>
  /\ UNCHANGED <<process, cleaning>>

\* Mutant: the callback does not wait for connections.
ClosedAtOnce(s) ==
  /\ phase = "up"
  /\ closer[s] = "close"
  /\ closer' = [closer EXCEPT ![s] = "database"]
  /\ UNCHANGED <<process, jobs, conn, signalled, armed>>

\* The callback of server.close.
Closed(s) ==
  /\ phase = "up"
  /\ closer[s] = "close"
  /\ \A c \in Conns : conn[c] = "free"
  /\ closer' = [closer EXCEPT ![s] = "database"]
  /\ UNCHANGED <<process, jobs, conn, signalled, armed>>

DisconnectDatabase(s) ==
  /\ phase = "up"
  /\ closer[s] = "database"
  /\ closer' = [closer EXCEPT ![s] = "redis"]
  /\ UNCHANGED <<process, jobs, conn, signalled, armed>>

DisconnectRedis(s) ==
  /\ phase = "up"
  /\ closer[s] = "redis"
  /\ Exit("0")

\* Disconnecting fails, as it may when a second signal does it again.
DisconnectFails(s) ==
  /\ phase = "up"
  /\ closer[s] \in {"database", "redis"}
  /\ Exit("1")

ForceExit ==
  /\ phase = "up"
  /\ armed
  /\ Exit("1")

-----------------------------------------------------------------------------

LNext ==
  \/ ConnectRedis \/ Listen \/ StartFails \/ Crash
  \/ TimerFires \/ CleanupEnds
  \/ \E c \in Conns : Connect(c) \/ NextRequest(c) \/ Answer(c) \/ HangUp(c)
  \/ \E s \in Signals : \/ Signal(s) \/ Closed(s) \/ DisconnectDatabase(s)
                        \/ DisconnectRedis(s) \/ DisconnectFails(s)
  \/ ForceExit

LSpec == LInit /\ [][LNext]_lvars

\* Connecting comes to an end and timers fire; nothing is assumed of clients,
\* handlers or the closing of connections.
FairLSpec ==
  LSpec /\ WF_lvars(ConnectRedis) /\ WF_lvars(Listen) /\ WF_lvars(ForceExit)

\* The parts of a process have their types.
LTypeOK ==
  /\ phase \in {"redis", "database", "up", "exited"}
  /\ code \in {"none", "0", "1"}
  /\ interval \in BOOLEAN /\ cleaning \in BOOLEAN
  /\ conn \in [Conns -> {"free", "idle", "busy"}]
  /\ signalled \subseteq Signals
  /\ closer \in [Signals -> {"none", "close", "database", "redis"}]
  /\ armed \in BOOLEAN

\* The database is disconnected, and the process exits with success, only when
\* no client waits for an answer, also when signals come twice.
NobodyWaitsAtTheEnd ==
  code = "0" \/ (\E s \in Signals : closer[s] \in {"database", "redis"}) =>
    \A c \in Conns : conn[c] = "free"

\* A process that closes its server had one, has no timer and will be made to
\* exit: what the other properties rely on, whatever order signals come in.
LInv ==
  /\ LTypeOK
  /\ NobodyWaitsAtTheEnd
  /\ code # "none" => phase = "exited"
  /\ Closing => phase \in {"up", "exited"} /\ ~interval /\ armed

\* A signal that finds a server ends the process, though requests hang and
\* connections stay open ("Force exit after 10 seconds").
ClosingServersEnd == Closing ~> phase = "exited"

\* server.js: "Handles graceful shutdown on SIGTERM / SIGINT".  Any signal
\* ends the process in the end.
SignalsEndTheProcess == signalled # {} ~> phase = "exited"
=============================================================================

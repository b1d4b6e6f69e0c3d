------------------------------ MODULE Lifecycle ------------------------------
(***************************************************************************)
(* The process from start to exit: main builds the application step by     *)
(* step, spawns the task that watches for signals, serves, drains and      *)
(* stops (src/src/main.rs, src/src/app.rs).  Three kinds of tasks run      *)
(* beside main: the watcher, the refresher of a ranked decider, and one    *)
(* per connection.  They meet in one cancellation token and in the         *)
(* refresher's JoinSet.                                                    *)
(*                                                                         *)
(* Signals, the executor's abort and axum's graceful shutdown are library  *)
(* code, modelled from how the source uses them.  A client sends one       *)
(* request on its connection.                                              *)
(***************************************************************************)
EXTENDS Naturals, Sequences, FiniteSets

CONSTANTS
  Clients,     \* connections
  Ranked,      \* TRUE when the configured decider owns a refresher
  MaxSignals   \* bound: SIGINT and SIGTERM sent to the process

ASSUME ClientsAssumption == IsFiniteSet(Clients)
ASSUME BoundsAssumption  == Ranked \in BOOLEAN /\ MaxSignals \in Nat

VARIABLES
  main,       \* where main is: a step of the build, or a phase after it
  exit,       \* how the process ended, "no" while it runs
  token,      \* TRUE once the cancellation token is cancelled
  watched,    \* the signals that have a handler instead of killing the process
  watcher,    \* the task watch_for_shutdown
  pending,    \* TRUE when a watched signal arrived that the watcher has not seen
  refresher,  \* the refresher's task
  due,        \* TRUE when the refresher's ticker has a tick to deliver
  aborted,    \* TRUE once the JoinSet has aborted its tasks
  conn,       \* conn[c]: the connection of client c
  signals     \* signals sent so far

vars == <<main, exit, token, watched, watcher, pending, refresher, due, aborted,
          conn, signals>>

Kinds == {"SIGINT", "SIGTERM"}

\* The fallible steps of the build, in order, and what follows them; "decider"
\* spawns the refresher.
BuildSteps == <<"settings", "client", "upstreams", "decider", "collector",
                "pipeline", "cors", "bind", "spawn">>

Phases == {BuildSteps[i] : i \in DOMAIN BuildSteps}
            \cup {"serve", "drain", "served", "stopping", "stopped",
                  "broken", "failing", "failed"}

Up == exit = "no"

\* A request is being read or answered.
InFlight(c)   == conn[c] \in {"reading", "handling"}
RefresherGone == refresher \in {"none", "gone"}

-----------------------------------------------------------------------------
(* main *)

Init ==
  /\ main = "settings"
  /\ exit = "no"
  /\ token = FALSE
  /\ watched = {}
  /\ watcher = "none"
  /\ pending = FALSE
  /\ refresher = "none"
  /\ due = TRUE
  /\ aborted = FALSE
  /\ conn = [c \in Clients |-> "none"]
  /\ signals = 0

StepNumber == CHOOSE i \in DOMAIN BuildSteps : BuildSteps[i] = main
Building   == \E i \in DOMAIN BuildSteps : BuildSteps[i] = main /\ main # "spawn"

BuildStep ==
  /\ Up /\ Building
  /\ main' = BuildSteps[StepNumber + 1]
  /\ refresher' = IF main = "decider" /\ Ranked THEN "starting" ELSE refresher
  /\ UNCHANGED <<exit, token, watched, watcher, pending, due, aborted, conn, signals>>

\* Mutation: the refresher is a task of its own, outside of the JoinSet.
BuildFailsDetached ==
  /\ Up /\ Building
  /\ main' = "failed"
  /\ UNCHANGED <<exit, token, watched, watcher, pending, refresher, due, aborted,
                 conn, signals>>

\* Any step may fail; the JoinSet is dropped with the rest and aborts its tasks.
BuildFails ==
  /\ Up /\ Building
  /\ main' = "failed"
  /\ aborted' = TRUE
  /\ UNCHANGED <<exit, token, watched, watcher, pending, refresher, due, conn, signals>>

SpawnWatcher ==
  /\ Up /\ main = "spawn"
  /\ main' = "serve"
  /\ watcher' = "spawned"
  /\ UNCHANGED <<exit, token, watched, pending, refresher, due, aborted, conn, signals>>

\* The accept loop sees the token: the listener is closed, idle connections
\* too. Reading and handling go on.
Drain ==
  /\ Up /\ main = "serve" /\ token
  /\ main' = "drain"
  /\ conn' = [c \in Clients |-> IF conn[c] \in {"queued", "idle"} THEN "refused"
                                ELSE conn[c]]
  /\ UNCHANGED <<exit, token, watched, watcher, pending, refresher, due, aborted, signals>>

\* Mutation: the server does not wait for the requests in flight.
DrainedAtOnce ==
  /\ Up /\ main = "drain"
  /\ main' = "served"
  /\ UNCHANGED <<exit, token, watched, watcher, pending, refresher, due, aborted,
                 conn, signals>>

Drained ==
  /\ Up /\ main = "drain"
  /\ \A c \in Clients : ~InFlight(c)
  /\ main' = "served"
  /\ UNCHANGED <<exit, token, watched, watcher, pending, refresher, due, aborted,
                 conn, signals>>

\* The server future returns an error; the connections' tasks live on.
ServerFails ==
  /\ Up /\ main \in {"serve", "drain"}
  /\ main' = "broken"
  /\ UNCHANGED <<exit, token, watched, watcher, pending, refresher, due, aborted,
                 conn, signals>>

\* Mutation: the server's error is lost.
StopForgetsError ==
  /\ Up /\ main \in {"served", "broken"}
  /\ token' = TRUE
  /\ aborted' = TRUE
  /\ main' = "stopping"
  /\ UNCHANGED <<exit, watched, watcher, pending, refresher, due, conn, signals>>

\* shutdown.cancel(), whichever way the server ended; tasks.shutdown() aborts ...
Stop ==
  /\ Up /\ main \in {"served", "broken"}
  /\ token' = TRUE
  /\ aborted' = TRUE
  /\ main' = IF main = "served" THEN "stopping" ELSE "failing"
  /\ UNCHANGED <<exit, watched, watcher, pending, refresher, due, conn, signals>>

\* Mutation: the JoinSet is dropped, which aborts its tasks and waits for none.
StoppedAtOnce ==
  /\ Up /\ main \in {"stopping", "failing"}
  /\ main' = IF main = "stopping" THEN "stopped" ELSE "failed"
  /\ UNCHANGED <<exit, token, watched, watcher, pending, refresher, due, aborted,
                 conn, signals>>

\* ... and waits.
Stopped ==
  /\ Up /\ main \in {"stopping", "failing"}
  /\ RefresherGone
  /\ main' = IF main = "stopping" THEN "stopped" ELSE "failed"
  /\ UNCHANGED <<exit, token, watched, watcher, pending, refresher, due, aborted,
                 conn, signals>>

\* main returns, or calls exit(1).
Exit ==
  /\ Up /\ main \in {"stopped", "failed"}
  /\ exit' = IF main = "stopped" THEN "clean" ELSE "error"
  /\ UNCHANGED <<main, token, watched, watcher, pending, refresher, due, aborted,
                 conn, signals>>

-----------------------------------------------------------------------------
(* watch_for_shutdown, and who sends signals *)

\* Mutation: the watcher waits as soon as it has one handler.
WatchOne(kind) ==
  /\ Up /\ watcher = "spawned"
  /\ watched' = {kind}
  /\ watcher' = "watching"
  /\ UNCHANGED <<main, exit, token, pending, refresher, due, aborted, conn, signals>>

\* The first poll of the select registers one handler after the other.
Watch(kind) ==
  /\ Up /\ watcher = "spawned"
  /\ kind \notin watched
  /\ watched' = watched \cup {kind}
  /\ watcher' = IF watched' = Kinds THEN "watching" ELSE "spawned"
  /\ UNCHANGED <<main, exit, token, pending, refresher, due, aborted, conn, signals>>

\* A signal nobody watches kills the process. Later ones are all the same.
Signal(kind) ==
  /\ Up /\ signals < MaxSignals
  /\ signals' = signals + 1
  /\ exit' = IF kind \in watched THEN exit ELSE "killed"
  /\ pending' = (pending \/ kind \in watched)
  /\ UNCHANGED <<main, token, watched, watcher, refresher, due, aborted, conn>>

\* Mutation: the watcher waits for both signals.
CancelOnBoth ==
  /\ Up /\ watcher = "watching" /\ pending /\ signals > 1
  /\ token' = TRUE
  /\ watcher' = "done"
  /\ UNCHANGED <<main, exit, watched, pending, refresher, due, aborted, conn, signals>>

Cancel ==
  /\ Up /\ watcher = "watching" /\ pending
  /\ token' = TRUE
  /\ watcher' = "done"
  /\ UNCHANGED <<main, exit, watched, pending, refresher, due, aborted, conn, signals>>

-----------------------------------------------------------------------------
(* The refresher *)

Tick ==
  /\ Up /\ refresher \in {"waiting", "refreshing"} /\ ~due
  /\ due' = TRUE
  /\ UNCHANGED <<main, exit, token, watched, watcher, pending, refresher, aborted,
                 conn, signals>>

\* The interval's first tick is there at once and starts no refresh.
FirstTick ==
  /\ Up /\ refresher = "starting" /\ ~aborted
  /\ refresher' = "waiting"
  /\ due' = FALSE
  /\ UNCHANGED <<main, exit, token, watched, watcher, pending, aborted, conn, signals>>

\* The select picks either branch when both are ready; refresh has no await, so
\* an abort waits for it.
BeginRefresh ==
  /\ Up /\ refresher = "waiting" /\ ~aborted
  /\ due
  /\ due' = FALSE
  /\ refresher' = "refreshing"
  /\ UNCHANGED <<main, exit, token, watched, watcher, pending, aborted, conn, signals>>

EndRefresh ==
  /\ Up /\ refresher = "refreshing"
  /\ refresher' = "waiting"
  /\ UNCHANGED <<main, exit, token, watched, watcher, pending, due, aborted, conn, signals>>

\* Mutation: the loop does not look at the token.
RefresherEndsByAbort ==
  /\ Up /\ refresher \in {"starting", "waiting"}
  /\ aborted
  /\ refresher' = "gone"
  /\ UNCHANGED <<main, exit, token, watched, watcher, pending, due, aborted, conn, signals>>

RefresherEnds ==
  /\ Up /\ refresher \in {"starting", "waiting"}
  /\ aborted \/ (token /\ refresher = "waiting")
  /\ refresher' = "gone"
  /\ UNCHANGED <<main, exit, token, watched, watcher, pending, due, aborted, conn, signals>>

-----------------------------------------------------------------------------
(* Connections *)

Move(c, from, to) ==
  /\ Up /\ conn[c] = from
  /\ conn' = [conn EXCEPT ![c] = to]
  /\ UNCHANGED <<main, exit, token, watched, watcher, pending, refresher, due,
                 aborted, signals>>

\* The listener is bound from the end of the build on, and the kernel queues.
Connect(c) == main \in {"spawn", "serve"} /\ Move(c, "none", "queued")
Accept(c)  == main = "serve" /\ Move(c, "queued", "idle")
Request(c) == Move(c, "idle", "reading")
Body(c)    == Move(c, "reading", "handling")   \* Bytes has extracted the body
Answer(c)  == Move(c, "handling", "answered")

\* The client goes away, its handler's future is dropped.
Leave(c) ==
  \E from \in {"queued", "idle", "reading", "handling"} : Move(c, from, "left")

Next ==
  \/ BuildStep \/ BuildFails \/ SpawnWatcher
  \/ Drain \/ Drained \/ ServerFails \/ Stop \/ Stopped \/ Exit
  \/ \E kind \in Kinds : Watch(kind) \/ Signal(kind)
  \/ Cancel
  \/ Tick \/ FirstTick \/ BeginRefresh \/ EndRefresh \/ RefresherEnds
  \/ \E c \in Clients : Connect(c) \/ Accept(c) \/ Request(c) \/ Body(c)
                        \/ Answer(c) \/ Leave(c)

Spec == Init /\ [][Next]_vars

\* Every task runs when it can, and a request that has been read is answered.
\* The select of the refresher is unbiased and ticks are far apart, so the
\* branch of the token is not passed over for ever. Nothing makes signals come,
\* or clients connect, send the rest of a request or leave.
Fairness ==
  /\ WF_vars(BuildStep \/ BuildFails \/ SpawnWatcher)
  /\ WF_vars(Drain) /\ WF_vars(Drained) /\ WF_vars(Stop) /\ WF_vars(Stopped)
  /\ WF_vars(Exit)
  /\ \A kind \in Kinds : WF_vars(Watch(kind))
  /\ WF_vars(Cancel)
  /\ WF_vars(FirstTick) /\ WF_vars(EndRefresh)
  /\ SF_vars(RefresherEnds)
  /\ \A c \in Clients : WF_vars(Answer(c))

FairSpec == Spec /\ Fairness

-----------------------------------------------------------------------------

\* Type invariant; and the watcher waits only when every signal has its handler.
TypeOK ==
  /\ main \in Phases
  /\ exit \in {"no", "clean", "error", "killed"}
  /\ watched \subseteq Kinds
  /\ watcher \in {"none", "spawned", "watching", "done"}
  /\ refresher \in {"none", "starting", "waiting", "refreshing", "gone"}
  /\ token \in BOOLEAN /\ pending \in BOOLEAN /\ due \in BOOLEAN
  /\ aborted \in BOOLEAN
  /\ conn \in [Clients -> {"none", "queued", "idle", "reading", "handling",
                           "answered", "refused", "left"}]
  /\ signals \in 0 .. MaxSignals
  /\ watcher \in {"watching", "done"} => watched = Kinds
  /\ pending => watched # {} /\ signals > 0

\* Once the server has drained, every request a connection task began to read
\* was answered, unless its client left: run_until_stopped never returns Ok
\* with a caller still waiting.
DrainLosesNothing ==
  main \in {"served", "stopping", "stopped"} =>
    \A c \in Clients : conn[c] \in {"none", "answered", "refused", "left"}

\* When run_until_stopped has returned, whether the server drained or failed,
\* the refresher is gone: it is stopped and waited for, also in the middle of
\* a refresh, so nothing it shares with main is used after main is done.
StoppedMeansQuiet ==
  main = "stopped" \/ (main = "failed" /\ watcher # "none") => RefresherGone

\* A build that fails after its decider step, and a server that stops, leave no
\* refresher behind that goes on refreshing.
NoRefreshAfterTheEnd ==
  [][refresher # "refreshing" /\ refresher' = "refreshing" =>
       main \notin {"stopped", "failed"}]_vars

\* Exit code 0 means that a signal asked for it and that the server ended well:
\* a server error is reported although the clean-up after it succeeds.
CleanExitWasAsked == exit = "clean" => pending /\ watcher = "done"

\* The three together: run_until_stopped returns Ok only after it has answered
\* whom it accepted, always after its tasks are gone, and main turns each of its
\* results into the right exit code.
OrderlyStop == DrainLosesNothing /\ StoppedMeansQuiet /\ CleanExitWasAsked

\* The refresher stops when the token is cancelled, however long requests keep
\* the server draining.
RefresherStops == token ~> (RefresherGone \/ ~Up)

\* A caught signal ends the process, provided that no client keeps a request
\* half sent for ever: draining has no time limit of its own.
CaughtSignalEnds ==
  (\A c \in Clients : conn[c] = "reading" ~> conn[c] # "reading")
    => (pending ~> ~Up)

=============================================================================

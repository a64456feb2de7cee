------------------------------- MODULE Serve -------------------------------
(***************************************************************************)
(* "tybok serve" (tybok/__main__.py): the supervisor starts the worker,    *)
(* takes the appearance of its socket file for its readiness, starts the   *)
(* gateway, and waits for both; SIGTERM and Ctrl-C end the deployment.     *)
(*                                                                         *)
(* The processes run what CommandLine says they receive.  A socket file    *)
(* may be left from an earlier deployment; a process may die at any time,  *)
(* and what it created stays.  Signals arrive between any two steps of the *)
(* supervisor, Ctrl-C at all processes at once.                            *)
(***************************************************************************)
EXTENDS CommandLine, Integers

CONSTANTS
  MaxSignals,  \* bound: signals
  MaxFaults    \* bound: processes that fail to start, or die

ASSUME ServeAssumption == MaxSignals \in Nat /\ MaxFaults \in Nat

VARIABLES
  cmd, asked,  \* the command line
  sup,         \* the supervisor: "start", "spawned" (Popen returned), "waiting", "polling",
               \* "launch", "launched", "joinWorker", "joinGateway", "terminate", "reap", "ended"
  how,         \* how it ended: "none", "clean" (_shutdown), "error", "joined", "interrupted"
  caught,      \* the KeyboardInterrupt clause was entered
  procs,       \* the processes in procs
  worker,      \* "none", "loading", "mapped" (shm file), "bound", "listening",
               \* "stopping" (told to end, still there), "dead"
  gateway,     \* "none", "asking" (_fetch_spec), "serving", "draining", "dead"
  sock,        \* the socket file: "absent", "stale" (nobody's), "live"
  shm,         \* the shared-memory file: "absent", "present"
  expired,     \* WORKER_STARTUP_TIMEOUT has passed
  gaveUp,      \* history: the gateway's own budget passed
  signals, faults

startVars == <<cmd, asked>>
supVars   == <<sup, how, caught, procs>>
fileVars  == <<sock, shm>>
envVars   == <<expired, gaveUp, signals, faults>>
serveVars == <<startVars, supVars, worker, gateway, fileVars, envVars>>

Children == {"worker", "gateway"}
Running(state) == state \notin {"none", "dead"}

\* Command lines: one option, and those that count with it.
Invocations(c) ==
  {Untouched} \cup
  {[Untouched EXCEPT ![f] = v] : f \in Accepts(c), v \in {"given", "falsy"}} \cup
  {[Untouched EXCEPT ![f] = "given", ![g] = "given"] :
     f \in Accepts(c) \cap (RtcOptions \cup {"cooperative_kernel", "gpu_slots", "shm_ipc"}),
     g \in Accepts(c) \cap ({"rtc", "gpu_ipc"} \cup FusedFamilies)}

Parses(a) == \A f \in Flags : a[f] \in Values(f)

ServeInit ==
  /\ cmd \in Commands
  /\ asked \in {a \in Invocations(cmd) : Parses(a)}
  /\ sup = IF cmd = "serve" /\ ~Refused(cmd, asked) THEN "start" ELSE "ended"
  /\ how = "none" /\ caught = FALSE /\ procs = {}
  /\ worker = "none" /\ gateway = "none"
  /\ sock \in {"absent", "stale"} /\ shm = "absent"
  /\ expired = FALSE /\ gaveUp = FALSE
  /\ signals = 0 /\ faults = 0

-----------------------------------------------------------------------------
(* The supervisor.                                                         *)

Ends(result) == sup' = "ended" /\ how' = result

SpawnWorker ==
  /\ sup = "start"
  /\ worker' = "loading"
  /\ sup' = "spawned"
  /\ UNCHANGED <<startVars, how, caught, procs, gateway, fileVars, envVars>>

ListWorker ==
  /\ sup = "spawned"
  /\ procs' = {"worker"}
  /\ sup' = "waiting"
  /\ UNCHANGED <<startVars, how, caught, worker, gateway, fileVars, envVars>>

\* One round of the loop: the deadline, the file, and the exit status.
LookForSocket ==
  /\ sup = "waiting"
  /\ sup' = IF expired \/ sock # "absent" THEN "launch" ELSE "polling"
  /\ UNCHANGED <<startVars, how, caught, procs, worker, gateway, fileVars, envVars>>

PollWorker ==
  /\ sup = "polling"
  /\ IF worker = "dead" THEN Ends("error") ELSE sup' = "waiting" /\ UNCHANGED how
  /\ UNCHANGED <<startVars, caught, procs, worker, gateway, fileVars, envVars>>

SpawnGateway ==
  /\ sup = "launch"
  /\ gateway' = "asking"
  /\ sup' = "launched"
  /\ UNCHANGED <<startVars, how, caught, procs, worker, fileVars, envVars>>

\* Popen raises: nothing catches it, the worker is left alone.
SpawnFails ==
  /\ sup \in {"start", "launch"}
  /\ faults < MaxFaults /\ faults' = faults + 1
  /\ Ends("error")
  /\ UNCHANGED <<startVars, caught, procs, worker, gateway, fileVars, expired, gaveUp, signals>>

ListGateway ==
  /\ sup = "launched"
  /\ procs' = procs \cup {"gateway"}
  /\ sup' = "joinWorker"
  /\ UNCHANGED <<startVars, how, caught, worker, gateway, fileVars, envVars>>

\* for p in procs: p.wait().
Join ==
  \/ /\ sup = "joinWorker" /\ worker = "dead"
     /\ sup' = "joinGateway"
     /\ UNCHANGED <<startVars, how, caught, procs, worker, gateway, fileVars, envVars>>
  \/ /\ sup = "joinGateway" /\ gateway = "dead"
     /\ Ends("joined")
     /\ UNCHANGED <<startVars, caught, procs, worker, gateway, fileVars, envVars>>

-----------------------------------------------------------------------------
(* _shutdown.                                                              *)

\* A termination signal stops the worker where it is, but the process may take its
\* time to go (a call into the driver, the teardown of its GPU context); it ends the
\* gateway unless its server runs, which first drains its connections.
WorkerAfterSignal  == IF Running(worker) THEN "stopping" ELSE worker
GatewayAfterSignal == CASE gateway = "serving" -> "draining"
                        [] gateway = "asking" -> "dead"
                        [] OTHER -> gateway

\* What a worker that dies leaves: its file.
SockAfter(w) == IF w = "dead" /\ sock = "live" THEN "stale" ELSE sock

Terminate ==
  /\ sup = "terminate"
  /\ worker' = IF "worker" \in procs THEN WorkerAfterSignal ELSE worker
  /\ gateway' = IF "gateway" \in procs THEN GatewayAfterSignal ELSE gateway
  /\ sup' = "reap"
  /\ UNCHANGED <<startVars, how, caught, procs, fileVars, envVars>>

\* Mutant: a process that outlasts the wait is told to end once more.
KillSoftly ==
  /\ sup = "reap"
  /\ \/ /\ "worker" \in procs /\ Running(worker)
        /\ worker' = WorkerAfterSignal
        /\ UNCHANGED gateway
     \/ /\ "gateway" \in procs /\ Running(gateway)
        /\ gateway' = GatewayAfterSignal
        /\ UNCHANGED worker
  /\ UNCHANGED <<startVars, supVars, fileVars, envVars>>

\* wait(timeout=10), of each process in turn: one that is still there is killed.
Kill ==
  /\ sup = "reap"
  /\ \/ /\ "worker" \in procs /\ Running(worker)
        /\ worker' = "dead" /\ sock' = SockAfter("dead")
        /\ UNCHANGED gateway
     \/ /\ "gateway" \in procs /\ Running(gateway)
        /\ gateway' = "dead"
        /\ UNCHANGED <<worker, sock>>
  /\ UNCHANGED <<startVars, supVars, shm, envVars>>

\* Mutant: the shared-memory file is forgotten.
UnlinkSocketOnly == sock' = "absent" /\ UNCHANGED shm

Unlink == sock' = "absent" /\ shm' = "absent"

CleanUp ==
  /\ sup = "reap"
  /\ \A c \in procs : ~Running(IF c = "worker" THEN worker ELSE gateway)
  /\ Unlink
  /\ Ends("clean")
  /\ UNCHANGED <<startVars, caught, procs, worker, gateway, envVars>>

\* SIGTERM to the supervisor; a second one runs _shutdown again, to the same end.
Sigterm ==
  /\ signals < MaxSignals /\ signals' = signals + 1
  /\ sup # "ended"
  /\ sup' = "terminate"
  /\ UNCHANGED <<startVars, how, caught, procs, worker, gateway, fileVars, expired,
                 gaveUp, faults>>

\* Ctrl-C reaches every process.  The clause that catches it also covers the SIGTERM
\* handler, but not itself.
Interrupt ==
  /\ signals < MaxSignals /\ signals' = signals + 1
  /\ sup # "ended"
  /\ IF caught THEN Ends("interrupted") ELSE sup' = "terminate" /\ UNCHANGED how
  /\ caught' = TRUE
  /\ worker' = WorkerAfterSignal
  /\ gateway' = GatewayAfterSignal
  /\ UNCHANGED <<startVars, procs, fileVars, expired, gaveUp, faults>>

-----------------------------------------------------------------------------
(* The worker and the gateway.                                             *)

\* serve_socket: the model is loaded; the region, the socket, and only then listen.
WorkerMaps ==
  /\ worker = "loading"
  /\ worker' = "mapped"
  /\ shm' = IF ReceivedByWorker(cmd, asked)["shm_ipc"] = "given" THEN "present" ELSE shm
  /\ UNCHANGED <<startVars, supVars, gateway, sock, envVars>>

\* Mutant: a file of an earlier deployment is not removed first.
WorkerBindsFresh ==
  /\ worker = "mapped" /\ sock = "absent"
  /\ worker' = "bound"
  /\ sock' = "live"
  /\ UNCHANGED <<startVars, supVars, gateway, shm, envVars>>

WorkerBinds ==
  /\ worker = "mapped"
  /\ worker' = "bound"
  /\ sock' = "live"
  /\ UNCHANGED <<startVars, supVars, gateway, shm, envVars>>

WorkerListens ==
  /\ worker = "bound"
  /\ worker' = "listening"
  /\ UNCHANGED <<startVars, supVars, gateway, fileVars, envVars>>

\* A worker that was told to end is gone.
WorkerExits ==
  /\ worker = "stopping"
  /\ worker' = "dead"
  /\ sock' = SockAfter("dead")
  /\ UNCHANGED <<startVars, supVars, gateway, shm, envVars>>

WorkerDies ==
  /\ Running(worker)
  /\ faults < MaxFaults /\ faults' = faults + 1
  /\ worker' = "dead"
  /\ sock' = SockAfter("dead")
  /\ UNCHANGED <<startVars, supVars, gateway, shm, expired, gaveUp, signals>>

\* _fetch_spec, then _shm_from_spec and the server.
Describe ==
  /\ gateway = "asking" /\ worker = "listening" /\ sock = "live"
  /\ gateway' = IF ReceivedByGateway(cmd, asked)["shm_ipc"] = "given" /\ shm = "absent"
                THEN "dead" ELSE "serving"
  /\ UNCHANGED <<startVars, supVars, worker, fileVars, envVars>>

\* The gateway's own budget passes while the worker does not answer.
GiveUp ==
  /\ gateway = "asking" /\ worker # "listening"
  /\ gateway' = "dead"
  /\ gaveUp' = TRUE
  /\ UNCHANGED <<startVars, supVars, worker, fileVars, expired, signals, faults>>

GatewayDrained ==
  /\ gateway = "draining"
  /\ gateway' = "dead"
  /\ UNCHANGED <<startVars, supVars, worker, fileVars, envVars>>

GatewayDies ==
  /\ Running(gateway)
  /\ faults < MaxFaults /\ faults' = faults + 1
  /\ gateway' = "dead"
  /\ UNCHANGED <<startVars, supVars, worker, fileVars, expired, gaveUp, signals>>

\* Ten minutes pass while the worker loads.
Timeout ==
  /\ sup \in {"waiting", "polling"} /\ worker \notin {"listening", "dead"} /\ ~expired
  /\ expired' = TRUE
  /\ UNCHANGED <<startVars, supVars, worker, gateway, fileVars, gaveUp, signals, faults>>

-----------------------------------------------------------------------------
Supervisor ==
  \/ SpawnWorker \/ ListWorker \/ LookForSocket \/ PollWorker \/ SpawnGateway \/ ListGateway
  \/ Join \/ Terminate \/ Kill \/ CleanUp

WorkerSteps == WorkerMaps \/ WorkerBinds \/ WorkerListens

ServeNext ==
  \/ Supervisor \/ SpawnFails
  \/ Sigterm \/ Interrupt
  \/ WorkerSteps \/ WorkerExits \/ WorkerDies
  \/ Describe \/ GiveUp \/ GatewayDrained \/ GatewayDies
  \/ Timeout

\* The supervisor runs, a worker that does not die comes up in the end or its time
\* passes, and the gateway asks every second.
ServeFairness ==
  /\ WF_serveVars(Supervisor) /\ WF_serveVars(WorkerSteps) /\ WF_serveVars(Describe)

ServeSpec == ServeInit /\ [][ServeNext]_serveVars /\ ServeFairness

-----------------------------------------------------------------------------
(* Options *)

\* An option given a value that is not 0 or empty is in force in the worker, through two
\* lists that name every option again.  A value Python takes for false is dropped on some
\* of the lists (CommandLine, IfTrue), so of those it is only said, with all others, that
\* a worker started by "serve" runs with the same as one started by "worker"
\* (__main__.py:148-255, 1022-1098; worker.py:471-858).
OptionsArrive ==
  cmd \in {"serve", "worker"} =>
    /\ \A f \in WorkerFlags : Asks(asked, f) => ReceivedByWorker(cmd, asked)[f] = "given"
    /\ ReceivedByWorker("serve", asked) = ReceivedByWorker("worker", asked)

\* "the arguments of both ends are accepted on the same command line"
\* (docs/usage.md:9), for every subcommand: what is accepted is in force.
EveryOptionArrives ==
  \A f \in Accepts(cmd) : Asks(asked, f) =>
    \/ cmd # "validate" /\ f \in WorkerFlags /\ ReceivedByWorker(cmd, asked)[f] = "given"
    \/ cmd # "validate" /\ f \in GatewayFlags /\ ReceivedByGateway(cmd, asked)[f] = "given"
    \/ cmd = "validate" /\ ReceivedByEngine(asked)[f] = "given"

-----------------------------------------------------------------------------
(* Processes and files *)

\* After _shutdown no process the supervisor knew is left, and, unless it was stopped
\* between starting the worker and noting it, no file (__main__.py:319-332).
CleanStop ==
  (sup = "ended" /\ how = "clean") =>
    /\ "worker" \in procs => ~Running(worker)
    /\ "gateway" \in procs => ~Running(gateway)
    /\ ("worker" \in procs \/ worker = "none") => sock = "absent" /\ shm = "absent"

\* "its presence means "worker ready"" (__main__.py:295-296).
SocketMeansReady ==
  [][(sup = "waiting" /\ sup' = "launch" /\ ~expired) => worker \in {"bound", "listening"}]_serveVars

-----------------------------------------------------------------------------
(* Liveness *)

Disturbed == expired \/ gaveUp \/ signals > 0 \/ faults > 0

\* A deployment comes up, whatever file was there before, unless something dies, is
\* told to stop, or runs out of time.
Deploys == sup = "start" ~> (gateway = "serving" \/ Disturbed)

\* A supervisor told to stop ends, although a process may ignore the signal, or take
\* any time to drain (__main__.py:319-332).
StopEnds == sup = "terminate" ~> sup = "ended"
=============================================================================

-------------------------- MODULE SimulatorLifecycle --------------------------
(***************************************************************************)
(* main.cpp, server/simulator_api.cpp and the loop of cli/cli.cpp: how the *)
(* threads of the simulator start and end.  main() starts the HTTP server  *)
(* and the scheduler, reads commands, and on `exit` stops and joins both;  *)
(* the handler of SIGTERM makes the same two stop() calls on whichever     *)
(* thread the kernel picks, which stands still meanwhile.                  *)
(*                                                                         *)
(* EventScheduler is here as far as stop() goes: the flag, the test, the   *)
(* sleep.  Of cpp-httplib and std::thread (no sources here) the model has  *)
(* what simulator_api.cpp relies on: listen() answers requests on a worker *)
(* until stop() closes its socket and then waits for the worker; a stop()  *)
(* before listen() finds nothing to close; join() returns when the thread  *)
(* has ended, and is undefined on the thread itself or while another       *)
(* thread is in it.                                                        *)
(***************************************************************************)
EXTENDS Integers

CONSTANT Signals    \* deliveries of SIGTERM

ASSUME LifecycleAssumption == "exit" \notin Signals

VARIABLES
    main,      \* where main() is
    http,      \* the thread in svr_->listen()
    joinable,  \* thread_.joinable()
    worker,    \* httplib's worker: idle, busy with a request, or inside
               \* DeviceEngine
    sched,     \* where the scheduler thread is
    running,   \* EventScheduler::running_
    owner,     \* thread that holds DeviceEngine::mutex_
    place,     \* where each stopper is in SimulatorApi::stop() and
               \* EventScheduler::stop()
    on,        \* thread each stopper runs on
    dead,      \* the process was terminated or aborted
    met,       \* stoppers under way that were so together with another
    early      \* stoppers under way whose svr_->stop() came before listen()

vars == <<main, http, joinable, worker, sched, running, owner, place, on, dead,
          met, early>>

(* The last two are history variables: no action depends on them.         *)
history == <<met, early>>

-----------------------------------------------------------------------------
(* Who calls both stop() functions: the end of main() and the handler.     *)
Stoppers == {"exit"} \cup Signals

Threads == {"main", "http", "worker", "sched", "mqtt"}

Active(f) == place[f] \notin {"none", "done"}

(* A thread does nothing of its own while it is in the signal handler.     *)
Interrupted(t) == \E s \in Signals : Active(s) /\ on[s] = t

Runs(t) == ~dead /\ ~Interrupted(t)

(* Stopper f starts; it meets those that are under way.                    *)
Begin(f) ==
    LET others == {g \in Stoppers \ {f} : Active(g)} IN
    /\ place' = [place EXCEPT ![f] = "server"]
    /\ met' = met \cup others \cup (IF others = {} THEN {} ELSE {f})
    /\ UNCHANGED early

Exists(t) ==
    CASE t = "main"   -> main # "returned"
      [] t = "http"   -> http \in {"created", "listening", "closing"}
      [] t = "worker" -> http \in {"listening", "closing"}
      [] t = "sched"  -> sched \notin {"none", "ended"}
      [] t = "mqtt"   -> main \notin {"disconnect", "returned"}

Init ==
    /\ main = "startServer"
    /\ http = "none" /\ joinable = FALSE /\ worker = "idle"
    /\ sched = "none" /\ running = FALSE
    /\ owner = "none"
    /\ place = [f \in Stoppers |-> "none"]
    /\ on = [f \in Stoppers |-> "main"]
    /\ dead = FALSE
    /\ met = {} /\ early = {}

-----------------------------------------------------------------------------
(* main() and the CLI loop.                                                *)

StartServer ==
    /\ main = "startServer" /\ Runs("main")
    /\ main' = "startScheduler"
    /\ http' = "created" /\ joinable' = TRUE
    /\ UNCHANGED <<worker, sched, running, owner, place, on, dead, history>>

StartScheduler ==
    /\ main = "startScheduler" /\ Runs("main")
    /\ main' = "cli"
    /\ sched' = "created"
    /\ UNCHANGED <<http, joinable, worker, running, owner, place, on, dead, history>>

(* A command that locks DeviceEngine::mutex_: show-devices, add-device...  *)
Command ==
    /\ main = "cli" /\ Runs("main")
    /\ owner = "none"
    /\ main' = "command"
    /\ owner' = "main"
    /\ UNCHANGED <<http, joinable, worker, sched, running, place, on, dead, history>>

CommandDone ==
    /\ main = "command" /\ Runs("main")
    /\ main' = "cli"
    /\ owner' = "none"
    /\ UNCHANGED <<http, joinable, worker, sched, running, place, on, dead, history>>

(* exit, quit, or the end of the input.  SIGTERM does not end the loop:    *)
(* std::signal() restarts the read it interrupts.                          *)
Exit ==
    /\ main = "cli" /\ Runs("main")
    /\ main' = "exit"
    /\ Begin("exit")
    /\ UNCHANGED <<http, joinable, worker, sched, running, owner, on, dead>>

JoinScheduler ==
    /\ main = "exit" /\ Runs("main")
    /\ place["exit"] = "done"
    /\ sched = "ended"
    /\ main' = "disconnect"
    /\ UNCHANGED <<http, joinable, worker, sched, running, owner, place, on, dead, history>>

(* disconnect_all(), return, destructors: thread_ is no longer joinable.   *)
Return ==
    /\ main = "disconnect" /\ Runs("main")
    /\ main' = "returned"
    /\ UNCHANGED <<http, joinable, worker, sched, running, owner, place, on, dead, history>>

-----------------------------------------------------------------------------
(* The HTTP server.                                                        *)

Listen ==
    /\ http = "created" /\ Runs("http")
    /\ \/ http' = "listening"
       \/ http' = "ended"       \* the port is taken
    /\ UNCHANGED <<main, joinable, worker, sched, running, owner, place, on, dead, history>>

Request ==
    /\ http = "listening" /\ Runs("http") /\ Runs("worker")
    /\ worker = "idle"
    /\ worker' = "busy"
    /\ UNCHANGED <<main, http, joinable, sched, running, owner, place, on, dead, history>>

(* Mutation: a request reads the devices without the mutex. *)
WorkerUnlocked ==
    /\ worker = "busy" /\ Runs("worker")
    /\ worker' = "inside"
    /\ owner' = "worker"
    /\ UNCHANGED <<main, http, joinable, sched, running, place, on, dead, history>>

WorkerLock ==
    /\ worker = "busy" /\ Runs("worker")
    /\ owner = "none"
    /\ worker' = "inside"
    /\ owner' = "worker"
    /\ UNCHANGED <<main, http, joinable, sched, running, place, on, dead, history>>

WorkerDone ==
    /\ worker = "inside" /\ Runs("worker")
    /\ worker' = "idle"
    /\ owner' = "none"
    /\ UNCHANGED <<main, http, joinable, sched, running, place, on, dead, history>>

(* listen() joins its workers before it returns. *)
ServerEnds ==
    /\ http = "closing" /\ Runs("http")
    /\ worker = "idle" /\ ~Interrupted("worker")
    /\ http' = "ended"
    /\ UNCHANGED <<main, joinable, worker, sched, running, owner, place, on, dead, history>>

-----------------------------------------------------------------------------
(* The scheduler thread, as stop() sees it.                                *)

Start ==
    /\ sched = "created" /\ Runs("sched")
    /\ sched' = "test"
    /\ running' = TRUE
    /\ UNCHANGED <<main, http, joinable, worker, owner, place, on, dead, history>>

(* Mutation: the loop is while (true). *)
TestNothing ==
    /\ sched = "test" /\ Runs("sched")
    /\ sched' \in {"process", "block"}
    /\ UNCHANGED <<main, http, joinable, worker, running, owner, place, on, dead, history>>

(* running_ is read; with nothing due the thread is on its way to sleep.   *)
Test ==
    /\ sched = "test" /\ Runs("sched")
    /\ sched' \in IF running THEN {"process", "block"} ELSE {"ended"}
    /\ UNCHANGED <<main, http, joinable, worker, running, owner, place, on, dead, history>>

Sleep ==
    /\ sched = "block" /\ Runs("sched")
    /\ sched' = "sleep"
    /\ UNCHANGED <<main, http, joinable, worker, running, owner, place, on, dead, history>>

(* An event came or became due. *)
Wake ==
    /\ sched = "sleep" /\ Runs("sched")
    /\ sched' = "test"
    /\ UNCHANGED <<main, http, joinable, worker, running, owner, place, on, dead, history>>

(* process_event() asks DeviceEngine for the device. *)
ProcessLock ==
    /\ sched = "process" /\ Runs("sched")
    /\ owner = "none"
    /\ sched' = "inside"
    /\ owner' = "sched"
    /\ UNCHANGED <<main, http, joinable, worker, running, place, on, dead, history>>

(* Mutation: what runs under the mutex asks for it again. *)
ProcessAgain ==
    /\ sched = "inside" /\ Runs("sched")
    /\ sched' = "process"
    /\ UNCHANGED <<main, http, joinable, worker, running, owner, place, on, dead, history>>

ProcessDone ==
    /\ sched = "inside" /\ Runs("sched")
    /\ sched' = "test"
    /\ owner' = "none"
    /\ UNCHANGED <<main, http, joinable, worker, running, place, on, dead, history>>

-----------------------------------------------------------------------------
(* SIGTERM, and the two stop() functions.                                  *)

Sigterm(s, t) ==
    /\ ~dead
    /\ place[s] = "none"
    /\ Exists(t) /\ ~Interrupted(t)
    /\ Begin(s)
    /\ on' = [on EXCEPT ![s] = t]
    /\ UNCHANGED <<main, http, joinable, worker, sched, running, owner, dead>>

(* The stopper takes its next step. *)
Steps(f) == IF f = "exit" THEN Runs("main") ELSE ~dead

Goto(f, p) == place' = [place EXCEPT ![f] = p]

(* Something undefined was done: the process is terminated, or the stopper *)
(* never gets on.                                                          *)
Undefined(f) == (dead' = TRUE /\ UNCHANGED place) \/ (UNCHANGED dead /\ Goto(f, "stuck"))

(* Mutation: stop() only joins. *)
StopNothing(f) ==
    /\ place[f] = "server" /\ Steps(f)
    /\ Goto(f, "test")
    /\ UNCHANGED <<main, http, joinable, worker, sched, running, owner, on, dead, history>>

(* svr_->stop(): closes the socket of a server that listens.  While one    *)
(* that was stopped is still in listen(), a debug build asserts.           *)
StopServer(f) ==
    /\ place[f] = "server" /\ Steps(f)
    /\ http' = IF http = "listening" THEN "closing" ELSE http
    /\ early' = IF http \in {"none", "created"} THEN early \cup {f} ELSE early
    /\ \/ Goto(f, "test") /\ UNCHANGED dead
       \/ http = "closing" /\ dead' = TRUE /\ UNCHANGED place
    /\ UNCHANGED <<main, joinable, worker, sched, running, owner, on, met>>

(* Mutation: thread_.join() without the test. *)
TestNotMade(f) ==
    /\ place[f] = "test" /\ Steps(f)
    /\ Goto(f, "join")
    /\ UNCHANGED <<main, http, joinable, worker, sched, running, owner, on, dead, history>>

(* if (thread_.joinable()): what it tells may change before the join().    *)
TestJoinable(f) ==
    /\ place[f] = "test" /\ Steps(f)
    /\ Goto(f, IF joinable THEN "join" ELSE "flag")
    /\ UNCHANGED <<main, http, joinable, worker, sched, running, owner, on, dead, history>>

(* thread_.join(): on a thread that another stopper has joined since, or   *)
(* is joining, or on the thread itself, it throws, which nobody catches,   *)
(* or does something undefined.                                            *)
Join(f) ==
    /\ place[f] = "join" /\ Steps(f)
    /\ IF joinable /\ on[f] # "http" /\ \A g \in Stoppers : place[g] # "joining"
       THEN Goto(f, "joining") /\ UNCHANGED dead
       ELSE Undefined(f)
    /\ UNCHANGED <<main, http, joinable, worker, sched, running, owner, on, history>>

(* Mutation: detach() instead of join(). *)
Detached(f) ==
    /\ place[f] = "joining" /\ Steps(f)
    /\ joinable' = FALSE
    /\ Goto(f, "flag")
    /\ UNCHANGED <<main, http, worker, sched, running, owner, on, dead, history>>

Joined(f) ==
    /\ place[f] = "joining" /\ Steps(f)
    /\ http = "ended"
    /\ joinable' = FALSE
    /\ Goto(f, "flag")
    /\ UNCHANGED <<main, http, worker, sched, running, owner, on, dead, history>>

Flag(f) ==
    /\ place[f] = "flag" /\ Steps(f)
    /\ running' = FALSE
    /\ Goto(f, "notify")
    /\ UNCHANGED <<main, http, joinable, worker, sched, owner, on, dead, history>>

Notify(f) ==
    /\ place[f] = "notify" /\ Steps(f)
    /\ sched' = IF sched = "sleep" THEN "test" ELSE sched
    /\ Goto(f, "done")
    /\ met' = met \ {f} /\ early' = early \ {f}
    /\ UNCHANGED <<main, http, joinable, worker, running, owner, on, dead>>

-----------------------------------------------------------------------------
Main == StartServer \/ StartScheduler \/ CommandDone \/ JoinScheduler \/ Return

Server == Listen \/ WorkerDone \/ ServerEnds

Scheduler == Start \/ Test \/ Sleep \/ ProcessDone

Stop(f) ==
    \/ StopServer(f) \/ TestJoinable(f) \/ Join(f) \/ Joined(f)
    \/ Flag(f) \/ Notify(f)

Next ==
    \/ Main \/ Command \/ Exit
    \/ Server \/ Request \/ WorkerLock
    \/ Scheduler \/ Wake \/ ProcessLock
    \/ \E s \in Signals, t \in Threads : Sigterm(s, t)
    \/ \E f \in Stoppers : Stop(f)

Spec == Init /\ [][Next]_vars

(* Every thread that can take its next instruction does, and none starves  *)
(* at DeviceEngine::mutex_.  Nobody has to type a command, to send a       *)
(* request or a signal, and no event has to come.                          *)
Fairness ==
    /\ WF_vars(Main) /\ WF_vars(Server) /\ WF_vars(Scheduler)
    /\ SF_vars(WorkerLock) /\ SF_vars(ProcessLock)
    /\ \A f \in Stoppers : WF_vars(Stop(f))

FairSpec == Spec /\ Fairness

-----------------------------------------------------------------------------
(* Types of the variables, and DeviceEngine::mutex_ is held by exactly the *)
(* thread that is inside a locked function.                                *)
TypeOK ==
    /\ main \in {"startServer", "startScheduler", "cli", "command", "exit",
                 "disconnect", "returned"}
    /\ http \in {"none", "created", "listening", "closing", "ended"}
    /\ joinable \in BOOLEAN
    /\ worker \in {"idle", "busy", "inside"}
    /\ sched \in {"none", "created", "test", "process", "inside", "block", "sleep", "ended"}
    /\ running \in BOOLEAN
    /\ owner \in {"none", "main", "worker", "sched"}
    /\ place \in [Stoppers -> {"none", "server", "test", "join", "joining",
                               "stuck", "flag", "notify", "done"}]
    /\ on \in [Stoppers -> Threads]
    /\ dead \in BOOLEAN
    /\ met \subseteq Stoppers /\ early \subseteq Stoppers
    /\ owner = "main" <=> main = "command"
    /\ owner = "worker" <=> worker = "inside"
    /\ owner = "sched" <=> sched = "inside"

(* However SIGTERM and exit meet, main() disconnects the transports and    *)
(* returns (destroying the singletons) only when the server, its worker    *)
(* and the scheduler have ended, and no one holds DeviceEngine's mutex.    *)
QuietAtExit ==
    main \in {"disconnect", "returned"} =>
        /\ http = "ended" /\ ~joinable
        /\ worker = "idle" /\ sched = "ended"
        /\ owner = "none"

(* Among the other threads, run() and stop() are still StopLoop's, which   *)
(* EventScheduler implements in full.                                      *)
Loop == INSTANCE StopLoop WITH
    Stops <- Stoppers,
    loop  <- CASE sched = "none"   -> "created"
               [] sched = "inside" -> "process"
               [] OTHER            -> sched,
    stop  <- [f \in Stoppers |->
                CASE place[f] = "notify" -> "flagged"
                  [] place[f] = "done"   -> "returned"
                  [] OTHER               -> "none"]

ImplementsLoop == Loop!Spec

(* No other stopper is under way with f.                                   *)
Alone(f) == \A g \in Stoppers \ {f} : ~Active(g)

(* A stopper that was alone from the beginning of its stop() to the end,   *)
(* and is not on the HTTP thread itself, never kills the process: that     *)
(* takes a SIGTERM on that thread, or a stopper that was under way         *)
(* together with another one, which may have finished in the meantime,     *)
(* between joinable() and join().                                          *)
DeathNeedsOverlap ==
    dead => \E f \in Stoppers : Active(f) /\ (on[f] = "http" \/ f \in met)

(* A stopper that has called svr_->stop() waits for a server that will     *)
(* listen on, which nothing ends any more, only if it called it before     *)
(* listen().                                                               *)
DeafServerNeedsEarlyStop ==
    \A f \in Stoppers :
        place[f] \in {"test", "join", "joining"} /\ http \notin {"closing", "ended"}
            => f \in early

(* Thread t cannot go on before thread u does: a join(), listen() that     *)
(* waits for its worker, DeviceEngine::mutex_, main() that waits for the   *)
(* scheduler.                                                              *)
WaitsFor(t, u) ==
    \/ \E f \in Stoppers : place[f] = "joining" /\ on[f] = t /\ http # "ended" /\ u = "http"
    \/ t = "http" /\ http = "closing" /\ worker # "idle" /\ u = "worker"
    \/ t = "worker" /\ worker = "busy" /\ u = owner
    \/ t = "sched" /\ sched = "process" /\ u = owner
    \/ t = "main" /\ main = "exit" /\ place["exit"] = "done" /\ sched # "ended" /\ u = "sched"

(* Threads wait for one another in a circle only when a handler that joins *)
(* runs on the worker, or on the holder of the mutex; however many         *)
(* stoppers there are, there is no other circle.  (On the HTTP thread      *)
(* join() is undefined: DeathNeedsOverlap.)                                *)
CircleNeedsHandler ==
    (\E circle \in (SUBSET Threads) \ {{}} :
        \A t \in circle : \E u \in circle : WaitsFor(t, u))
    => \E s \in Signals : place[s] = "joining" /\ on[s] \in {"worker", owner}

(* When SimulatorApi::stop() does return: the server was listening, and    *)
(* its caller is neither one of the server's threads nor one that was      *)
(* interrupted inside DeviceEngine, where a request may be waiting for it. *)
StopGetsThrough ==
    \A f \in Stoppers :
        (/\ place[f] = "server" /\ Alone(f)
         /\ http = "listening"
         /\ on[f] \notin {"http", "worker"} /\ owner # on[f])
            ~> (place[f] \in {"flag", "notify", "done"} \/ ~Alone(f))

(* SIGTERM leaves the CLI alone with nothing to command; exit then still   *)
(* ends the process, a second join() included.                             *)
ExitAfterSigterm ==
    (place["exit"] = "server" /\ Alone("exit") /\ http = "ended" /\ sched = "ended")
        ~> (main = "returned" \/ ~Alone("exit"))

(* simulator_api.hpp:31, "Safe to call from a signal handler": the handler *)
(* that calls stop() returns.                                              *)
HandlerReturns ==
    \A s \in Signals : place[s] = "server" ~> place[s] = "done"
=============================================================================

----------------------- MODULE SimulatorLifecycleProofs -----------------------
(* Proofs about SimulatorLifecycle, for any number of SIGTERMs.            *)
EXTENDS SimulatorLifecycle, TLAPS

-----------------------------------------------------------------------------
(* What the properties rest on.  The thread object and the server agree:   *)
(* a server that exists and is not joinable has ended.  The scheduler      *)
(* starts once.                                                            *)
ServerShape ==
    /\ http = "none" <=> main = "startServer"
    /\ ~joinable => http \in {"none", "ended"}
    /\ http = "none" => ~joinable
    /\ worker # "idle" => http \in {"listening", "closing"}
    /\ main \in {"startServer", "startScheduler"} => sched = "none"

(* A server that is closing was closed by a stopper that is still at it.   *)
CloserAtWork ==
    http = "closing" => \E g \in Stoppers : place[g] \in {"test", "join", "joining", "stuck"}

(* Where main() is, and where its own calls of stop() are.                 *)
MainShape ==
    /\ on["exit"] = "main"
    /\ place["exit"] = "none" <=> main \notin {"exit", "disconnect", "returned"}
    /\ place["exit"] \in {"flag", "notify", "done"} => ~joinable
    /\ main \in {"disconnect", "returned"} => place["exit"] = "done" /\ sched = "ended"

(* No thread waits in join() for itself. *)
JoinsAnother == \A f \in Stoppers : place[f] = "joining" => on[f] # "http"

(* Stoppers under way together have met, and so has one that is about to   *)
(* join what another one has joined since.                                 *)
MetTogether ==
    /\ \A f, g \in Stoppers : f # g /\ Active(f) /\ Active(g) => f \in met
    /\ \A f \in Stoppers : place[f] = "join" /\ ~joinable => f \in met

Places == {"none", "server", "test", "join", "joining", "stuck", "flag", "notify", "done"}

IInv ==
    /\ TypeOK /\ ServerShape /\ CloserAtWork /\ MainShape /\ JoinsAnother
    /\ MetTogether /\ DeathNeedsOverlap /\ DeafServerNeedsEarlyStop

LEMMA ExitIsAStopper == "exit" \in Stoppers /\ "exit" \notin Signals
BY LifecycleAssumption DEF Stoppers

(* Steps of main(), of the server and of the scheduler move no stopper     *)
(* but "exit" from its start.                                              *)
LEMMA ThreadStep ==
    ASSUME IInv,
           Main \/ Command \/ Server \/ Request \/ WorkerLock
                \/ Scheduler \/ Wake \/ ProcessLock
    PROVE  IInv'
<1>1. UNCHANGED <<place, on, dead, history>> /\ ~dead
    BY DEF history, Main, StartServer, StartScheduler, CommandDone, JoinScheduler, Return,
           Command, Server, Listen, WorkerDone, ServerEnds, Request, WorkerLock,
           Scheduler, Start, Test, Sleep, ProcessDone, Wake, ProcessLock, Runs
<1>2. TypeOK' /\ ServerShape'
  <2> USE <1>1 DEF IInv, TypeOK, ServerShape, history
  <2>1. CASE StartServer
    BY <2>1 DEF StartServer
  <2>2. CASE StartScheduler
    BY <2>2 DEF StartScheduler
  <2>3. CASE Command
    BY <2>3 DEF Command
  <2>4. CASE CommandDone
    BY <2>4 DEF CommandDone
  <2>5. CASE JoinScheduler
    BY <2>5 DEF JoinScheduler
  <2>6. CASE Return
    BY <2>6 DEF Return
  <2>7. CASE Listen
    BY <2>7 DEF Listen
  <2>8. CASE WorkerDone
    BY <2>8 DEF WorkerDone
  <2>9. CASE ServerEnds
    BY <2>9 DEF ServerEnds
  <2>10. CASE Request
    BY <2>10 DEF Request
  <2>11. CASE WorkerLock
    BY <2>11 DEF WorkerLock
  <2>12. CASE Start
    BY <2>12 DEF Start
  <2>13. CASE Test
    BY <2>13 DEF Test
  <2>14. CASE Sleep
    BY <2>14 DEF Sleep
  <2>15. CASE ProcessDone
    BY <2>15 DEF ProcessDone
  <2>16. CASE Wake
    BY <2>16 DEF Wake
  <2>17. CASE ProcessLock
    BY <2>17 DEF ProcessLock
  <2> QED
    BY <2>1, <2>2, <2>3, <2>4, <2>5, <2>6, <2>7, <2>8, <2>9,
       <2>10, <2>11, <2>12, <2>13, <2>14, <2>15, <2>16, <2>17
       DEF Main, Server, Scheduler
<1>3. CloserAtWork'
  <2>1. http' = "closing" => http = "closing"
    BY DEF Main, StartServer, StartScheduler, CommandDone, JoinScheduler, Return,
           Command, Server, Listen, WorkerDone, ServerEnds, Request, WorkerLock,
           Scheduler, Start, Test, Sleep, ProcessDone, Wake, ProcessLock
  <2> QED
    BY <1>1, <2>1 DEF IInv, CloserAtWork
<1>4. MainShape'
  <2>1. CASE StartServer \/ StartScheduler \/ CommandDone \/ Command
    BY <1>1, <2>1 DEF IInv, MainShape, StartServer, StartScheduler, CommandDone, Command
  <2>2. CASE JoinScheduler \/ Return
    BY <1>1, <2>2 DEF IInv, MainShape, JoinScheduler, Return
  <2>3. CASE Server \/ Request \/ WorkerLock
    BY <1>1, <2>3 DEF IInv, MainShape, Server, Listen, WorkerDone, ServerEnds,
                      Request, WorkerLock
  <2>4. CASE Scheduler \/ Wake \/ ProcessLock
    BY <1>1, <2>4 DEF IInv, MainShape, Scheduler, Start, Test, Sleep, ProcessDone,
                      Wake, ProcessLock
  <2> QED
    BY <2>1, <2>2, <2>3, <2>4 DEF Main
<1>5. DeathNeedsOverlap'
    BY <1>1 DEF DeathNeedsOverlap
<1>6. JoinsAnother'
    BY <1>1 DEF IInv, JoinsAnother
<1>7. MetTogether'
  <2>1. ~joinable' => ~joinable
    BY DEF Main, StartServer, StartScheduler, CommandDone, JoinScheduler, Return,
           Command, Server, Listen, WorkerDone, ServerEnds, Request, WorkerLock,
           Scheduler, Start, Test, Sleep, ProcessDone, Wake, ProcessLock
  <2> QED
    BY <1>1, <2>1 DEF IInv, MetTogether, Active, history
<1>8. DeafServerNeedsEarlyStop'
  <2>1. http \in {"closing", "ended"} => http' \in {"closing", "ended"}
    BY DEF IInv, ServerShape, Main, StartServer, StartScheduler, CommandDone,
           JoinScheduler, Return, Command, Server, Listen, WorkerDone, ServerEnds,
           Request, WorkerLock, Scheduler, Start, Test, Sleep, ProcessDone, Wake,
           ProcessLock
  <2> QED
    BY <1>1, <2>1 DEF IInv, DeafServerNeedsEarlyStop, history
<1> QED
    BY <1>2, <1>3, <1>4, <1>5, <1>6, <1>7, <1>8 DEF IInv

(* A stopper starts: exit on the main thread, a handler on any.            *)
LEMMA StopperStarts ==
    ASSUME IInv, Exit \/ \E s \in Signals, t \in Threads : Sigterm(s, t)
    PROVE  IInv'
<1>1. PICK f \in Stoppers : place[f] = "none" /\ Begin(f)
    BY ExitIsAStopper DEF IInv, MainShape, Exit, Sigterm, Stoppers
<1>2. UNCHANGED <<http, joinable, worker, sched, running, owner, dead, early>> /\ ~dead
    BY <1>1 DEF Exit, Sigterm, Runs, Begin
<1>3. /\ place \in [Stoppers -> Places]
      /\ place' \in [Stoppers -> Places]
      /\ place'[f] = "server"
      /\ \A g \in Stoppers : g # f => place'[g] = place[g]
    BY <1>1 DEF IInv, TypeOK, Begin, Places
<1>4. /\ on' \in [Stoppers -> Threads]
      /\ main' # main => main = "cli" /\ main' = "exit"
    BY ExitIsAStopper DEF IInv, TypeOK, Exit, Sigterm, Stoppers
<1>5. /\ met \subseteq met' /\ met' \in SUBSET Stoppers
      /\ \A g \in Stoppers : g # f /\ Active(g) => g \in met' /\ f \in met'
    BY <1>1 DEF IInv, TypeOK, Begin
<1>6. TypeOK' /\ ServerShape'
    BY <1>2, <1>3, <1>4, <1>5 DEF IInv, TypeOK, ServerShape, Places
<1>7. CloserAtWork'
    BY <1>1, <1>2, <1>3 DEF IInv, CloserAtWork
<1>8. MainShape'
    BY <1>2, <1>3, ExitIsAStopper DEF IInv, TypeOK, MainShape, Exit, Sigterm, Begin
<1>9. DeathNeedsOverlap'
    BY <1>2 DEF DeathNeedsOverlap
<1>10. JoinsAnother'
  <2>1. \A g \in Stoppers : g # f => on'[g] = on[g]
    BY <1>1, <1>3, ExitIsAStopper DEF IInv, TypeOK, Exit, Sigterm, Stoppers, Begin
  <2> QED
    BY <1>1, <1>3, <2>1 DEF IInv, JoinsAnother
<1>11. MetTogether'
    BY <1>2, <1>3, <1>5 DEF IInv, MetTogether, Active
<1>12. DeafServerNeedsEarlyStop'
    BY <1>2, <1>3 DEF IInv, DeafServerNeedsEarlyStop
<1> QED
    BY <1>6, <1>7, <1>8, <1>9, <1>10, <1>11, <1>12 DEF IInv

(* What the steps of stop() have in common.                                *)
LEMMA StopFrame ==
    ASSUME IInv, NEW f \in Stoppers, Stop(f)
    PROVE  /\ ~dead /\ place[f] \in Places \ {"none", "stuck", "done"}
           /\ place \in [Stoppers -> Places] /\ place' \in [Stoppers -> Places]
           /\ place'[f] \notin {"none", "server"} \/ (place' = place /\ dead')
           /\ \A g \in Stoppers : g # f => place'[g] = place[g]
           /\ UNCHANGED <<main, worker, owner, on>>
<1>1. /\ place \in [Stoppers -> Places] /\ place[f] \in Places \ {"none", "stuck", "done"}
      /\ UNCHANGED <<main, worker, owner, on>>
    BY DEF IInv, TypeOK, Places, Stop, StopServer, TestJoinable, Join, Joined, Flag, Notify
<1>2. ~dead
    BY DEF Stop, StopServer, TestJoinable, Join, Joined, Flag, Notify, Steps, Runs
<1>3. PICK p \in Places \ {"none", "server"} :
            place' = [place EXCEPT ![f] = p] \/ (place' = place /\ dead')
    BY <1>1 DEF Places, Stop, StopServer, TestJoinable, Join, Joined, Flag, Notify, Goto,
                Undefined
<1> QED
    BY <1>1, <1>2, <1>3

(* A step inside the stop() functions: what kills the process is a join()  *)
(* on the thread itself, beside another or after another, or closing a     *)
(* second time.                                                            *)
LEMMA StopStep ==
    ASSUME IInv, NEW f \in Stoppers, Stop(f)
    PROVE  IInv'
<1>1. /\ ~dead /\ place[f] \in Places \ {"none", "stuck", "done"}
      /\ place \in [Stoppers -> Places] /\ place' \in [Stoppers -> Places]
      /\ place'[f] \notin {"none", "server"} \/ (place' = place /\ dead')
      /\ \A g \in Stoppers : g # f => place'[g] = place[g]
      /\ UNCHANGED <<main, worker, owner, on>>
    BY StopFrame
<1>2. ~joinable => ~joinable'
    BY DEF Stop, StopServer, TestJoinable, Join, Joined, Flag, Notify
<1>3. TypeOK'
  <2>1. /\ http' \in {"none", "created", "listening", "closing", "ended"}
        /\ joinable' \in BOOLEAN /\ running' \in BOOLEAN /\ dead' \in BOOLEAN
    BY DEF IInv, TypeOK, Stop, StopServer, TestJoinable, Join, Joined, Flag, Notify,
           Undefined
  <2>2. /\ sched' \in {"none", "created", "test", "process", "inside", "block",
                       "sleep", "ended"}
        /\ sched' = "inside" <=> sched = "inside"
    BY DEF IInv, TypeOK, Stop, StopServer, TestJoinable, Join, Joined, Flag, Notify
  <2>3. met' \subseteq Stoppers /\ early' \subseteq Stoppers
    BY DEF IInv, TypeOK, history, Stop, StopServer, TestJoinable, Join, Joined, Flag, Notify
  <2> QED
    BY <1>1, <2>1, <2>2, <2>3 DEF IInv, TypeOK, Places
<1>4. ServerShape'
    BY <1>1 DEF IInv, TypeOK, ServerShape, Stop, StopServer, TestJoinable, Join, Joined,
                Flag, Notify
<1>5. CloserAtWork'
  <2>1. CASE StopServer(f)
    BY <1>1, <2>1 DEF IInv, CloserAtWork, StopServer, Goto
  <2>2. CASE TestJoinable(f) \/ Join(f)
    <3>1. http' = "closing" => joinable /\ http = "closing"
      BY <2>2 DEF IInv, ServerShape, TestJoinable, Join
    <3>2. joinable => place'[f] \in {"test", "join", "joining", "stuck"}
      BY <1>1, <2>2 DEF TestJoinable, Join, Goto, Undefined
    <3> QED
      BY <3>1, <3>2 DEF CloserAtWork
  <2>3. CASE Joined(f)
    BY <2>3 DEF CloserAtWork, Joined
  <2>4. CASE Flag(f) \/ Notify(f)
    BY <1>1, <2>4 DEF IInv, CloserAtWork, Flag, Notify
  <2> QED
    BY <2>1, <2>2, <2>3, <2>4 DEF Stop
<1>6. MainShape'
  <2>1. place'["exit"] = "none" <=> place["exit"] = "none"
    BY <1>1, ExitIsAStopper
  <2>2. place'["exit"] \in {"flag", "notify", "done"} => ~joinable'
    BY <1>1, ExitIsAStopper
       DEF IInv, MainShape, Stop, StopServer, TestJoinable, Join, Joined, Flag, Notify,
           Goto, Undefined
  <2>3. main \in {"disconnect", "returned"} => place'["exit"] = "done" /\ sched' = "ended"
    BY <1>1, ExitIsAStopper
       DEF IInv, MainShape, Stop, StopServer, TestJoinable, Join, Joined, Flag, Notify
  <2> QED
    BY <1>1, <2>1, <2>2, <2>3 DEF IInv, MainShape
<1>7. JoinsAnother'
  <2>1. place'[f] = "joining" => on[f] # "http" \/ place[f] = "joining"
    BY <1>1 DEF Stop, StopServer, TestJoinable, Join, Joined, Flag, Notify, Goto, Undefined
  <2> QED
    BY <1>1, <2>1 DEF IInv, JoinsAnother
<1>8. met' = met \/ (met' = met \ {f} /\ place'[f] = "done")
    BY <1>1 DEF history, Stop, StopServer, TestJoinable, Join, Joined, Flag, Notify, Goto
<1>9. MetTogether'
  <2>1. ASSUME NEW g \in Stoppers, NEW h \in Stoppers, g # h, Active(g)', Active(h)'
        PROVE  g \in met'
    BY <1>1, <1>8, <2>1 DEF IInv, MetTogether, Active, Places
  <2>2. ASSUME NEW g \in Stoppers, place'[g] = "join", ~joinable'
        PROVE  g \in met'
    <3>1. CASE place[g] = "join" /\ ~joinable
      BY <1>8, <2>2, <3>1 DEF IInv, MetTogether
    <3>2. CASE g = f /\ place[g] # "join"
      BY <1>1, <2>2, <3>2
         DEF Stop, StopServer, TestJoinable, Join, Joined, Flag, Notify, Goto, Undefined
    <3>3. CASE joinable /\ (g # f \/ place[g] = "join")
      <4>1. place[f] = "joining" /\ place'[f] = "flag"
        BY <1>1, <2>2, <3>3
           DEF Stop, StopServer, TestJoinable, Join, Joined, Flag, Notify, Goto
      <4>2. g # f
        BY <3>3, <4>1
      <4> QED
        BY <1>1, <2>1, <2>2, <4>1, <4>2 DEF Active
    <3> QED
      BY <1>1, <2>2, <3>1, <3>2, <3>3
  <2> QED
    BY <2>1, <2>2 DEF MetTogether
<1>10. DeathNeedsOverlap'
  <2> SUFFICES ASSUME dead'
               PROVE  \E g \in Stoppers : Active(g)' /\ (on'[g] = "http" \/ g \in met')
    BY DEF DeathNeedsOverlap
  <2>3. place' = place /\ met' = met /\ on' = on /\ Active(f)'
    BY <1>1 DEF history, Stop, StopServer, TestJoinable, Join, Joined, Flag, Notify,
                Undefined, Active, Places
  <2> SUFFICES on[f] = "http" \/ f \in met
    BY <2>3
  <2>1. CASE StopServer(f)
    <3>1. http = "closing" /\ place[f] = "server"
      BY <1>1, <2>1 DEF StopServer
    <3>2. PICK g \in Stoppers : place[g] \in {"test", "join", "joining", "stuck"}
      BY <3>1 DEF IInv, CloserAtWork
    <3> QED
      BY <3>1, <3>2 DEF IInv, MetTogether, Active
  <2>2. CASE Join(f)
    <3>1. /\ place[f] = "join"
          /\ ~joinable \/ on[f] = "http" \/ \E g \in Stoppers : place[g] = "joining"
      BY <1>1, <2>2 DEF Join
    <3> QED
      BY <3>1 DEF IInv, MetTogether, Active
  <2> QED
    BY <1>1, <2>1, <2>2 DEF Stop, TestJoinable, Joined, Flag, Notify
<1>11. DeafServerNeedsEarlyStop'
  <2>1. CASE StopServer(f)
    BY <1>1, <2>1 DEF IInv, DeafServerNeedsEarlyStop, StopServer, TypeOK
  <2>2. CASE TestJoinable(f) \/ Join(f) \/ Joined(f) \/ Flag(f) \/ Notify(f)
    <3>1. /\ http' = http
          /\ early' = early \/ (early' = early \ {f} /\ place'[f] = "done")
          /\ place'[f] \in {"test", "join", "joining"} =>
                place[f] \in {"test", "join", "joining"}
      BY <1>1, <2>2 DEF history, TestJoinable, Join, Joined, Flag, Notify, Goto
    <3> QED
      BY <1>1, <3>1 DEF IInv, DeafServerNeedsEarlyStop
  <2> QED
    BY <2>1, <2>2 DEF Stop
<1> QED
    BY <1>3, <1>4, <1>5, <1>6, <1>7, <1>9, <1>10, <1>11 DEF IInv

(* The inductive invariant.                                                *)
THEOREM Invariance == Spec => []IInv
<1>1. Init => IInv
    BY ExitIsAStopper
       DEF Init, IInv, TypeOK, ServerShape, CloserAtWork, MainShape, JoinsAnother,
           MetTogether, DeathNeedsOverlap, DeafServerNeedsEarlyStop, Active, Threads
<1>2. IInv /\ [Next]_vars => IInv'
  <2> SUFFICES ASSUME IInv, [Next]_vars PROVE IInv'
    OBVIOUS
  <2>1. CASE Main \/ Command \/ Server \/ Request \/ WorkerLock
               \/ Scheduler \/ Wake \/ ProcessLock
    BY <2>1, ThreadStep
  <2>2. CASE Exit \/ \E s \in Signals, t \in Threads : Sigterm(s, t)
    BY <2>2, StopperStarts
  <2>3. CASE \E f \in Stoppers : Stop(f)
    BY <2>3, StopStep
  <2>4. CASE UNCHANGED vars
    BY <2>4 DEF vars, IInv, TypeOK, ServerShape, CloserAtWork, MainShape,
                JoinsAnother, MetTogether, DeathNeedsOverlap, DeafServerNeedsEarlyStop,
                Active, history
  <2> QED
    BY <2>1, <2>2, <2>3, <2>4 DEF Next
<1> QED
    BY <1>1, <1>2, PTL DEF Spec

(* The variables keep their types, and DeviceEngine's mutex is held by     *)
(* exactly the thread inside a locked function.                            *)
THEOREM TypeCorrect == Spec => []TypeOK
<1>1. IInv => TypeOK
    BY DEF IInv
<1> QED
    BY <1>1, Invariance, PTL

(* However many SIGTERMs meet exit, main() disconnects the transports and  *)
(* destroys the singletons only when every other thread is out of them.    *)
THEOREM Quiet == Spec => []QuietAtExit
<1>1. IInv => QuietAtExit
    BY DEF IInv, TypeOK, ServerShape, MainShape, QuietAtExit
<1> QED
    BY <1>1, Invariance, PTL

(* The process dies of a stop() only on the HTTP thread, or of one that    *)
(* was under way together with another stop().                             *)
THEOREM Deaths == Spec => []DeathNeedsOverlap
<1>1. IInv => DeathNeedsOverlap
    BY DEF IInv
<1> QED
    BY <1>1, Invariance, PTL

(* A stopper is left with a server that listens on only if it called       *)
(* svr_->stop() before listen().                                           *)
THEOREM DeafServers == Spec => []DeafServerNeedsEarlyStop
<1>1. IInv => DeafServerNeedsEarlyStop
    BY DEF IInv
<1> QED
    BY <1>1, Invariance, PTL

(* A thread outside the handler holds the mutex only where it waits for    *)
(* nobody, so a circle cannot pass through the mutex; the server, then the *)
(* scheduler, then main() and the MQTT thread drop out of it in turn.      *)
LEMMA NoOtherCircle == IInv => CircleNeedsHandler
<1> SUFFICES ASSUME IInv,
                    NEW circle \in SUBSET Threads,
                    \A t \in circle : \E u \in circle : WaitsFor(t, u),
                    \A s \in Signals : place[s] = "joining" => on[s] \notin {"worker", owner}
             PROVE  circle = {}
    BY DEF CircleNeedsHandler
<1>1. \A f \in Stoppers : place[f] = "joining" => on[f] \notin {"worker", owner}
  <2>1. place["exit"] = "joining" => on["exit"] = "main" /\ owner # "main"
    BY DEF IInv, TypeOK, MainShape
  <2> QED
    BY <2>1 DEF Stoppers
<1>2. owner \notin circle
  <2>1. CASE owner = "none"
    BY <2>1 DEF Threads
  <2>2. CASE owner = "main"
    BY <1>1, <2>2 DEF IInv, TypeOK, WaitsFor
  <2>3. CASE owner = "worker"
    BY <1>1, <2>3 DEF IInv, TypeOK, WaitsFor
  <2>4. CASE owner = "sched"
    BY <1>1, <2>4 DEF IInv, TypeOK, WaitsFor
  <2> QED
    BY <2>1, <2>2, <2>3, <2>4 DEF IInv, TypeOK
<1>3. "worker" \notin circle
    BY <1>1, <1>2 DEF WaitsFor
<1>4. "http" \notin circle
    BY <1>3 DEF IInv, JoinsAnother, WaitsFor
<1>5. "sched" \notin circle
    BY <1>2, <1>4 DEF WaitsFor
<1>6. "main" \notin circle
    BY <1>4, <1>5 DEF WaitsFor
<1>7. "mqtt" \notin circle
    BY <1>4 DEF WaitsFor
<1> QED
    BY <1>3, <1>4, <1>5, <1>6, <1>7 DEF Threads

(* However many handlers run, the only circle is that of a handler on the  *)
(* server's worker or on the holder of the mutex.                          *)
THEOREM Circles == Spec => []CircleNeedsHandler
BY NoOtherCircle, Invariance, PTL

-----------------------------------------------------------------------------
(* The refinement of StopLoop.                                             *)

(* The mutex and interruptions delay the steps of the loop and add none.   *)
LEMMA LoopStep == IInv /\ [Next]_vars => [Loop!Next]_Loop!vars
<1> SUFFICES ASSUME IInv, [Next]_vars PROVE [Loop!Next]_Loop!vars
    OBVIOUS
<1> USE DEF Loop!Next, Loop!vars
<1>1. CASE UNCHANGED <<sched, running, place>>
    BY <1>1
<1>2. CASE StartScheduler
    BY <1>2 DEF IInv, ServerShape, StartScheduler
<1>3. CASE Start
    BY <1>3 DEF Start, Loop!Start
<1>4. CASE Test
    BY <1>4 DEF Test, Loop!Look
<1>5. CASE Sleep \/ Wake \/ ProcessLock \/ ProcessDone
    BY <1>5 DEF Sleep, Wake, ProcessLock, ProcessDone, Loop!Move
<1>6. ASSUME NEW f \in Stoppers, Flag(f) PROVE [Loop!Next]_Loop!vars
    BY <1>6 DEF IInv, TypeOK, Flag, Goto, Loop!Lower
<1>7. ASSUME NEW f \in Stoppers, Notify(f) PROVE [Loop!Next]_Loop!vars
    BY <1>7 DEF IInv, TypeOK, Notify, Goto, Loop!Wake
<1>8. ASSUME NEW f \in Stoppers,
             NEW p \in {"server", "test", "join", "joining", "stuck", "flag"},
             place[f] \notin {"notify", "done"}, Goto(f, p) \/ UNCHANGED place,
             UNCHANGED <<sched, running>>
      PROVE  [Loop!Next]_Loop!vars
    BY <1>8 DEF IInv, TypeOK, Goto
<1>9. ASSUME NEW f \in Stoppers, StopServer(f) \/ TestJoinable(f) \/ Join(f) \/ Joined(f)
      PROVE  [Loop!Next]_Loop!vars
  <2>1. /\ place[f] \in {"server", "test", "join", "joining"}
        /\ UNCHANGED <<sched, running>>
    BY <1>9 DEF StopServer, TestJoinable, Join, Joined
  <2>2. \/ UNCHANGED place
        \/ \E p \in {"server", "test", "join", "joining", "stuck", "flag"} : Goto(f, p)
    BY <1>9 DEF StopServer, TestJoinable, Join, Joined, Undefined, Goto
  <2> QED
    BY <1>8, <2>1, <2>2
<1>10. CASE Exit
    BY <1>8, <1>10, ExitIsAStopper DEF IInv, MainShape, Exit, Begin, Goto
<1>11. ASSUME NEW s \in Signals, NEW t \in Threads, Sigterm(s, t)
       PROVE  [Loop!Next]_Loop!vars
    BY <1>8, <1>11 DEF Sigterm, Begin, Goto, Stoppers
<1>12. CASE \/ StartServer \/ CommandDone \/ JoinScheduler \/ Return \/ Command
            \/ Server \/ Request \/ WorkerLock
    BY <1>1, <1>12 DEF StartServer, CommandDone, JoinScheduler, Return, Command, Server,
                       Listen, WorkerDone, ServerEnds, Request, WorkerLock
<1> QED
    BY <1>1, <1>2, <1>3, <1>4, <1>5, <1>6, <1>7, <1>9, <1>10, <1>11, <1>12
    DEF Next, Main, Scheduler, Stop, vars

(* The scheduler of this module is the StopLoop that EventScheduler is     *)
(* proved to implement.                                                    *)
THEOREM LoopImplemented == Spec => ImplementsLoop
<1>1. Init => Loop!Init
    BY DEF Init, Loop!Init
<1> QED
    BY <1>1, LoopStep, Invariance, PTL DEF Spec, ImplementsLoop, Loop!Spec
=============================================================================

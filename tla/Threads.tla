------------------------------- MODULE Threads -------------------------------
(***************************************************************************)
(* The threads of the components and the main thread that starts and       *)
(* stops them, as when the serial port's menu saves the state in the       *)
(* middle of a run (System.cpp, Serial.cpp). A component's thread looks    *)
(* at StopThread once a round; the CPU's, the IDE controller's and the     *)
(* SCSI controller's also wait for a semaphore of maximum one. The CPU     *)
(* gives the controllers work.                                             *)
(***************************************************************************)
EXTENDS Integers, Sequences

CONSTANTS
  Orders,    \* orders of the components "cpu", "ide", "sym" and "poll", the last
             \* for the controllers that have nothing to wait for
  Work,      \* the work of a CPU for each order: "pio", "dma", "scripts"
  MaxStops, MaxWork  \* bounds: stops of the main thread, work of the CPU

VARIABLES
  order,     \* acComponents, in the order of the configuration file
  main,      \* the main thread: what it does and at which component
  stops,     \* how often it has stopped the threads
  stop,      \* StopThread of each component
  thread,    \* myThread: its next step, "none" or "ended" (not joined yet)
  dead,      \* myThreadDead of the CPU
  sem,       \* mySemaphore, semController
  ready, master, \* semControllerReady, semBusMaster
  inProgress,  \* the IDE command, if any
  executing, \* state.executing of the SCSI controller
  io,        \* what the CPU is doing
  asked      \* how much work it has given

vars == <<order, main, stops, stop, thread, dead, sem, ready, master,
          inProgress, executing, io, asked>>
work == <<ready, master, inProgress, executing, io, asked>>

Components == {"cpu", "ide", "sym", "poll"}
Waiting == {"cpu", "ide", "sym"}   \* those with a semaphore

Init ==
  /\ order \in Orders
  /\ main = [does |-> "start", at |-> 1] /\ stops = 0
  /\ stop = [c \in Components |-> FALSE]
  /\ thread = [c \in Components |-> "none"] /\ dead = FALSE
  /\ sem = [c \in Components |-> 0]
  /\ ready = 1 /\ master = 0 /\ inProgress = "none" /\ executing = FALSE
  /\ io = "none" /\ asked = 0

-----------------------------------------------------------------------------
(* The main thread: start_threads() of each component. A semaphore that is   *)
(* set already throws, and the emulator gives up: "failed".                  *)
This == order[main.at]
Then(does) == [main EXCEPT !.does = does]
Onward(does) == [does |-> does, at |-> main.at + 1]
MainSets(c, next) ==
  /\ sem' = [sem EXCEPT ![c] = 1]
  /\ main' = IF sem[c] = 0 THEN next ELSE Then("failed")
StartsClear_Not(c) == UNCHANGED stop
StartsClear(c) == stop' = [stop EXCEPT ![c] = FALSE]

(* CAlphaCPU first takes what was left in its semaphore. It and the IDE      *)
(* controller clear StopThread when the thread is there already, the others *)
(* before.                                                                   *)
Late == {"cpu", "ide"}
StartThread ==
  /\ main.does = "start" /\ main.at <= Len(order)
  /\ thread' = [thread EXCEPT ![This] = "top"]
  /\ sem' = [sem EXCEPT !["cpu"] = IF This = "cpu" THEN 0 ELSE @]
  /\ IF This \in Late THEN UNCHANGED stop ELSE StartsClear(This)
  /\ main' = IF This \in Late THEN Then("clear")
             ELSE IF This = "sym" THEN Then("rouse") ELSE Onward("start")
  /\ UNCHANGED <<order, stops, dead, work>>
ClearStop ==
  /\ main.does = "clear" /\ StartsClear(This) /\ main' = Onward("start")
  /\ UNCHANGED <<order, stops, thread, dead, sem, work>>

(* CSym53C895 goes on with what was being executed.                          *)
Rouse_Forgotten ==
  /\ main.does = "rouse" /\ main' = Onward("start")
  /\ UNCHANGED <<order, stops, stop, thread, dead, sem, work>>
Rouse ==
  /\ main.does = "rouse"
  /\ IF executing THEN MainSets("sym", Onward("start"))
                  ELSE main' = Onward("start") /\ UNCHANGED sem
  /\ UNCHANGED <<order, stops, stop, thread, dead, work>>

(* All are there: release_threads() of the CPU.                              *)
Release ==
  /\ main.does = "start" /\ main.at > Len(order)
  /\ MainSets("cpu", [does |-> "run", at |-> 1])
  /\ UNCHANGED <<order, stops, stop, thread, dead, work>>

(* The main loop finds a thread that an exception has ended, or enters the   *)
(* menu, which stops the components in order.                                *)
CheckState ==
  /\ main.does = "run" /\ dead /\ main' = Then("failed")
  /\ UNCHANGED <<order, stops, stop, thread, dead, sem, work>>
Menu ==
  /\ main.does = "run" /\ stops < MaxStops
  /\ main' = [does |-> "stop", at |-> 1] /\ stops' = stops + 1
  /\ UNCHANGED <<order, stop, thread, dead, sem, work>>
StopThread ==
  /\ main.does = "stop" /\ main.at <= Len(order)
  /\ stop' = [stop EXCEPT ![This] = TRUE]
  /\ main' = Then(IF This \in Waiting THEN "wake" ELSE "join")
  /\ UNCHANGED <<order, stops, thread, dead, sem, work>>
WakeThread ==
  /\ main.does = "wake" /\ MainSets(This, Then("join"))
  /\ UNCHANGED <<order, stops, stop, thread, dead, work>>
Join ==
  /\ main.does = "join" /\ thread[This] = "ended"
  /\ thread' = [thread EXCEPT ![This] = "none"]
  /\ sem' = [sem EXCEPT !["cpu"] = IF This = "cpu" THEN 0 ELSE @]
  /\ main' = Onward("stop")
  /\ UNCHANGED <<order, stops, stop, dead, work>>
Stopped == main.does = "stop" /\ main.at > Len(order)
Continue ==
  /\ Stopped /\ main' = [does |-> "start", at |-> 1]
  /\ UNCHANGED <<order, stops, stop, thread, dead, sem, work>>

(* Or the state is saved, and another process restores it, in which no      *)
(* thread and no semaphore is left of the first (the constructors).          *)
Restart ==
  /\ Stopped /\ main' = [does |-> "start", at |-> 1]
  /\ stop' = [c \in Components |-> FALSE] /\ sem' = [c \in Components |-> 0]
  /\ dead' = FALSE /\ ready' = 1 /\ master' = 0
  /\ UNCHANGED <<order, stops, thread, inProgress, executing, io, asked>>
Main ==
  \/ StartThread \/ ClearStop \/ Rouse \/ Release \/ CheckState
  \/ StopThread \/ WakeThread \/ Join \/ Continue \/ Restart

-----------------------------------------------------------------------------
(* run() of a component: wait for the semaphore, if there is one, look at   *)
(* StopThread, and do a round.                                              *)
Wakes(c) ==
  /\ thread[c] = "top"
  /\ IF c \in Waiting THEN sem[c] = 1 /\ sem' = [sem EXCEPT ![c] = 0]
                      ELSE UNCHANGED sem
  /\ thread' = [thread EXCEPT ![c] = "look"]
  /\ UNCHANGED <<order, main, stops, stop, dead, work>>

(* A CPU looks at StopThread between instructions, of which a write of a    *)
(* command is one.                                                          *)
Busy(c) == c = "cpu" /\ io \in {"ready", "wake"}
End(c) ==
  /\ thread[c] = "look" /\ stop[c] /\ ~Busy(c)
  /\ thread' = [thread EXCEPT ![c] = "ended"]
  /\ UNCHANGED <<order, main, stops, stop, dead, sem, work>>
Goes(c, from, to) ==
  /\ thread[c] = from /\ thread' = [thread EXCEPT ![c] = to]
  /\ UNCHANGED <<order, main, stops, stop>>
Runs(c, next) == (~stop[c] \/ Busy(c)) /\ Goes(c, "look", next)

Poll == Runs("poll", "top") /\ UNCHANGED <<dead, sem, work>>

(* The SCSI controller executes until the script waits, and looks whether   *)
(* it has been started again.                                               *)
Scripts == Runs("sym", "loop") /\ UNCHANGED <<dead, sem, work>>
ExecuteScript ==
  /\ executing /\ Goes("sym", "loop", "loop") /\ executing' = FALSE
  /\ UNCHANGED <<dead, sem, ready, master, inProgress, io, asked>>
EndScripts == ~executing /\ Goes("sym", "loop", "top") /\ UNCHANGED <<dead, sem, work>>

(* The IDE controller executes a command, in a DMA transfer waiting for the *)
(* CPU, and is ready for the next.                                          *)
IdeRound ==
  /\ Runs("ide", IF inProgress = "dma" THEN "transfer" ELSE "done")
  /\ UNCHANGED <<dead, sem, work>>
Transfer ==
  /\ master = 1 /\ Goes("ide", "transfer", "done") /\ master' = 0
  /\ UNCHANGED <<dead, sem, ready, inProgress, executing, io, asked>>
Done ==
  /\ Goes("ide", "done", "ready") /\ inProgress' = "none"
  /\ UNCHANGED <<dead, sem, ready, master, executing, io, asked>>
Ready ==
  /\ Goes("ide", "ready", "top") /\ ready' = 1
  /\ UNCHANGED <<dead, sem, master, inProgress, executing, io, asked>>

(* A CPU gives work, to one controller at a time. To set a semaphore that is *)
(* set already ends its thread.                                              *)
CpuSets(c) ==
  /\ sem' = [sem EXCEPT ![c] = 1]
  /\ IF sem[c] = 0 THEN Runs("cpu", "look") /\ UNCHANGED dead
                   ELSE Runs("cpu", "ended") /\ dead' = TRUE
Ask(w) ==
  /\ io = "none" /\ asked < MaxWork /\ asked' = asked + 1
  /\ inProgress = "none" /\ ~executing
  /\ IF w = "scripts"
     THEN executing' = TRUE /\ CpuSets("sym") /\ UNCHANGED <<inProgress, io>>
     ELSE /\ inProgress' = w /\ io' = "ready" /\ Runs("cpu", "look")
          /\ UNCHANGED <<dead, sem, executing>>
  /\ UNCHANGED <<ready, master>>
AwaitReady ==
  /\ io = "ready" /\ ready = 1 /\ ready' = 0 /\ io' = "wake" /\ Runs("cpu", "look")
  /\ UNCHANGED <<dead, sem, master, inProgress, executing, asked>>
Wake ==
  /\ io = "wake" /\ CpuSets("ide")
  /\ io' = IF sem["ide"] = 0 /\ inProgress = "dma" THEN "master" ELSE "none"
  /\ UNCHANGED <<ready, master, inProgress, executing, asked>>
StartMaster ==
  /\ io = "master" /\ master' = 1 /\ io' = "none" /\ Runs("cpu", "look")
  /\ UNCHANGED <<dead, sem, ready, inProgress, executing, asked>>

Working == \E w \in Work[order] : Ask(w)
Thread(c) ==
  \/ Wakes(c) \/ End(c)
  \/ c = "poll" /\ Poll
  \/ c = "sym" /\ (Scripts \/ ExecuteScript \/ EndScripts)
  \/ c = "ide" /\ (IdeRound \/ Transfer \/ Done \/ Ready)
  \/ c = "cpu" /\ (AwaitReady \/ Wake \/ StartMaster)
Next == Main \/ Menu \/ Working \/ \E c \in Components : Thread(c)
Spec ==
  /\ Init /\ [][Next]_vars /\ WF_vars(Main)
  /\ \A c \in Components : WF_vars(Thread(c))

-----------------------------------------------------------------------------
(* While the system runs every thread does: none has seen the StopThread of *)
(* the last stop, except that of the IDE controller, which may look before  *)
(* StopThread is cleared when a command was left to do (start_threads(),    *)
(* release_threads()).                                                      *)
AllRun ==
  main.does = "run" =>
    \A c \in Components :
      \/ thread[c] \notin {"none", "ended"}
      \/ c = "ide" /\ inProgress # "none"
      \/ c = "cpu" /\ dead

(* A stop ends, if only because a semaphore was set already: no thread that *)
(* is to be joined waits for another that was stopped before                *)
(* (stop_threads()).                                                        *)
StopsEnd == main.does \in {"stop", "wake", "join"} ~> main.does \in {"run", "failed"}

(* What the controllers were doing when they were stopped they do when they *)
(* have been started again, unless the emulator fails. A command is lost    *)
(* whose semaphore a thread has taken that found StopThread still set, or   *)
(* that another process does not have (start_threads(), run()).             *)
Failed == main.does = "failed"
Lost ==
  /\ main.does = "run" /\ inProgress # "none" /\ io \notin {"ready", "wake"}
  /\ sem["ide"] = 0 /\ thread["ide"] \in {"top", "ended"}
WorkEnds == /\ inProgress # "none" ~> (inProgress = "none" \/ Failed \/ Lost)
            /\ executing ~> (~executing \/ Failed)
=============================================================================

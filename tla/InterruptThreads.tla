--------------------------- MODULE InterruptThreads ---------------------------
(***************************************************************************)
(* CSystem::interrupt and CAlphaCPU::irq_h as the threads of the emulator  *)
(* really run them: nothing locks DRIR, EIR, the timers or the check flags, *)
(* so a call is a series of loads and stores that other threads interleave *)
(* with.  Every |= and &= is a load and a store; a test and the store it   *)
(* decides about are two steps.  Interrupts has the atomic calls.          *)
(*                                                                         *)
(* All lines are unmasked and all pins enabled: DIM and IER are written by *)
(* the CPU that reads them.  Pins: 1 device, 2 clock, 3 other CPU.         *)
(***************************************************************************)
EXTENDS Integers

CONSTANTS
  NumCPUs,     \* iNumCPUs
  Device,      \* device threads that call interrupt()
  Line,        \* TIG lines in use
  OneDriver,   \* whether one thread, a device's or a CPU's, drives all the lines
  Delay,       \* countdown of pin 1
  TickPeriod   \* instructions of CPU 0 per interval clock tick

CPU == 0 .. NumCPUs - 1
Thread == CPU \cup Device
Pin == 1 .. 3

ASSUME CountAssumption == NumCPUs \in Nat \ {0} /\ Delay \in Nat \ {0} /\ TickPeriod \in Nat \ {0}
ASSUME DriverAssumption == OneDriver \in BOOLEAN /\ Device \cap CPU = {}

VARIABLES
  driver,       \* driver[l]: the thread that drives line l
  drir,         \* state.cchip.drir
  wants,        \* wants[l]: the level the driver of line l last asked for
  eir, timer, checkTimers, checkInt, pal,  \* per CPU, as in CAlphaCPU
  call,         \* call[t]: where thread t is in interrupt() or irq_h()
  stage,        \* stage[c]: where CPU c is in execute()
  left,         \* left[c]: the timer value that CPU c is to decrement, else 0
  cc            \* instructions since the last tick
shared == <<drir, eir, timer, checkTimers, checkInt>>
vars == <<shared, driver, wants, pal, call, stage, left, cc>>

Idle == [at |-> "idle"]

Init ==
  /\ driver \in [Line -> Thread] /\ (OneDriver => \A k, l \in Line : driver[k] = driver[l])
  /\ drir = {}
  /\ wants = [l \in Line |-> FALSE]
  /\ eir = [c \in CPU |-> {}]
  /\ timer = [c \in CPU |-> 0]
  /\ checkTimers = [c \in CPU |-> FALSE]
  /\ checkInt = [c \in CPU |-> FALSE]
  /\ pal = [c \in CPU |-> FALSE]
  /\ call = [t \in Thread |-> Idle]
  /\ stage = [c \in CPU |-> "clock"]
  /\ left = [c \in CPU |-> 0]
  /\ cc = 0

-----------------------------------------------------------------------------
(* A call in progress: line and level it drives, the CPU and pin it is at,   *)
(* the level of the pin, and the value last loaded.                          *)
At(t, label) == call[t].at = label
Go(t, label) == call' = [call EXCEPT ![t].at = label]
Load(t, value, label) == call' = [call EXCEPT ![t].at = label, ![t].tmp = value]

InterruptCall(line, on) ==
  [at |-> "loadDrir", line |-> line, level |-> on, i |-> 0, pin |-> 1,
   on |-> FALSE, once |-> FALSE, tmp |-> {}]

(* Mutant: a tick stops after the clock pin (of a single CPU). *)
ClockCall_NoEvaluate ==
  [at |-> "test", line |-> "clock", level |-> TRUE, i |-> 0, pin |-> 2,
   on |-> TRUE, once |-> TRUE, tmp |-> {}]

ClockCall ==
  [at |-> "test", line |-> "clock", level |-> TRUE, i |-> 0, pin |-> 2,
   on |-> TRUE, once |-> FALSE, tmp |-> {}]
IrqCall(c, pin, on) ==
  [at |-> "test", line |-> "none", level |-> TRUE, i |-> c, pin |-> pin,
   on |-> on, once |-> TRUE, tmp |-> {}]

(* irq_h() returns into the loop of interrupt() it was called from. *)
Returned(k) ==
  CASE k.once -> Idle
    [] ~k.once /\ k.i + 1 < NumCPUs ->
         [k EXCEPT !.i = @ + 1, !.at = IF k.pin = 2 THEN "test" ELSE "evaluate"]
    [] ~k.once /\ k.i + 1 = NumCPUs /\ k.pin = 2 ->
         [k EXCEPT !.i = 0, !.pin = 1, !.at = "evaluate"]
    [] OTHER -> Idle
Return(t) == call' = [call EXCEPT ![t] = Returned(call[t])]

(* interrupt(): drir |= bit or drir &= ~bit. *)
LoadDrir(t) == At(t, "loadDrir") /\ Load(t, drir, "storeDrir") /\ UNCHANGED shared
(* Mutant: drir &= bit where the code has drir &= ~bit. *)
StoreDrir_NoComplement(t) ==
  /\ At(t, "storeDrir")
  /\ drir' = IF call[t].level THEN call[t].tmp \cup {call[t].line}
                              ELSE call[t].tmp \cap {call[t].line}
  /\ Go(t, "evaluate")
  /\ UNCHANGED <<eir, timer, checkTimers, checkInt>>

StoreDrir(t) ==
  /\ At(t, "storeDrir")
  /\ drir' = IF call[t].level THEN call[t].tmp \cup {call[t].line}
                              ELSE call[t].tmp \ {call[t].line}
  /\ Go(t, "evaluate")
  /\ UNCHANGED <<eir, timer, checkTimers, checkInt>>

(* Mutant: the two branches swapped. *)
EvaluateLines_Swapped(t) ==
  /\ At(t, "evaluate")
  /\ call' = [call EXCEPT ![t].at = "test", ![t].on = drir = {}]
  /\ UNCHANGED shared

(* interrupt(): if (drir & dim[i]) irq_h(1, true, 100) else irq_h(1, false, *)
(* 0).                                                                      *)
EvaluateLines(t) ==
  /\ At(t, "evaluate")
  /\ call' = [call EXCEPT ![t].at = "test", ![t].on = drir # {}]
  /\ UNCHANGED shared

(* Mutant: a pin that is still counted down does not count as active. *)
Test_IgnoreTimer(t) ==
  /\ At(t, "test")
  /\ LET k == call[t] IN
     CASE k.on /\ k.pin \notin eir[k.i] -> Go(t, IF k.pin = 1 THEN "setTimer" ELSE "loadEir")
       [] ~k.on /\ k.pin \in eir[k.i] -> Go(t, "loadEir")
       [] OTHER -> Return(t)
  /\ UNCHANGED shared

(* irq_h(): is the pin active already? *)
Test(t) ==
  /\ At(t, "test")
  /\ LET k == call[t]
         active == k.pin \in eir[k.i] \/ (k.pin = 1 /\ timer[k.i] # 0)
     IN CASE k.on /\ ~active -> Go(t, IF k.pin = 1 THEN "setTimer" ELSE "loadEir")
          [] ~k.on /\ active -> Go(t, "loadEir")
          [] OTHER -> Return(t)
  /\ UNCHANGED shared

SetTimer(t) ==
  /\ At(t, "setTimer")
  /\ timer' = [timer EXCEPT ![call[t].i] = Delay]
  /\ Go(t, "setCheckTimers")
  /\ UNCHANGED <<drir, eir, checkTimers, checkInt>>
SetCheckTimers(t) ==
  /\ At(t, "setCheckTimers")
  /\ checkTimers' = [checkTimers EXCEPT ![call[t].i] = TRUE]
  /\ Return(t)
  /\ UNCHANGED <<drir, eir, timer, checkInt>>

(* irq_h(): eir |= bit or eir &= ~bit. *)
LoadEir(t) == At(t, "loadEir") /\ Load(t, eir[call[t].i], "storeEir") /\ UNCHANGED shared

(* Mutant: a pin is asserted without telling execute(). *)
StoreEir_NoCheckInt(t) ==
  /\ At(t, "storeEir")
  /\ LET k == call[t] IN
     /\ eir' = [eir EXCEPT ![k.i] = IF k.on THEN k.tmp \cup {k.pin} ELSE k.tmp \ {k.pin}]
     /\ IF k.on THEN Return(t) ELSE Go(t, "clearTimer")
  /\ UNCHANGED <<drir, timer, checkTimers, checkInt>>

StoreEir(t) ==
  /\ At(t, "storeEir")
  /\ LET k == call[t] IN
     /\ eir' = [eir EXCEPT ![k.i] = IF k.on THEN k.tmp \cup {k.pin} ELSE k.tmp \ {k.pin}]
     /\ Go(t, IF k.on THEN "setCheckInt" ELSE "clearTimer")
  /\ UNCHANGED <<drir, timer, checkTimers, checkInt>>
SetCheckInt(t) ==
  /\ At(t, "setCheckInt")
  /\ checkInt' = [checkInt EXCEPT ![call[t].i] = TRUE]
  /\ Return(t)
  /\ UNCHANGED <<drir, eir, timer, checkTimers>>

(* irq_h(): the timer of the pin, and check_timers from the timers left. *)
ClearTimer(t) ==
  /\ At(t, "clearTimer")
  /\ timer' = IF call[t].pin = 1 THEN [timer EXCEPT ![call[t].i] = 0] ELSE timer
  /\ Go(t, "disarm")
  /\ UNCHANGED <<drir, eir, checkTimers, checkInt>>
Disarm(t) ==
  /\ At(t, "disarm")
  /\ checkTimers' = [checkTimers EXCEPT ![call[t].i] = FALSE]
  /\ Go(t, "rearm")
  /\ UNCHANGED <<drir, eir, timer, checkInt>>

(* Mutant: no second look at the timers after check_timers was cleared. *)
Rearm_NoRecount(t) == At(t, "rearm") /\ Return(t) /\ UNCHANGED shared

Rearm(t) ==
  /\ At(t, "rearm")
  /\ checkTimers' = [checkTimers EXCEPT ![call[t].i] = @ \/ timer[call[t].i] # 0]
  /\ Return(t)
  /\ UNCHANGED <<drir, eir, timer, checkInt>>

CallStep(t) ==
  /\ \/ LoadDrir(t) \/ StoreDrir(t) \/ EvaluateLines(t) \/ Test(t)
     \/ SetTimer(t) \/ SetCheckTimers(t) \/ LoadEir(t) \/ StoreEir(t)
     \/ SetCheckInt(t) \/ ClearTimer(t) \/ Disarm(t) \/ Rearm(t)
  /\ UNCHANGED <<driver, wants, pal, stage, left, cc>>

(* The driver of a line calls interrupt() when the level it wants changes,   *)
(* and remembers that it did (irq_was_asserted in CDEC21143::run).           *)
Drive(t, line) ==
  /\ driver[line] = t
  /\ At(t, "idle")
  /\ wants' = [wants EXCEPT ![line] = ~@]
  /\ call' = [call EXCEPT ![t] = InterruptCall(line, ~wants[line])]
  /\ UNCHANGED <<shared, driver, pal, left, cc>>

-----------------------------------------------------------------------------
(* CAlphaCPU::execute, by CPU c's own thread, when it is not inside a call. *)
Stage(c, label) == stage[c] = label /\ At(c, "idle")
Then(c, label) == stage' = [stage EXCEPT ![c] = label]

Clock(c) ==
  /\ Stage(c, "clock")
  /\ cc' = IF c = 0 THEN (cc + 1) % TickPeriod ELSE cc
  /\ call' = [call EXCEPT ![c] = IF c = 0 /\ cc' = 0 THEN ClockCall ELSE Idle]
  /\ Then(c, "timers")
  /\ UNCHANGED <<shared, driver, wants, pal, left>>

(* The countdown: check_timers, timer--, and what the new value asks for. *)
StartCountdown(c) ==
  /\ Stage(c, "timers")
  /\ checkTimers' = [checkTimers EXCEPT ![c] = FALSE]
  /\ Then(c, IF checkTimers[c] THEN "testTimer" ELSE "ints")
  /\ UNCHANGED <<drir, driver, eir, timer, checkInt, wants, pal, call, left, cc>>

TestTimer(c) ==
  /\ Stage(c, "testTimer")
  /\ Then(c, IF timer[c] = 0 THEN "ints" ELSE "loadTimer")
  /\ UNCHANGED <<shared, driver, wants, pal, call, left, cc>>

(* Between the test and the decrement another thread may have cleared the   *)
(* timer.  -1 stands for every count below zero: it is a long way from      *)
(* there to the end of an int.                                              *)
Decremented(n) == IF n > 0 THEN n - 1 ELSE -1
LoadTimer(c) ==
  /\ Stage(c, "loadTimer")
  /\ left' = [left EXCEPT ![c] = timer[c]]
  /\ Then(c, "storeTimer")
  /\ UNCHANGED <<shared, driver, wants, pal, call, cc>>
StoreTimer(c) ==
  /\ Stage(c, "storeTimer")
  /\ timer' = [timer EXCEPT ![c] = Decremented(left[c])]
  /\ left' = [left EXCEPT ![c] = 0]
  /\ Then(c, "counted")
  /\ UNCHANGED <<drir, driver, eir, checkTimers, checkInt, wants, pal, call, cc>>
Counted(c) ==
  /\ Stage(c, "counted")
  /\ IF timer[c] # 0
     THEN Then(c, "keepCounting") /\ UNCHANGED call
     ELSE Then(c, "ints") /\ call' = [call EXCEPT ![c] = [IrqCall(c, 1, TRUE) EXCEPT !.at = "loadEir"]]
  /\ UNCHANGED <<shared, driver, wants, pal, left, cc>>
KeepCounting(c) ==
  /\ Stage(c, "keepCounting")
  /\ checkTimers' = [checkTimers EXCEPT ![c] = TRUE]
  /\ Then(c, "ints")
  /\ UNCHANGED <<drir, driver, eir, timer, checkInt, wants, pal, call, left, cc>>

(* The interrupt check, outside PALmode and with check_int set. *)
CheckInterrupts(c) ==
  /\ Stage(c, "ints")
  /\ LET look == checkInt[c] /\ ~pal[c] IN
     /\ Then(c, CASE look /\ eir[c] # {} -> "clock"
                  [] look /\ eir[c] = {} -> "clearCheckInt"
                  [] OTHER -> "instr")
     /\ pal' = [pal EXCEPT ![c] = @ \/ (look /\ eir[c] # {})]
  /\ UNCHANGED <<shared, driver, wants, call, left, cc>>
ClearCheckInt(c) ==
  /\ Stage(c, "clearCheckInt")
  /\ checkInt' = [checkInt EXCEPT ![c] = FALSE]
  /\ Then(c, "instr")
  /\ UNCHANGED <<drir, driver, eir, timer, checkTimers, wants, pal, call, left, cc>>

(* The instruction: any, HW_RET, a write to MISC, an access to a device. *)
SetPal(c, in) ==
  /\ Stage(c, "instr")
  /\ pal' = [pal EXCEPT ![c] = in]
  /\ Then(c, "clock")
  /\ UNCHANGED <<shared, driver, wants, call, left, cc>>
WriteMisc(c, d, pin, on) ==
  /\ Stage(c, "instr")
  /\ call' = [call EXCEPT ![c] = IrqCall(d, pin, on)]
  /\ Then(c, "clock")
  /\ UNCHANGED <<shared, driver, wants, pal, left, cc>>
DeviceAccess(c, line) == Stage(c, "instr") /\ Drive(c, line) /\ Then(c, "clock")

Execute(c) ==
  \/ Clock(c) \/ StartCountdown(c) \/ TestTimer(c) \/ LoadTimer(c) \/ StoreTimer(c)
  \/ Counted(c) \/ KeepCounting(c) \/ CheckInterrupts(c) \/ ClearCheckInt(c)
  \/ \E in \in BOOLEAN : SetPal(c, in)
  \/ WriteMisc(c, c, 2, FALSE)
  \/ WriteMisc(c, c, 3, FALSE)
  \/ \E d \in CPU : WriteMisc(c, d, 3, TRUE)
  \/ \E line \in Line : DeviceAccess(c, line)

DeviceThread(d) == \E line \in Line : Drive(d, line) /\ UNCHANGED stage

Next ==
  \/ \E t \in Thread : CallStep(t)
  \/ \E c \in CPU : Execute(c)
  \/ \E d \in Device : DeviceThread(d)

(* CPU threads run on; a device thread finishes the calls it starts. *)
Fairness ==
  /\ \A t \in Thread : WF_vars(CallStep(t))
  /\ \A c \in CPU : WF_vars(Execute(c))
Spec == Init /\ [][Next]_vars
FairSpec == Spec /\ Fairness

-----------------------------------------------------------------------------
(* The description of interrupt(): as interrupts are read, "the corresponding *)
(* bits are set in DRIR".  Whenever the driver of a line is not inside        *)
(* interrupt(), DRIR holds the level it last asked for.                       *)
DrirHoldsRequests ==
  \A l \in Line : At(driver[l], "idle") => (l \in drir <=> wants[l])

(* The comment in execute() where it clears check_int: "This point is reached *)
(* only if there are no more active interrupts.  We can safely set check_int  *)
(* to false now".  No lost wakeup: an asserted pin has been reported through  *)
(* check_int, or the thread that asserted it is about to report it ...        *)
Reporting(c) == \E t \in Thread : At(t, "setCheckInt") /\ call[t].i = c
PinReported == \A c \in CPU : eir[c] # {} => checkInt[c] \/ Reporting(c)

(* ... which is so while no device thread calls interrupt().                  *)
PinReportedByCpu == (\A l \in Line : driver[l] \in CPU) => PinReported

(* Whatever the races do to a pin, the next tick repairs it as irq_h() sees   *)
(* it: while a line stays asserted b_irq<1> is set or its timer is not zero,  *)
(* and once no line is asserted neither is so.  (A timer that a deassertion   *)
(* between TestTimer and LoadTimer has led below zero is "not zero".)         *)
PinActive(c) == 1 \in eir[c] \/ timer[c] # 0
LevelSettles ==
  \A c \in CPU : /\ (drir # {}) ~> (drir = {} \/ PinActive(c))
                 /\ (drir = {}) ~> (drir # {} \/ ~PinActive(c))

(* Called from the CPU's own thread only, interrupt() is exact: between       *)
(* instructions the pin is active just when some line is asserted.            *)
ExactBetweenCalls ==
  (\A l \in Line : driver[l] \in CPU) =>
    \A c \in CPU : Stage(c, "instr") \/ Stage(c, "clock") => (PinActive(c) <=> drir # {})

(* A countdown that runs is seen: the CPU does not stop counting because      *)
(* another thread cleared check_timers at the wrong moment.                   *)
CountdownSeen == \A c \in CPU : (timer[c] > 0) ~> (timer[c] <= 0)
=============================================================================

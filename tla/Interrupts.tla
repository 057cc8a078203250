------------------------------ MODULE Interrupts ------------------------------
(***************************************************************************)
(* Interrupt delivery: from the 64 TIG lines of the Tsunami Cchip          *)
(* (CSystem::interrupt, the DRIR, DIMn and MISC registers) over the pins   *)
(* b_irq<3:0> of every CPU (CAlphaCPU::irq_h) to the entry of the PALcode  *)
(* interrupt routine (CAlphaCPU::execute).                                 *)
(*                                                                         *)
(* A CPU executes one instruction in stages: interval clock, countdown of  *)
(* delayed pins, interrupt check, the instruction itself.  Threads of other *)
(* CPUs and of devices run between any two stages.  A call of interrupt()  *)
(* or irq_h() is one step here; InterruptThreads takes such a call apart.  *)
(***************************************************************************)
EXTENDS Naturals, FiniteSets

CONSTANTS
  CPU,          \* the registered CPUs
  Primary,      \* CPU 0, the only one whose next_timer_int is ever reached
  DeviceLine,   \* TIG lines 55:0, delivered on b_irq<1>
  ErrorLine,    \* TIG lines 63:58, delivered on b_irq<0>
  Delay,        \* instructions between interrupt() and the pin (100)
  TickPeriod,   \* instructions of CPU 0 per interval clock tick
  MiscWrites,   \* per CPU: the values its software writes to MISC
  DimWrites,    \* the values software writes to a DIM register
  IerWrites     \* the values PALcode writes to IER<EIEN>

Pin == 0 .. 3
Line == DeviceLine \cup ErrorLine

(* The fields of a value written to MISC that the Cchip acts on. *)
MiscData == [itclr: SUBSET CPU, ipclr: SUBSET CPU, ipreq: SUBSET CPU,
             abw: SUBSET CPU, abt: SUBSET CPU, devsup: SUBSET CPU,
             acl: BOOLEAN]

ASSUME CpuAssumption == Primary \in CPU /\ IsFiniteSet(CPU)
ASSUME LineAssumption == DeviceLine \cap ErrorLine = {}
ASSUME DelayAssumption == Delay \in Nat \ {0}
ASSUME TickAssumption == TickPeriod \in Nat \ {0}
ASSUME WriteAssumption == /\ MiscWrites \in [CPU -> SUBSET MiscData]
                          /\ DimWrites \subseteq SUBSET Line
                          /\ IerWrites \subseteq SUBSET Pin

VARIABLES
  drir,   \* raw interrupt requests: the lines that are asserted
  dim,    \* dim[c]: the lines CPU c wants to see
  misc,   \* the CPU sets in MISC: ITINTR, IPINTR, ABW, ABT, DEVSUP
  cpu,    \* cpu[c]: the interrupt state of CPU c
  stage,  \* stage[c]: what CPU c does next
  cc      \* instructions since the last interval clock tick
vars == <<drir, dim, misc, cpu, stage, cc>>

(* The part of CAlphaCPU's state that decides about interrupts.  soft stands *)
(* for a software interrupt or AST that is both requested and enabled; pal   *)
(* for bit 0 of the program counter.                                         *)
CpuState == [eir: SUBSET Pin, timer: [Pin -> 0 .. Delay],
             checkTimers: BOOLEAN, checkInt: BOOLEAN,
             eien: SUBSET Pin, soft: BOOLEAN, pal: BOOLEAN]
MiscState == [itintr: SUBSET CPU, ipintr: SUBSET CPU, abw: SUBSET CPU,
              abt: SUBSET CPU, devsup: SUBSET CPU]
Stage == {"clock", "timers", "ints", "instr"}

Active(s, pin) == pin \in s.eir \/ s.timer[pin] # 0
Counting(timer) == \E pin \in Pin : timer[pin] # 0
Pending(s) == s.eir \cap s.eien # {} \/ s.soft

-----------------------------------------------------------------------------
(* CAlphaCPU::irq_h: drive one pin of a CPU, at once or after a delay. *)
Raise(s, pin, delay) ==
  IF delay # 0
  THEN [s EXCEPT !.timer = [@ EXCEPT ![pin] = delay], !.checkTimers = TRUE]
  ELSE [s EXCEPT !.eir = @ \cup {pin}, !.checkInt = TRUE]

(* Mutant: deasserting a pin stops every countdown. *)
Lower_NoRecount(s, pin) ==
  [s EXCEPT !.eir = @ \ {pin}, !.timer = [@ EXCEPT ![pin] = 0], !.checkTimers = FALSE]

Lower(s, pin) ==
  LET t == [s.timer EXCEPT ![pin] = 0] IN
  [s EXCEPT !.eir = @ \ {pin}, !.timer = t, !.checkTimers = Counting(t)]

(* Mutants: a pin that is active already is raised again; a pin that is still *)
(* counted down is not lowered.                                               *)
IrqH_NoTest(s, pin, assert, delay) ==
  IF assert THEN Raise(s, pin, delay) ELSE Lower(s, pin)

IrqH_IgnoreDelayed(s, pin, assert, delay) ==
  IF assert /\ ~Active(s, pin) THEN Raise(s, pin, delay)
  ELSE IF ~assert /\ pin \in s.eir THEN Lower(s, pin)
  ELSE s

IrqH(s, pin, assert, delay) ==
  IF assert /\ ~Active(s, pin) THEN Raise(s, pin, delay)
  ELSE IF ~assert /\ Active(s, pin) THEN Lower(s, pin)
  ELSE s

(* The loop over the CPUs that ends CSystem::interrupt. *)
Evaluate(s, requests) ==
  IrqH(IrqH(s, 1, requests \cap DeviceLine # {}, Delay),
       0, requests \cap ErrorLine # {}, Delay)

(* CSystem::interrupt(line, assert) for one of the TIG lines. *)
Interrupt(line, assert) ==
  LET requests == IF assert THEN drir \cup {line} ELSE drir \ {line} IN
  /\ drir' = requests
  /\ cpu' = [c \in CPU |-> Evaluate(cpu[c], requests \cap dim[c])]
  /\ UNCHANGED <<dim, misc>>

(* Mutant: a tick stops after the clock pins. *)
IntervalTick_NoEvaluate ==
  /\ misc' = [misc EXCEPT !.itintr = CPU]
  /\ cpu' = [c \in CPU |-> IrqH(cpu[c], 2, TRUE, 0)]
  /\ UNCHANGED <<drir, dim>>

(* Mutant: only CPU 0 gets the clock pin. *)
IntervalTick_PrimaryOnly ==
  /\ misc' = [misc EXCEPT !.itintr = CPU]
  /\ cpu' = [c \in CPU |->
                Evaluate(IF c = Primary THEN IrqH(cpu[c], 2, TRUE, 0) ELSE cpu[c],
                         drir \cap dim[c])]
  /\ UNCHANGED <<drir, dim>>

(* CSystem::interrupt(-1, true): ITINTR and b_irq<2> of every CPU, then the *)
(* evaluation every call ends with.                                         *)
IntervalTick ==
  /\ misc' = [misc EXCEPT !.itintr = CPU]
  /\ cpu' = [c \in CPU |-> Evaluate(IrqH(cpu[c], 2, TRUE, 0), drir \cap dim[c])]
  /\ UNCHANGED <<drir, dim>>

-----------------------------------------------------------------------------
FirstStage(c) == IF c = Primary THEN "clock" ELSE "timers"
Goto(c, s) == stage' = [stage EXCEPT ![c] = s]

InitCpu == [eir |-> {}, timer |-> [pin \in Pin |-> 0], checkTimers |-> FALSE,
            checkInt |-> FALSE, eien |-> {}, soft |-> FALSE, pal |-> TRUE]

Init ==
  /\ drir = {}
  /\ dim = [c \in CPU |-> {}]
  /\ misc = [itintr |-> {}, ipintr |-> {}, abw |-> {}, abt |-> {}, devsup |-> {}]
  /\ cpu = [c \in CPU |-> InitCpu]
  /\ stage = [c \in CPU |-> FirstStage(c)]
  /\ cc = 0

(* execute(): CPU 0 compares cc_large with next_timer_int. *)
Clock ==
  /\ stage[Primary] = "clock"
  /\ IF cc + 1 = TickPeriod
     THEN cc' = 0 /\ IntervalTick
     ELSE cc' = cc + 1 /\ UNCHANGED <<drir, dim, misc, cpu>>
  /\ Goto(Primary, "timers")

(* Mutants: every timer is decremented; a timer that is not done yet does    *)
(* not set check_timers again.                                               *)
CountedDown_NoTest(s) ==
  IF s.checkTimers THEN [s EXCEPT !.timer = [pin \in Pin |-> s.timer[pin] - 1]] ELSE s

CountedDown_NoRearm(s) ==
  IF s.checkTimers
  THEN [s EXCEPT !.timer = [pin \in Pin |-> IF s.timer[pin] = 0 THEN 0 ELSE s.timer[pin] - 1],
                 !.checkTimers = FALSE,
                 !.eir = @ \cup {pin \in Pin : s.timer[pin] = 1},
                 !.checkInt = @ \/ \E pin \in Pin : s.timer[pin] = 1]
  ELSE s

CountedDown(s) ==
  LET t == [pin \in Pin |-> IF s.timer[pin] = 0 THEN 0 ELSE s.timer[pin] - 1]
      fired == {pin \in Pin : s.timer[pin] = 1}
  IN IF s.checkTimers
     THEN [s EXCEPT !.timer = t, !.checkTimers = Counting(t),
                    !.eir = @ \cup fired, !.checkInt = @ \/ fired # {}]
     ELSE s

Countdown(c) ==
  /\ stage[c] = "timers"
  /\ cpu' = [cpu EXCEPT ![c] = CountedDown(cpu[c])]
  /\ Goto(c, "ints")
  /\ UNCHANGED <<drir, dim, misc, cc>>

(* execute(): outside PALmode a set check_int has the CPU look for an       *)
(* enabled interrupt and enter PALcode, or clear check_int.                 *)
TakeInterrupt(c) ==
  /\ stage[c] = "ints"
  /\ cpu[c].checkInt /\ ~cpu[c].pal /\ Pending(cpu[c])
  /\ cpu' = [cpu EXCEPT ![c].pal = TRUE]
  /\ Goto(c, FirstStage(c))
  /\ UNCHANGED <<drir, dim, misc, cc>>

NoInterrupt(c) ==
  /\ stage[c] = "ints"
  /\ ~(cpu[c].checkInt /\ ~cpu[c].pal /\ Pending(cpu[c]))
  /\ cpu' = [cpu EXCEPT ![c].checkInt = @ /\ cpu[c].pal]
  /\ Goto(c, "instr")
  /\ UNCHANGED <<drir, dim, misc, cc>>

-----------------------------------------------------------------------------
(* The instructions that matter to interrupts, and all the others. *)
Instruction(c) == stage[c] = "instr" /\ Goto(c, FirstStage(c)) /\ UNCHANGED cc

(* An instruction that changes at most PALmode: CALL_PAL, HW_RET, a fault. *)
Jump(c, pal) ==
  /\ Instruction(c)
  /\ cpu' = [cpu EXCEPT ![c].pal = pal]
  /\ UNCHANGED <<drir, dim, misc>>

(* Mutant: new enable bits are not checked against the pins. *)
WriteIer_NoCheck(c, eien, soft) ==
  /\ Instruction(c)
  /\ cpu[c].pal
  /\ cpu' = [cpu EXCEPT ![c].eien = eien, ![c].soft = soft]
  /\ UNCHANGED <<drir, dim, misc>>

(* HW_MTPR to IER, SIRR, CM, ASTER or ASTRR. *)
WriteIer(c, eien, soft) ==
  /\ Instruction(c)
  /\ cpu[c].pal
  /\ cpu' = [cpu EXCEPT ![c].eien = eien, ![c].soft = soft, ![c].checkInt = TRUE]
  /\ UNCHANGED <<drir, dim, misc>>

(* CSystem::cchip_csr_write to a DIM register, from any CPU. *)
WriteDim(c, d, mask) ==
  /\ Instruction(c)
  /\ dim' = [dim EXCEPT ![d] = mask]
  /\ UNCHANGED <<drir, misc, cpu>>

(* Mutant: arbitration has no loser. *)
MiscAfter_NoLoser(m, w) ==
  [itintr |-> m.itintr \ w.itclr,
   ipintr |-> (m.ipintr \ w.ipclr) \cup w.ipreq,
   abw    |-> IF w.acl THEN w.abw ELSE m.abw \cup w.abw,
   abt    |-> IF w.acl THEN {} ELSE m.abt \cup w.abt,
   devsup |-> m.devsup \cup w.devsup]

(* CSystem::cchip_csr_write to MISC: set-only fields, write-one-to-clear     *)
(* fields, arbitration, then the pins of the CPUs the value names.           *)
MiscAfter(m, w) ==
  LET abw == IF w.acl THEN {} ELSE m.abw IN
  [itintr |-> m.itintr \ w.itclr,
   ipintr |-> (m.ipintr \ w.ipclr) \cup w.ipreq,
   abw    |-> IF abw = {} THEN w.abw ELSE abw,
   abt    |-> IF w.acl THEN {} ELSE m.abt \cup w.abt,
   devsup |-> m.devsup \cup w.devsup]

PinsAfter(s, c, w) ==
  LET clocked == IF c \in w.itclr THEN IrqH(s, 2, FALSE, 0) ELSE s
      cleared == IF c \in w.ipclr THEN IrqH(clocked, 3, FALSE, 0) ELSE clocked
  IN IF c \in w.ipreq THEN IrqH(cleared, 3, TRUE, 0) ELSE cleared

WriteMisc(c, w) ==
  /\ Instruction(c)
  /\ misc' = MiscAfter(misc, w)
  /\ cpu' = [d \in CPU |-> PinsAfter(cpu[d], d, w)]
  /\ UNCHANGED <<drir, dim>>

(* CSystem::clear_clock_int, called by the VMS PALcode replacement. *)
ClearClockInt(c) ==
  /\ Instruction(c)
  /\ misc' = [misc EXCEPT !.itintr = @ \ {c}]
  /\ cpu' = [cpu EXCEPT ![c] = IrqH(@, 2, FALSE, 0)]
  /\ UNCHANGED <<drir, dim>>

(* An access to a device register after which the device drives its line. *)
DeviceAccess(c, line, assert) == Instruction(c) /\ Interrupt(line, assert)

(* The thread of a device (disk, SCSI or network controller) drives a line. *)
DeviceThread(line, assert) == Interrupt(line, assert) /\ UNCHANGED <<stage, cc>>

-----------------------------------------------------------------------------
Execute(c) ==
  \/ c = Primary /\ Clock
  \/ Countdown(c)
  \/ TakeInterrupt(c)
  \/ NoInterrupt(c)
  \/ \E pal \in BOOLEAN : Jump(c, pal)
  \/ \E eien \in IerWrites, soft \in BOOLEAN : WriteIer(c, eien, soft)
  \/ \E d \in CPU, mask \in DimWrites : WriteDim(c, d, mask)
  \/ \E w \in MiscWrites[c] : WriteMisc(c, w)
  \/ ClearClockInt(c)
  \/ \E line \in Line, assert \in BOOLEAN : DeviceAccess(c, line, assert)

Next ==
  \/ \E c \in CPU : Execute(c)
  \/ \E line \in Line, assert \in BOOLEAN : DeviceThread(line, assert)

(* A CPU thread executes instructions for as long as the machine runs. *)
Fairness == \A c \in CPU : WF_vars(Execute(c))

Spec == Init /\ [][Next]_vars
FairSpec == Spec /\ Fairness

-----------------------------------------------------------------------------
TypeOK ==
  /\ drir \subseteq Line
  /\ dim \in [CPU -> SUBSET Line]
  /\ misc \in MiscState
  /\ cpu \in [CPU -> CpuState]
  /\ stage \in [CPU -> Stage]
  /\ cc \in 0 .. TickPeriod - 1

(* A delayed pin is always counted down: check_timers, which execute()      *)
(* tests before it looks at any timer, is set exactly while a timer runs,   *)
(* although irq_h and the countdown both recompute it from parts of the     *)
(* timers.  And a pin that is asserted has no countdown left that would     *)
(* raise it again.                                                          *)
CountdownSound ==
  \A c \in CPU :
    /\ cpu[c].checkTimers <=> Counting(cpu[c].timer)
    /\ \A pin \in Pin : pin \in cpu[c].eir => cpu[c].timer[pin] = 0

(* No lost interrupt: check_int, which execute() tests before it looks at     *)
(* EIR, is set whenever an enabled interrupt is pending, whichever of the     *)
(* pin, the enable bits or the countdown became true last.                    *)
NoLostCheck == \A c \in CPU : Pending(cpu[c]) => cpu[c].checkInt

(* MISC<ITINTR> and MISC<IPINTR> show exactly the CPUs whose pins b_irq<2>    *)
(* and b_irq<3> are asserted, so that software that clears what it reads      *)
(* never leaves a pin asserted, or clears one whose bit it did not see.       *)
MiscMatchesPins ==
  \A c \in CPU : /\ c \in misc.itintr <=> 2 \in cpu[c].eir
                 /\ c \in misc.ipintr <=> 3 \in cpu[c].eir

(* Arbitration: if every CPU only ever writes its own bit of MISC<ABW>, one   *)
(* CPU at most reads back that it won.                                        *)
AtMostOneWinner == \A c, d \in misc.abw : c = d

(* A call of interrupt() leaves b_irq<1> and b_irq<0> of every CPU at the     *)
(* level of the requests it lets through, whatever came before: a change of   *)
(* DRIR never leaves a pin behind.                                            *)
LevelAfterCall ==
  [][drir' # drir =>
       \A c \in CPU :
         /\ Active(cpu'[c], 1) <=> drir' \cap dim'[c] \cap DeviceLine # {}
         /\ Active(cpu'[c], 0) <=> drir' \cap dim'[c] \cap ErrorLine # {}]_vars

(* An unmasked request reaches the pin, or goes away: what a write to DIM   *)
(* does not evaluate, the next interval clock tick does.  A pin without an  *)
(* unmasked request goes down again.                                        *)
LevelSettles ==
  \A c \in CPU :
    LET requested == drir \cap dim[c] \cap DeviceLine # {}
    IN /\ requested ~> (Active(cpu[c], 1) \/ ~requested)
       /\ Active(cpu[c], 1) ~> (~Active(cpu[c], 1) \/ requested)

(* An enabled interrupt that is pending outside PALmode makes the CPU enter   *)
(* PALmode, unless it goes away before the CPU checks.                        *)
InterruptTaken ==
  \A c \in CPU : (Pending(cpu[c]) /\ ~cpu[c].pal)
                 ~> (cpu[c].pal \/ ~Pending(cpu[c]))

=============================================================================

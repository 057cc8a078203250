--------------------------- MODULE ProcessorProofs ---------------------------
(***************************************************************************)
(* What the parts of the processors promise.  First what Interrupts does   *)
(* on any machine: any number of CPUs, any lines, any delay and clock      *)
(* period, any values written by software.  Then that neither a            *)
(* translation nor an instruction that is used is an old one: for any      *)
(* buffer, any cache, any pages and address spaces.                        *)
(***************************************************************************)
EXTENDS MCProcessor, Integers, WellFoundedInduction, TLAPS

-----------------------------------------------------------------------------
(* irq_h() maps CPU states to CPU states. *)
LEMMA IrqHType ==
  ASSUME NEW s \in CpuState, NEW pin \in Pin, NEW assert \in BOOLEAN,
         NEW delay \in 0 .. Delay
  PROVE  IrqH(s, pin, assert, delay) \in CpuState
<1> USE DelayAssumption
<1>1. Raise(s, pin, delay) \in CpuState
  BY DEF Raise, CpuState, Pin
<1>2. Lower(s, pin) \in CpuState
  <2> DEFINE t == [s.timer EXCEPT ![pin] = 0]
             counting == Counting(t)
  <2>1. t \in [Pin -> 0 .. Delay]
    BY DEF CpuState
  <2>2. counting \in BOOLEAN
    BY DEF Counting
  <2>3. Lower(s, pin) = [s EXCEPT !.eir = @ \ {pin}, !.timer = t, !.checkTimers = counting]
    BY DEF Lower
  <2> HIDE DEF t, counting
  <2> QED BY ZenonT(60), <2>1, <2>2, <2>3 DEF CpuState
<1> QED BY <1>1, <1>2 DEF IrqH

(* The PAL mode bit is all that taking an interrupt or a jump changes.        *)
LEMMA PalType ==
  ASSUME NEW s \in CpuState, NEW b \in BOOLEAN
  PROVE  [s EXCEPT !.pal = b] \in CpuState
  BY DEF CpuState

LEMMA EvaluateType ==
  ASSUME NEW s \in CpuState, NEW requests
  PROVE  Evaluate(s, requests) \in CpuState
<1>1. Delay \in 0 .. Delay /\ 0 \in Pin /\ 1 \in Pin
  BY DelayAssumption DEF Pin
<1> QED BY <1>1, IrqHType DEF Evaluate

(* What the evaluation of the lines and of a MISC write preserves. *)
LEMMA PinsAfterType ==
  ASSUME NEW s \in CpuState, NEW c \in CPU, NEW w \in MiscData
  PROVE  PinsAfter(s, c, w) \in CpuState
<1>1. 0 \in 0 .. Delay /\ 2 \in Pin /\ 3 \in Pin
  BY DelayAssumption DEF Pin
<1> QED BY <1>1, IrqHType DEF PinsAfter

LEMMA CountedDownType ==
  ASSUME NEW s \in CpuState
  PROVE  CountedDown(s) \in CpuState
<1> DEFINE t == [pin \in Pin |-> IF s.timer[pin] = 0 THEN 0 ELSE s.timer[pin] - 1]
           fired == {pin \in Pin : s.timer[pin] = 1}
           counting == Counting(t)
           check == s.checkInt \/ fired # {}
<1>1. t \in [Pin -> 0 .. Delay]
  BY DelayAssumption DEF CpuState
<1>2. counting \in BOOLEAN /\ check \in BOOLEAN /\ fired \in SUBSET Pin
  BY DEF Counting
<1>3. CountedDown(s) = IF s.checkTimers
                       THEN [s EXCEPT !.timer = t, !.checkTimers = counting,
                                      !.eir = @ \cup fired, !.checkInt = check]
                       ELSE s
  BY DEF CountedDown
<1> HIDE DEF t, fired, counting, check
<1>4. s.eir \cup fired \in SUBSET Pin
  BY <1>2 DEF CpuState
<1>5. [s EXCEPT !.timer = t, !.checkTimers = counting, !.eir = @ \cup fired,
                !.checkInt = check] \in CpuState
  BY <1>1, <1>2, <1>4 DEF CpuState
<1> QED BY <1>3, <1>5

(* Every step of the machine keeps the variables in their types. *)
THEOREM TypeCorrect == Spec => []TypeOK
<1>1. Init => TypeOK
  BY SMTT(60), CpuAssumption, TickAssumption, DelayAssumption
  DEF Init, TypeOK, InitCpu, CpuState, MiscState, Stage, FirstStage
<1>2. TypeOK /\ [Next]_vars => TypeOK'
  <2> SUFFICES ASSUME TypeOK, [Next]_vars PROVE TypeOK'
    OBVIOUS
  <2> USE CpuAssumption DEF TypeOK
  <2>0. 2 \in Pin /\ 0 \in 0 .. Delay
    BY DelayAssumption DEF Pin
  <2>1. ASSUME NEW line \in Line, NEW assert \in BOOLEAN, Interrupt(line, assert)
        PROVE  drir' \subseteq Line /\ dim' = dim /\ misc' = misc /\ cpu' \in [CPU -> CpuState]
    BY <2>1, EvaluateType DEF Interrupt
  <2>2. CASE Clock
    <3>1. ASSUME IntervalTick
          PROVE  misc' \in MiscState /\ cpu' \in [CPU -> CpuState]
      <4>1. \A c \in CPU : IrqH(cpu[c], 2, TRUE, 0) \in CpuState
        BY <2>0, IrqHType
      <4> QED BY <3>1, <4>1, EvaluateType DEF IntervalTick, MiscState
    <3>2. cc' \in 0 .. TickPeriod - 1
      BY <2>2, TickAssumption DEF Clock
    <3>3. stage' \in [CPU -> Stage]
      BY <2>2 DEF Clock, Goto, Stage
    <3>4. CASE cc + 1 = TickPeriod
      BY <2>2, <3>1, <3>2, <3>3, <3>4 DEF Clock, IntervalTick
    <3>5. CASE cc + 1 # TickPeriod
      BY <2>2, <3>2, <3>3, <3>5 DEF Clock
    <3> QED BY <3>4, <3>5
  <2>3. ASSUME NEW c \in CPU, Countdown(c) PROVE TypeOK'
    BY <2>3, CountedDownType DEF Countdown, Goto, Stage
  <2>4. ASSUME NEW c \in CPU, TakeInterrupt(c) PROVE TypeOK'
    <3>1. cpu' = [cpu EXCEPT ![c] = [cpu[c] EXCEPT !.pal = TRUE]]
      BY <2>4 DEF TakeInterrupt
    <3>2. cpu' \in [CPU -> CpuState]
      BY <3>1, PalType
    <3>3. FirstStage(c) \in Stage
      BY DEF FirstStage, Stage
    <3> QED BY <2>4, <3>2, <3>3 DEF TakeInterrupt, Goto
  <2>5. ASSUME NEW c \in CPU, NoInterrupt(c) PROVE TypeOK'
    <3> DEFINE check == cpu[c].checkInt /\ cpu[c].pal
    <3>1. check \in BOOLEAN /\ cpu' = [cpu EXCEPT ![c] = [cpu[c] EXCEPT !.checkInt = check]]
      BY <2>5 DEF NoInterrupt
    <3> HIDE DEF check
    <3>2. cpu' \in [CPU -> CpuState]
      BY ZenonT(60), <3>1 DEF CpuState
    <3> QED BY <2>5, <3>2 DEF NoInterrupt, Goto, Stage
  <2>6. ASSUME NEW c \in CPU, Instruction(c)
        PROVE  stage' \in [CPU -> Stage] /\ cc' = cc
    BY <2>6 DEF Instruction, Goto, Stage, FirstStage
  <2>7. ASSUME NEW c \in CPU, NEW pal \in BOOLEAN, Jump(c, pal) PROVE TypeOK'
    <3>1. cpu' = [cpu EXCEPT ![c] = [cpu[c] EXCEPT !.pal = pal]]
      BY <2>7 DEF Jump
    <3>2. cpu' \in [CPU -> CpuState]
      BY <3>1, PalType
    <3> QED BY <2>6, <2>7, <3>2 DEF Jump
  <2>8. ASSUME NEW c \in CPU, NEW eien \in IerWrites, NEW soft \in BOOLEAN,
               WriteIer(c, eien, soft)
        PROVE  TypeOK'
    <3>1. eien \in SUBSET Pin
      BY WriteAssumption
    <3>2. cpu' = [cpu EXCEPT ![c] = [cpu[c] EXCEPT !.eien = eien, !.soft = soft, !.checkInt = TRUE]]
      BY <2>8 DEF WriteIer
    <3>3. cpu' \in [CPU -> CpuState]
      BY ZenonT(60), <3>1, <3>2 DEF CpuState
    <3> QED BY <2>6, <2>8, <3>3 DEF WriteIer
  <2>9. ASSUME NEW c \in CPU, NEW d \in CPU, NEW mask \in DimWrites, WriteDim(c, d, mask)
        PROVE  TypeOK'
    BY <2>6, <2>9, WriteAssumption DEF WriteDim
  <2>10. ASSUME NEW c \in CPU, NEW w \in MiscWrites[c], WriteMisc(c, w) PROVE TypeOK'
    <3>1. w \in MiscData
      BY WriteAssumption
    <3>2. MiscAfter(misc, w) \in MiscState
      BY SMTT(60), <3>1 DEF MiscAfter, MiscState, MiscData
    <3> QED BY <2>6, <2>10, <3>1, <3>2, PinsAfterType DEF WriteMisc
  <2>11. ASSUME NEW c \in CPU, ClearClockInt(c) PROVE TypeOK'
    <3>1. IrqH(cpu[c], 2, FALSE, 0) \in CpuState
      BY <2>0, IrqHType
    <3> QED BY <2>6, <2>11, <3>1 DEF ClearClockInt, MiscState
  <2>12. ASSUME NEW c \in CPU, NEW line \in Line, NEW assert \in BOOLEAN,
                DeviceAccess(c, line, assert)
         PROVE  TypeOK'
    BY <2>1, <2>6, <2>12 DEF DeviceAccess
  <2>13. ASSUME NEW line \in Line, NEW assert \in BOOLEAN, DeviceThread(line, assert)
         PROVE  TypeOK'
    BY <2>1, <2>13 DEF DeviceThread
  <2>14. CASE UNCHANGED vars
    BY <2>14 DEF vars
  <2> QED BY <2>2, <2>3, <2>4, <2>5, <2>7, <2>8, <2>9, <2>10, <2>11, <2>12, <2>13, <2>14
          DEF Next, Execute
<1> QED BY <1>1, <1>2, PTL DEF Spec

-----------------------------------------------------------------------------
(* The inductive invariant behind the safety properties: what holds of one    *)
(* CPU, whatever the others and the chipset do.  No pin but 0 and 1 is ever   *)
(* delayed, which is why MISC, updated at once, agrees with pins 2 and 3.     *)
CpuInv(s) ==
  /\ s.checkTimers <=> Counting(s.timer)
  /\ \A pin \in s.eir : s.timer[pin] = 0
  /\ Pending(s) => s.checkInt
  /\ s.timer[2] = 0 /\ s.timer[3] = 0

EveryCpu == \A c \in CPU : CpuInv(cpu[c])
IInv == TypeOK /\ EveryCpu

LEMMA PinFacts == 0 \in Pin /\ 1 \in Pin /\ 2 \in Pin /\ 3 \in Pin /\ 0 \in 0 .. Delay /\ Delay \in 0 .. Delay
  BY DelayAssumption DEF Pin

(* What one call of irq_h() does to the pin it names, and to the others. *)
LEMMA IrqHEffect ==
  ASSUME NEW s \in CpuState, NEW pin \in Pin, NEW assert \in BOOLEAN,
         NEW delay \in 0 .. Delay, NEW r, r = IrqH(s, pin, assert, delay)
  PROVE  /\ \A q \in Pin \ {pin} : (q \in r.eir <=> q \in s.eir) /\ r.timer[q] = s.timer[q]
         /\ ~assert => pin \notin r.eir /\ r.timer[pin] = 0
         /\ assert => Active(r, pin)
         /\ assert /\ delay = 0 /\ s.timer[pin] = 0 => pin \in r.eir /\ r.timer[pin] = 0
<1> USE DelayAssumption DEF CpuState
<1>1. CASE assert /\ ~Active(s, pin)
  BY <1>1 DEF IrqH, Raise, Active
<1>2. CASE ~assert /\ Active(s, pin)
  BY <1>2 DEF IrqH, Lower, Active
<1>3. CASE ~(assert /\ ~Active(s, pin)) /\ ~(~assert /\ Active(s, pin))
  BY <1>3 DEF IrqH, Active
<1> QED BY <1>1, <1>2, <1>3

(* irq_h() never breaks what holds of a CPU, as long as a delay is only asked *)
(* for on pins 0 and 1.                                                       *)
LEMMA IrqHInv ==
  ASSUME NEW s \in CpuState, CpuInv(s), NEW pin \in Pin, NEW assert \in BOOLEAN,
         NEW delay \in 0 .. Delay, pin \in {2, 3} => delay = 0
  PROVE  CpuInv(IrqH(s, pin, assert, delay))
<1> DEFINE r == IrqH(s, pin, assert, delay)
<1> USE DelayAssumption
<1>1. CASE assert /\ ~Active(s, pin) /\ delay # 0
  <2>1. r = [s EXCEPT !.timer = [@ EXCEPT ![pin] = delay], !.checkTimers = TRUE]
    BY <1>1 DEF IrqH, Raise
  <2>2. r.timer = [s.timer EXCEPT ![pin] = delay] /\ r.eir = s.eir /\ r.eien = s.eien
        /\ r.soft = s.soft /\ r.checkInt = s.checkInt /\ r.checkTimers = TRUE
    BY <2>1 DEF CpuState
  <2>3. r.timer[pin] = delay /\ \A q \in Pin \ {pin} : r.timer[q] = s.timer[q]
    BY SMTT(60), <2>2 DEF CpuState
  <2>4. Counting(r.timer)
    BY <1>1, <2>3 DEF Counting
  <2>5. \A q \in r.eir : r.timer[q] = 0
    <3>1. s.eir \subseteq Pin
      BY DEF CpuState
    <3>2. pin \notin s.eir
      BY SMTT(60), <1>1 DEF Active
    <3>3. \A q \in s.eir : s.timer[q] = 0
      BY DEF CpuInv
    <3> HIDE DEF r
    <3> QED BY <2>2, <2>3, <3>1, <3>2, <3>3
  <2>6. Pending(r) => r.checkInt
    BY <2>2 DEF CpuInv, Pending
  <2>7. r.timer[2] = 0 /\ r.timer[3] = 0
    BY <1>1, <2>3, PinFacts DEF CpuInv
  <2> QED BY <2>2, <2>4, <2>5, <2>6, <2>7 DEF CpuInv
<1>2. CASE assert /\ ~Active(s, pin) /\ delay = 0
  <2>1. r = [s EXCEPT !.eir = @ \cup {pin}, !.checkInt = TRUE]
    BY <1>2 DEF IrqH, Raise
  <2>2. r.timer = s.timer /\ r.eir = s.eir \cup {pin} /\ r.checkInt = TRUE
        /\ r.checkTimers = s.checkTimers
    BY <2>1 DEF CpuState
  <2> QED BY ZenonT(60), <1>2, <2>2 DEF CpuInv, Active
<1>3. CASE ~assert /\ Active(s, pin)
  <2> DEFINE t == [s.timer EXCEPT ![pin] = 0]
             counting == Counting(t)
  <2>1. r = [s EXCEPT !.eir = @ \ {pin}, !.timer = t, !.checkTimers = counting]
    BY <1>3 DEF IrqH, Lower
  <2> HIDE DEF counting
  <2>2. r.timer = t /\ r.eir = s.eir \ {pin} /\ r.eien = s.eien /\ r.soft = s.soft
        /\ r.checkInt = s.checkInt /\ r.checkTimers = counting
    BY <2>1 DEF CpuState
  <2>3. counting <=> Counting(r.timer)
    BY SMTT(60), <2>2 DEF counting
  <2>4. \A q \in Pin : r.timer[q] = IF q = pin THEN 0 ELSE s.timer[q]
    BY SMTT(60), <2>2 DEF CpuState
  <2>5. \A q \in r.eir : r.timer[q] = 0
    BY SMTT(60), <2>2, <2>4 DEF CpuInv, CpuState
  <2>6. Pending(r) => r.checkInt
    BY <2>2 DEF CpuInv, Pending
  <2> QED BY <2>2, <2>3, <2>4, <2>5, <2>6, PinFacts DEF CpuInv
<1>4. CASE ~(assert /\ ~Active(s, pin)) /\ ~(~assert /\ Active(s, pin))
  BY <1>4 DEF IrqH
<1> QED BY <1>1, <1>2, <1>3, <1>4

LEMMA EvaluateInv ==
  ASSUME NEW s \in CpuState, CpuInv(s), NEW requests
  PROVE  CpuInv(Evaluate(s, requests))
<1> DEFINE device == requests \cap DeviceLine # {}
           error == requests \cap ErrorLine # {}
<1>1. device \in BOOLEAN /\ error \in BOOLEAN
  OBVIOUS
<1>2. 1 \notin {2, 3} /\ 0 \notin {2, 3}
  OBVIOUS
<1>3. Evaluate(s, requests) = IrqH(IrqH(s, 1, device, Delay), 0, error, Delay)
  BY DEF Evaluate
<1> HIDE DEF device, error
<1>4. IrqH(s, 1, device, Delay) \in CpuState /\ CpuInv(IrqH(s, 1, device, Delay))
  BY <1>1, <1>2, PinFacts, IrqHType, IrqHInv
<1>5. CpuInv(IrqH(IrqH(s, 1, device, Delay), 0, error, Delay))
  BY <1>1, <1>2, <1>4, PinFacts, IrqHInv
<1> QED BY <1>3, <1>5

LEMMA PinsAfterInv ==
  ASSUME NEW s \in CpuState, CpuInv(s), NEW c \in CPU, NEW w \in MiscData
  PROVE  CpuInv(PinsAfter(s, c, w))
<1> DEFINE clocked == IF c \in w.itclr THEN IrqH(s, 2, FALSE, 0) ELSE s
           cleared == IF c \in w.ipclr THEN IrqH(clocked, 3, FALSE, 0) ELSE clocked
<1>1. clocked \in CpuState /\ CpuInv(clocked)
  BY PinFacts, IrqHType, IrqHInv
<1>2. cleared \in CpuState /\ CpuInv(cleared)
  BY <1>1, PinFacts, IrqHType, IrqHInv
<1> QED BY <1>2, PinFacts, IrqHInv DEF PinsAfter

LEMMA CountedDownInv ==
  ASSUME NEW s \in CpuState, CpuInv(s)
  PROVE  CpuInv(CountedDown(s))
<1> DEFINE t == [pin \in Pin |-> IF s.timer[pin] = 0 THEN 0 ELSE s.timer[pin] - 1]
           fired == {pin \in Pin : s.timer[pin] = 1}
           counting == Counting(t)
           check == s.checkInt \/ fired # {}
           r == CountedDown(s)
<1>1. CASE ~s.checkTimers
  BY SMTT(60), <1>1 DEF CountedDown
<1>2. CASE s.checkTimers
  <2>1. r = [s EXCEPT !.timer = t, !.checkTimers = counting,
                      !.eir = @ \cup fired, !.checkInt = check]
    BY <1>2 DEF CountedDown
  <2> HIDE DEF r, counting, check, t
  <2>2. r.timer = t /\ r.eir = s.eir \cup fired /\ r.eien = s.eien /\ r.soft = s.soft
        /\ r.checkInt = check /\ r.checkTimers = counting
    BY <2>1 DEF CpuState
  <2>3. counting <=> Counting(r.timer)
    BY <2>2 DEF counting
  <2>4. \A q \in Pin : t[q] = IF s.timer[q] = 0 THEN 0 ELSE s.timer[q] - 1
    BY DEF t
  <2>5. \A q \in r.eir : r.timer[q] = 0
    BY <2>2, <2>4 DEF CpuInv, CpuState
  <2>6. Pending(r) => check
    BY <2>2 DEF CpuInv, Pending, check
  <2> QED BY <2>2, <2>3, <2>4, <2>5, <2>6, PinFacts DEF CpuInv, r
<1> QED BY <1>1, <1>2

(* The invariant holds of every CPU in every reachable state. *)
THEOREM Inductive == Spec => []IInv
<1>1. Init => EveryCpu
  BY PinFacts DEF EveryCpu, Init, InitCpu, CpuInv, Counting, Pending
<1>2. TypeOK /\ EveryCpu /\ [Next]_vars => EveryCpu'
  <2> SUFFICES ASSUME TypeOK, \A c \in CPU : CpuInv(cpu[c]), [Next]_vars,
                      NEW d \in CPU
               PROVE  CpuInv(cpu'[d])
    BY DEF EveryCpu
  <2> USE DEF TypeOK
  <2>1. ASSUME NEW line \in Line, NEW assert \in BOOLEAN, Interrupt(line, assert)
        PROVE  CpuInv(cpu'[d])
    BY <2>1, EvaluateInv DEF Interrupt
  <2>2. CASE Clock
    <3>1. CASE cc + 1 = TickPeriod
      <4>1. IrqH(cpu[d], 2, TRUE, 0) \in CpuState /\ CpuInv(IrqH(cpu[d], 2, TRUE, 0))
        BY PinFacts, IrqHType, IrqHInv
      <4>2. cpu'[d] = Evaluate(IrqH(cpu[d], 2, TRUE, 0), drir \cap dim[d])
        BY <2>2, <3>1 DEF Clock, IntervalTick
      <4> QED BY <4>1, <4>2, EvaluateInv
    <3>2. CASE cc + 1 # TickPeriod
      BY <2>2, <3>2 DEF Clock
    <3> QED BY <3>1, <3>2
  <2>3. ASSUME NEW c \in CPU, Countdown(c) PROVE CpuInv(cpu'[d])
    BY <2>3, CountedDownInv DEF Countdown
  <2>4. ASSUME NEW c \in CPU, TakeInterrupt(c) PROVE CpuInv(cpu'[d])
    BY <2>4 DEF TakeInterrupt, CpuInv, CpuState, Pending
  <2>5. ASSUME NEW c \in CPU, NoInterrupt(c) PROVE CpuInv(cpu'[d])
    <3> DEFINE check == cpu[c].checkInt /\ cpu[c].pal
    <3>1. cpu' = [cpu EXCEPT ![c] = [cpu[c] EXCEPT !.checkInt = check]]
      BY <2>5 DEF NoInterrupt
    <3>2. Pending(cpu[c]) => check
      BY SMTT(60), <2>5 DEF NoInterrupt, CpuInv
    <3> HIDE DEF check
    <3> QED BY <3>1, <3>2 DEF CpuInv, CpuState, Pending
  <2>6. ASSUME NEW c \in CPU, NEW pal \in BOOLEAN, Jump(c, pal) PROVE CpuInv(cpu'[d])
    BY SMTT(60), <2>6 DEF Jump, CpuInv, CpuState, Pending
  <2>7. ASSUME NEW c \in CPU, NEW eien \in IerWrites, NEW soft \in BOOLEAN,
               WriteIer(c, eien, soft)
        PROVE  CpuInv(cpu'[d])
    <3>1. cpu' = [cpu EXCEPT ![c] = [cpu[c] EXCEPT !.eien = eien, !.soft = soft, !.checkInt = TRUE]]
      BY <2>7 DEF WriteIer
    <3> QED BY <3>1 DEF CpuInv, CpuState, Pending
  <2>8. ASSUME NEW c \in CPU, NEW e \in CPU, NEW mask \in DimWrites, WriteDim(c, e, mask)
        PROVE  CpuInv(cpu'[d])
    BY <2>8 DEF WriteDim
  <2>9. ASSUME NEW c \in CPU, NEW w \in MiscWrites[c], WriteMisc(c, w) PROVE CpuInv(cpu'[d])
    <3>1. w \in MiscData
      BY WriteAssumption
    <3> QED BY <2>9, <3>1, PinsAfterInv DEF WriteMisc
  <2>10. ASSUME NEW c \in CPU, ClearClockInt(c) PROVE CpuInv(cpu'[d])
    <3>1. CpuInv(IrqH(cpu[c], 2, FALSE, 0))
      BY ZenonT(60), PinFacts, IrqHInv
    <3> QED BY <2>10, <3>1 DEF ClearClockInt
  <2>11. CASE UNCHANGED vars
    BY <2>11 DEF vars
  <2> QED BY <2>1, <2>2, <2>3, <2>4, <2>5, <2>6, <2>7, <2>8, <2>9, <2>10, <2>11
          DEF Next, Execute, DeviceAccess, DeviceThread
<1> QED BY <1>1, <1>2, TypeCorrect, PTL DEF Spec, IInv

(* A running countdown is always looked at, and never for an asserted pin. *)
THEOREM CountdownSoundAlways == Spec => []CountdownSound
<1>1. IInv => CountdownSound
  BY DEF IInv, EveryCpu, CpuInv, CountdownSound
<1> QED BY <1>1, Inductive, PTL

(* No pending enabled interrupt is ever overlooked. *)
THEOREM NoLostCheckAlways == Spec => []NoLostCheck
<1>1. IInv => NoLostCheck
  BY DEF IInv, EveryCpu, CpuInv, NoLostCheck
<1> QED BY <1>1, Inductive, PTL

-----------------------------------------------------------------------------
(* The evaluation sets pins 1 and 0 to the level of the requests and leaves   *)
(* the clock pin and the pin of the other CPUs alone.                         *)
LEMMA EvaluateEffect ==
  ASSUME NEW s \in CpuState, NEW requests, NEW r, r = Evaluate(s, requests)
  PROVE  /\ Active(r, 1) <=> requests \cap DeviceLine # {}
         /\ Active(r, 0) <=> requests \cap ErrorLine # {}
         /\ 2 \in r.eir <=> 2 \in s.eir
         /\ 3 \in r.eir <=> 3 \in s.eir
<1> DEFINE device == requests \cap DeviceLine # {}
           error == requests \cap ErrorLine # {}
           one == IrqH(s, 1, device, Delay)
<1>1. device \in BOOLEAN /\ error \in BOOLEAN
  OBVIOUS
<1>2. r = IrqH(one, 0, error, Delay)
  BY DEF Evaluate
<1> HIDE DEF device, error
<1>3. one \in CpuState
  BY <1>1, PinFacts, IrqHType
<1>4. /\ \A q \in Pin \ {1} : (q \in one.eir <=> q \in s.eir) /\ one.timer[q] = s.timer[q]
      /\ ~device => 1 \notin one.eir /\ one.timer[1] = 0
      /\ device => Active(one, 1)
  BY <1>1, PinFacts, IrqHEffect
<1> HIDE DEF one
<1>5. /\ \A q \in Pin \ {0} : (q \in r.eir <=> q \in one.eir) /\ r.timer[q] = one.timer[q]
      /\ ~error => 0 \notin r.eir /\ r.timer[0] = 0
      /\ error => Active(r, 0)
  BY <1>1, <1>2, <1>3, PinFacts, IrqHEffect
<1>6. 1 \in Pin \ {0} /\ 2 \in Pin \ {0} /\ 3 \in Pin \ {0} /\ 2 \in Pin \ {1} /\ 3 \in Pin \ {1}
  BY PinFacts
<1>7. Active(r, 1) <=> device
  BY <1>4, <1>5, <1>6 DEF Active
<1>8. Active(r, 0) <=> error
  BY <1>5 DEF Active
<1> QED BY <1>4, <1>5, <1>6, <1>7, <1>8 DEF device, error

(* A change of DRIR leaves every pin at the level of the requests. *)
THEOREM LevelFollows == Spec => LevelAfterCall
<1>1. TypeOK /\ [Next]_vars =>
        [drir' # drir =>
           \A c \in CPU :
             /\ Active(cpu'[c], 1) <=> drir' \cap dim'[c] \cap DeviceLine # {}
             /\ Active(cpu'[c], 0) <=> drir' \cap dim'[c] \cap ErrorLine # {}]_vars
  <2> SUFFICES ASSUME TypeOK, [Next]_vars, drir' # drir, NEW c \in CPU
               PROVE  /\ Active(cpu'[c], 1) <=> drir' \cap dim'[c] \cap DeviceLine # {}
                      /\ Active(cpu'[c], 0) <=> drir' \cap dim'[c] \cap ErrorLine # {}
    OBVIOUS
  <2>1. ASSUME NEW line \in Line, NEW assert \in BOOLEAN, Interrupt(line, assert)
        PROVE  cpu'[c] = Evaluate(cpu[c], drir' \cap dim'[c])
    BY SMTT(60), <2>1 DEF Interrupt
  <2>2. \E line \in Line, assert \in BOOLEAN : Interrupt(line, assert)
    BY ZenonT(60) DEF Next, Execute, vars, Clock, IntervalTick, Countdown, TakeInterrupt, NoInterrupt,
           Jump, WriteIer, WriteDim, WriteMisc, ClearClockInt, DeviceAccess, DeviceThread
  <2>3. cpu'[c] = Evaluate(cpu[c], drir' \cap dim'[c]) /\ cpu[c] \in CpuState
    BY <2>1, <2>2 DEF TypeOK
  <2> QED BY SMTT(60), <2>3, EvaluateEffect
<1> QED BY <1>1, TypeCorrect, PTL DEF Spec, LevelAfterCall

(* Pins 2 and 3 are driven at once, and not together. *)
LEMMA ImmediatePin ==
  ASSUME NEW s \in CpuState, CpuInv(s), NEW pin \in {2, 3}, NEW assert \in BOOLEAN
  PROVE  /\ IrqH(s, pin, assert, 0) \in CpuState
         /\ CpuInv(IrqH(s, pin, assert, 0))
         /\ pin \in IrqH(s, pin, assert, 0).eir <=> assert
         /\ \A q \in {2, 3} \ {pin} : q \in IrqH(s, pin, assert, 0).eir <=> q \in s.eir
<1> DEFINE r == IrqH(s, pin, assert, 0)
<1>1. pin \in Pin /\ s.timer[pin] = 0 /\ \A q \in {2, 3} \ {pin} : q \in Pin \ {pin}
  BY PinFacts DEF CpuInv
<1>2. r \in CpuState /\ CpuInv(r)
  BY <1>1, PinFacts, IrqHType, IrqHInv
<1>3. /\ \A q \in Pin \ {pin} : (q \in r.eir <=> q \in s.eir) /\ r.timer[q] = s.timer[q]
      /\ ~assert => pin \notin r.eir /\ r.timer[pin] = 0
      /\ assert /\ 0 = 0 /\ s.timer[pin] = 0 => pin \in r.eir /\ r.timer[pin] = 0
  BY <1>1, PinFacts, IrqHEffect
<1> QED BY <1>1, <1>2, <1>3

LEMMA ClockPin ==
  ASSUME NEW s \in CpuState, CpuInv(s)
  PROVE  /\ IrqH(s, 2, TRUE, 0) \in CpuState /\ CpuInv(IrqH(s, 2, TRUE, 0))
         /\ 2 \in IrqH(s, 2, TRUE, 0).eir
         /\ 3 \in IrqH(s, 2, TRUE, 0).eir <=> 3 \in s.eir
         /\ IrqH(s, 2, FALSE, 0) \in CpuState /\ CpuInv(IrqH(s, 2, FALSE, 0))
         /\ 2 \notin IrqH(s, 2, FALSE, 0).eir
         /\ 3 \in IrqH(s, 2, FALSE, 0).eir <=> 3 \in s.eir
<1>1. 2 \in {2, 3} /\ 3 \in {2, 3} \ {2}
  OBVIOUS
<1> QED BY <1>1, ImmediatePin, Zenon

LEMMA ProcessorPin ==
  ASSUME NEW s \in CpuState, CpuInv(s)
  PROVE  /\ IrqH(s, 3, TRUE, 0) \in CpuState /\ CpuInv(IrqH(s, 3, TRUE, 0))
         /\ 3 \in IrqH(s, 3, TRUE, 0).eir
         /\ 2 \in IrqH(s, 3, TRUE, 0).eir <=> 2 \in s.eir
         /\ IrqH(s, 3, FALSE, 0) \in CpuState /\ CpuInv(IrqH(s, 3, FALSE, 0))
         /\ 3 \notin IrqH(s, 3, FALSE, 0).eir
         /\ 2 \in IrqH(s, 3, FALSE, 0).eir <=> 2 \in s.eir
<1>1. 3 \in {2, 3} /\ 2 \in {2, 3} \ {3}
  OBVIOUS
<1> QED BY <1>1, ImmediatePin, Zenon

(* MISC<ITINTR> and MISC<IPINTR> always agree with the pins they stand for. *)
THEOREM MiscMatchesPinsAlways == Spec => []MiscMatchesPins
<1>1. Init => MiscMatchesPins
  BY DEF Init, InitCpu, MiscMatchesPins
<1>2. IInv /\ MiscMatchesPins /\ [Next]_vars => MiscMatchesPins'
  <2> SUFFICES ASSUME IInv, MiscMatchesPins, [Next]_vars, NEW d \in CPU
               PROVE  /\ d \in misc'.itintr <=> 2 \in cpu'[d].eir
                      /\ d \in misc'.ipintr <=> 3 \in cpu'[d].eir
    BY DEF MiscMatchesPins
  <2>0. /\ cpu[d] \in CpuState /\ CpuInv(cpu[d]) /\ misc \in MiscState
        /\ cpu \in [CPU -> CpuState]
        /\ d \in misc.itintr <=> 2 \in cpu[d].eir
        /\ d \in misc.ipintr <=> 3 \in cpu[d].eir
    BY DEF IInv, EveryCpu, TypeOK, MiscMatchesPins
  <2>1. ASSUME NEW line \in Line, NEW assert \in BOOLEAN, Interrupt(line, assert)
        PROVE  /\ d \in misc'.itintr <=> 2 \in cpu'[d].eir
               /\ d \in misc'.ipintr <=> 3 \in cpu'[d].eir
    <3>1. misc' = misc /\ cpu'[d] = Evaluate(cpu[d], drir' \cap dim[d])
      BY <2>1 DEF Interrupt
    <3> QED BY SMTT(60), <2>0, <3>1, EvaluateEffect
  <2>2. CASE Clock
    <3>1. CASE cc + 1 = TickPeriod
      <4> DEFINE clocked == IrqH(cpu[d], 2, TRUE, 0)
      <4>1. clocked \in CpuState /\ 2 \in clocked.eir /\ (3 \in clocked.eir <=> 3 \in cpu[d].eir)
        BY <2>0, ClockPin
      <4>2. cpu'[d] = Evaluate(clocked, drir \cap dim[d])
            /\ misc' = [misc EXCEPT !.itintr = CPU]
        BY <2>2, <3>1 DEF Clock, IntervalTick
      <4>3. d \in misc'.itintr /\ misc'.ipintr = misc.ipintr
        BY <2>0, <4>2 DEF MiscState
      <4> HIDE DEF clocked
      <4> QED BY <2>0, <4>1, <4>2, <4>3, EvaluateEffect
    <3>2. CASE cc + 1 # TickPeriod
      BY <2>0, <2>2, <3>2 DEF Clock
    <3> QED BY SMTT(60), <3>1, <3>2
  <2>3. ASSUME NEW c \in CPU, Countdown(c)
        PROVE  /\ d \in misc'.itintr <=> 2 \in cpu'[d].eir
               /\ d \in misc'.ipintr <=> 3 \in cpu'[d].eir
    <3>1. 2 \in CountedDown(cpu[d]).eir <=> 2 \in cpu[d].eir
      BY SMTT(60), <2>0 DEF CountedDown, CpuState, CpuInv
    <3>2. 3 \in CountedDown(cpu[d]).eir <=> 3 \in cpu[d].eir
      BY <2>0 DEF CountedDown, CpuState, CpuInv
    <3> QED BY <2>0, <2>3, <3>1, <3>2 DEF Countdown
  <2>4. ASSUME NEW c \in CPU, \/ TakeInterrupt(c) \/ NoInterrupt(c)
                              \/ \E pal \in BOOLEAN : Jump(c, pal)
                              \/ \E eien \in IerWrites, soft \in BOOLEAN : WriteIer(c, eien, soft)
                              \/ \E e \in CPU, mask \in DimWrites : WriteDim(c, e, mask)
                              \/ UNCHANGED vars
        PROVE  /\ d \in misc'.itintr <=> 2 \in cpu'[d].eir
               /\ d \in misc'.ipintr <=> 3 \in cpu'[d].eir
    <3>1. misc' = misc
      BY <2>4 DEF TakeInterrupt, NoInterrupt, Jump, WriteIer, WriteDim, vars
    <3>2. cpu'[d].eir = cpu[d].eir
      <4>1. CASE TakeInterrupt(c)
        BY <2>0, <4>1 DEF TakeInterrupt, CpuState
      <4>2. CASE NoInterrupt(c)
        BY <2>0, <4>2 DEF NoInterrupt, CpuState
      <4>3. CASE \E pal \in BOOLEAN : Jump(c, pal)
        BY <2>0, <4>3 DEF Jump, CpuState
      <4>4. CASE \E eien \in IerWrites, soft \in BOOLEAN : WriteIer(c, eien, soft)
        BY SMTT(60), <2>0, <4>4 DEF WriteIer, CpuState
      <4>5. CASE (\E e \in CPU, mask \in DimWrites : WriteDim(c, e, mask)) \/ UNCHANGED vars
        BY <4>5 DEF WriteDim, vars
      <4> QED BY <2>4, <4>1, <4>2, <4>3, <4>4, <4>5
    <3> QED BY <2>0, <3>1, <3>2
  <2>5. ASSUME NEW c \in CPU, NEW w \in MiscWrites[c], WriteMisc(c, w)
        PROVE  /\ d \in misc'.itintr <=> 2 \in cpu'[d].eir
               /\ d \in misc'.ipintr <=> 3 \in cpu'[d].eir
    <3> DEFINE clocked == IF d \in w.itclr THEN IrqH(cpu[d], 2, FALSE, 0) ELSE cpu[d]
               cleared == IF d \in w.ipclr THEN IrqH(clocked, 3, FALSE, 0) ELSE clocked
               asked == IF d \in w.ipreq THEN IrqH(cleared, 3, TRUE, 0) ELSE cleared
    <3>1. cpu'[d] = asked /\ misc' = MiscAfter(misc, w) /\ w \in MiscData
      BY <2>5, WriteAssumption DEF WriteMisc, PinsAfter
    <3>2. /\ clocked \in CpuState /\ CpuInv(clocked)
          /\ 2 \in clocked.eir <=> 2 \in cpu[d].eir /\ d \notin w.itclr
          /\ 3 \in clocked.eir <=> 3 \in cpu[d].eir
      BY <2>0, ClockPin
    <3> HIDE DEF clocked
    <3>3. /\ cleared \in CpuState /\ CpuInv(cleared)
          /\ 2 \in cleared.eir <=> 2 \in clocked.eir
          /\ 3 \in cleared.eir <=> 3 \in clocked.eir /\ d \notin w.ipclr
      BY <3>2, ProcessorPin
    <3> HIDE DEF cleared
    <3>4. /\ 2 \in asked.eir <=> 2 \in cleared.eir
          /\ 3 \in asked.eir <=> 3 \in cleared.eir \/ d \in w.ipreq
      BY <3>3, ProcessorPin
    <3>5. /\ d \in misc'.itintr <=> d \in misc.itintr /\ d \notin w.itclr
          /\ d \in misc'.ipintr <=> (d \in misc.ipintr /\ d \notin w.ipclr) \/ d \in w.ipreq
      BY <3>1 DEF MiscAfter
    <3> QED BY <2>0, <3>1, <3>2, <3>3, <3>4, <3>5
  <2>6. ASSUME NEW c \in CPU, ClearClockInt(c)
        PROVE  /\ d \in misc'.itintr <=> 2 \in cpu'[d].eir
               /\ d \in misc'.ipintr <=> 3 \in cpu'[d].eir
    <3>1. misc'.itintr = misc.itintr \ {c} /\ misc'.ipintr = misc.ipintr
      BY <2>0, <2>6 DEF ClearClockInt, MiscState
    <3>2. CASE c = d
      <4>1. cpu'[d] = IrqH(cpu[d], 2, FALSE, 0)
        BY <2>0, <2>6, <3>2 DEF ClearClockInt
      <4> QED BY <2>0, <3>1, <3>2, <4>1, ClockPin
    <3>3. CASE c # d
      BY <2>0, <2>6, <3>1, <3>3 DEF ClearClockInt
    <3> QED BY <3>2, <3>3
  <2> QED BY <2>1, <2>2, <2>3, <2>4, <2>5, <2>6 DEF Next, Execute, DeviceAccess, DeviceThread
<1> QED BY <1>1, <1>2, Inductive, PTL DEF Spec

(* If no CPU writes another's bit of MISC<ABW>, there is never more than one  *)
(* winner.                                                                    *)
THEOREM OneWinner ==
  ASSUME \A c \in CPU : \A w \in MiscWrites[c] : w.abw \subseteq {c}
  PROVE  Spec => []AtMostOneWinner
<1>1. Init => AtMostOneWinner
  BY DEF Init, AtMostOneWinner
<1>2. TypeOK /\ AtMostOneWinner /\ [Next]_vars => AtMostOneWinner'
  <2> SUFFICES ASSUME TypeOK, AtMostOneWinner, [Next]_vars PROVE AtMostOneWinner'
    OBVIOUS
  <2>1. ASSUME NEW c \in CPU, NEW w \in MiscWrites[c], WriteMisc(c, w)
        PROVE  AtMostOneWinner'
    <3>1. misc'.abw = misc.abw \/ misc'.abw = {} \/ misc'.abw \subseteq {c}
      BY <2>1 DEF WriteMisc, MiscAfter
    <3> QED BY <3>1 DEF AtMostOneWinner
  <2>2. ASSUME NEW c \in CPU, ClearClockInt(c) \/ Clock PROVE misc'.abw = misc.abw
    BY <2>2 DEF ClearClockInt, Clock, IntervalTick, TypeOK, MiscState
  <2>3. \/ \E c \in CPU : \E w \in MiscWrites[c] : WriteMisc(c, w)
        \/ misc'.abw = misc.abw
    BY ZenonT(60), <2>2 DEF Next, Execute, vars, Countdown, TakeInterrupt, NoInterrupt,
           Jump, WriteIer, WriteDim, Interrupt, DeviceAccess, DeviceThread
  <2> QED BY SMTT(60), <2>1, <2>3 DEF AtMostOneWinner
<1> QED BY <1>1, <1>2, TypeCorrect, PTL DEF Spec

-----------------------------------------------------------------------------
(* The translation buffer.                                                    *)

(* The pages an entry maps, and the space it maps them in.                   *)
Covers(e, p) == e.valid /\ Tb!First(p, e.gh) = e.virt
SpaceIn(e) == IF e.asm THEN Tb!Everywhere ELSE e.asn

(* An entry is of a space and a block of pages, and right about every page  *)
(* that has not been changed since it was invalidated.                      *)
WellFormed(e) ==
  e.valid => e.asn \in TbSpaces /\ e.virt \in TbPages /\ (e.asm <=> e.virt \in TbGlobal)
RightAbout(e, p) ==
  Covers(e, p) /\ <<SpaceIn(e), p>> \notin tbOwed =>
    e.gh = tbPt[SpaceIn(e)].gh /\ e.phys = Tb!Frame(tbPt[SpaceIn(e)], e.virt)
AllWellFormed == \A i \in Tb!Slot : WellFormed(tbTb[i])
AllRight == \A i \in Tb!Slot : \A p \in TbPages : RightAbout(tbTb[i], p)

(* No page of a space is mapped twice: invalidating the entry that is found *)
(* leaves none.                                                             *)
BothMap(d, e, p) == Covers(d, p) /\ Covers(e, p) /\ SpaceIn(d) = SpaceIn(e)
NoneTwice == \A i, j \in Tb!Slot : \A p \in TbPages : BothMap(tbTb[i], tbTb[j], p) => i = j

TbInv == Tb!TypeOK /\ AllWellFormed /\ AllRight /\ NoneTwice

-----------------------------------------------------------------------------
(* The least element of a set of numbers is one of them.                     *)
LEMMA MinInSet == ASSUME NEW T, T \subseteq Nat, T # {} PROVE Tb!Min(T) \in T
<1> DEFINE R == {p \in Nat \X Nat : p[1] < p[2]}
<1>1. IsWellFoundedOn(R, Nat)
  BY NatLessThanWellFounded DEF OpToRel
<1>2. \E a \in T : \A b \in T : ~(<<b, a>> \in R)
  <2> HIDE DEF R
  <2> QED BY <1>1, WFMin
<1>3. PICK a \in T : \A b \in T : ~(<<b, a>> \in R)
  BY <1>2
<1>4. ASSUME NEW b \in T PROVE a <= b
  <2>1. a \in Nat /\ b \in Nat
    OBVIOUS
  <2>2. <<b, a>> \in Nat \X Nat /\ <<b, a>>[1] = b /\ <<b, a>>[2] = a
    BY <2>1
  <2>3. ~(b < a)
    BY <1>3, <2>2
  <2> QED BY <2>1, <2>3
<1> QED BY <1>4 DEF Tb!Min

(* A lookup finds an entry that matches, if there is one.                    *)
LEMMA TbFindIs ==
  ASSUME Tb!ParametersOK, NEW p \in TbPages, NEW rw \in Tb!Access
  PROVE  \/ Tb!Find(p, rw) = Tb!None /\ \A i \in Tb!Slot : ~Tb!Matches(tbTb[i], p, tbAsn)
         \/ Tb!Find(p, rw) \in Tb!Slot /\ Tb!Find(p, rw) # Tb!None
              /\ Tb!Matches(tbTb[Tb!Find(p, rw)], p, tbAsn)
<1> DEFINE hits == {i \in Tb!Slot : Tb!Matches(tbTb[i], p, tbAsn)}
<1>1. hits \subseteq Nat /\ Tb!None \notin Tb!Slot
  BY DEF Tb!ParametersOK, Tb!Slot, Tb!None
<1>2. Tb!Find(p, rw) = IF tbLast[rw] \in hits THEN tbLast[rw]
                       ELSE IF hits # {} THEN Tb!Min(hits) ELSE Tb!None
  BY DEF Tb!Find
<1>3. hits # {} => Tb!Min(hits) \in hits
  <2> HIDE DEF hits
  <2> QED BY <1>1, MinInSet
<1>4. hits # {} => Tb!Find(p, rw) \in hits
  <2> HIDE DEF hits
  <2> QED BY <1>2, <1>3
<1>5. hits = {} => Tb!Find(p, rw) = Tb!None
  <2> HIDE DEF hits
  <2> QED BY SMTT(60), <1>2
<1> QED BY <1>1, <1>4, <1>5

(* The pages of a block are in Global or out of it together.                 *)
LEMMA BlocksWhole ==
  ASSUME Tb!ParametersOK, NEW p \in TbPages, NEW gh \in 0 .. 1
  PROVE  /\ Tb!First(p, gh) \in TbPages /\ (Tb!First(p, gh) \in TbGlobal <=> p \in TbGlobal)
         /\ Tb!First(p, 0) = p /\ Tb!First(p, 1) = p - (p % 2)
         /\ Tb!First(Tb!First(p, gh), gh) = Tb!First(p, gh)
<1>1. p \in Nat
  BY DEF Tb!ParametersOK
<1>2. Tb!First(p, 0) = p /\ Tb!First(p, 1) = p - (p % 2)
  BY SMTT(60), <1>1 DEF Tb!First, Tb!Size
<1>3. CASE gh = 0
  BY SMTT(60), <1>2, <1>3
<1>4. CASE gh = 1
  <2>1. Tb!First(p, gh) \in TbPages /\ (Tb!First(p, gh) \in TbGlobal <=> p \in TbGlobal)
    BY <1>2, <1>4 DEF Tb!ParametersOK
  <2>2. (p - (p % 2)) - ((p - (p % 2)) % 2) = p - (p % 2)
    BY <1>1
  <2> QED BY <2>1, <2>2, <1>2, <1>4 DEF Tb!First, Tb!Size
<1> QED BY <1>3, <1>4

(* An entry matches just when it maps the page in the space of the page.     *)
LEMMA TbMatchesIs ==
  ASSUME Tb!ParametersOK, Tb!TypeOK, AllWellFormed, NEW i \in Tb!Slot, NEW p \in TbPages
  PROVE  Tb!Matches(tbTb[i], p, tbAsn)
         <=> Covers(tbTb[i], p) /\ SpaceIn(tbTb[i]) = Tb!SpaceOf(tbAsn, p)
<1>1. /\ tbTb[i].valid \in BOOLEAN /\ tbTb[i].gh \in 0 .. 1 /\ tbTb[i].asm \in BOOLEAN
      /\ tbAsn \in TbSpaces
  BY DEF Tb!TypeOK
<1>2. tbTb[i].valid => (tbTb[i].asm <=> tbTb[i].virt \in TbGlobal)
  BY DEF AllWellFormed, WellFormed
<1>3. Tb!First(p, tbTb[i].gh) = tbTb[i].virt => (tbTb[i].virt \in TbGlobal <=> p \in TbGlobal)
  BY <1>1, BlocksWhole
<1>4. Tb!Everywhere \notin TbSpaces
  BY DEF Tb!ParametersOK, Tb!Everywhere
<1>5. Covers(tbTb[i], p) => (tbTb[i].asm <=> p \in TbGlobal)
  BY SMTT(60), <1>2, <1>3 DEF Covers
<1> QED BY <1>1, <1>4, <1>5 DEF Tb!Matches, Covers, SpaceIn, Tb!SpaceOf

-----------------------------------------------------------------------------
LEMMA FrameIsNat ==
  ASSUME NEW m, m.version \in Nat, NEW p \in Nat PROVE Tb!Frame(m, p) \in Nat
<1>1. p % 2 \in 0 .. 1
  OBVIOUS
<1> QED BY <1>1 DEF Tb!Frame

LEMMA TbTypedInit == ASSUME Tb!ParametersOK, Tb!Init PROVE Tb!TypeOK
<1>1. 0 \in Tb!Slot /\ (CHOOSE v \in TbVersions : TRUE) \in TbVersions
  BY DEF Tb!ParametersOK, Tb!Slot
<1> QED BY <1>1 DEF Tb!Init, Tb!TypeOK, Tb!Invalid, Tb!Mapping

(* What a fill writes.                                                       *)
TbFilled(p) ==
  [valid |-> TRUE, virt |-> Tb!First(p, Tb!Pte(p).gh), gh |-> Tb!Pte(p).gh,
   phys |-> Tb!Frame(Tb!Pte(p), Tb!First(p, Tb!Pte(p).gh)), asm |-> p \in TbGlobal, asn |-> tbAsn]

LEMMA PteMaps ==
  ASSUME Tb!ParametersOK, Tb!TypeOK, NEW p \in TbPages
  PROVE Tb!SpaceOf(tbAsn, p) \in TbSpaces \cup {Tb!Everywhere} /\ Tb!Pte(p) \in Tb!Mapping
  BY DEF Tb!TypeOK, Tb!SpaceOf, Tb!Pte

LEMMA TbFilledIs ==
  ASSUME Tb!ParametersOK, Tb!TypeOK, NEW p \in TbPages
  PROVE  /\ TbFilled(p) \in [valid : BOOLEAN, virt : TbPages \cup {0}, gh : 0 .. 1, phys : Nat,
                           asm : BOOLEAN, asn : TbSpaces \cup {0}]
         /\ TbFilled(p).valid /\ TbFilled(p).virt = Tb!First(p, Tb!Pte(p).gh)
         /\ TbFilled(p).gh = Tb!Pte(p).gh
         /\ TbFilled(p).phys = Tb!Frame(Tb!Pte(p), Tb!First(p, Tb!Pte(p).gh))
         /\ (TbFilled(p).asm <=> p \in TbGlobal) /\ TbFilled(p).asn = tbAsn
<1>1. Tb!Pte(p).gh \in 0 .. 1 /\ Tb!Pte(p).version \in Nat /\ tbAsn \in TbSpaces
  <2>1. Tb!Pte(p) \in [gh : {0, 1}, version : TbVersions]
    BY PteMaps DEF Tb!Mapping
  <2>2. Tb!Pte(p).gh \in 0 .. 1 /\ Tb!Pte(p).version \in TbVersions
    BY <2>1
  <2> QED BY <2>2 DEF Tb!TypeOK, Tb!ParametersOK
<1>2. Tb!First(p, Tb!Pte(p).gh) \in TbPages
  BY <1>1, BlocksWhole
<1>3. Tb!Frame(Tb!Pte(p), Tb!First(p, Tb!Pte(p).gh)) \in Nat
  BY <1>1, <1>2, FrameIsNat DEF Tb!ParametersOK
<1> DEFINE v == Tb!First(p, Tb!Pte(p).gh)
           gh == Tb!Pte(p).gh
           f == Tb!Frame(Tb!Pte(p), Tb!First(p, Tb!Pte(p).gh))
           g == p \in TbGlobal
<1>4. TbFilled(p) = [valid |-> TRUE, virt |-> v, gh |-> gh, phys |-> f, asm |-> g, asn |-> tbAsn]
  BY DEF TbFilled
<1>5. g \in BOOLEAN /\ v \in TbPages /\ gh \in 0 .. 1 /\ f \in Nat /\ tbAsn \in TbSpaces
  BY <1>1, <1>2, <1>3
<1> HIDE DEF v, gh, f, g
<1>6. /\ TbFilled(p) \in [valid : BOOLEAN, virt : TbPages \cup {0}, gh : 0 .. 1, phys : Nat,
                        asm : BOOLEAN, asn : TbSpaces \cup {0}]
      /\ TbFilled(p).valid /\ TbFilled(p).virt = v /\ TbFilled(p).gh = gh
      /\ TbFilled(p).phys = f /\ TbFilled(p).asm = g /\ TbFilled(p).asn = tbAsn
  BY <1>4, <1>5
<1> QED BY <1>6 DEF v, gh, f, g

LEMMA TbTypedStep == ASSUME Tb!ParametersOK, Tb!TypeOK, [Tb!Next]_tbVars PROVE Tb!TypeOK'
<1> DEFINE TbEntry == [valid : BOOLEAN, virt : TbPages \cup {0}, gh : 0 .. 1, phys : Nat,
                     asm : BOOLEAN, asn : TbSpaces \cup {0}]
<1>1. /\ Tb!Invalid \in TbEntry /\ 0 \in Tb!Slot
      /\ (tbNext + 1) % TbEntries \in Tb!Slot /\ "read" \in Tb!Access
  BY DEF Tb!Invalid, Tb!Slot, Tb!ParametersOK, Tb!TypeOK, Tb!Access
<1>2. \A p \in TbPages, rw \in Tb!Access : Tb!Find(p, rw) # Tb!None => Tb!Find(p, rw) \in Tb!Slot
  BY TbFindIs
<1>3. \A p \in TbPages, i \in Tb!Slot : Tb!Place(p, i) =>
        tbTb' \in [Tb!Slot -> TbEntry] /\ tbLast' \in [Tb!Access -> Tb!Slot]
  <2> SUFFICES ASSUME NEW p \in TbPages, NEW i \in Tb!Slot, Tb!Place(p, i)
               PROVE tbTb' \in [Tb!Slot -> TbEntry] /\ tbLast' \in [Tb!Access -> Tb!Slot]
    OBVIOUS
  <2>1. TbFilled(p) \in TbEntry
    BY TbFilledIs
  <2>2. tbTb' = [tbTb EXCEPT ![i] = TbFilled(p)] /\ tbLast' = [tbLast EXCEPT !["read"] = i]
    BY DEF Tb!Place, TbFilled
  <2> HIDE DEF TbEntry
  <2>3. tbTb \in [Tb!Slot -> TbEntry] /\ tbLast \in [Tb!Access -> Tb!Slot]
    BY DEF Tb!TypeOK, TbEntry
  <2> QED BY <2>1, <2>2, <2>3
<1>4. tbTb \in [Tb!Slot -> TbEntry]
  BY DEF Tb!TypeOK
<1>5. ASSUME tbTb' \in [Tb!Slot -> TbEntry], tbLast' \in [Tb!Access -> Tb!Slot],
             tbNext' \in Tb!Slot, tbAsn' \in TbSpaces, tbPt' \in [TbSpaces \cup {Tb!Everywhere} -> Tb!Mapping],
             tbOwed' \subseteq (TbSpaces \cup {Tb!Everywhere}) \X TbPages
      PROVE Tb!TypeOK'
  BY <1>5 DEF Tb!TypeOK, Tb!Slot, Tb!Access, Tb!Mapping
<1> HIDE DEF TbEntry
<1>6. ASSUME NEW p \in TbPages, Tb!Fill(p) PROVE Tb!TypeOK'
  BY <1>1, <1>2, <1>3, <1>5, <1>6 DEF Tb!Fill, Tb!TypeOK
<1>7. ASSUME NEW p \in TbPages, Tb!Tbis(p) PROVE Tb!TypeOK'
  <2>1. tbTb' \in [Tb!Slot -> TbEntry]
    BY <1>1, <1>4, <1>7 DEF Tb!Tbis
  <2>2. tbLast' \in [Tb!Access -> Tb!Slot]
    BY <1>1, <1>2, <1>7 DEF Tb!Tbis, Tb!Found, Tb!TypeOK
  <2> QED BY <2>1, <2>2, <1>5, <1>7 DEF Tb!Tbis, Tb!TypeOK
<1>8. ASSUME NEW p \in TbPages, NEW rw \in Tb!Access, Tb!Lookup(p, rw) PROVE Tb!TypeOK'
  BY <1>2, <1>4, <1>5, <1>8 DEF Tb!Lookup, Tb!Found, Tb!TypeOK
<1>9. ASSUME Tb!Tbia PROVE Tb!TypeOK'
  BY <1>1, <1>5, <1>9 DEF Tb!Tbia, Tb!TypeOK
<1>10. ASSUME Tb!Tbiap PROVE Tb!TypeOK'
  BY <1>1, <1>4, <1>5, <1>10 DEF Tb!Tbiap, Tb!TypeOK
<1>11. ASSUME NEW a \in TbSpaces, Tb!SetAsn(a) PROVE Tb!TypeOK'
  BY <1>4, <1>5, <1>11 DEF Tb!SetAsn, Tb!tbVars, Tb!TypeOK
<1>12. ASSUME NEW s \in TbSpaces \cup {Tb!Everywhere}, NEW m \in Tb!Mapping, Tb!Remap(s, m)
       PROVE  Tb!TypeOK'
  <2>1. {s} \X Tb!PagesOf(s) \subseteq (TbSpaces \cup {Tb!Everywhere}) \X TbPages
    <3>1. Tb!PagesOf(s) \subseteq TbPages
      BY SMTT(60) DEF Tb!PagesOf, Tb!ParametersOK
    <3> QED BY <3>1
  <2> QED BY <2>1, <1>4, <1>5, <1>12 DEF Tb!Remap, Tb!tbVars, Tb!TypeOK
<1>13. CASE UNCHANGED tbVars
  BY <1>4, <1>5, <1>13 DEF tbVars, Tb!TypeOK
<1> QED BY <1>6, <1>7, <1>8, <1>9, <1>10, <1>11, <1>12, <1>13 DEF Tb!Next

-----------------------------------------------------------------------------
(* A fill writes an entry of the space of the page, for pages of its block.   *)
LEMMA TbFilledMaps ==
  ASSUME Tb!ParametersOK, Tb!TypeOK, NEW p \in TbPages
  PROVE  /\ WellFormed(TbFilled(p)) /\ SpaceIn(TbFilled(p)) = Tb!SpaceOf(tbAsn, p)
         /\ \A q \in TbPages : Covers(TbFilled(p), q) =>
              q \in Tb!BlockOf(p) /\ Tb!First(q, Tb!Pte(p).gh) = Tb!First(p, Tb!Pte(p).gh)
<1>1. Tb!Pte(p).gh \in 0 .. 1 /\ tbAsn \in TbSpaces
  BY SMTT(60), TbFilledIs DEF Tb!TypeOK
<1>2. /\ Tb!First(p, Tb!Pte(p).gh) \in TbPages
      /\ (Tb!First(p, Tb!Pte(p).gh) \in TbGlobal <=> p \in TbGlobal)
  BY <1>1, BlocksWhole
<1>3. WellFormed(TbFilled(p)) /\ SpaceIn(TbFilled(p)) = Tb!SpaceOf(tbAsn, p)
  BY <1>1, <1>2, TbFilledIs DEF WellFormed, SpaceIn, Tb!SpaceOf
<1>4. ASSUME NEW q \in TbPages, Covers(TbFilled(p), q)
      PROVE q \in Tb!BlockOf(p) /\ Tb!First(q, Tb!Pte(p).gh) = Tb!First(p, Tb!Pte(p).gh)
  <2>1. Tb!First(q, Tb!Pte(p).gh) = Tb!First(p, Tb!Pte(p).gh)
    BY SMTT(60), <1>4, TbFilledIs DEF Covers
  <2>2. Tb!First(q, 0) = q /\ Tb!First(p, 0) = p
    BY BlocksWhole
  <2>3. Tb!First(q, 1) = Tb!First(p, 1)
    <3>1. CASE Tb!Pte(p).gh = 0
      BY <3>1, <2>1, <2>2
    <3>2. CASE Tb!Pte(p).gh = 1
      BY <3>2, <2>1
    <3> QED BY <3>1, <3>2, <1>1
  <2> QED BY SMTT(60), <2>1, <2>3 DEF Tb!BlockOf
<1> QED BY <1>3, <1>4

LEMMA TbPlaceStep ==
  ASSUME Tb!ParametersOK, TbInv, NEW p \in TbPages, NEW i \in Tb!Slot,
         Tb!Allowed(p), Tb!Find(p, "read") \in {Tb!None, i}, Tb!Place(p, i),
         UNCHANGED <<tbAsn, tbPt, tbOwed>>
  PROVE  AllWellFormed' /\ AllRight' /\ NoneTwice'
<1>1. /\ tbTb'[i] = TbFilled(p) /\ \A j \in Tb!Slot : j # i => tbTb'[j] = tbTb[j]
  BY DEF Tb!Place, TbFilled, TbInv, Tb!TypeOK
<1>2. AllWellFormed'
  BY SMTT(60), <1>1, TbFilledMaps DEF TbInv, AllWellFormed, WellFormed
<1>3. AllRight'
  <2>1. \A q \in TbPages : RightAbout(TbFilled(p), q)
    BY TbFilledMaps, TbFilledIs DEF TbInv, RightAbout, Tb!Pte
  <2> QED BY <1>1, <2>1 DEF TbInv, AllRight, RightAbout
<1>4. ASSUME NEW j \in Tb!Slot, j # i, NEW q \in TbPages PROVE ~BothMap(TbFilled(p), tbTb[j], q)
  <2> SUFFICES ASSUME BothMap(TbFilled(p), tbTb[j], q) PROVE FALSE
    OBVIOUS
  <2>1. /\ SpaceIn(tbTb[j]) = Tb!SpaceOf(tbAsn, p) /\ Covers(tbTb[j], q)
        /\ q \in Tb!BlockOf(p) /\ Tb!First(q, Tb!Pte(p).gh) = Tb!First(p, Tb!Pte(p).gh)
    BY TbFilledMaps DEF BothMap, TbInv
  <2>2. tbTb[j].gh = Tb!Pte(p).gh
    BY <2>1 DEF Tb!Allowed, TbInv, AllRight, RightAbout, Tb!Pte
  <2>3. Covers(tbTb[j], p)
    BY <2>1, <2>2 DEF Covers
  <2>4. Tb!Matches(tbTb[j], p, tbAsn)
    BY <2>1, <2>3, TbMatchesIs DEF TbInv
  <2>5. "read" \in Tb!Access
    BY DEF Tb!Access
  <2>6. Tb!Find(p, "read") = i /\ Tb!Matches(tbTb[i], p, tbAsn)
    BY <2>4, <2>5, TbFindIs
  <2>7. Covers(tbTb[i], p) /\ SpaceIn(tbTb[i]) = Tb!SpaceOf(tbAsn, p)
    BY <2>6, TbMatchesIs DEF TbInv
  <2> QED BY <2>1, <2>3, <2>7, <1>4 DEF TbInv, NoneTwice, BothMap
<1>5. NoneTwice'
  <2> SUFFICES ASSUME NEW j \in Tb!Slot, NEW k \in Tb!Slot, NEW q \in TbPages,
                      BothMap(tbTb'[j], tbTb'[k], q), j # k
               PROVE FALSE
    BY DEF NoneTwice, BothMap, Covers, SpaceIn
  <2>1. CASE j = i
    BY <2>1, <1>1, <1>4
  <2>2. CASE k = i
    BY <2>2, <1>1, <1>4 DEF BothMap
  <2>3. CASE j # i /\ k # i
    BY <2>3, <1>1 DEF TbInv, NoneTwice
  <2> QED BY <2>1, <2>2, <2>3
<1> QED BY <1>2, <1>3, <1>5

(* Entries that go take nothing with them that the others rely on.           *)
LEMMA TbFewerStep ==
  ASSUME Tb!ParametersOK, TbInv, \A i \in Tb!Slot : tbTb'[i] = tbTb[i] \/ ~tbTb'[i].valid,
         tbPt' = tbPt,
         \A i \in Tb!Slot, p \in TbPages :
           Covers(tbTb'[i], p) /\ <<SpaceIn(tbTb[i]), p>> \in tbOwed
           => <<SpaceIn(tbTb[i]), p>> \in tbOwed'
  PROVE  AllWellFormed' /\ AllRight' /\ NoneTwice'
<1>1. AllWellFormed'
  BY DEF TbInv, AllWellFormed, WellFormed
<1>2. AllRight'
  <2> SUFFICES ASSUME NEW i \in Tb!Slot, NEW p \in TbPages PROVE RightAbout(tbTb[i], p)'
    BY DEF AllRight
  <2>1. CASE tbTb'[i] = tbTb[i]
    BY <2>1 DEF TbInv, AllRight, RightAbout
  <2>2. CASE ~tbTb'[i].valid
    BY <2>2 DEF RightAbout, Covers
  <2> QED BY <2>1, <2>2
<1>3. NoneTwice'
  BY DEF TbInv, NoneTwice, BothMap, Covers
<1> QED BY <1>1, <1>2, <1>3

LEMMA TbInvInit == ASSUME Tb!ParametersOK, Tb!Init PROVE TbInv
<1>1. \A i \in Tb!Slot : ~tbTb[i].valid
  BY DEF Tb!Init, Tb!Invalid
<1>2. AllWellFormed /\ AllRight /\ NoneTwice
  BY <1>1 DEF AllWellFormed, WellFormed, AllRight, RightAbout, NoneTwice, BothMap, Covers
<1> QED BY <1>2, TbTypedInit DEF TbInv

LEMMA TbInvStep == ASSUME Tb!ParametersOK, TbInv, [Tb!Next]_tbVars PROVE TbInv'
<1> DEFINE Rest == AllWellFormed /\ AllRight /\ NoneTwice
<1>1. Tb!TypeOK'
  BY TbTypedStep DEF TbInv
<1>2. ASSUME NEW p \in TbPages, Tb!Fill(p) PROVE Rest'
  <2>1. tbNext \in Tb!Slot /\ "read" \in Tb!Access
    BY DEF TbInv, Tb!TypeOK, Tb!Access
  <2>2. CASE Tb!Find(p, "read") # Tb!None
    <3>1. Tb!Find(p, "read") \in Tb!Slot /\ Tb!Place(p, Tb!Find(p, "read"))
      BY <2>1, <2>2, <1>2, TbFindIs DEF Tb!Fill
    <3> QED BY SMTT(60), <3>1, <1>2, TbPlaceStep DEF Tb!Fill
  <2>3. CASE Tb!Find(p, "read") = Tb!None
    BY <2>1, <2>3, <1>2, TbPlaceStep DEF Tb!Fill
  <2> QED BY <2>2, <2>3
<1>3. ASSUME NEW p \in TbPages, Tb!Tbis(p) PROVE Rest'
  <2> DEFINE f == Tb!Find(p, "read")
  <2>1. \/ f = Tb!None /\ \A i \in Tb!Slot : ~Tb!Matches(tbTb[i], p, tbAsn)
        \/ f \in Tb!Slot /\ f # Tb!None /\ Tb!Matches(tbTb[f], p, tbAsn)
    BY TbFindIs DEF Tb!Access
  <2>2. \A i \in Tb!Slot : tbTb'[i] = IF f # Tb!None /\ i = f THEN Tb!Invalid ELSE tbTb[i]
    BY <1>3, <2>1 DEF Tb!Tbis, TbInv, Tb!TypeOK
  <2>3. ~Tb!Invalid.valid
    BY DEF Tb!Invalid
  <2> HIDE DEF f
  <2>4. ASSUME NEW i \in Tb!Slot, NEW q \in TbPages, Covers(tbTb'[i], q),
               <<SpaceIn(tbTb[i]), q>> \in tbOwed
        PROVE <<SpaceIn(tbTb[i]), q>> \in tbOwed'
    <3> SUFFICES ASSUME q = p, SpaceIn(tbTb[i]) = Tb!SpaceOf(tbAsn, p) PROVE FALSE
      BY <2>4, <1>3 DEF Tb!Tbis
    <3>1. tbTb'[i] = tbTb[i] /\ (f # Tb!None => i # f)
      BY <2>2, <2>3, <2>4 DEF Covers
    <3>2. Tb!Matches(tbTb[i], p, tbAsn)
      BY SMTT(60), <2>4, <3>1, TbMatchesIs DEF TbInv
    <3>3. /\ f \in Tb!Slot /\ f # Tb!None /\ Covers(tbTb[f], p)
          /\ SpaceIn(tbTb[f]) = Tb!SpaceOf(tbAsn, p)
      BY <2>1, <3>2, TbMatchesIs DEF TbInv
    <3> QED BY <2>4, <3>1, <3>3 DEF TbInv, NoneTwice, BothMap
  <2>5. \A i \in Tb!Slot : tbTb'[i] = tbTb[i] \/ ~tbTb'[i].valid
    BY SMTT(60), <2>2, <2>3
  <2>6. tbPt' = tbPt
    BY SMTT(60), <1>3 DEF Tb!Tbis
  <2> QED BY <2>4, <2>5, <2>6, TbFewerStep
<1>4. ASSUME NEW p \in TbPages, NEW rw \in Tb!Access, Tb!Lookup(p, rw) PROVE Rest'
  BY <1>4, TbFewerStep DEF Tb!Lookup
<1>5. ASSUME Tb!Tbia PROVE Rest'
  <2>1. \A i \in Tb!Slot : ~tbTb'[i].valid
    BY <1>5 DEF Tb!Tbia, Tb!Invalid
  <2> QED BY <2>1, <1>5, TbFewerStep DEF Tb!Tbia, Covers
<1>6. ASSUME Tb!Tbiap PROVE Rest'
  <2>1. \A i \in Tb!Slot : tbTb'[i] = IF tbTb[i].asm THEN tbTb[i] ELSE Tb!Invalid
    BY <1>6 DEF Tb!Tbiap
  <2>2. ~Tb!Invalid.valid
    BY DEF Tb!Invalid
  <2>3. \A i \in Tb!Slot, p \in TbPages :
          Covers(tbTb'[i], p) /\ <<SpaceIn(tbTb[i]), p>> \in tbOwed
           => <<SpaceIn(tbTb[i]), p>> \in tbOwed'
    BY SMTT(60), <1>6, <2>1, <2>2 DEF Tb!Tbiap, Covers, SpaceIn
  <2>4. tbPt' = tbPt
    BY <1>6 DEF Tb!Tbiap
  <2> QED BY <2>1, <2>2, <2>3, <2>4, TbFewerStep
<1>7. ASSUME NEW a \in TbSpaces, Tb!SetAsn(a) PROVE Rest'
  BY <1>7, TbFewerStep DEF Tb!SetAsn, Tb!tbVars
<1>8. ASSUME NEW s \in TbSpaces \cup {Tb!Everywhere}, NEW m \in Tb!Mapping, Tb!Remap(s, m)
      PROVE  Rest'
  <2>1. /\ tbTb' = tbTb /\ tbPt' = [tbPt EXCEPT ![s] = m]
        /\ tbOwed' = tbOwed \cup ({s} \X Tb!PagesOf(s))
    BY SMTT(60), <1>8 DEF Tb!Remap, Tb!tbVars
  <2>2. ASSUME NEW i \in Tb!Slot, NEW p \in TbPages PROVE RightAbout(tbTb[i], p)'
    <3> SUFFICES ASSUME Covers(tbTb[i], p), <<SpaceIn(tbTb[i]), p>> \notin tbOwed'
                 PROVE /\ tbTb[i].gh = tbPt'[SpaceIn(tbTb[i])].gh
                       /\ tbTb[i].phys = Tb!Frame(tbPt'[SpaceIn(tbTb[i])], tbTb[i].virt)
      BY <2>1 DEF RightAbout, Covers, SpaceIn
    <3>1. tbTb[i].gh \in 0 .. 1 /\ tbTb[i].asm \in BOOLEAN
      BY DEF TbInv, Tb!TypeOK
    <3>2. tbTb[i].asn \in TbSpaces /\ (tbTb[i].asm <=> tbTb[i].virt \in TbGlobal)
      BY DEF TbInv, AllWellFormed, WellFormed, Covers
    <3>3. Tb!First(p, tbTb[i].gh) = tbTb[i].virt /\ (tbTb[i].virt \in TbGlobal <=> p \in TbGlobal)
      BY <3>1, BlocksWhole DEF Covers
    <3>4. SpaceIn(tbTb[i]) \in TbSpaces \cup {Tb!Everywhere} /\ p \in Tb!PagesOf(SpaceIn(tbTb[i]))
      BY <3>1, <3>2, <3>3 DEF SpaceIn, Tb!PagesOf, Tb!ParametersOK, Tb!Everywhere
    <3>5. SpaceIn(tbTb[i]) # s
      BY <2>1, <3>4
    <3>6. tbPt'[SpaceIn(tbTb[i])] = tbPt[SpaceIn(tbTb[i])]
      BY <2>1, <3>4, <3>5 DEF TbInv, Tb!TypeOK
    <3> QED BY SMTT(60), <2>1, <3>6 DEF TbInv, AllRight, RightAbout
  <2>3. AllRight'
    BY <2>2 DEF AllRight
  <2>4. AllWellFormed' /\ NoneTwice'
    BY <2>1 DEF TbInv, AllWellFormed, WellFormed, NoneTwice, BothMap, Covers, SpaceIn
  <2> QED BY SMTT(60), <2>3, <2>4
<1>9. ASSUME UNCHANGED tbVars PROVE Rest'
  BY <1>9, TbFewerStep DEF tbVars
<1>10. Rest'
  BY <1>2, <1>3, <1>4, <1>5, <1>6, <1>7, <1>8, <1>9 DEF Tb!Next
<1> QED BY <1>1, <1>10 DEF TbInv

-----------------------------------------------------------------------------
(* The frame of a page is that of the first page it is mapped with, plus    *)
(* its place in the block.                                                  *)
LEMMA FrameOfPage ==
  ASSUME NEW m, m.gh \in 0 .. 1, m.version \in Nat, NEW p \in Nat
  PROVE  Tb!Frame(m, Tb!First(p, m.gh)) + (p % Tb!Size(m.gh)) = Tb!Frame(m, p)
<1>0. Tb!Frame(m, p) \in Nat
  BY FrameIsNat
<1>1. CASE m.gh = 0
  <2>1. p % 1 = 0 /\ Tb!Size(0) = 1 /\ p - 0 = p
    BY DEF Tb!Size
  <2>2. Tb!First(p, 0) = p
    BY <2>1 DEF Tb!First
  <2> QED BY <1>0, <1>1, <2>1, <2>2
<1>2. CASE m.gh = 1
  <2>1. (p - (p % 2)) % 2 = 0 /\ p % 2 \in 0 .. 1
    OBVIOUS
  <2>2. Tb!First(p, 1) = p - (p % 2) /\ Tb!Size(1) = 2
    BY DEF Tb!First, Tb!Size
  <2>3. Tb!Frame(m, p - (p % 2)) = 2 * m.version + 0
    BY <1>2, <2>1 DEF Tb!Frame
  <2>4. Tb!Frame(m, p) = 2 * m.version + (p % 2)
    BY <1>2 DEF Tb!Frame
  <2>5. 2 * m.version \in Nat /\ 2 * m.version + 0 = 2 * m.version
    OBVIOUS
  <2>6. Tb!Frame(m, Tb!First(p, m.gh)) = 2 * m.version /\ Tb!Size(m.gh) = 2
    BY <1>2, <2>2, <2>3, <2>5
  <2> QED BY <2>4, <2>6
<1> QED BY <1>1, <1>2

LEMMA TbInvCurrent == ASSUME Tb!ParametersOK, TbInv PROVE Tb!Current
<1> SUFFICES ASSUME NEW p \in TbPages, NEW rw \in Tb!Access, Tb!Allowed(p), Tb!Find(p, rw) # Tb!None
             PROVE  tbTb[Tb!Find(p, rw)].phys + (p % Tb!Size(tbTb[Tb!Find(p, rw)].gh))
                    = Tb!Frame(Tb!Pte(p), p)
  BY DEF Tb!Current
<1> DEFINE i == Tb!Find(p, rw)
<1>1. i \in Tb!Slot /\ Tb!Matches(tbTb[i], p, tbAsn)
  BY TbFindIs
<1> HIDE DEF i
<1>2. Covers(tbTb[i], p) /\ SpaceIn(tbTb[i]) = Tb!SpaceOf(tbAsn, p)
  BY <1>1, TbMatchesIs DEF TbInv
<1>3. <<Tb!SpaceOf(tbAsn, p), p>> \notin tbOwed
  BY DEF Tb!Allowed, Tb!BlockOf
<1>4. tbTb[i].gh = Tb!Pte(p).gh /\ tbTb[i].phys = Tb!Frame(Tb!Pte(p), tbTb[i].virt)
  BY <1>1, <1>2, <1>3 DEF TbInv, AllRight, RightAbout, Tb!Pte
<1>5. tbTb[i].virt = Tb!First(p, Tb!Pte(p).gh)
  BY <1>2, <1>4 DEF Covers
<1>6. Tb!Pte(p).gh \in 0 .. 1 /\ Tb!Pte(p).version \in Nat /\ p \in Nat
  <2>1. Tb!Pte(p) \in [gh : {0, 1}, version : TbVersions]
    BY PteMaps DEF Tb!Mapping, TbInv
  <2>2. Tb!Pte(p).gh \in 0 .. 1 /\ Tb!Pte(p).version \in TbVersions
    BY <2>1
  <2> QED BY <2>2 DEF Tb!ParametersOK
<1>7. tbTb[i].phys + (p % Tb!Size(tbTb[i].gh)) = Tb!Frame(Tb!Pte(p), p)
  BY <1>4, <1>5, <1>6, FrameOfPage
<1> QED BY <1>7 DEF i

-----------------------------------------------------------------------------
(* The instruction fetch.                                                     *)

(* Where an address is in memory, with page 0 of its space at "frame".      *)
Where(at, frame) ==
  IF at.pal THEN at.v
  ELSE (at.v % FetchPageSize) + FetchPageSize * (IF at.v >= FetchPageSize THEN 2 ELSE frame)
Address == [pal : BOOLEAN, v : Fetch!Memory]
CacheLine == [valid : BOOLEAN, asn : FetchSpaces, asm : BOOLEAN, at : Address, data : {0, 1}]

FetchTyped ==
  /\ fetchPc \in Address /\ fetchPc.v \in Fetch!Addresses(fetchPc.pal)
  /\ fetchRem \in 0 .. FetchPageSize /\ fetchPcPhys \in Fetch!Memory
  /\ fetchAsn \in FetchSpaces
  /\ fetchMap \in [FetchSpaces -> {0, 1}] /\ fetchMem \in [Fetch!Memory -> {0, 1}]
  /\ fetchEnabled \in BOOLEAN /\ fetchConfig \in BOOLEAN
LinesTyped ==
  /\ fetchIcache \in [Fetch!Slot -> CacheLine]
  /\ fetchNextLine \in Fetch!Slot /\ fetchLastFound \in Fetch!Slot

(* The address kept of the PC is where the PC is, while instructions remain *)
(* in its page; PALcode keeps none.                                         *)
PcKept ==
  fetchRem > 0 =>
    /\ ~fetchPc.pal
    /\ fetchRem = FetchPageSize - (fetchPc.v % FetchPageSize)
    /\ fetchPcPhys = Where(fetchPc, fetchMap[fetchAsn])

(* A line is of an address, in every space just when the address is, and    *)
(* holds what memory does, unless the guest owes a flush for it.            *)
Formed(l) ==
  l.valid =>
    /\ l.at.v \in Fetch!Addresses(l.at.pal)
    /\ l.asm <=> l.at.pal \/ l.at.v >= FetchPageSize
Excused(l, m, o) ==
  \/ ~l.valid
  \/ ~l.asm /\ <<"space", l.asn>> \in o
  \/ <<"line", Where(l.at, m[l.asn])>> \in o
HoldsLine(l, m, c, o) == Excused(l, m, o) \/ l.data = c[Where(l.at, m[l.asn])]
LinesRight ==
  \A i \in Fetch!Slot :
    /\ Formed(fetchIcache[i])
    /\ fetchEnabled => HoldsLine(fetchIcache[i], fetchMap, fetchMem, fetchOwed)

(* A cache that was switched off stays off: LoadROM() restores what the     *)
(* configuration says.                                                      *)
OffForGood == ~fetchEnabled => ~fetchConfig

FetchInv == FetchTyped /\ LinesTyped /\ PcKept /\ LinesRight /\ OffForGood

-----------------------------------------------------------------------------
(* An address of a page: the part within the page, and the next one.        *)
LEMMA WithinPage ==
  ASSUME NEW n \in Nat \ {0}, NEW v \in 0 .. 2 * n - 1
  PROVE  v % n = IF v < n THEN v ELSE v - n
<1>1. CASE v < n
  BY <1>1
<1>2. CASE ~(v < n)
  <2>1. v - n \in 0 .. n - 1 /\ v = 1 * n + (v - n)
    BY <1>2
  <2>2. \A w \in 0 .. n - 1 : (1 * n + w) % n = w
    BY SMTT(60)
  <2> QED BY <1>2, <2>1, <2>2
<1> QED BY <1>1, <1>2

LEMMA Parameters ==
  /\ FetchLines \in Nat \ {0} /\ FetchPageSize \in Nat \ {0} /\ 0 \in FetchSpaces
  /\ FetchPal \subseteq Fetch!Memory /\ FetchPal # {} /\ FetchCode \subseteq Fetch!Memory
  /\ FetchPal \subseteq Nat
BY SMTT(60), FetchParameters DEF Fetch!ParametersOK, Fetch!Memory

LEMMA AddressIs ==
  ASSUME NEW at \in Address, at.v \in Fetch!Addresses(at.pal), NEW f \in {0, 1}
  PROVE  /\ Where(at, f) \in Fetch!Memory
         /\ \A g \in {0, 1} : at.pal \/ at.v >= FetchPageSize => Where(at, g) = Where(at, f)
<1>1. at.pal \in BOOLEAN /\ at.v \in Nat
  BY DEF Address, Fetch!Memory
<1>2. CASE at.pal
  BY <1>1, <1>2, Parameters DEF Where, Fetch!Addresses
<1>3. CASE ~at.pal
  <2>1. at.v \in 0 .. 2 * FetchPageSize - 1
    BY <1>3 DEF Fetch!Addresses, Fetch!Virtual
  <2>2. at.v % FetchPageSize = IF at.v < FetchPageSize THEN at.v ELSE at.v - FetchPageSize
    BY ZenonT(60), <2>1, WithinPage, Parameters
  <2>3. FetchPageSize * 2 = FetchPageSize + FetchPageSize /\ FetchPageSize * 0 = 0
        /\ FetchPageSize * 1 = FetchPageSize
    BY Parameters
  <2>4. 3 * FetchPageSize = FetchPageSize + FetchPageSize + FetchPageSize
        /\ 2 * FetchPageSize = FetchPageSize + FetchPageSize
    BY Parameters
  <2> QED BY <1>3, <2>1, <2>2, <2>3, <2>4, Parameters DEF Where, Fetch!Memory
<1> QED BY <1>1, <1>2, <1>3

LEMMA NextAddress ==
  ASSUME NEW at \in Address, at.v \in Fetch!Addresses(at.pal), ~at.pal, NEW f \in {0, 1},
         NEW to, to = [at EXCEPT !.v = @ + 1],
         FetchPageSize - (at.v % FetchPageSize) > 1
  PROVE  /\ at.v + 1 \in Fetch!Addresses(FALSE)
         /\ FetchPageSize - (to.v % FetchPageSize) = FetchPageSize - (at.v % FetchPageSize) - 1
         /\ Where(to, f) = Where(at, f) + 1
<1>1. at.v \in 0 .. 2 * FetchPageSize - 1
  BY DEF Fetch!Addresses, Fetch!Virtual
<1>2. to.pal = at.pal /\ to.v = at.v + 1
  BY DEF Address
<1>3. at.v % FetchPageSize = IF at.v < FetchPageSize THEN at.v ELSE at.v - FetchPageSize
  BY <1>1, WithinPage, Parameters
<1>4. /\ at.v + 1 \in 0 .. 2 * FetchPageSize - 1
      /\ at.v + 1 >= FetchPageSize <=> at.v >= FetchPageSize
  BY <1>1, <1>3, Parameters
<1>5. \A w \in 0 .. 2 * FetchPageSize - 1 :
        w % FetchPageSize = IF w < FetchPageSize THEN w ELSE w - FetchPageSize
  BY WithinPage, Parameters
<1>6. (at.v + 1) % FetchPageSize = (at.v % FetchPageSize) + 1
  BY <1>1, <1>3, <1>4, <1>5, Parameters
<1>7. at.v + 1 \in Fetch!Addresses(FALSE)
  BY <1>4 DEF Fetch!Addresses, Fetch!Virtual
<1>8. at.v % FetchPageSize \in Nat
  BY <1>1, <1>3, Parameters
<1>9. FetchPageSize - (to.v % FetchPageSize) = FetchPageSize - (at.v % FetchPageSize) - 1
  BY <1>2, <1>6, <1>8, Parameters
<1>10. Where(to, f) = Where(at, f) + 1
  <2> DEFINE base == FetchPageSize * (IF at.v >= FetchPageSize THEN 2 ELSE f)
  <2>1. base \in Nat
    BY Parameters
  <2>2. Where(at, f) = (at.v % FetchPageSize) + base
    BY DEF Where
  <2>3. Where(to, f) = ((at.v + 1) % FetchPageSize) + base
    BY <1>2, <1>4 DEF Where
  <2> HIDE DEF base
  <2> QED BY <1>6, <1>8, <2>1, <2>2, <2>3
<1> QED BY <1>7, <1>9, <1>10

(* A lookup finds a line that hits, if there is one.                         *)
LEMMA FoundIs ==
  \/ Fetch!Found = Fetch!None /\ \A i \in Fetch!Slot : ~Fetch!Hit(i)
  \/ Fetch!Found # Fetch!None /\ Fetch!Found \in Fetch!Slot /\ Fetch!Hit(Fetch!Found)
<1> DEFINE hits == {i \in Fetch!Slot : Fetch!Hit(i)}
<1>1. hits \subseteq Nat /\ Fetch!None \notin Fetch!Slot
  BY Parameters DEF Fetch!Slot, Fetch!None
<1>2. Fetch!Found = IF fetchLastFound \in hits THEN fetchLastFound
                    ELSE IF hits = {} THEN Fetch!None ELSE Fetch!Min(hits)
  BY DEF Fetch!Found
<1>3. hits # {} => Fetch!Min(hits) \in hits
  <2> HIDE DEF hits
  <2>1. hits # {} => Tb!Min(hits) \in hits
    BY <1>1, MinInSet
  <2> QED BY SMTT(60), <2>1 DEF Tb!Min, Fetch!Min
<1>4. hits # {} => Fetch!Found \in hits
  <2> HIDE DEF hits
  <2> QED BY <1>2, <1>3
<1>5. hits = {} => Fetch!Found = Fetch!None
  <2> HIDE DEF hits
  <2> QED BY <1>2
<1> QED BY <1>1, <1>4, <1>5

LEMMA LeastAddress ==
  ASSUME NEW pal \in BOOLEAN
  PROVE  Fetch!Min(Fetch!Addresses(pal)) \in Fetch!Addresses(pal)
         /\ Fetch!Addresses(pal) \subseteq Fetch!Memory
<1>1. 0 \in Fetch!Virtual /\ Fetch!Virtual \subseteq Fetch!Memory
  BY SMTT(60), Parameters DEF Fetch!Virtual, Fetch!Memory
<1>2. Fetch!Addresses(pal) # {} /\ Fetch!Addresses(pal) \subseteq Fetch!Memory
  BY <1>1, Parameters DEF Fetch!Addresses
<1>3. Fetch!Addresses(pal) \subseteq Nat
  BY <1>2 DEF Fetch!Memory
<1>4. Tb!Min(Fetch!Addresses(pal)) \in Fetch!Addresses(pal)
  BY <1>2, <1>3, MinInSet
<1> QED BY <1>2, <1>4 DEF Tb!Min, Fetch!Min

(* Where the guest executes, and where the PC is.                            *)
LEMMA TranslateIs ==
  ASSUME FetchTyped
  PROVE  /\ Fetch!Translate(fetchPc) = Where(fetchPc, fetchMap[fetchAsn])
         /\ Where(fetchPc, fetchMap[fetchAsn]) \in Fetch!Memory
         /\ fetchMap[fetchAsn] \in {0, 1}
<1>1. fetchMap[fetchAsn] \in {0, 1}
  BY DEF FetchTyped
<1>2. Where(fetchPc, fetchMap[fetchAsn]) \in Fetch!Memory
  BY SMTT(60), <1>1, AddressIs DEF FetchTyped
<1> QED BY <1>1, <1>2 DEF Fetch!Translate, Where, Fetch!Global, Fetch!GlobalFrame

(* The next instruction: the address kept of the PC goes on with it.         *)
Follows(p, r, at, m) ==
  /\ p \in Address /\ p.v \in Fetch!Addresses(p.pal)
  /\ r \in 0 .. FetchPageSize /\ at \in Fetch!Memory
  /\ r > 0 => ~p.pal /\ r = FetchPageSize - (p.v % FetchPageSize) /\ at = Where(p, m)
LEMMA AdvanceIs ==
  ASSUME FetchTyped, NEW phys, NEW n \in 0 .. FetchPageSize, Fetch!Advance(phys, n),
         n > 1 => /\ ~fetchPc.pal /\ n = FetchPageSize - (fetchPc.v % FetchPageSize)
                  /\ phys = Where(fetchPc, fetchMap[fetchAsn])
  PROVE  Follows(fetchPc', fetchRem', fetchPcPhys', fetchMap[fetchAsn])
<1>1. /\ fetchPc \in Address /\ fetchPc.v \in Fetch!Addresses(fetchPc.pal)
      /\ fetchPc.pal \in BOOLEAN /\ fetchMap[fetchAsn] \in {0, 1}
  BY SMTT(60), TranslateIs DEF FetchTyped, Address
<1> DEFINE least == Fetch!Min(Fetch!Addresses(fetchPc.pal))
           v == IF fetchPc.v + 1 \in Fetch!Addresses(fetchPc.pal) THEN fetchPc.v + 1 ELSE least
<1>2. v \in Fetch!Addresses(fetchPc.pal) /\ v \in Fetch!Memory
  BY <1>1, LeastAddress
<1>3. fetchPc' = [fetchPc EXCEPT !.v = v]
  BY DEF Fetch!Advance
<1> HIDE DEF v
<1>4. fetchPc' \in Address /\ fetchPc'.v = v /\ fetchPc'.pal = fetchPc.pal
  BY <1>1, <1>2, <1>3 DEF Address
<1>5. /\ fetchRem' = IF n > 0 THEN n - 1 ELSE 0
      /\ fetchPcPhys' = IF fetchRem' = 0 THEN 0 ELSE phys + 1
  BY DEF Fetch!Advance
<1>6. CASE n > 1
  <2>1. /\ ~fetchPc.pal /\ n = FetchPageSize - (fetchPc.v % FetchPageSize)
        /\ phys = Where(fetchPc, fetchMap[fetchAsn])
    BY <1>6
  <2> DEFINE to == [fetchPc EXCEPT !.v = @ + 1]
  <2>2. /\ fetchPc.v + 1 \in Fetch!Addresses(FALSE)
        /\ FetchPageSize - (to.v % FetchPageSize) = n - 1
        /\ Where(to, fetchMap[fetchAsn]) = phys + 1
    <3> HIDE DEF to
    <3> QED BY <1>1, <1>6, <2>1, NextAddress DEF to
  <2>3. fetchPc.pal = FALSE
    BY <1>1, <2>1
  <2>4. fetchPc' = to
    BY <1>3, <2>2, <2>3 DEF v
  <2>5. fetchRem' = n - 1 /\ fetchPcPhys' = phys + 1
    BY SMTT(60), <1>5, <1>6
  <2>6. fetchPcPhys' \in Fetch!Memory
    BY <1>1, <1>2, <1>4, <2>2, <2>4, <2>5, AddressIs
  <2>7. n - 1 \in 0 .. FetchPageSize
    BY <1>6, Parameters
  <2> HIDE DEF to
  <2> QED BY <1>2, <1>4, <2>1, <2>2, <2>4, <2>5, <2>6, <2>7 DEF Follows
<1>7. CASE ~(n > 1)
  <2>1. fetchRem' = 0 /\ fetchPcPhys' = 0
    BY <1>5, <1>7
  <2>2. 0 \in Fetch!Memory /\ 0 \in 0 .. FetchPageSize
    BY Parameters DEF Fetch!Memory
  <2> QED BY <1>2, <1>4, <2>1, <2>2 DEF Follows
<1> QED BY SMTT(60), <1>6, <1>7

-----------------------------------------------------------------------------
(* The invariant holds at first, and of each action.                         *)
FetchKeepsPc == UNCHANGED <<fetchPc, fetchPcPhys, fetchRem>>
FetchKeepsLines == UNCHANGED <<fetchIcache, fetchNextLine, fetchLastFound>>

LEMMA InvalidIs == Fetch!Invalid \in CacheLine /\ ~Fetch!Invalid.valid
<1>1. 0 \in Fetch!Memory
  BY Parameters DEF Fetch!Memory
<1> QED BY <1>1, Parameters DEF Fetch!Invalid, CacheLine, Address

LEMMA FetchInvInit == ASSUME Fetch!Init PROVE FetchInv
<1>1. Fetch!Min(FetchPal) \in FetchPal
  BY LeastAddress DEF Fetch!Addresses
<1>2. fetchPc \in Address /\ fetchPc.v \in Fetch!Addresses(fetchPc.pal)
  BY <1>1, Parameters DEF Fetch!Init, Address, Fetch!Addresses
<1>3. \A a \in Fetch!Memory : (a \div FetchPageSize) % 2 \in {0, 1}
  <2>1. \A a \in Fetch!Memory : a \div FetchPageSize \in Int
    BY Parameters DEF Fetch!Memory
  <2>2. \A b \in Int : b % 2 \in {0, 1}
    OBVIOUS
  <2> QED BY SMTT(60), <2>1, <2>2
<1>4. fetchMem \in [Fetch!Memory -> {0, 1}]
  BY <1>3 DEF Fetch!Init
<1>5. 0 \in Fetch!Memory /\ 0 \in 0 .. FetchPageSize /\ 0 \in Fetch!Slot
  BY Parameters DEF Fetch!Memory, Fetch!Slot
<1>6. FetchTyped
  BY <1>2, <1>4, <1>5, Parameters DEF Fetch!Init, FetchTyped
<1>7. LinesTyped /\ LinesRight
  BY <1>5, InvalidIs DEF Fetch!Init, LinesTyped, LinesRight, Formed, HoldsLine, Excused
<1> QED BY SMTT(60), <1>6, <1>7 DEF Fetch!Init, FetchInv, PcKept, OffForGood

(* What the fetch puts into the cache, or finds there.                       *)
LEMMA FetchedLine ==
  ASSUME FetchTyped, Fetch!Allowed
  PROVE  LET l == [valid |-> TRUE, asn |-> fetchAsn, asm |-> fetchPc.pal \/ Fetch!Global(fetchPc),
                   at |-> fetchPc, data |-> fetchMem[Fetch!Translate(fetchPc)]]
         IN  l \in CacheLine /\ Formed(l) /\ HoldsLine(l, fetchMap, fetchMem, fetchOwed)
<1> DEFINE l == [valid |-> TRUE, asn |-> fetchAsn, asm |-> fetchPc.pal \/ Fetch!Global(fetchPc),
                 at |-> fetchPc, data |-> fetchMem[Fetch!Translate(fetchPc)]]
<1>1. fetchMem[Fetch!Translate(fetchPc)] \in {0, 1}
  BY TranslateIs DEF FetchTyped
<1>2. (fetchPc.pal \/ Fetch!Global(fetchPc)) \in BOOLEAN
  OBVIOUS
<1>3. l \in CacheLine
  BY <1>1, <1>2 DEF CacheLine, FetchTyped
<1>4. Formed(l)
  BY DEF Formed, FetchTyped, Fetch!Global
<1>5. HoldsLine(l, fetchMap, fetchMem, fetchOwed)
  BY TranslateIs DEF HoldsLine
<1> QED BY <1>3, <1>4, <1>5

LEMMA FetchSteps ==
  ASSUME FetchInv, Fetch!Cached \/ Fetch!Uncached
  PROVE  FetchInv'
<1>1. UNCHANGED <<fetchAsn, fetchEnabled, fetchConfig, fetchMap, fetchMem, fetchOwed>>
  BY DEF Fetch!Cached, Fetch!Uncached, Fetch!guestVars
<1>2. Follows(fetchPc', fetchRem', fetchPcPhys', fetchMap[fetchAsn])
  <2>1. CASE Fetch!Cached
    BY SMTT(60), <2>1, AdvanceIs DEF FetchInv, FetchTyped, PcKept, Fetch!Cached
  <2>2. CASE Fetch!Uncached
    <3> DEFINE n == IF fetchPc.pal THEN 1
                    ELSE IF fetchRem = 0 THEN FetchPageSize - (fetchPc.v % FetchPageSize)
                    ELSE fetchRem
    <3>1. Fetch!Advance(Fetch!Phys, n)
      BY <2>2 DEF Fetch!Uncached
    <3>2. n \in 0 .. FetchPageSize
      <4>1. fetchPc.v \in Nat
        BY DEF FetchInv, FetchTyped, Address, Fetch!Memory
      <4>2. fetchPc.v % FetchPageSize \in 0 .. FetchPageSize - 1
        BY SMTT(60), <4>1, Parameters
      <4>3. FetchPageSize - (fetchPc.v % FetchPageSize) \in 0 .. FetchPageSize
        BY <4>2, Parameters
      <4> QED BY <4>3, Parameters DEF FetchInv, FetchTyped
    <3>3. n > 1 => /\ ~fetchPc.pal /\ n = FetchPageSize - (fetchPc.v % FetchPageSize)
                   /\ Fetch!Phys = Where(fetchPc, fetchMap[fetchAsn])
      <4>1. fetchRem \in Nat /\ (fetchRem # 0 => fetchRem > 0)
        BY Parameters DEF FetchInv, FetchTyped
      <4> QED BY <4>1, TranslateIs DEF FetchInv, PcKept, Fetch!Phys
    <3> HIDE DEF n
    <3> QED BY <3>1, <3>2, <3>3, AdvanceIs DEF FetchInv
  <2> QED BY SMTT(60), <2>1, <2>2
<1>3. FetchTyped' /\ PcKept'
  BY <1>1, <1>2 DEF Follows, FetchInv, FetchTyped, PcKept
<1>4. LinesTyped' /\ LinesRight'
  <2>1. CASE FetchKeepsLines
    BY <1>1, <2>1 DEF FetchKeepsLines, FetchInv, LinesTyped, LinesRight
  <2>2. CASE Fetch!Cached /\ Fetch!Found # Fetch!None
    <3>1. fetchIcache' = fetchIcache /\ fetchNextLine' = fetchNextLine
          /\ fetchLastFound' \in Fetch!Slot
      BY SMTT(60), <2>2, FoundIs DEF Fetch!Cached
    <3> QED BY SMTT(60), <1>1, <3>1 DEF FetchInv, LinesTyped, LinesRight
  <2>3. CASE Fetch!Cached /\ ~(Fetch!Found # Fetch!None)
    <3> DEFINE l == [valid |-> TRUE, asn |-> fetchAsn,
                     asm |-> fetchPc.pal \/ Fetch!Global(fetchPc), at |-> fetchPc,
                     data |-> fetchMem[Fetch!Translate(fetchPc)]]
    <3>1. l \in CacheLine /\ Formed(l) /\ HoldsLine(l, fetchMap, fetchMem, fetchOwed)
      BY SMTT(60), <2>3, FetchedLine DEF FetchInv, Fetch!Cached
    <3>2. /\ fetchIcache' = [fetchIcache EXCEPT ![fetchNextLine] = l]
          /\ fetchLastFound' = fetchNextLine
          /\ fetchNextLine' = (fetchNextLine + 1) % FetchLines
      BY <2>3 DEF Fetch!Cached
    <3> HIDE DEF l
    <3>3. fetchNextLine' \in Fetch!Slot
      BY SMTT(60), <3>2, Parameters DEF FetchInv, LinesTyped, Fetch!Slot
    <3>4. LinesTyped'
      BY <3>1, <3>2, <3>3 DEF FetchInv, LinesTyped
    <3>5. LinesRight'
      BY <1>1, <3>1, <3>2 DEF FetchInv, LinesTyped, LinesRight
    <3> QED BY SMTT(60), <3>4, <3>5
  <2>4. FetchKeepsLines \/ Fetch!Cached
    BY DEF Fetch!Uncached, Fetch!cacheVars, FetchKeepsLines
  <2> QED BY <2>1, <2>2, <2>3, <2>4
<1> QED BY <1>1, <1>3, <1>4 DEF FetchInv, OffForGood

LEMMA FlushedLines ==
  ASSUME FetchInv, Fetch!FlushAll, fetchEnabled' => fetchEnabled
  PROVE  LinesTyped' /\ LinesRight'
<1>1. CASE fetchEnabled
  <2>1. /\ fetchIcache' = [i \in Fetch!Slot |-> Fetch!Invalid]
        /\ fetchNextLine' = 0 /\ fetchLastFound' = 0
    BY <1>1 DEF Fetch!FlushAll
  <2>2. 0 \in Fetch!Slot
    BY Parameters DEF Fetch!Slot
  <2> QED BY <2>1, <2>2, InvalidIs DEF LinesTyped, LinesRight, Formed, HoldsLine, Excused
<1>2. CASE ~fetchEnabled
  BY <1>2 DEF Fetch!FlushAll, Fetch!cacheVars, FetchInv, LinesTyped, LinesRight
<1> QED BY SMTT(60), <1>1, <1>2

LEMMA FetchInvStep == ASSUME FetchInv, [Fetch!Next]_fetchVars PROVE FetchInv'
<1> USE DEF FetchInv
<1>1. CASE Fetch!Cached \/ Fetch!Uncached
  BY <1>1, FetchSteps
<1>2. ASSUME NEW to \in [pal : BOOLEAN, v : Fetch!Memory], Fetch!Jump(to) PROVE FetchInv'
  <2>1. fetchPc' \in Address /\ fetchPc'.v \in Fetch!Addresses(fetchPc'.pal)
        /\ fetchRem' = 0 /\ fetchPcPhys' = 0
    BY <1>2 DEF Fetch!Jump, Address
  <2>2. 0 \in Fetch!Memory /\ 0 \in 0 .. FetchPageSize
    BY Parameters DEF Fetch!Memory
  <2>3. UNCHANGED <<fetchAsn, fetchEnabled, fetchConfig, fetchMap, fetchMem, fetchOwed,
                    fetchIcache, fetchNextLine, fetchLastFound>>
    BY <1>2 DEF Fetch!Jump, Fetch!guestVars, Fetch!cacheVars
  <2>4. FetchTyped' /\ PcKept'
    BY <2>1, <2>2, <2>3 DEF FetchTyped, PcKept
  <2> QED BY <2>3, <2>4 DEF LinesTyped, LinesRight, OffForGood
<1>3. CASE Fetch!Flush
  <2>1. UNCHANGED <<fetchPc, fetchPcPhys, fetchRem, fetchAsn, fetchEnabled, fetchConfig,
                    fetchMap, fetchMem>>
    BY <1>3 DEF Fetch!Flush, Fetch!pcVars
  <2>2. FetchTyped' /\ PcKept' /\ OffForGood'
    BY <2>1 DEF FetchTyped, PcKept, OffForGood
  <2>3. LinesTyped' /\ LinesRight'
    BY <1>3, <2>1, FlushedLines DEF Fetch!Flush
  <2> QED BY <2>2, <2>3
<1>4. CASE Fetch!FlushAsm
  <2>1. UNCHANGED <<fetchPc, fetchPcPhys, fetchRem, fetchAsn, fetchEnabled, fetchConfig,
                    fetchMap, fetchMem, fetchNextLine, fetchLastFound>>
    BY <1>4 DEF Fetch!FlushAsm, Fetch!pcVars
  <2>2. FetchTyped' /\ PcKept' /\ OffForGood'
    BY <2>1 DEF FetchTyped, PcKept, OffForGood
  <2>3. \A i \in Fetch!Slot :
          \/ fetchIcache'[i] = fetchIcache[i] /\ (fetchEnabled => fetchIcache[i].asm)
          \/ fetchIcache'[i] = Fetch!Invalid
    BY <1>4 DEF Fetch!FlushAsm, LinesTyped
  <2>4. Fetch!Invalid \in CacheLine /\ ~Fetch!Invalid.valid
    BY InvalidIs
  <2>5. LinesTyped'
    BY <1>4, <2>1, <2>4 DEF Fetch!FlushAsm, LinesTyped
  <2>6. fetchOwed' = {o \in fetchOwed : o[1] = "line"}
    BY <1>4 DEF Fetch!FlushAsm
  <2>7. \A x : <<"line", x>> \in fetchOwed' <=> <<"line", x>> \in fetchOwed
    BY <2>6
  <2>8. LinesRight'
    BY <2>1, <2>3, <2>4, <2>7 DEF LinesRight, Formed, HoldsLine, Excused
  <2> QED BY <2>2, <2>5, <2>8
<1>5. CASE Fetch!Restore
  <2>1. /\ UNCHANGED <<fetchPc, fetchPcPhys, fetchRem, fetchAsn, fetchConfig, fetchMap,
                       fetchMem, fetchOwed>>
        /\ fetchEnabled' = fetchConfig
    BY <1>5 DEF Fetch!Restore, Fetch!pcVars, Fetch!guestVars
  <2>2. FetchTyped' /\ PcKept' /\ OffForGood'
    BY <2>1 DEF FetchTyped, PcKept, OffForGood
  <2>3. CASE FetchKeepsLines
    BY <2>1, <2>2, <2>3 DEF FetchKeepsLines, LinesTyped, LinesRight, OffForGood
  <2>4. CASE ~FetchKeepsLines
    <3>1. Fetch!FlushAll
      BY <1>5, <2>4 DEF Fetch!Restore, Fetch!cacheVars, FetchKeepsLines
    <3>2. fetchEnabled' => fetchEnabled
      BY <2>1 DEF OffForGood
    <3> QED BY <2>2, <3>1, <3>2, FlushedLines
  <2> QED BY <2>2, <2>3, <2>4
<1>6. ASSUME NEW a \in FetchSpaces, Fetch!SetAsn(a) PROVE FetchInv'
  <2>1. /\ UNCHANGED <<fetchPc, fetchPcPhys, fetchRem, fetchConfig, fetchEnabled, fetchMap,
                       fetchMem, fetchOwed, fetchIcache, fetchNextLine, fetchLastFound>>
        /\ fetchAsn' = a
    BY <1>6 DEF Fetch!SetAsn, Fetch!pcVars, Fetch!guestVars, Fetch!cacheVars
  <2>2. FetchTyped'
    BY <2>1 DEF FetchTyped
  <2>3. Where(fetchPc, fetchMap[a]) = Where(fetchPc, fetchMap[fetchAsn])
    BY <1>6, AddressIs DEF Fetch!SetAsn, Fetch!Global, FetchTyped
  <2>4. PcKept'
    BY <2>1, <2>3 DEF PcKept
  <2> QED BY <2>1, <2>2, <2>4 DEF LinesTyped, LinesRight, OffForGood
<1>7. ASSUME NEW a \in FetchSpaces, Fetch!Remap(a) PROVE FetchInv'
  <2>1. /\ UNCHANGED <<fetchPc, fetchPcPhys, fetchRem, fetchAsn, fetchConfig, fetchEnabled,
                       fetchMem, fetchIcache, fetchNextLine, fetchLastFound>>
        /\ fetchMap' = [fetchMap EXCEPT ![a] = 1 - @]
        /\ fetchOwed' = fetchOwed \cup {<<"space", a>>}
    BY <1>7 DEF Fetch!Remap, Fetch!pcVars, Fetch!cacheVars
  <2>2. FetchTyped'
    BY <2>1 DEF FetchTyped
  <2>3. Where(fetchPc, fetchMap'[fetchAsn]) = Where(fetchPc, fetchMap[fetchAsn])
    BY <1>7, <2>2, <2>1, AddressIs DEF Fetch!Remap, Fetch!Global, FetchTyped
  <2>4. PcKept'
    BY <2>1, <2>3 DEF PcKept
  <2>5. ASSUME NEW i \in Fetch!Slot, fetchIcache[i].valid
        PROVE  \/ Where(fetchIcache[i].at, fetchMap'[fetchIcache[i].asn])
                    = Where(fetchIcache[i].at, fetchMap[fetchIcache[i].asn])
               \/ ~fetchIcache[i].asm /\ fetchIcache[i].asn = a
    <3> DEFINE l == fetchIcache[i]
    <3>1. /\ l.at \in Address /\ l.at.v \in Fetch!Addresses(l.at.pal) /\ l.asn \in FetchSpaces
          /\ l.asm <=> l.at.pal \/ l.at.v >= FetchPageSize
          /\ fetchMap[l.asn] \in {0, 1} /\ fetchMap'[l.asn] \in {0, 1}
      BY <2>2, <2>5 DEF LinesTyped, LinesRight, Formed, CacheLine, FetchTyped
    <3>2. CASE l.asm
      <4> HIDE DEF l
      <4> QED BY <3>1, <3>2, AddressIs DEF l
    <3>3. CASE ~l.asm /\ l.asn # a
      BY <2>1, <3>1, <3>3 DEF FetchTyped
    <3> QED BY <3>2, <3>3
  <2>6. LinesRight'
    <3> SUFFICES ASSUME NEW i \in Fetch!Slot
                 PROVE  /\ Formed(fetchIcache[i])
                        /\ fetchEnabled => HoldsLine(fetchIcache[i], fetchMap', fetchMem, fetchOwed')
      BY <2>1 DEF LinesRight
    <3>1. Formed(fetchIcache[i]) /\ (fetchEnabled => HoldsLine(fetchIcache[i], fetchMap, fetchMem, fetchOwed))
      BY DEF LinesRight
    <3> QED BY <2>1, <2>5, <3>1 DEF HoldsLine, Excused
  <2> QED BY <2>1, <2>2, <2>4, <2>6 DEF LinesTyped, OffForGood
<1>8. ASSUME NEW a \in FetchCode, Fetch!Modify(a) PROVE FetchInv'
  <2>1. /\ UNCHANGED <<fetchPc, fetchPcPhys, fetchRem, fetchAsn, fetchConfig, fetchEnabled,
                       fetchMap, fetchIcache, fetchNextLine, fetchLastFound>>
        /\ fetchMem' = [fetchMem EXCEPT ![a] = 1 - @]
        /\ fetchOwed' = fetchOwed \cup {<<"line", a>>}
    BY <1>8 DEF Fetch!Modify, Fetch!pcVars, Fetch!cacheVars
  <2>2. a \in Fetch!Memory
    BY Parameters
  <2>3. FetchTyped' /\ PcKept'
    BY <2>1, <2>2 DEF FetchTyped, PcKept
  <2>4. LinesRight'
    <3> SUFFICES ASSUME NEW i \in Fetch!Slot
                 PROVE  /\ Formed(fetchIcache[i])
                        /\ fetchEnabled => HoldsLine(fetchIcache[i], fetchMap, fetchMem', fetchOwed')
      BY <2>1 DEF LinesRight
    <3>1. Formed(fetchIcache[i]) /\ (fetchEnabled => HoldsLine(fetchIcache[i], fetchMap, fetchMem, fetchOwed))
      BY DEF LinesRight
    <3>2. \A x : x # a => fetchMem'[x] = fetchMem[x]
      BY <2>1 DEF FetchTyped
    <3> QED BY <2>1, <3>1, <3>2 DEF HoldsLine, Excused
  <2> QED BY <2>1, <2>3, <2>4 DEF LinesTyped, OffForGood
<1>9. CASE UNCHANGED fetchVars
  BY <1>9 DEF fetchVars, FetchTyped, LinesTyped, PcKept, LinesRight, OffForGood
<1> QED BY <1>1, <1>2, <1>3, <1>4, <1>5, <1>6, <1>7, <1>8, <1>9 DEF Fetch!Next

LEMMA FetchInvCurrent == ASSUME FetchInv PROVE Fetch!TypeOK /\ Fetch!FetchesCurrent
<1>1. Fetch!TypeOK
  BY DEF FetchInv, FetchTyped, LinesTyped, CacheLine, Address, Fetch!TypeOK
<1>2. ASSUME Fetch!Allowed PROVE Fetch!Instruction = fetchMem[Fetch!Translate(fetchPc)]
  <2>1. CASE ~fetchEnabled
    <3>1. Fetch!Phys = Fetch!Translate(fetchPc)
      <4>1. fetchRem = 0 \/ fetchRem > 0
        BY Parameters DEF FetchInv, FetchTyped
      <4> QED BY <4>1, TranslateIs DEF FetchInv, PcKept, Fetch!Phys
    <3> QED BY <2>1, <3>1 DEF Fetch!Instruction
  <2>2. CASE fetchEnabled /\ Fetch!Found = Fetch!None
    BY <2>2 DEF Fetch!Instruction
  <2>3. CASE fetchEnabled /\ Fetch!Found # Fetch!None
    <3> DEFINE l == fetchIcache[Fetch!Found]
    <3>1. /\ Fetch!Found \in Fetch!Slot
          /\ l.valid /\ (l.asn = fetchAsn \/ l.asm) /\ l.at = fetchPc
      BY <2>3, FoundIs DEF Fetch!Hit
    <3>2. /\ HoldsLine(l, fetchMap, fetchMem, fetchOwed)
          /\ l.asm <=> l.at.pal \/ l.at.v >= FetchPageSize
          /\ l \in CacheLine
      BY <2>3, <3>1 DEF FetchInv, LinesRight, LinesTyped, Formed
    <3> HIDE DEF l
    <3>3. Where(l.at, fetchMap[l.asn]) = Where(fetchPc, fetchMap[fetchAsn])
      BY <3>1, <3>2, AddressIs DEF FetchInv, FetchTyped, CacheLine
    <3>4. <<"line", Where(fetchPc, fetchMap[fetchAsn])>> \notin fetchOwed
      BY <1>2, TranslateIs DEF Fetch!Allowed, FetchInv
    <3>5. ~(~l.asm /\ <<"space", l.asn>> \in fetchOwed)
      BY <1>2, <3>1, <3>2 DEF Fetch!Allowed, Fetch!Global
    <3>6. l.data = fetchMem[Where(fetchPc, fetchMap[fetchAsn])]
      BY <3>1, <3>2, <3>3, <3>4, <3>5 DEF HoldsLine, Excused
    <3> QED BY <2>3, <3>6, TranslateIs DEF Fetch!Instruction, FetchInv, l
  <2> QED BY <2>1, <2>2, <2>3
<1> QED BY <1>1, <1>2 DEF Fetch!FetchesCurrent

-----------------------------------------------------------------------------
(* The interrupts of a run of several parts are those of Interrupts: every    *)
(* theorem about Spec holds of ProcessorSpec.                                 *)
THEOREM InterruptsInEveryPart == ProcessorSpec => Spec
<1>1. ProcessorInit => Init
  BY DEF ProcessorInit
<1>2. [ProcessorNext]_processorVars => [Next]_vars
  <2>1. processorVars' = processorVars => vars' = vars
    BY DEF processorVars
  <2>2. ProcessorNext => Next \/ vars' = vars
    BY Zenon DEF ProcessorNext, InTwo, InTb, InFetch, InFp, InOps, InPal, InFaults, InIpr
  <2> QED BY <2>1, <2>2
<1> QED BY <1>1, <1>2, PTL DEF ProcessorSpec, Spec

(* The translation buffer and the fetch, whatever part a behaviour is of.     *)
LEMMA TbOnly == ASSUME [ProcessorNext]_processorVars PROVE [Tb!Next]_tbVars
<1>1. processorVars' = processorVars => tbVars' = tbVars
  BY DEF processorVars
<1>2. ProcessorNext => Tb!Next \/ tbVars' = tbVars
  BY Zenon DEF ProcessorNext, InInterrupts, InTwo, InFetch, InFp, InOps, InPal, InFaults, InIpr
<1> QED BY <1>1, <1>2

LEMMA FetchOnly == ASSUME [ProcessorNext]_processorVars PROVE [Fetch!Next]_fetchVars
<1>1. processorVars' = processorVars => fetchVars' = fetchVars
  BY DEF processorVars
<1>2. ProcessorNext => Fetch!Next \/ fetchVars' = fetchVars
  BY Zenon DEF ProcessorNext, InInterrupts, InTwo, InTb, InFp, InOps, InPal, InFaults, InIpr
<1> QED BY <1>1, <1>2

(* The inductive invariant of the translation buffer: entries are well formed, *)
(* right about every page that is not owed an invalidation, and none maps     *)
(* what another does.                                                         *)
THEOREM TbInductive == ProcessorSpec => []TbInv
<1>1. ProcessorInit => TbInv
  BY TbParameters, TbInvInit DEF ProcessorInit
<1>2. TbInv /\ [ProcessorNext]_processorVars => TbInv'
  BY TbParameters, TbOnly, TbInvStep
<1> QED BY <1>1, <1>2, PTL DEF ProcessorSpec

(* Entries, hints and page tables keep their types.                           *)
THEOREM TbTyped == ProcessorSpec => []Tb!TypeOK
<1>1. TbInv => Tb!TypeOK
  BY DEF TbInv
<1> QED BY <1>1, TbInductive, PTL

(* FindTBEntry() never gives a stale or foreign translation of a page that    *)
(* the guest may use, for any number of entries, spaces and pages.            *)
THEOREM TbCurrent == ProcessorSpec => []Tb!Current
<1>1. TbInv => Tb!Current
  BY TbParameters, TbInvCurrent
<1> QED BY <1>1, TbInductive, PTL

(* FindTBEntry() and get_icache() use no translation and no instruction that  *)
(* is an old one or one of another address space, as long as the guest        *)
(* invalidates and flushes what it changes before it goes there.              *)
THEOREM NothingStaleAlways == ProcessorSpec => []NothingStale
<1>1. ProcessorInit => FetchInv
  BY FetchInvInit DEF ProcessorInit
<1>2. FetchInv /\ [ProcessorNext]_processorVars => FetchInv'
  BY FetchOnly, FetchInvStep
<1>3. Tb!TypeOK /\ Tb!Current /\ FetchInv => NothingStale
  BY FetchInvCurrent DEF NothingStale
<1> QED BY <1>1, <1>2, <1>3, TbTyped, TbCurrent, PTL DEF ProcessorSpec
=============================================================================

------------------------ MODULE InterruptThreadsProofs ------------------------
(***************************************************************************)
(* What the unlocked interrupt() and irq_h() still promise when their      *)
(* loads and stores are interleaved: for any number of CPUs and lines, any *)
(* countdown and clock period, when one thread drives all the lines; and   *)
(* exactly what the calls promise when that thread is the only CPU's.      *)
(***************************************************************************)
EXTENDS InterruptThreads, TLAPS

-----------------------------------------------------------------------------
(* The calls and the values they hold.                                       *)
CallLabel ==
  {"loadDrir", "storeDrir", "evaluate", "test", "setTimer", "setCheckTimers",
   "loadEir", "storeEir", "setCheckInt", "clearTimer", "disarm", "rearm"}
StageLabel ==
  {"clock", "timers", "testTimer", "loadTimer", "storeTimer", "counted", "keepCounting",
   "ints", "clearCheckInt", "instr"}
Frame ==
  [at : CallLabel, line : Line \cup {"clock", "none"}, level : BOOLEAN, i : CPU,
   pin : Pin, on : BOOLEAN, once : BOOLEAN, tmp : SUBSET (Line \cup Pin)]

VariablesOK ==
  /\ driver \in [Line -> Thread]
  /\ drir \in SUBSET Line
  /\ wants \in [Line -> BOOLEAN]
  /\ eir \in [CPU -> SUBSET Pin]
  /\ timer \in [CPU -> -1 .. Delay]
  /\ checkTimers \in [CPU -> BOOLEAN]
  /\ checkInt \in [CPU -> BOOLEAN]
  /\ pal \in [CPU -> BOOLEAN]
  /\ call \in [Thread -> Frame \cup {Idle}]
  /\ stage \in [CPU -> StageLabel]
  /\ left \in [CPU -> -1 .. Delay]
  /\ cc \in 0 .. TickPeriod - 1

(* What is loaded has the type of what it was loaded from.                   *)
FrameOK(k) ==
  /\ k.at \in {"loadDrir", "storeDrir"} => k.line \in Line
  /\ k.at = "storeDrir" => k.tmp \in SUBSET Line
  /\ k.at = "storeEir" => k.tmp \in SUBSET Pin
TypeOK ==
  /\ VariablesOK
  /\ \A t \in Thread : FrameOK(call[t])

-----------------------------------------------------------------------------
(* DRIR, while one thread drives all the lines: only that thread is ever at  *)
(* the update of DRIR, for a line and level it was asked for, and what it    *)
(* loaded is still what DRIR holds; every other line is as it was asked.     *)
Updating(t) == call[t].at \in {"loadDrir", "storeDrir"}
UpdateOK(t) ==
  /\ Updating(t) => driver[call[t].line] = t /\ call[t].level = wants[call[t].line]
  /\ At(t, "storeDrir") => call[t].tmp = drir
LineOK(l) == (l \in drir <=> wants[l]) \/ (Updating(driver[l]) /\ call[driver[l]].line = l)
DrirInv ==
  /\ \A k, l \in Line : driver[k] = driver[l]
  /\ \A t \in Thread : UpdateOK(t)
  /\ \A l \in Line : LineOK(l)

-----------------------------------------------------------------------------
(* A single CPU that drives every line itself.  "Settled" is what its calls  *)
(* restore; where they have not yet, the invariant says what they know.      *)
Asked == drir # {}
Settled == PinActive(0) <=> Asked

(* Inside a call that is at pin 1.                                           *)
PinOneInv(k) ==
  /\ k.at \in {"test", "loadEir", "storeEir"} => (k.on <=> Asked)
  /\ k.at = "setTimer" => Asked
  /\ k.at \in {"setCheckTimers", "setCheckInt"} => Asked /\ PinActive(0)
  /\ k.at = "clearTimer" => ~Asked /\ 1 \notin eir[0]
  /\ k.at \in {"disarm", "rearm"} => ~Asked /\ ~PinActive(0)
CallInv(k) ==
  /\ stage[0] \in {"clock", "timers", "ints"}
  /\ k.pin = 1 => PinOneInv(k)
  /\ k.pin # 1 => Settled /\ k.at \notin {"loadDrir", "storeDrir", "evaluate", "setTimer", "setCheckTimers"}
  /\ k.at = "storeEir" => k.tmp = eir[0]
IdleInv ==
  /\ stage[0] # "counted" => Settled
  /\ stage[0] = "counted" => Asked
  /\ stage[0] \in {"loadTimer", "storeTimer"} => timer[0] # 0
  /\ stage[0] = "clearCheckInt" => eir[0] = {}
SoloInv ==
  /\ \A l \in Line : driver[l] = 0
  /\ \A d \in Device : At(d, "idle")
  /\ ~At(0, "idle") => CallInv(call[0])
  /\ At(0, "idle") => IdleInv
  /\ eir[0] # {} => checkInt[0] \/ At(0, "setCheckInt")

-----------------------------------------------------------------------------
(* The steps of a call.                                                      *)
LEMMA ThreadFacts == CPU \subseteq Thread /\ Device \subseteq Thread /\ 0 \in CPU /\ 1 \in Pin /\ 2 \in Pin /\ 3 \in Pin
  BY CountAssumption DEF CPU, Thread, Pin

LEMMA InCall ==
  ASSUME VariablesOK, NEW t \in Thread, ~At(t, "idle")
  PROVE  call[t] \in Frame
  BY DEF VariablesOK, At, Idle

(* irq_h() returns to the loop of interrupt(), for the next CPU or pin, or    *)
(* to the caller.                                                             *)
LEMMA ReturnedType ==
  ASSUME NEW k \in Frame
  PROVE  /\ Returned(k) \in Frame \cup {Idle}
         /\ Returned(k).at \in {"idle", "evaluate", "test"}
<1>1. k.i + 1 < NumCPUs => k.i + 1 \in CPU
  BY CountAssumption DEF Frame, CPU
<1>2. CASE k.once
  BY <1>2 DEF Returned, Idle
<1>3. CASE ~k.once /\ k.i + 1 < NumCPUs
  <2> DEFINE label == IF k.pin = 2 THEN "test" ELSE "evaluate"
  <2>1. Returned(k) = [k EXCEPT !.i = k.i + 1, !.at = label]
    BY <1>3 DEF Returned, Frame, CPU
  <2> QED BY ZenonT(60), <1>1, <1>3, <2>1 DEF Frame, CallLabel
<1>4. CASE ~k.once /\ k.i + 1 = NumCPUs /\ k.pin = 2
  <2>1. Returned(k) = [k EXCEPT !.i = 0, !.pin = 1, !.at = "evaluate"]
    BY <1>4, CountAssumption DEF Returned, Frame, CPU
  <2> QED BY ZenonT(60), <2>1, ThreadFacts DEF Frame, CallLabel
<1>5. CASE ~k.once /\ ~(k.i + 1 < NumCPUs) /\ ~(k.i + 1 = NumCPUs /\ k.pin = 2)
  <2>1. Returned(k) = Idle
    BY <1>5 DEF Returned
  <2> QED BY <2>1 DEF Idle
<1> QED BY <1>2, <1>3, <1>4, <1>5 DEF Frame, CPU

(* A step of a call moves that call alone.                                    *)
LEMMA StepType ==
  ASSUME TypeOK, NEW t \in Thread, CallStep(t)
  PROVE  /\ call[t] \in Frame
         /\ call'[t] \in Frame \cup {Idle}
         /\ call' = [call EXCEPT ![t] = call'[t]]
         /\ FrameOK(call'[t])
<1> USE DEF TypeOK, VariablesOK
<1>1. ~At(t, "idle")
  BY DEF CallStep, LoadDrir, StoreDrir, EvaluateLines, Test, SetTimer, SetCheckTimers,
         LoadEir, StoreEir, SetCheckInt, ClearTimer, Disarm, Rearm, At
<1>2. call[t] \in Frame
  BY <1>1, InCall
<1>3. ASSUME Return(t) PROVE call'[t] = Returned(call[t])
                             /\ call' = [call EXCEPT ![t] = call'[t]]
  BY <1>3 DEF Return
<1>4. ASSUME Return(t)
      PROVE  /\ call'[t] \in Frame \cup {Idle}
             /\ call' = [call EXCEPT ![t] = call'[t]]
             /\ FrameOK(call'[t])
  BY <1>2, <1>3, <1>4, ReturnedType DEF FrameOK
<1>5. ASSUME NEW label \in CallLabel \ {"loadDrir", "storeDrir", "storeEir"}, Go(t, label)
      PROVE  /\ call'[t] \in Frame \cup {Idle}
             /\ call' = [call EXCEPT ![t] = call'[t]]
             /\ FrameOK(call'[t])
  BY SMTT(60), <1>2, <1>5 DEF Go, FrameOK, Frame
<1>6. CASE LoadDrir(t)
  BY ZenonT(60), <1>2, <1>6 DEF LoadDrir, Load, At, FrameOK, Frame, CallLabel
<1>7. CASE LoadEir(t)
  <2>1. eir[call[t].i] \in SUBSET Pin
    BY <1>2 DEF Frame
  <2> QED BY ZenonT(60), <1>2, <1>7, <2>1 DEF LoadEir, Load, At, FrameOK, Frame, CallLabel
<1>8. CASE EvaluateLines(t)
  BY ZenonT(60), <1>2, <1>8 DEF EvaluateLines, At, FrameOK, Frame, CallLabel
<1>9. CASE StoreDrir(t)
  BY <1>2, <1>5, <1>9 DEF StoreDrir, CallLabel
<1>10. CASE Test(t)
  <2>1. Return(t) \/ Go(t, "setTimer") \/ Go(t, "loadEir")
    BY <1>10 DEF Test
  <2> QED BY <2>1, <1>2, <1>4, <1>5 DEF CallLabel
<1>11. CASE SetTimer(t) \/ ClearTimer(t) \/ Disarm(t)
  BY <1>2, <1>5, <1>11 DEF SetTimer, ClearTimer, Disarm, CallLabel
<1>12. CASE SetCheckTimers(t) \/ SetCheckInt(t) \/ Rearm(t)
  BY <1>2, <1>4, <1>12 DEF SetCheckTimers, SetCheckInt, Rearm
<1>13. CASE StoreEir(t)
  <2>1. Go(t, "setCheckInt") \/ Go(t, "clearTimer")
    BY <1>13 DEF StoreEir
  <2> QED BY <2>1, <1>2, <1>5 DEF CallLabel
<1> QED BY <1>2, <1>6, <1>7, <1>8, <1>9, <1>10, <1>11, <1>12, <1>13 DEF CallStep

(* A call keeps the registers in their types.                                 *)
LEMMA SharedType ==
  ASSUME TypeOK, NEW t \in Thread, CallStep(t)
  PROVE  /\ drir' \in SUBSET Line
         /\ eir' \in [CPU -> SUBSET Pin]
         /\ timer' \in [CPU -> -1 .. Delay]
         /\ checkTimers' \in [CPU -> BOOLEAN]
         /\ checkInt' \in [CPU -> BOOLEAN]
<1>1. call[t] \in Frame /\ FrameOK(call[t])
  BY StepType DEF TypeOK
<1>2. CASE StoreDrir(t)
  BY <1>1, <1>2 DEF StoreDrir, TypeOK, VariablesOK, FrameOK, At
<1>3. CASE StoreEir(t)
  <2> DEFINE k == call[t]
             value == IF k.on THEN k.tmp \cup {k.pin} ELSE k.tmp \ {k.pin}
  <2>1. value \in SUBSET Pin
    BY <1>1, <1>3 DEF StoreEir, At, FrameOK, Frame
  <2>2. eir' = [eir EXCEPT ![k.i] = value]
    BY <1>3 DEF StoreEir
  <2> HIDE DEF value
  <2> QED BY <1>3, <2>1, <2>2 DEF StoreEir, TypeOK, VariablesOK
<1>4. CASE SetTimer(t) \/ ClearTimer(t)
  BY <1>4, CountAssumption DEF SetTimer, ClearTimer, TypeOK, VariablesOK
<1>5. CASE SetCheckTimers(t) \/ Disarm(t)
  BY <1>5 DEF SetCheckTimers, Disarm, TypeOK, VariablesOK
<1>6. CASE Rearm(t)
  <2>1. call[t].i \in CPU
    BY <1>1 DEF Frame
  <2> DEFINE again == checkTimers[call[t].i] \/ timer[call[t].i] # 0
  <2>2. again \in BOOLEAN /\ checkTimers' = [checkTimers EXCEPT ![call[t].i] = again]
    BY <1>6, <2>1 DEF Rearm
  <2> HIDE DEF again
  <2> QED BY <1>6, <2>2 DEF Rearm, TypeOK, VariablesOK
<1>7. CASE SetCheckInt(t)
  BY <1>7 DEF SetCheckInt, TypeOK, VariablesOK
<1>8. CASE LoadDrir(t) \/ EvaluateLines(t) \/ Test(t) \/ LoadEir(t)
  BY <1>8 DEF LoadDrir, EvaluateLines, Test, LoadEir, shared, TypeOK, VariablesOK
<1> QED BY <1>2, <1>3, <1>4, <1>5, <1>6, <1>7, <1>8 DEF CallStep

LEMMA CallTypes ==
  /\ ClockCall \in Frame /\ FrameOK(ClockCall)
  /\ \A c \in CPU, pin \in Pin, on \in BOOLEAN :
       IrqCall(c, pin, on) \in Frame /\ FrameOK(IrqCall(c, pin, on))
  /\ \A c \in CPU, pin \in Pin, on \in BOOLEAN :
       LET k == [IrqCall(c, pin, on) EXCEPT !.at = "loadEir"] IN k \in Frame /\ FrameOK(k)
  /\ \A line \in Line, on \in BOOLEAN :
       InterruptCall(line, on) \in Frame /\ FrameOK(InterruptCall(line, on))
  /\ FrameOK(Idle)
<1> USE ThreadFacts DEF Frame, CallLabel
<1>1. ClockCall \in Frame /\ FrameOK(ClockCall)
  BY DEF ClockCall, FrameOK
<1>2. ASSUME NEW c \in CPU, NEW pin \in Pin, NEW on \in BOOLEAN
      PROVE  IrqCall(c, pin, on) \in Frame /\ FrameOK(IrqCall(c, pin, on))
  BY DEF IrqCall, FrameOK
<1>3. ASSUME NEW c \in CPU, NEW pin \in Pin, NEW on \in BOOLEAN
      PROVE  LET k == [IrqCall(c, pin, on) EXCEPT !.at = "loadEir"] IN k \in Frame /\ FrameOK(k)
  BY DEF IrqCall, FrameOK
<1>4. ASSUME NEW line \in Line, NEW on \in BOOLEAN
      PROVE  InterruptCall(line, on) \in Frame /\ FrameOK(InterruptCall(line, on))
  BY DEF InterruptCall, FrameOK
<1>5. FrameOK(Idle)
  BY DEF Idle, FrameOK
<1> QED BY <1>1, <1>2, <1>3, <1>4, <1>5

LEMMA DriveType ==
  ASSUME TypeOK, NEW t \in Thread, NEW line \in Line, Drive(t, line)
  PROVE  /\ wants' \in [Line -> BOOLEAN]
         /\ call' \in [Thread -> Frame \cup {Idle}]
         /\ \A u \in Thread : FrameOK(call'[u])
         /\ UNCHANGED <<shared, driver, pal, left, cc>>
<1> DEFINE on == ~wants[line]
<1>1. on \in BOOLEAN
  OBVIOUS
<1>2. wants' = [wants EXCEPT ![line] = on] /\ call' = [call EXCEPT ![t] = InterruptCall(line, on)]
  BY DEF Drive
<1> HIDE DEF on
<1>3. InterruptCall(line, on) \in Frame /\ FrameOK(InterruptCall(line, on))
  BY <1>1, CallTypes
<1> QED BY <1>1, <1>2, <1>3 DEF Drive, TypeOK, VariablesOK

(* Every step keeps the variables, and the values the calls hold, in their    *)
(* types, for any number of CPUs, device threads and lines.                   *)
THEOREM TypeCorrect == Spec => []TypeOK
<1>1. Init => TypeOK
  BY CountAssumption DEF Init, TypeOK, VariablesOK, FrameOK, Idle, StageLabel
<1>2. TypeOK /\ [Next]_vars => TypeOK'
  <2> SUFFICES ASSUME TypeOK, [Next]_vars PROVE TypeOK'
    OBVIOUS
  <2>1. ASSUME NEW t \in Thread, CallStep(t) PROVE TypeOK'
    BY <2>1, StepType, SharedType DEF CallStep, TypeOK, VariablesOK
  <2> USE DEF TypeOK, VariablesOK
  <2>2. ASSUME NEW c \in CPU, Clock(c) PROVE TypeOK'
    <3>1. cc' \in 0 .. TickPeriod - 1
      BY <2>2, CountAssumption DEF Clock
    <3>2. c \in Thread
      BY ThreadFacts
    <3>3. call' \in [Thread -> Frame \cup {Idle}] /\ \A t \in Thread : FrameOK(call'[t])
      BY <2>2, <3>2, CallTypes DEF Clock
    <3> QED BY <2>2, <3>1, <3>3 DEF Clock, Then, StageLabel, shared
  <2>3. ASSUME NEW c \in CPU, StartCountdown(c) PROVE TypeOK'
    BY <2>3 DEF StartCountdown, Then, StageLabel
  <2>15. ASSUME NEW c \in CPU, TestTimer(c) PROVE TypeOK'
    BY <2>15 DEF TestTimer, Then, StageLabel, shared
  <2>4. ASSUME NEW c \in CPU, LoadTimer(c) PROVE TypeOK'
    BY <2>4 DEF LoadTimer, Then, StageLabel, shared
  <2>5. ASSUME NEW c \in CPU, StoreTimer(c) PROVE TypeOK'
    <3>1. Decremented(left[c]) \in -1 .. Delay /\ 0 \in -1 .. Delay
      BY <2>5, CountAssumption DEF Decremented
    <3> QED BY <2>5, <3>1 DEF StoreTimer, Then, StageLabel
  <2>6. ASSUME NEW c \in CPU, Counted(c) PROVE TypeOK'
    <3>1. c \in Thread /\ 1 \in Pin
      BY ThreadFacts
    <3> DEFINE k == [IrqCall(c, 1, TRUE) EXCEPT !.at = "loadEir"]
    <3>2. k \in Frame /\ FrameOK(k)
      BY <3>1, CallTypes
    <3>3. UNCHANGED call \/ call' = [call EXCEPT ![c] = k]
      BY <2>6 DEF Counted
    <3> HIDE DEF k
    <3>4. call' \in [Thread -> Frame \cup {Idle}] /\ \A t \in Thread : FrameOK(call'[t])
      BY <3>1, <3>2, <3>3
    <3>5. stage' \in [CPU -> StageLabel]
      BY <2>6 DEF Counted, Then, StageLabel
    <3> QED BY <2>6, <3>4, <3>5 DEF Counted, shared
  <2>7. ASSUME NEW c \in CPU, KeepCounting(c) PROVE TypeOK'
    BY <2>7 DEF KeepCounting, Then, StageLabel
  <2>8. ASSUME NEW c \in CPU, CheckInterrupts(c) PROVE TypeOK'
    <3> DEFINE look == checkInt[c] /\ ~pal[c]
               in == pal[c] \/ (look /\ eir[c] # {})
    <3>1. in \in BOOLEAN /\ pal' = [pal EXCEPT ![c] = in]
      BY <2>8 DEF CheckInterrupts
    <3> HIDE DEF in
    <3>2. stage' = [stage EXCEPT ![c] = stage'[c]] /\ stage'[c] \in {"clock", "clearCheckInt", "instr"}
      BY <2>8 DEF CheckInterrupts, Then
    <3> QED BY <2>8, <3>1, <3>2 DEF CheckInterrupts, StageLabel, shared
  <2>9. ASSUME NEW c \in CPU, ClearCheckInt(c) PROVE TypeOK'
    BY <2>9 DEF ClearCheckInt, Then, StageLabel
  <2>10. ASSUME NEW c \in CPU, NEW in \in BOOLEAN, SetPal(c, in) PROVE TypeOK'
    BY <2>10 DEF SetPal, Then, StageLabel, shared
  <2>11. ASSUME NEW c \in CPU, NEW d \in CPU, NEW pin \in Pin, NEW on \in BOOLEAN,
                WriteMisc(c, d, pin, on)
         PROVE  TypeOK'
    BY <2>11, ThreadFacts, CallTypes DEF WriteMisc, Then, StageLabel, shared
  <2>12. ASSUME NEW c \in CPU, NEW line \in Line, DeviceAccess(c, line) PROVE TypeOK'
    <3>1. c \in Thread /\ Drive(c, line)
      BY <2>12, ThreadFacts DEF DeviceAccess
    <3> QED BY <2>12, <3>1, DriveType DEF DeviceAccess, Then, StageLabel, shared
  <2>13. ASSUME NEW d \in Device, DeviceThread(d) PROVE TypeOK'
    <3>1. PICK line \in Line : Drive(d, line) /\ UNCHANGED stage
      BY <2>13 DEF DeviceThread
    <3> QED BY <3>1, ThreadFacts, DriveType DEF shared
  <2>14. CASE UNCHANGED vars
    BY <2>14 DEF vars, shared
  <2> QED BY <2>1, <2>2, <2>3, <2>4, <2>5, <2>6, <2>7, <2>8, <2>9, <2>10, <2>11, <2>12, <2>13,
             <2>14, <2>15, ThreadFacts DEF Next, Execute
<1> QED BY <1>1, <1>2, PTL DEF Spec

-----------------------------------------------------------------------------
(* Which steps touch DRIR: of the calls only the update, and a thread gets to *)
(* the update only by a call of its driver.                                   *)
LEMMA NotUpdating ==
  ASSUME TypeOK, NEW t \in Thread, CallStep(t), ~LoadDrir(t), ~StoreDrir(t)
  PROVE  /\ drir' = drir
         /\ ~Updating(t) /\ ~Updating(t)'
<1>1. call[t] \in Frame /\ t \in DOMAIN call
  BY StepType DEF TypeOK, VariablesOK
<1>2. ASSUME Return(t) PROVE ~Updating(t)'
  BY <1>1, <1>2, ReturnedType DEF Return, Updating
<1>3. ASSUME NEW label \in CallLabel \ {"loadDrir", "storeDrir"}, Go(t, label) PROVE ~Updating(t)'
  BY <1>1, <1>3 DEF Go, Updating, Frame
<1>4. CASE LoadEir(t) \/ EvaluateLines(t)
  BY <1>1, <1>4 DEF LoadEir, EvaluateLines, Load, shared, At, Updating, Frame
<1>5. CASE Test(t)
  <2>1. Return(t) \/ Go(t, "setTimer") \/ Go(t, "loadEir")
    BY <1>5 DEF Test
  <2>2. ~Updating(t)'
    BY <2>1, <1>2, <1>3 DEF CallLabel
  <2> QED BY <1>5, <2>2 DEF Test, shared, At, Updating
<1>6. CASE SetTimer(t) \/ ClearTimer(t) \/ Disarm(t)
  BY <1>3, <1>6 DEF SetTimer, ClearTimer, Disarm, CallLabel, At, Updating
<1>7. CASE SetCheckTimers(t) \/ SetCheckInt(t) \/ Rearm(t)
  BY <1>2, <1>7 DEF SetCheckTimers, SetCheckInt, Rearm, At, Updating
<1>8. CASE StoreEir(t)
  <2>1. Go(t, "setCheckInt") \/ Go(t, "clearTimer")
    BY <1>8 DEF StoreEir
  <2>2. ~Updating(t)'
    BY <2>1, <1>3 DEF CallLabel
  <2> QED BY <1>8, <2>2 DEF StoreEir, At, Updating
<1> QED BY <1>4, <1>5, <1>6, <1>7, <1>8 DEF CallStep

(* A step that leaves DRIR, the lines and the updates in progress alone keeps *)
(* what holds of them.                                                        *)
LEMMA DrirKept ==
  ASSUME DrirInv, TypeOK, NEW t \in Thread, UNCHANGED <<drir, driver, wants>>,
         ~Updating(t), ~Updating(t)', \A u \in Thread \ {t} : call'[u] = call[u]
  PROVE  DrirInv'
<1>1. \A u \in Thread : UpdateOK(u)'
  BY DEF DrirInv, UpdateOK, Updating, At
<1>2. ASSUME NEW l \in Line PROVE LineOK(l)'
  <2>1. LineOK(l) /\ driver[l] \in Thread
    BY DEF DrirInv, TypeOK, VariablesOK
  <2>2. CASE driver[l] = t
    BY <2>1, <2>2 DEF LineOK
  <2>3. CASE driver[l] # t
    BY <2>1, <2>3 DEF LineOK, Updating
  <2> QED BY <2>2, <2>3
<1> QED BY <1>1, <1>2 DEF DrirInv

LEMMA DriveDrir ==
  ASSUME DrirInv, TypeOK, NEW t \in Thread, NEW line \in Line, Drive(t, line)
  PROVE  DrirInv'
<1> DEFINE on == ~wants[line]
<1>1. /\ driver[line] = t /\ call[t].at = "idle"
      /\ wants' = [wants EXCEPT ![line] = on]
      /\ call' = [call EXCEPT ![t] = InterruptCall(line, on)]
      /\ UNCHANGED <<drir, driver>>
  BY DEF Drive, At, shared
<1> HIDE DEF on
<1>2. /\ call'[t].at = "loadDrir" /\ call'[t].line = line /\ call'[t].level = on
      /\ \A u \in Thread \ {t} : call'[u] = call[u]
      /\ wants'[line] = on /\ \A l \in Line \ {line} : wants'[l] = wants[l]
  BY <1>1 DEF TypeOK, VariablesOK, InterruptCall
<1>3. \A u \in Thread \ {t} : ~Updating(u)
  BY <1>1 DEF DrirInv, UpdateOK, TypeOK, FrameOK, Updating
<1>4. \A u \in Thread : UpdateOK(u)'
  BY <1>1, <1>2, <1>3 DEF UpdateOK, Updating, At
<1>5. ASSUME NEW l \in Line PROVE LineOK(l)'
  <2>1. driver[l] = t /\ (l \in drir <=> wants[l])
    BY <1>1 DEF DrirInv, LineOK, Updating
  <2> QED BY <1>1, <1>2, <2>1 DEF LineOK, Updating
<1> QED BY <1>1, <1>4, <1>5 DEF DrirInv

(* With one driver the update of DRIR is exact.                               *)
LEMMA UpdateDrir ==
  ASSUME DrirInv, TypeOK, NEW t \in Thread, LoadDrir(t) \/ StoreDrir(t),
         UNCHANGED <<driver, wants>>
  PROVE  DrirInv'
<1> DEFINE line == call[t].line
<1>1. /\ call[t] \in Frame /\ line \in Line /\ driver[line] = t
      /\ call[t].level = wants[line] /\ call[t].level \in BOOLEAN
  <2>1. Updating(t) /\ call[t].at # "idle"
    BY DEF LoadDrir, StoreDrir, At, Updating
  <2>2. call[t] \in Frame
    BY <2>1, InCall DEF At, TypeOK
  <2> QED BY <2>1, <2>2 DEF TypeOK, FrameOK, DrirInv, UpdateOK, Updating, Frame
<1>2. \A l \in Line : driver[l] = t
  BY <1>1 DEF DrirInv
<1>3. \A u \in Thread \ {t} : ~Updating(u) /\ call'[u] = call[u]
  BY <1>2 DEF DrirInv, UpdateOK, TypeOK, VariablesOK, FrameOK, Updating, LoadDrir, StoreDrir, Load, Go
<1>4. \A l \in Line : l # line => (l \in drir <=> wants[l])
  BY <1>2 DEF DrirInv, LineOK
<1>5. CASE LoadDrir(t)
  <2>1. /\ call'[t].at = "storeDrir" /\ call'[t].line = line
        /\ call'[t].level = call[t].level /\ call'[t].tmp = drir /\ drir' = drir
    BY <1>1, <1>5 DEF LoadDrir, Load, shared, TypeOK, VariablesOK, Frame
  <2>2. \A u \in Thread : UpdateOK(u)'
    BY <1>1, <1>3, <2>1 DEF UpdateOK, Updating, At
  <2>3. \A l \in Line : LineOK(l)'
    BY <1>2, <1>4, <2>1 DEF LineOK, Updating
  <2> QED BY <1>2, <2>2, <2>3 DEF DrirInv
<1>6. CASE StoreDrir(t)
  <2>1. call[t].tmp = drir /\ call'[t].at = "evaluate"
    BY <1>1, <1>6 DEF StoreDrir, Go, DrirInv, UpdateOK, TypeOK, VariablesOK, Frame
  <2>2. drir' = IF wants[line] THEN drir \cup {line} ELSE drir \ {line}
    BY <1>1, <1>6, <2>1 DEF StoreDrir
  <2>3. \A u \in Thread : UpdateOK(u)'
    BY <1>3, <2>1 DEF UpdateOK, Updating, At
  <2>4. \A l \in Line : LineOK(l)'
    BY <1>4, <2>2 DEF LineOK
  <2> QED BY <1>2, <2>3, <2>4 DEF DrirInv
<1> QED BY <1>5, <1>6

(* Whatever a CPU does outside a call, it is not updating DRIR, before or      *)
(* after.                                                                     *)
LEMMA ExecuteDrir ==
  ASSUME TypeOK, DrirInv, NEW c \in CPU, Execute(c)
  PROVE  DrirInv'
<1>1. c \in Thread
  BY ThreadFacts
<1>2. ASSUME NEW line \in Line, DeviceAccess(c, line) PROVE DrirInv'
  BY <1>1, <1>2, DriveDrir DEF DeviceAccess
<1>3. CASE Clock(c) \/ Counted(c)
  <2>1. ~Updating(c) /\ ~Updating(c)'
    BY <1>1, <1>3 DEF Clock, Counted, Stage, At, Updating, TypeOK, VariablesOK, ClockCall, IrqCall, Idle
  <2> QED BY <1>1, <1>3, <2>1, DrirKept DEF Clock, Counted, shared, TypeOK, VariablesOK
<1>4. ASSUME NEW d \in CPU, NEW pin, NEW on, WriteMisc(c, d, pin, on) PROVE DrirInv'
  <2>1. ~Updating(c) /\ ~Updating(c)'
    BY <1>1, <1>4 DEF WriteMisc, Stage, At, Updating, TypeOK, VariablesOK, IrqCall
  <2> QED BY <1>1, <1>4, <2>1, DrirKept DEF WriteMisc, shared, TypeOK, VariablesOK
<1>5. CASE \/ StartCountdown(c) \/ TestTimer(c) \/ LoadTimer(c) \/ StoreTimer(c) \/ KeepCounting(c)
           \/ CheckInterrupts(c) \/ ClearCheckInt(c) \/ \E in \in BOOLEAN : SetPal(c, in)
  <2>1. UNCHANGED <<drir, driver, wants, call>> /\ call[c].at = "idle"
    BY <1>5 DEF StartCountdown, TestTimer, LoadTimer, StoreTimer, KeepCounting, CheckInterrupts,
                ClearCheckInt, SetPal, Stage, At, shared
  <2> QED BY <1>1, <2>1, DrirKept DEF Updating
<1> QED BY <1>2, <1>3, <1>4, <1>5 DEF Execute

(* interrupt(): "the corresponding bits are set in DRIR".  With one thread    *)
(* driving all the lines, of any number and with any number of CPUs, DRIR     *)
(* holds what was asked of every line whose driver is not inside the call.    *)
THEOREM RequestsHeld ==
  ASSUME OneDriver
  PROVE  Spec => []DrirHoldsRequests
<1>1. Init => DrirInv
  <2> SUFFICES ASSUME Init PROVE DrirInv
    OBVIOUS
  <2>1. /\ driver \in [Line -> Thread] /\ \A k, l \in Line : driver[k] = driver[l]
        /\ drir = {} /\ \A l \in Line : ~wants[l]
        /\ \A t \in Thread : call[t].at = "idle"
    BY DEF Init, Idle
  <2> QED BY <2>1 DEF DrirInv, UpdateOK, LineOK, Updating, At
<1>2. TypeOK /\ DrirInv /\ [Next]_vars => DrirInv'
  <2> SUFFICES ASSUME TypeOK, DrirInv, [Next]_vars PROVE DrirInv'
    OBVIOUS
  <2>1. ASSUME NEW t \in Thread, CallStep(t) PROVE DrirInv'
    <3>1. UNCHANGED <<driver, wants>> /\ \A u \in Thread \ {t} : call'[u] = call[u]
      BY <2>1, StepType DEF CallStep, TypeOK, VariablesOK
    <3>2. CASE LoadDrir(t) \/ StoreDrir(t)
      BY <3>1, <3>2, UpdateDrir
    <3>3. CASE ~LoadDrir(t) /\ ~StoreDrir(t)
      BY <2>1, <3>1, <3>3, NotUpdating, DrirKept
    <3> QED BY <3>2, <3>3
  <2>2. ASSUME NEW c \in CPU, Execute(c) PROVE DrirInv'
    BY <2>2, ExecuteDrir
  <2>3. ASSUME NEW d \in Device, DeviceThread(d) PROVE DrirInv'
    BY <2>3, ThreadFacts, DriveDrir DEF DeviceThread
  <2>4. CASE UNCHANGED vars
    BY <2>4 DEF vars, shared, DrirInv, UpdateOK, LineOK, Updating, At
  <2> QED BY <2>1, <2>2, <2>3, <2>4 DEF Next
<1>3. TypeOK /\ DrirInv => DrirHoldsRequests
  BY DEF DrirInv, DrirHoldsRequests, LineOK, Updating, At, TypeOK, VariablesOK
<1> QED BY <1>1, <1>2, <1>3, TypeCorrect, PTL DEF Spec

-----------------------------------------------------------------------------
(* One CPU that drives all the lines: its thread is the only one that acts.   *)
LEMMA SoloFacts ==
  ASSUME NumCPUs = 1
  PROVE  CPU = {0} /\ Thread = {0} \cup Device /\ 0 \notin Device
  BY DriverAssumption DEF CPU, Thread

(* The end of irq_h() in a loop over one CPU.                                  *)
LEMMA SoloReturned ==
  ASSUME NumCPUs = 1, NEW k \in Frame
  PROVE  \/ Returned(k) = Idle
         \/ /\ Returned(k) \in Frame
            /\ Returned(k).at = "evaluate" /\ Returned(k).pin = 1
<1>1. k.i = 0
  BY SoloFacts DEF Frame
<1>2. CASE k.once
  BY <1>2 DEF Returned
<1>3. CASE ~k.once /\ k.pin = 2
  <2>1. Returned(k) = [k EXCEPT !.i = 0, !.pin = 1, !.at = "evaluate"]
    BY <1>1, <1>3 DEF Returned
  <2> QED BY ZenonT(60), <1>3, <2>1, ThreadFacts DEF Frame, CallLabel
<1>4. CASE ~k.once /\ k.pin # 2
  BY <1>1, <1>4 DEF Returned
<1> QED BY <1>2, <1>3, <1>4

(* irq_h() returns when it has settled the pin and reported it.                *)
LEMMA SoloReturn ==
  ASSUME NumCPUs = 1, TypeOK, SoloInv, ~At(0, "idle"), Return(0),
         UNCHANGED <<driver, stage>>, Settled', eir'[0] # {} => checkInt'[0]
  PROVE  SoloInv'
<1>1. call[0] \in Frame /\ CallInv(call[0])
  BY InCall, ThreadFacts DEF SoloInv, TypeOK
<1>2. call' = [call EXCEPT ![0] = Returned(call[0])] /\ call'[0] = Returned(call[0])
      /\ \A d \in Device : call'[d] = call[d]
  BY ThreadFacts, SoloFacts DEF Return, TypeOK, VariablesOK
<1>3. (\A l \in Line : driver[l] = 0)' /\ (\A d \in Device : At(d, "idle"))'
  BY <1>2 DEF SoloInv, At
<1>4. stage[0]' \in {"clock", "timers", "ints"}
  BY <1>1 DEF CallInv
<1>5. CASE Returned(call[0]) = Idle
  <2>1. At(0, "idle")' /\ IdleInv'
    BY <1>2, <1>4, <1>5 DEF At, Idle, IdleInv
  <2> QED BY <1>3, <2>1 DEF SoloInv
<1>6. CASE Returned(call[0]).at = "evaluate" /\ Returned(call[0]).pin = 1
  <2>1. ~At(0, "idle")' /\ PinOneInv(call[0])'
    BY <1>2, <1>6 DEF At, PinOneInv
  <2>2. CallInv(call[0])'
    BY <1>2, <1>4, <1>6, <2>1 DEF CallInv
  <2> QED BY <1>3, <2>1, <2>2 DEF SoloInv
<1> QED BY <1>1, <1>5, <1>6, SoloReturned

(* The steps of a call.                                                        *)
LEMMA SoloCallStep ==
  ASSUME NumCPUs = 1, TypeOK, SoloInv, CallStep(0)
  PROVE  SoloInv'
<1> DEFINE k == call[0]
<1>1. k \in Frame /\ FrameOK(k) /\ CallInv(k) /\ ~At(0, "idle")
  BY StepType, ThreadFacts DEF TypeOK, SoloInv, Frame, CallLabel, At
<1>2. k.i = 0 /\ k.pin \in {1, 2, 3} /\ k.on \in BOOLEAN /\ k.level \in BOOLEAN
  BY <1>1, SoloFacts DEF Frame, Pin
<1>3. UNCHANGED <<driver, stage>> /\ \A d \in Device : call'[d] = call[d]
  BY StepType, ThreadFacts, SoloFacts DEF CallStep, TypeOK, VariablesOK
<1>4. (\A l \in Line : driver[l] = 0)' /\ (\A d \in Device : At(d, "idle"))'
      /\ stage'[0] \in {"clock", "timers", "ints"}
  BY <1>1, <1>3 DEF SoloInv, At, CallInv
<1>5. At(0, "setCheckInt") \/ (eir[0] # {} => checkInt[0])
  BY DEF SoloInv
<1>6. 0 \in DOMAIN call /\ 0 \in DOMAIN eir /\ 0 \in DOMAIN timer /\ 0 \in DOMAIN checkInt
      /\ 0 \in DOMAIN checkTimers
  BY ThreadFacts DEF TypeOK, VariablesOK
<1>7. ASSUME NEW label \in CallLabel, Go(0, label)
      PROVE  /\ call'[0].at = label /\ call'[0].pin = k.pin /\ call'[0].on = k.on
             /\ call'[0].tmp = k.tmp
  BY <1>1, <1>6, <1>7 DEF Go, Frame
<1>8. ASSUME call'[0].at # "idle", CallInv(call[0])',
             eir'[0] # {} => checkInt'[0] \/ call'[0].at = "setCheckInt"
      PROVE  SoloInv'
  BY <1>4, <1>8 DEF SoloInv, At
<1>9. CASE LoadDrir(0)
  <2>1. call'[0].at = "storeDrir" /\ call'[0].pin = k.pin /\ UNCHANGED <<drir, eir, timer, checkInt>>
    BY <1>1, <1>6, <1>9 DEF LoadDrir, Load, shared, Frame
  <2>2. k.pin = 1 /\ k.at = "loadDrir"
    BY <1>1, <1>9 DEF CallInv, LoadDrir, At
  <2>3. CallInv(call[0])'
    BY <1>4, <2>1, <2>2 DEF CallInv, PinOneInv
  <2> QED BY <1>5, <1>8, <2>1, <2>2, <2>3 DEF At
<1>10. CASE StoreDrir(0)
  <2>1. call'[0].at = "evaluate" /\ call'[0].pin = k.pin /\ UNCHANGED <<eir, timer, checkInt>>
    BY <1>7, <1>10 DEF StoreDrir, CallLabel
  <2>2. k.pin = 1 /\ k.at = "storeDrir"
    BY <1>1, <1>10 DEF CallInv, StoreDrir, At
  <2>3. CallInv(call[0])'
    BY <1>4, <2>1, <2>2 DEF CallInv, PinOneInv
  <2> QED BY <1>5, <1>8, <2>1, <2>2, <2>3 DEF At
<1>11. CASE EvaluateLines(0)
  <2>1. call'[0].at = "test" /\ call'[0].pin = k.pin /\ (call'[0].on <=> Asked)
        /\ UNCHANGED <<drir, eir, timer, checkInt>>
    BY <1>1, <1>6, <1>11 DEF EvaluateLines, shared, Frame, Asked
  <2>2. k.pin = 1 /\ k.at = "evaluate"
    BY <1>1, <1>11 DEF CallInv, EvaluateLines, At
  <2>3. CallInv(call[0])'
    BY <1>4, <2>1, <2>2 DEF CallInv, PinOneInv, Asked
  <2> QED BY <1>5, <1>8, <2>1, <2>2, <2>3 DEF At
<1>12. CASE LoadEir(0)
  <2>1. call'[0].at = "storeEir" /\ call'[0].pin = k.pin /\ call'[0].on = k.on
        /\ call'[0].tmp = eir[0] /\ UNCHANGED <<drir, eir, timer, checkInt>> /\ k.at = "loadEir"
    BY <1>1, <1>2, <1>6, <1>12 DEF LoadEir, Load, shared, Frame, At
  <2>2. CallInv(call[0])'
    BY <1>1, <1>4, <2>1 DEF CallInv, PinOneInv, Asked, Settled, PinActive
  <2> QED BY <1>5, <1>8, <2>1, <2>2 DEF At
<1>13. CASE Test(0)
  <2> DEFINE active == k.pin \in eir[0] \/ (k.pin = 1 /\ timer[0] # 0)
  <2>1. k.at = "test" /\ UNCHANGED <<drir, eir, timer, checkInt>>
        /\ (eir'[0] # {} => checkInt'[0])
    BY <1>5, <1>13 DEF Test, shared, At
  <2>2. k.pin = 1 => (active <=> PinActive(0)) /\ (k.on <=> Asked)
    BY <1>1, <2>1 DEF CallInv, PinOneInv, PinActive
  <2>3. CASE k.on /\ ~active
    <3>1. Go(0, IF k.pin = 1 THEN "setTimer" ELSE "loadEir")
      BY <1>2, <1>13, <2>3 DEF Test
    <3>2. call'[0].at = (IF k.pin = 1 THEN "setTimer" ELSE "loadEir") /\ call'[0].pin = k.pin
      BY <3>1, <1>7 DEF CallLabel
    <3>3. CallInv(call[0])'
      BY <1>1, <1>4, <2>1, <2>2, <2>3, <3>2 DEF CallInv, PinOneInv, Asked, Settled, PinActive
    <3> QED BY <1>8, <2>1, <3>2, <3>3
  <2>4. CASE ~k.on /\ active
    <3>1. Go(0, "loadEir")
      BY <1>2, <1>13, <2>4 DEF Test
    <3>2. call'[0].at = "loadEir" /\ call'[0].pin = k.pin /\ call'[0].on = k.on
      BY <3>1, <1>7 DEF CallLabel
    <3>3. CallInv(call[0])'
      BY <1>1, <1>4, <2>1, <2>2, <2>4, <3>2 DEF CallInv, PinOneInv, Asked, Settled, PinActive
    <3> QED BY <1>8, <2>1, <3>2, <3>3
  <2>5. CASE k.on <=> active
    <3>1. Return(0)
      BY <1>2, <1>13, <2>5 DEF Test
    <3>2. Settled'
      BY <1>1, <2>1, <2>2, <2>5 DEF CallInv, Settled, Asked, PinActive
    <3> QED BY <1>1, <1>3, <2>1, <3>1, <3>2, SoloReturn
  <2> QED BY <1>2, <2>3, <2>4, <2>5
<1>14. CASE SetTimer(0)
  <2>1. call'[0].at = "setCheckTimers" /\ call'[0].pin = k.pin /\ k.at = "setTimer"
        /\ timer'[0] = Delay /\ UNCHANGED <<drir, eir, checkInt>>
    BY <1>2, <1>6, <1>7, <1>14 DEF SetTimer, CallLabel, At
  <2>2. CallInv(call[0])'
    BY <1>1, <1>4, <2>1, CountAssumption DEF CallInv, PinOneInv, Asked, PinActive
  <2> QED BY <1>5, <1>8, <2>1, <2>2 DEF At
<1>15. CASE SetCheckTimers(0)
  <2>1. k.at = "setCheckTimers" /\ Return(0) /\ UNCHANGED <<drir, eir, timer, checkInt>>
    BY <1>15 DEF SetCheckTimers, At
  <2>2. Settled'
    BY <1>1, <2>1 DEF CallInv, PinOneInv, Settled, Asked, PinActive
  <2> QED BY <1>1, <1>3, <1>5, <2>1, <2>2, SoloReturn DEF At
<1>16. CASE StoreEir(0)
  <2>1. k.at = "storeEir" /\ k.tmp = eir[0] /\ UNCHANGED <<drir, timer, checkInt>>
        /\ eir'[0] = IF k.on THEN eir[0] \cup {k.pin} ELSE eir[0] \ {k.pin}
    BY <1>1, <1>2, <1>6, <1>16 DEF StoreEir, At, CallInv
  <2>2. call'[0].at = (IF k.on THEN "setCheckInt" ELSE "clearTimer") /\ call'[0].pin = k.pin
    BY <1>7, <1>16 DEF StoreEir, CallLabel
  <2>3. CallInv(call[0])'
    BY <1>1, <1>2, <1>4, <2>1, <2>2 DEF CallInv, PinOneInv, Asked, Settled, PinActive
  <2> QED BY <1>2, <1>5, <1>8, <2>1, <2>2, <2>3 DEF At
<1>17. CASE SetCheckInt(0)
  <2>1. k.at = "setCheckInt" /\ Return(0) /\ checkInt'[0] = TRUE /\ UNCHANGED <<drir, eir, timer>>
    BY <1>2, <1>6, <1>17 DEF SetCheckInt, At
  <2>2. Settled'
    BY <1>1, <2>1 DEF CallInv, PinOneInv, Settled, Asked, PinActive
  <2> QED BY <1>1, <1>3, <2>1, <2>2, SoloReturn
<1>18. CASE ClearTimer(0)
  <2>1. call'[0].at = "disarm" /\ call'[0].pin = k.pin /\ k.at = "clearTimer"
        /\ timer'[0] = (IF k.pin = 1 THEN 0 ELSE timer[0]) /\ UNCHANGED <<drir, eir, checkInt>>
    BY <1>2, <1>6, <1>7, <1>18 DEF ClearTimer, CallLabel, At
  <2>2. CallInv(call[0])'
    BY <1>1, <1>4, <2>1 DEF CallInv, PinOneInv, Asked, Settled, PinActive
  <2> QED BY <1>5, <1>8, <2>1, <2>2 DEF At
<1>19. CASE Disarm(0)
  <2>1. call'[0].at = "rearm" /\ call'[0].pin = k.pin /\ k.at = "disarm"
        /\ UNCHANGED <<drir, eir, timer, checkInt>>
    BY <1>7, <1>19 DEF Disarm, CallLabel, At
  <2>2. CallInv(call[0])'
    BY <1>1, <1>4, <2>1 DEF CallInv, PinOneInv, Asked, Settled, PinActive
  <2> QED BY <1>5, <1>8, <2>1, <2>2 DEF At
<1>20. CASE Rearm(0)
  <2>1. k.at = "rearm" /\ Return(0) /\ UNCHANGED <<drir, eir, timer, checkInt>>
    BY <1>20 DEF Rearm, At
  <2>2. Settled'
    BY <1>1, <2>1 DEF CallInv, PinOneInv, Settled, Asked, PinActive
  <2> QED BY <1>1, <1>3, <1>5, <2>1, <2>2, SoloReturn DEF At
<1> QED BY <1>9, <1>10, <1>11, <1>12, <1>13, <1>14, <1>15, <1>16, <1>17, <1>18, <1>19, <1>20
         DEF CallStep

(* A call begins with what it will settle still settled, or still to be asked. *)
LEMMA SoloBegin ==
  ASSUME NumCPUs = 1, TypeOK, SoloInv, NEW k \in Frame, k.at \in {"loadDrir", "test", "loadEir"},
         call' = [call EXCEPT ![0] = k], UNCHANGED <<drir, eir, timer, checkInt, driver>>,
         At(0, "idle"), stage'[0] \in {"clock", "timers", "ints"},
         k.at = "loadDrir" => k.pin = 1,
         k.pin = 1 /\ k.at \in {"test", "loadEir"} => (k.on <=> Asked),
         k.pin # 1 => Settled
  PROVE  SoloInv'
<1>1. call'[0] = k /\ (\A d \in Device : call'[d] = call[d])
  BY ThreadFacts, SoloFacts DEF TypeOK, VariablesOK
<1>2. ~At(0, "idle")' /\ CallInv(call[0])'
  BY <1>1 DEF At, CallInv, PinOneInv, Asked, Settled, PinActive
<1> QED BY <1>1, <1>2 DEF SoloInv, At

(* The countdown and the interrupt check, between calls.                       *)
LEMMA SoloExecute ==
  ASSUME NumCPUs = 1, TypeOK, SoloInv, Execute(0)
  PROVE  SoloInv'
<1> USE ThreadFacts
<1>1. /\ 0 \in DOMAIN call /\ 0 \in DOMAIN eir /\ 0 \in DOMAIN timer /\ 0 \in DOMAIN checkInt
      /\ 0 \in DOMAIN stage /\ 0 \in DOMAIN left
      /\ eir[0] \in SUBSET Pin /\ timer[0] \in -1 .. Delay
  BY DEF TypeOK, VariablesOK
<1>2. At(0, "idle") /\ IdleInv /\ (eir[0] # {} => checkInt[0])
  BY DEF SoloInv, Execute, Clock, StartCountdown, TestTimer, LoadTimer, StoreTimer, Counted, KeepCounting,
         CheckInterrupts, ClearCheckInt, SetPal, WriteMisc, DeviceAccess, Stage, At
<1>3. ASSUME UNCHANGED <<driver, call>>, IdleInv', eir'[0] # {} => checkInt'[0] PROVE SoloInv'
  BY <1>2, <1>3 DEF SoloInv, At
<1>4. CASE Clock(0)
  <2>1. stage[0] = "clock" /\ stage'[0] = "timers" /\ Settled
        /\ UNCHANGED <<drir, eir, timer, checkInt, driver>>
    BY <1>1, <1>2, <1>4 DEF Clock, Stage, Then, IdleInv, shared
  <2>2. CASE cc' = 0
    <3> DEFINE k == ClockCall
    <3>1. call' = [call EXCEPT ![0] = k]
      BY <1>4, <2>2 DEF Clock
    <3>2. k \in Frame /\ k.at = "test" /\ k.pin = 2 /\ k.pin # 1
      BY CallTypes DEF ClockCall
    <3> HIDE DEF k
    <3> QED BY <1>2, <2>1, <3>1, <3>2, SoloBegin
  <2>3. CASE cc' # 0
    <3>1. call' = [call EXCEPT ![0] = Idle]
      BY <1>4, <2>3 DEF Clock
    <3>2. At(0, "idle")' /\ (\A d \in Device : At(d, "idle"))'
      BY <1>1, <3>1, SoloFacts DEF At, Idle, SoloInv
    <3>3. IdleInv'
      BY <2>1 DEF IdleInv, Settled, Asked, PinActive
    <3> QED BY <1>2, <2>1, <3>2, <3>3 DEF SoloInv, At
  <2> QED BY <2>2, <2>3
<1>5. CASE StartCountdown(0)
  <2>1. stage[0] = "timers" /\ stage'[0] \in {"testTimer", "ints"}
        /\ UNCHANGED <<drir, eir, timer, checkInt, driver, call>>
    BY <1>1, <1>5 DEF StartCountdown, Stage, Then
  <2> QED BY <1>2, <1>3, <2>1 DEF IdleInv, Settled, Asked, PinActive
<1>16. CASE TestTimer(0)
  <2>1. stage[0] = "testTimer"
        /\ stage'[0] = (IF timer[0] = 0 THEN "ints" ELSE "loadTimer")
        /\ UNCHANGED <<drir, eir, timer, checkInt, driver, call>>
    BY <1>1, <1>16 DEF TestTimer, Stage, Then, shared
  <2> QED BY <1>2, <1>3, <2>1 DEF IdleInv, Settled, Asked, PinActive
<1>6. CASE LoadTimer(0)
  <2>1. stage[0] = "loadTimer" /\ stage'[0] = "storeTimer"
        /\ UNCHANGED <<drir, eir, timer, checkInt, driver, call>>
    BY <1>1, <1>6 DEF LoadTimer, Stage, Then, shared
  <2> QED BY <1>2, <1>3, <2>1 DEF IdleInv, Settled, Asked, PinActive
<1>7. CASE StoreTimer(0)
  <2>1. stage[0] = "storeTimer" /\ timer[0] # 0 /\ stage'[0] = "counted"
        /\ UNCHANGED <<drir, eir, checkInt, driver, call>>
    BY <1>1, <1>2, <1>7 DEF StoreTimer, Stage, Then, IdleInv
  <2> QED BY <1>2, <1>3, <2>1 DEF IdleInv, Settled, Asked, PinActive
<1>8. CASE Counted(0)
  <2>1. stage[0] = "counted" /\ Asked /\ UNCHANGED <<drir, eir, timer, checkInt, driver>>
    BY <1>2, <1>8 DEF Counted, Stage, IdleInv, shared
  <2>2. CASE timer[0] # 0
    <3>1. stage'[0] = "keepCounting" /\ call' = call
      BY <1>1, <1>8, <2>2 DEF Counted, Then
    <3> QED BY <1>2, <1>3, <2>1, <2>2, <3>1 DEF IdleInv, Settled, Asked, PinActive
  <2>3. CASE timer[0] = 0
    <3> DEFINE k == [IrqCall(0, 1, TRUE) EXCEPT !.at = "loadEir"]
    <3>1. stage'[0] = "ints" /\ call' = [call EXCEPT ![0] = k]
      BY <1>1, <1>8, <2>3 DEF Counted, Then
    <3>2. k \in Frame /\ k.at = "loadEir" /\ k.pin = 1 /\ k.on
      BY CallTypes DEF IrqCall
    <3> HIDE DEF k
    <3>3. k.on <=> Asked
      BY <2>1, <3>2
    <3> QED BY <1>2, <2>1, <3>1, <3>2, <3>3, SoloBegin
  <2> QED BY <2>2, <2>3
<1>9. CASE KeepCounting(0)
  <2>1. stage[0] = "keepCounting" /\ stage'[0] = "ints"
        /\ UNCHANGED <<drir, eir, timer, checkInt, driver, call>>
    BY <1>1, <1>9 DEF KeepCounting, Stage, Then
  <2> QED BY <1>2, <1>3, <2>1 DEF IdleInv, Settled, Asked, PinActive
<1>10. CASE CheckInterrupts(0)
  <2>1. stage[0] = "ints" /\ stage'[0] \in {"clock", "clearCheckInt", "instr"}
        /\ (stage'[0] = "clearCheckInt" => eir[0] = {})
        /\ UNCHANGED <<drir, eir, timer, checkInt, driver, call>>
    BY <1>1, <1>10 DEF CheckInterrupts, Stage, Then, shared
  <2> QED BY <1>2, <1>3, <2>1 DEF IdleInv, Settled, Asked, PinActive
<1>11. CASE ClearCheckInt(0)
  <2>1. stage[0] = "clearCheckInt" /\ stage'[0] = "instr" /\ eir[0] = {}
        /\ UNCHANGED <<drir, eir, timer, driver, call>>
    BY <1>1, <1>2, <1>11 DEF ClearCheckInt, Stage, Then, IdleInv
  <2> QED BY <1>2, <1>3, <2>1 DEF IdleInv, Settled, Asked, PinActive
<1>12. ASSUME NEW in \in BOOLEAN, SetPal(0, in) PROVE SoloInv'
  <2>1. stage[0] = "instr" /\ stage'[0] = "clock"
        /\ UNCHANGED <<drir, eir, timer, checkInt, driver, call>>
    BY <1>1, <1>12 DEF SetPal, Stage, Then, shared
  <2> QED BY <1>2, <1>3, <2>1 DEF IdleInv, Settled, Asked, PinActive
<1>13. ASSUME NEW pin \in {2, 3}, NEW on \in BOOLEAN, WriteMisc(0, 0, pin, on) PROVE SoloInv'
  <2>1. stage[0] = "instr" /\ stage'[0] = "clock" /\ Settled
        /\ call' = [call EXCEPT ![0] = IrqCall(0, pin, on)]
        /\ UNCHANGED <<drir, eir, timer, checkInt, driver>>
    BY <1>1, <1>2, <1>13 DEF WriteMisc, Stage, Then, IdleInv, shared
  <2>2. pin \in Pin /\ pin # 1
    OBVIOUS
  <2>3. IrqCall(0, pin, on) \in Frame
    BY <2>2, CallTypes
  <2>4. IrqCall(0, pin, on).at = "test" /\ IrqCall(0, pin, on).pin = pin
    BY DEF IrqCall
  <2> QED BY <1>2, <2>1, <2>2, <2>3, <2>4, SoloBegin
<1>14. ASSUME NEW line \in Line, DeviceAccess(0, line) PROVE SoloInv'
  <2> DEFINE on == ~wants[line]
  <2>1. stage'[0] = "clock" /\ call' = [call EXCEPT ![0] = InterruptCall(line, on)]
        /\ UNCHANGED <<drir, eir, timer, checkInt, driver>>
    BY <1>1, <1>14 DEF DeviceAccess, Drive, Then, shared
  <2>2. on \in BOOLEAN
    OBVIOUS
  <2> HIDE DEF on
  <2>3. InterruptCall(line, on) \in Frame
    BY <2>2, CallTypes
  <2>4. InterruptCall(line, on).at = "loadDrir" /\ InterruptCall(line, on).pin = 1
    BY DEF InterruptCall
  <2> QED BY <1>2, <2>1, <2>3, <2>4, SoloBegin
<1>15. CASE WriteMisc(0, 0, 2, FALSE) \/ WriteMisc(0, 0, 3, FALSE) \/ \E d \in CPU : WriteMisc(0, d, 3, TRUE)
  <2>1. \/ WriteMisc(0, 0, 2, FALSE) \/ WriteMisc(0, 0, 3, FALSE) \/ WriteMisc(0, 0, 3, TRUE)
    BY <1>15, SoloFacts
  <2> QED BY <2>1, <1>13
<1> QED BY <1>4, <1>5, <1>6, <1>7, <1>8, <1>9, <1>10, <1>11, <1>12, <1>14, <1>15, <1>16 DEF Execute

ByCpu == \A l \in Line : driver[l] \in CPU

(* On one CPU that drives the lines itself, no interleaving is left, and the   *)
(* calls do what Interrupts says in one step.                                  *)
LEMMA Solo ==
  ASSUME NumCPUs = 1
  PROVE  Spec => [](ByCpu => SoloInv)
<1>1. Init => (ByCpu => SoloInv)
  <2> SUFFICES ASSUME Init, ByCpu PROVE SoloInv
    OBVIOUS
  <2>1. /\ \A l \in Line : driver[l] = 0
        /\ \A t \in Thread : call[t].at = "idle"
        /\ stage[0] = "clock" /\ drir = {} /\ eir[0] = {} /\ timer[0] = 0
    BY SoloFacts DEF Init, ByCpu, Idle
  <2> QED BY <2>1, SoloFacts DEF SoloInv, IdleInv, Settled, Asked, PinActive, At
<1>2. TypeOK /\ (ByCpu => SoloInv) /\ [Next]_vars => (ByCpu => SoloInv)'
  <2> SUFFICES ASSUME TypeOK, ByCpu => SoloInv, [Next]_vars, ByCpu' PROVE SoloInv'
    OBVIOUS
  <2>1. UNCHANGED driver
    BY ZenonT(60) DEF Next, vars, CallStep, Execute, Clock, StartCountdown, TestTimer, LoadTimer, StoreTimer, Counted,
           KeepCounting, CheckInterrupts, ClearCheckInt, SetPal, WriteMisc, DeviceAccess,
           DeviceThread, Drive
  <2>2. SoloInv
    BY <2>1 DEF ByCpu
  <2>3. ASSUME NEW t \in Thread, CallStep(t) PROVE SoloInv'
    <3>1. call[t].at # "idle"
      BY <2>3, StepType DEF Frame, CallLabel
    <3>2. t = 0
      BY <2>2, <3>1, SoloFacts DEF SoloInv, At
    <3> QED BY <2>2, <2>3, <3>2, SoloCallStep
  <2>4. ASSUME NEW c \in CPU, Execute(c) PROVE SoloInv'
    BY <2>2, <2>4, SoloFacts, SoloExecute
  <2>5. ASSUME NEW d \in Device, DeviceThread(d) PROVE SoloInv'
    BY <2>2, <2>5, SoloFacts DEF DeviceThread, Drive, SoloInv
  <2>6. CASE UNCHANGED vars
    BY <2>2, <2>6 DEF vars, shared, SoloInv, CallInv, PinOneInv, IdleInv, Settled, Asked, PinActive, At
  <2> QED BY <2>3, <2>4, <2>5, <2>6 DEF Next
<1> QED BY <1>1, <1>2, TypeCorrect, PTL DEF Spec

(* Between the instructions of such a CPU pin 1 is active, or counts down,     *)
(* just when a line is asserted: no request is lost and none outlives its      *)
(* device.                                                                     *)
THEOREM ExactCalls ==
  ASSUME NumCPUs = 1
  PROVE  Spec => []ExactBetweenCalls
<1>1. (ByCpu => SoloInv) => ExactBetweenCalls
  BY SoloFacts DEF ByCpu, ExactBetweenCalls, SoloInv, IdleInv, Settled, Asked, Stage
<1> QED BY <1>1, Solo, PTL

(* execute(): "This point is reached only if there are no more active          *)
(* interrupts.  We can safely set check_int to false now", which is so here.   *)
THEOREM PinsReported ==
  ASSUME NumCPUs = 1
  PROVE  Spec => []PinReportedByCpu
<1>1. TypeOK /\ (ByCpu => SoloInv) => PinReportedByCpu
  <2> SUFFICES ASSUME TypeOK, SoloInv PROVE PinReported
    BY DEF ByCpu, PinReportedByCpu
  <2>1. At(0, "setCheckInt") => call[0].i = 0
    BY InCall, ThreadFacts, SoloFacts DEF TypeOK, Frame, At
  <2> QED BY <2>1, ThreadFacts, SoloFacts DEF SoloInv, PinReported, Reporting
<1> QED BY <1>1, Solo, TypeCorrect, PTL
=============================================================================

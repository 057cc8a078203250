--------------------------------- MODULE Pit ---------------------------------
(***************************************************************************)
(* A counter of the interval timer of CAliM1543C: counter 0 as a square wave *)
(* whose rising edge is interrupt 0, or counter 2 counting down once, with *)
(* its output in port 61h.  The ALi thread calls pit_clock(); the CPU's    *)
(* thread programs the counter in pit_write(), a byte at a time.  Nothing  *)
(* locks the counter or its status between the two.                        *)
(***************************************************************************)
EXTENDS Integers, Sequences

CONSTANTS
  Bytes,       \* bytes the guest writes to the counter
  MaxLoads,    \* bound: times the guest programs it
  Factor,      \* PIT_FACTOR: what a clock takes off
  Byte         \* 256, scaled down with Factor
MaxCount == Byte * Byte
(* Mutant: the count goes below zero. *)
Dec_Below(n) == n - Factor
Dec(n) == IF n < Factor THEN 0 ELSE n - Factor

VARIABLES
  kind,          \* how the guest uses the counter: "square" or "once"
  counter, max,  \* pit_counter, and what it is reloaded with
  status,        \* pit_status: no count yet, and the output
  mode,          \* pit_mode: what the next byte is; 0 before a control word
  pc, tmp, st,   \* the ALi thread, and the counter and status it has loaded
  cpu, ctmp, cst, \* the CPU's write of a byte, and what it has loaded
  loads,         \* control words so far
  bytes,         \* history: the bytes written since the last of them,
  clean,         \*   whether the thread has kept out of it,
  since,         \*   clocks since the last interrupt, -1 before the first,
  interval       \*   and clocks between the last two, 0 before
vars == <<kind, counter, max, status, mode, pc, tmp, st, cpu, ctmp, cst, loads, bytes,
          clean, since, interval>>
threadVars == <<pc, tmp, st, since, interval>>
cpuVars == <<mode, cpu, ctmp, cst, loads, bytes>>

Fresh == [null |-> FALSE, out |-> FALSE]

Init ==
  /\ kind \in {"square", "once"}
  /\ counter = 0 /\ max = 0 /\ status = [null |-> TRUE, out |-> FALSE] /\ mode = 0
  /\ pc = "idle" /\ tmp = 0 /\ st = Fresh
  /\ cpu = "idle" /\ ctmp = 0 /\ cst = Fresh
  /\ loads = 0 /\ bytes = <<>> /\ clean = TRUE
  /\ since = -1 /\ interval = 0

-----------------------------------------------------------------------------
(* pit_clock(), for the one counter. *)
Programming == loads > 0 /\ (Len(bytes) < 2 \/ cpu # "idle")
Thread(from, to) == pc = from /\ pc' = to /\ clean' = (clean /\ ~Programming)
Same == UNCHANGED <<kind, cpuVars>>

Begin ==
  /\ Thread("idle", "dec") /\ ~status.null
  /\ tmp' = counter
  /\ since' = IF since < 0 \/ ~clean' THEN -1 ELSE since + 1
  /\ UNCHANGED <<counter, max, status, st, interval>> /\ Same
StoreDec ==
  /\ Thread("dec", "test")
  /\ counter' = Dec(tmp)
  /\ tmp' = 0 /\ UNCHANGED <<max, status, st, since, interval>> /\ Same
Test ==
  /\ pc = "test"
  /\ \/ counter = 0 /\ Thread("test", "output") /\ st' = status
     \/ counter # 0 /\ kind = "square" /\ Thread("test", "again") /\ UNCHANGED st
     \/ counter # 0 /\ kind = "once" /\ Thread("test", "idle") /\ UNCHANGED st
  /\ UNCHANGED <<counter, max, status, tmp, since, interval>> /\ Same

(* Counting once: the output is high, and there is no count any more.       *)
(* Mutant: the output stays low.                                            *)
Expire_Low ==
  /\ kind = "once" /\ Thread("output", "idle")
  /\ status' = [null |-> TRUE, out |-> FALSE] /\ st' = Fresh
  /\ UNCHANGED <<counter, max, tmp, since, interval>> /\ Same
Expire ==
  /\ kind = "once" /\ Thread("output", "idle")
  /\ status' = [null |-> TRUE, out |-> TRUE] /\ st' = Fresh
  /\ UNCHANGED <<counter, max, tmp, since, interval>> /\ Same

(* The square wave: the output toggles, and a rising edge interrupts.       *)
(* Mutant: the output is never lowered.                                     *)
Toggle_Stays ==
  /\ kind = "square" /\ pc = "output"
  /\ Thread("output", IF st.out THEN "reload" ELSE "interrupt")
  /\ status' = [st EXCEPT !.out = TRUE] /\ st' = Fresh
  /\ UNCHANGED <<counter, max, tmp, since, interval>> /\ Same
Toggle ==
  /\ kind = "square" /\ pc = "output"
  /\ Thread("output", IF st.out THEN "reload" ELSE "interrupt")
  /\ status' = [st EXCEPT !.out = ~@] /\ st' = Fresh
  /\ UNCHANGED <<counter, max, tmp, since, interval>> /\ Same
Interrupt ==
  /\ Thread("interrupt", "reload")
  /\ since' = IF clean' THEN 0 ELSE -1
  /\ interval' = IF since < 0 \/ ~clean' THEN 0 ELSE since
  /\ UNCHANGED <<counter, max, status, tmp, st>> /\ Same
Reload ==
  /\ Thread("reload", "again")
  /\ counter' = max
  /\ UNCHANGED <<max, status, tmp, st, since, interval>> /\ Same

(* Mutant: the count is decremented once a clock. *)
Again_Not ==
  /\ Thread("again", "idle")
  /\ UNCHANGED <<counter, max, status, tmp, st, since, interval>> /\ Same
Again ==
  /\ Thread("again", "store")
  /\ tmp' = counter
  /\ UNCHANGED <<counter, max, status, st, since, interval>> /\ Same
StoreAgain ==
  /\ Thread("store", "idle")
  /\ counter' = Dec(tmp)
  /\ tmp' = 0 /\ UNCHANGED <<max, status, st, since, interval>> /\ Same

Clock ==
  \/ Begin \/ StoreDec \/ Test \/ Expire \/ Toggle \/ Interrupt \/ Reload \/ Again \/ StoreAgain

-----------------------------------------------------------------------------
(* pit_write(): a control word for both bytes.  It also ends the state of     *)
(* having no count, so that the thread counts between the guest's writes.     *)
Control ==
  /\ cpu = "idle" /\ loads < MaxLoads
  /\ status' = Fresh /\ mode' = 3
  /\ loads' = loads + 1 /\ bytes' = <<>> /\ clean' = (pc = "idle")
  /\ since' = -1 /\ interval' = 0
  /\ UNCHANGED <<kind, counter, max, pc, tmp, st, cpu, ctmp, cst>>

(* A byte: the first becomes the high byte, the second the low one, and two   *)
(* zeros the largest count.                                                   *)
Write(from, to) == cpu = from /\ cpu' = to /\ UNCHANGED <<kind, loads, threadVars, clean>>
LoadCounter(b) ==
  /\ Write("idle", "byte") /\ mode # 0 /\ Len(bytes) < 2
  /\ ctmp' = counter /\ bytes' = Append(bytes, b)
  /\ UNCHANGED <<counter, max, status, mode, cst>>

Counted(old, b) ==
  LET n == IF mode = 3 THEN (old % Byte) + b * Byte
                       ELSE ((old \div Byte) % Byte) * Byte + b
  IN IF mode = 2 /\ n = 0 THEN MaxCount ELSE n
StoreCounter ==
  /\ Write("byte", IF mode = 3 THEN "idle" ELSE "status")
  /\ LET n == Counted(ctmp, bytes[Len(bytes)]) IN counter' = n /\ max' = n
  /\ ctmp' = 0
  /\ mode' = 2 /\ UNCHANGED <<status, cst, bytes>>
LoadStatus ==
  /\ Write("status", "store")
  /\ cst' = status
  /\ UNCHANGED <<counter, max, status, mode, ctmp, bytes>>
StoreStatus ==
  /\ Write("store", "idle")
  /\ status' = [cst EXCEPT !.null = FALSE, !.out = FALSE] /\ cst' = Fresh
  /\ UNCHANGED <<counter, max, mode, ctmp, bytes>>
Completion == StoreCounter \/ LoadStatus \/ StoreStatus

Next == Clock \/ Control \/ (\E b \in Bytes : LoadCounter(b)) \/ Completion

(* The thread clocks for ever; a write that has begun is completed. *)
Fairness == WF_vars(Clock) /\ WF_vars(Completion)
Spec == Init /\ [][Next]_vars
FairSpec == Spec /\ Fairness

-----------------------------------------------------------------------------
TypeOK == counter \in 0 .. MaxCount /\ max \in 0 .. MaxCount /\ mode \in {0, 2, 3}

(* The clocks from one interrupt to the next: two half waves, each as many as *)
(* it takes to count down, two steps a clock.                                 *)
Period(n) == 2 * (IF n = 0 THEN 1 ELSE (n + 2 * Factor - 1) \div (2 * Factor))

(* A counter that was programmed without the thread in between interrupts at  *)
(* the period of the count it holds.                                          *)
PeriodExact ==
  clean /\ ~Programming /\ interval # 0 =>
    interval = Period(IF bytes = <<0, 0>> THEN MaxCount ELSE bytes[1] * Byte + bytes[2])

(* Whatever the races of a reprogramming do to count and status, the timer    *)
(* goes on interrupting when the guest has finished.                          *)
TimerRuns == [](kind = "square" /\ ~Programming /\ loads > 0 => <>(pc = "interrupt" \/ Programming))

(* A guest that waits for the output of a single count (port 61h) does not    *)
(* wait for ever.                                                             *)
OutputRises ==
  [](kind = "once" /\ ~Programming /\ loads > 0 => <>(status.out \/ Programming))
=============================================================================

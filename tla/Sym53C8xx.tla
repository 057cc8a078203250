------------------------------ MODULE Sym53C8xx ------------------------------
(***************************************************************************)
(* The SCSI controllers of the 53C8xx family with a disk on their bus      *)
(* (Sym53C895.cpp, Sym53C810.cpp): the thread that executes SCRIPTS        *)
(* under the register lock, the registers as the CPU's thread reads and    *)
(* writes them, the two levels of interrupt registers, and the timer.      *)
(* The software is a driver that leaves SCRIPTS waiting for reselection    *)
(* and signals it to start a command. A SCRIPTS address is an index of     *)
(* Script.                                                                 *)
(***************************************************************************)
EXTENDS Integers, Sequences

CONSTANTS
  Blocks,    \* get_lba_size()
  MostIn,    \* DATI_BUFSZ, as the command compares it: in blocks
  MostOut,   \* DATO_BUFSZ, in blocks
  Chip,      \* "895" or "810": they differ in the block move
  Script,    \* the SCRIPTS program
  Jobs,      \* what the driver may ask for: [id, cmd, segs, messages]
  Enabled,   \* the interrupts enabled in DIEN, SIEN0 and SIEN1
  MaxJobs, MaxTimers   \* bounds: commands, expiries of the timer

-----------------------------------------------------------------------------
(* A disk on the bus (Disk.cpp, SCSIBus.cpp): the phases of the bus, and    *)
(* what the disk makes of the messages, commands and data that an initiator *)
(* moves in them. A target is a record; a step of the initiator maps        *)
(* target, medium and phase to new ones. Messages and commands are one unit *)
(* long, and so is a block of data.                                         *)
Phases == {"free", "arbitration", "msgOut", "command", "dataIn", "dataOut",
           "status", "msgIn", "error"}
NoCommand == [op |-> "none", lba |-> 0, n |-> 0]

(* The sense codes: illegal command, LBA out of range, too big.               *)
Sense == [none |-> 0, illegal |-> 32, range |-> 33, big |-> 85]

(* scsi_select_me(): all buffers are emptied; the sense data stays.         *)
Cleared(sense) ==
  [msgOut |-> <<>>, msgIn |-> 0, cmd |-> NoCommand, in |-> <<>>, read |-> 0,
   out |-> <<>>, expected |-> 0, stat |-> 0, statLeft |-> 0, sense |-> sense]
Select(t) == Cleared(t.sense)

(* do_scsi_error(): one byte of status, one message, and the sense data.    *)
Finish(t, error) ==
  [t EXCEPT !.statLeft = 1, !.msgIn = 1,
            !.stat = IF error = Sense.none THEN 0 ELSE 2,
            !.sense = IF error = Sense.none THEN @ ELSE error]

(* A command that returns data.                                              *)
Answer(t, data) == Finish([t EXCEPT !.in = data, !.read = 0], Sense.none)

Result(t, medium, more) == [t |-> t, medium |-> medium, more |-> more]
InRange(c) == c.lba + c.n <= Blocks

(* READ: out of range, too big, or the blocks of the medium.                *)
Read(t, medium) ==
  LET c == t.cmd IN
  IF ~InRange(c) THEN Finish(t, Sense.range)
  ELSE IF c.n > MostIn THEN Finish(t, Sense.big)
  ELSE Answer(t, [i \in 1 .. c.n |-> medium[c.lba + i - 1]])

(* WRITE, called when the command is in and again when the data is.         *)
Complete_Early(t, n) == Len(t.out) >= n - 1
Complete(t, n) == Len(t.out) >= n
Write(t, medium) ==
  LET c == t.cmd
      u == [t EXCEPT !.expected = c.n] IN
  IF ~InRange(c) THEN Result(Finish(t, Sense.range), medium, FALSE)
  ELSE IF c.n > MostOut THEN Result(Finish(t, Sense.big), medium, FALSE)
  ELSE IF ~Complete(t, c.n) THEN Result(u, medium, TRUE)
  ELSE Result(Finish(u, Sense.none),
              [l \in 0 .. Blocks - 1 |->
                 IF l \in c.lba .. c.lba + c.n - 1 /\ l - c.lba < Len(t.out)
                 THEN t.out[l - c.lba + 1] ELSE medium[l]], FALSE)

(* REQUEST SENSE gives the sense data and keeps it; INQUIRY and READ        *)
(* CAPACITY answer with one unit; the commands of CD writers are illegal;   *)
(* MODE SELECT, whose parameters are one unit, is called twice like WRITE.  *)
RequestSense(t) == Answer(t, <<t.sense>>)
Inquiry(t) == Answer(t, <<1>>)
ReadCapacity(t) == Answer(t, <<Blocks - 1>>)
Illegal(t) == Finish(t, Sense.illegal)
ModeSelect(t, medium) ==
  LET u == [t EXCEPT !.expected = 1] IN
  IF ~Complete(t, 1) THEN Result(u, medium, TRUE)
  ELSE Result(Finish(u, Sense.none), medium, FALSE)

DoCommand(t, medium) ==
  CASE t.cmd.op = "write" -> Write(t, medium)
    [] t.cmd.op = "modeSelect" -> ModeSelect(t, medium)
    [] t.cmd.op = "read" -> Result(Read(t, medium), medium, FALSE)
    [] t.cmd.op = "sense" -> Result(RequestSense(t), medium, FALSE)
    [] t.cmd.op = "inquiry" -> Result(Inquiry(t), medium, FALSE)
    [] t.cmd.op = "capacity" -> Result(ReadCapacity(t), medium, FALSE)
    [] t.cmd.op = "illegal" -> Result(Illegal(t), medium, FALSE)
    [] OTHER -> Result(Finish(t, Sense.none), medium, FALSE)

(* do_scsi_message(): a negotiation is answered with the same message.      *)
DoMessage(t) ==
  [t EXCEPT !.msgIn = IF "negotiate" \in {t.msgOut[i] : i \in DOMAIN t.msgOut}
                      THEN 1 ELSE @]

(* scsi_expected_xfer_me(): the units left of the phase; "Many" stands for  *)
(* the buffers of 256 that commands and messages go into.                   *)
Many == 9
Left(t, phase) ==
  CASE phase = "dataOut" -> t.expected - Len(t.out)
    [] phase = "dataIn" -> Len(t.in) - t.read
    [] phase = "status" -> t.statLeft
    [] phase = "msgIn" -> t.msgIn
    [] OTHER -> Many

(* scsi_xfer_ptr_me() with the data that then goes there ...                *)
Taken(t, phase, units) ==
  CASE phase = "dataOut" -> [t EXCEPT !.out = @ \o units]
    [] phase = "command" -> [t EXCEPT !.cmd = units[1]]
    [] phase = "msgOut" -> [t EXCEPT !.msgOut = @ \o units]
(* ... or comes from there.                                                  *)
Given(t, phase, n) ==
  CASE phase = "dataIn" -> [t EXCEPT !.read = @ + n]
    [] phase = "status" -> [t EXCEPT !.statLeft = @ - n]
    [] phase = "msgIn" -> [t EXCEPT !.msgIn = @ - n]
Units(t, phase, n) ==
  CASE phase = "dataIn" -> SubSeq(t.in, t.read + 1, t.read + n)
    [] phase = "status" -> <<t.stat>>
    [] phase = "msgIn" -> <<0>>

(* scsi_xfer_done_me(): the phase that follows.                              *)
AfterCommand(r) ==
  IF r.more THEN "dataOut" ELSE IF r.t.in # <<>> THEN "dataIn" ELSE "status"
XferDone(t, medium, phase) ==
  LET To(p) == [t |-> t, medium |-> medium, phase |-> p]
      Run == DoCommand(t, medium)
      Done(p) == [t |-> Run.t, medium |-> Run.medium, phase |-> p] IN
  CASE phase = "dataOut" -> IF Len(t.out) < t.expected THEN To("dataOut")
                            ELSE Done(AfterCommand(Run))
    [] phase = "dataIn" -> To(IF t.read < Len(t.in) THEN "dataIn" ELSE "status")
    [] phase = "command" -> Done(AfterCommand(Run))
    [] phase = "status" -> To("msgIn")
    [] phase = "msgOut" ->
         [t |-> DoMessage(t), medium |-> medium,
          phase |-> IF DoMessage(t).msgIn > 0 THEN "msgIn" ELSE "command"]
    [] phase = "msgIn" -> To(IF t.cmd = NoCommand THEN "command" ELSE "free")

(* CSCSIBus: arbitrate() fails only when another initiator has the bus, and *)
(* select() when there is no such target, which leaves the bus in           *)
(* arbitration.                                                             *)
Selected(present) == IF present THEN "msgOut" ELSE "arbitration"

-----------------------------------------------------------------------------
(* The controller.                                                            *)
VARIABLES
  medium, target, bus,        \* the disk and the phase of the bus
  dsp, sfbr, scratch, carry,  \* registers of the SCRIPTS processor
  executing, waitReselect, sigp, \* state.executing, wait_reselect; ISTAT
  dstat, sist, istat,         \* DSTAT; SIST0 and SIST1; INTF, SIP and DIP
  stacked,                    \* dstat_stack, sist0_stack and sist1_stack
  irq,                        \* the level of the PCI interrupt line
  sem, pc,                    \* mySemaphore, and where the thread is
  cpu, job, seen, moved, memory, result, wants, \* the driver and its buffers
  timer,                      \* gen_timer: whether it runs, and the expiries
  overran                     \* history: SCRIPTS have run on after a halt

vars == <<medium, target, bus, dsp, sfbr, scratch, carry, executing,
          waitReselect, sigp, dstat, sist, istat, stacked, irq, sem, pc, cpu,
          job, seen, moved, memory, result, wants, timer, overran>>
scsi == <<medium, target, bus>>
registers == <<dsp, sfbr, scratch, carry>>
interrupts == <<dstat, sist, istat, stacked, irq, executing>>
driver == <<cpu, job, seen, wants>>
buffers == <<moved, memory, result>>

Disk == 0   \* the disk's SCSI ID; nobody answers to another
DstatFatal == {"SIR", "IID", "ABRT", "SSI"}
SistFatal == {"MA", "STO", "RST"}    \* of SIST0 and SIST1; GEN is not fatal
Halting == SistFatal \cup (Enabled \cap {"GEN"})
NoJob == [id |-> 0, cmd |-> NoCommand, segs |-> <<>>, messages |-> <<>>, no |-> 0]
Lower(a, b) == IF a < b THEN a ELSE b

Init ==
  /\ medium = [l \in 0 .. Blocks - 1 |-> -(l + 1)] /\ wants = medium
  /\ target = Cleared(Sense.none) /\ bus = "free"
  /\ dsp = 1 /\ sfbr = 0 /\ scratch = 0 /\ carry = FALSE
  /\ executing = FALSE /\ waitReselect = FALSE /\ sigp = FALSE
  /\ dstat = {"DFE"} /\ sist = {} /\ istat = {} /\ stacked = {} /\ irq = FALSE
  /\ sem = 0 /\ pc = "wait"
  /\ cpu = "start" /\ job = NoJob /\ seen = {}
  /\ moved = 0 /\ memory = <<>> /\ result = -1
  /\ timer = [on |-> FALSE, fired |-> 0] /\ overran = FALSE

-----------------------------------------------------------------------------
(* eval_interrupts(): nothing pending lets the second level in, if DSTAT,   *)
(* whose bit DFE is among those tested, is zero; what is pending sets SIP   *)
(* and DIP, halts SCRIPTS if it is fatal, and drives the line if it is      *)
(* enabled.                                                                 *)
Empties(d, s) == d = {} /\ s = {}
Drives_NotFly(d, s, i) ==
  d \cap DstatFatal \cap Enabled # {} \/ s \cap Enabled # {}
Drives_Scsi(d, s, i) == s \cap Enabled # {} \/ "INTF" \in i
Drives(d, s, i) ==
  d \cap DstatFatal \cap Enabled # {} \/ s \cap Enabled # {} \/ "INTF" \in i
Eval(d, s, i, k, run) ==
  LET in == Empties(d, s)
      d2 == IF in THEN d \cup (k \cap DstatFatal) ELSE d
      s2 == IF in THEN s \cup (k \ DstatFatal) ELSE s
      i2 == (i \cap {"INTF"})
            \cup (IF d2 \cap DstatFatal # {} THEN {"DIP"} ELSE {})
            \cup (IF s2 # {} THEN {"SIP"} ELSE {}) IN
  /\ dstat' = d2 /\ sist' = s2 /\ istat' = i2
  /\ stacked' = IF in THEN {} ELSE k
  /\ executing' = (run /\ d2 \cap DstatFatal = {} /\ s2 \cap Halting = {})
  /\ irq' = Drives(d2, s2, i2)

(* set_interrupt(): into the second level if anything is pending in the     *)
(* first.                                                                   *)
RaiseWhile(bit, run) ==
  IF bit = "INTF" THEN Eval(dstat, sist, istat \cup {bit}, stacked, run)
  ELSE IF istat \cap {"SIP", "DIP"} # {}
       THEN Eval(dstat, sist, istat, stacked \cup {bit}, run)
  ELSE IF bit \in DstatFatal THEN Eval(dstat \cup {bit}, sist, istat, stacked, run)
  ELSE Eval(dstat, sist \cup {bit}, istat, stacked, run)
RaiseBit(bit) == RaiseWhile(bit, executing)

-----------------------------------------------------------------------------
(* The thread tests state.executing, takes the register lock, executes one   *)
(* instruction and tests again: it does not look, once it has the lock, for  *)
(* a halt since the test. The lock stays with a CPU whose thread has ended   *)
(* in it.                                                                    *)

Instr == Script[dsp]
HasLock == pc = "step" /\ cpu # "dead"
At(op) == HasLock /\ Instr.op = op
Go(p) == dsp' = p
Next1 == Go(dsp + 1)
Quiet == UNCHANGED interrupts
Rest ==
  /\ pc' = "run" /\ overran' = (overran \/ ~executing)
  /\ UNCHANGED <<sem, driver, timer>>

(* SELECT: win the arbitration and select the target, if there is one.      *)
SelectOp ==
  /\ At("select")
  /\ bus' = Selected(job.id = Disk)
  /\ target' = IF job.id = Disk THEN Select(target) ELSE target
  /\ Next1 /\ Quiet /\ Rest
  /\ UNCHANGED <<medium, sfbr, scratch, carry, waitReselect, sigp, buffers>>

(* check_phase(): in arbitration the selection has timed out, and the bus   *)
(* is freed.                                                                *)
TimedOut == bus = "arbitration"
Timeout ==
  /\ HasLock /\ TimedOut
  /\ Instr.op = "move" \/ (Instr.op = "jump" /\ Instr.phase # "none")
  /\ bus' = "free" /\ RaiseBit("STO") /\ Next1 /\ Rest
  /\ UNCHANGED <<medium, target, sfbr, scratch, carry, waitReselect, sigp,
                 buffers>>

(* The count of a block move, and the units it finds in the driver's        *)
(* memory.                                                                  *)
Count == IF Instr.phase \in {"dataIn", "dataOut"} THEN job.segs[Instr.seg] ELSE 1
Word(i) == job.no * 10 + i
Source(n) ==
  CASE bus = "msgOut" -> job.messages
    [] bus = "command" -> <<job.cmd>>
    [] bus = "dataOut" -> [i \in 1 .. n |-> Word(moved + i)]

(* The units that are moved, in either direction, and the phase after them. *)
MoveUnits(n) ==
  LET outward == bus \in {"msgOut", "command", "dataOut"}
      t == IF outward THEN Taken(target, bus, Source(n)) ELSE Given(target, bus, n)
      r == XferDone(t, medium, bus)
      u == IF outward THEN <<>> ELSE Units(target, bus, n) IN
  /\ target' = r.t /\ medium' = r.medium /\ bus' = r.phase
  /\ memory' = IF bus = "dataIn" THEN memory \o u ELSE memory
  /\ result' = IF bus = "status" THEN u[1] ELSE result
  /\ moved' = IF bus \in {"dataIn", "dataOut"} THEN moved + n ELSE moved
  /\ sfbr' = IF outward THEN sfbr ELSE u[1]

(* The 53C895's MOVE: as much as the target expects, once; nothing if the   *)
(* phase is another; an illegal instruction if the count is zero.           *)
BlockMove895 ==
  /\ At("move") /\ Chip = "895" /\ ~TimedOut
  /\ \/ bus = Instr.phase /\ Count > 0
        /\ MoveUnits(Lower(Count, Left(target, bus))) /\ Quiet
     \/ bus = Instr.phase /\ Count = 0 /\ RaiseBit("IID")
        /\ UNCHANGED <<scsi, buffers, sfbr>>
     \/ bus # Instr.phase /\ Quiet /\ UNCHANGED <<scsi, buffers, sfbr>>
  /\ Next1 /\ Rest /\ UNCHANGED <<scratch, carry, waitReselect, sigp>>

(* The 53C810's: all of the count, in as many transfers as the target       *)
(* takes, or an interrupt for the mismatch of the phase.                    *)
BlockMove810 ==
  /\ At("move") /\ Chip = "810" /\ ~TimedOut
  /\ LET n == Lower(Count, Left(target, bus)) IN
     \/ bus = Instr.phase /\ Count > 0 /\ MoveUnits(n)
        /\ IF n < Count THEN RaiseBit("MA") ELSE Quiet
     \/ bus = Instr.phase /\ Count = 0 /\ RaiseBit("IID")
        /\ UNCHANGED <<scsi, buffers, sfbr>>
     \/ bus # Instr.phase /\ RaiseBit("MA") /\ UNCHANGED <<scsi, buffers, sfbr>>
  /\ Next1 /\ Rest /\ UNCHANGED <<scratch, carry, waitReselect, sigp>>

(* WAIT DISCONNECT frees the bus; the disk has done so by itself.           *)
WaitDisconnect ==
  /\ At("disconnect") /\ bus = "free" /\ Next1 /\ Quiet /\ Rest
  /\ UNCHANGED <<scsi, sfbr, scratch, carry, waitReselect, sigp, buffers>>

(* WAIT RESELECT: jump if the driver has signalled, else stop and remember  *)
(* it.                                                                      *)
Signalled == sigp
WaitReselect ==
  /\ At("reselect")
  /\ IF Signalled THEN Go(Instr.to) /\ UNCHANGED <<executing, waitReselect>>
     ELSE Next1 /\ executing' = FALSE /\ waitReselect' = TRUE
  /\ Rest
  /\ UNCHANGED <<scsi, sfbr, scratch, carry, sigp, buffers, dstat, sist, istat,
                 stacked, irq>>

(* SET and CLEAR of the carry.                                                *)
SetCarry ==
  /\ At("carry") /\ carry' = Instr.value /\ Next1 /\ Quiet /\ Rest
  /\ UNCHANGED <<scsi, sfbr, scratch, waitReselect, sigp, buffers>>

(* Register moves: SFBR to a scratch register and back, and the read of     *)
(* CTEST2 that takes SIGP.                                                  *)
Register ==
  /\ At("register") /\ Next1 /\ Quiet /\ Rest
  /\ scratch' = IF Instr.reg = "save" THEN sfbr ELSE scratch
  /\ sfbr' = IF Instr.reg = "restore" THEN scratch ELSE sfbr
  /\ sigp' = (sigp /\ Instr.reg # "ctest2")
  /\ UNCHANGED <<scsi, carry, waitReselect, buffers>>

(* Transfer control: whether the phase, the data or the carry are as asked. *)
Holds ==
  CASE Instr.phase # "none" -> (bus = Instr.phase) = Instr.if
    [] Instr.data # "none" -> (sfbr = 0) = Instr.if
    [] Instr.carry -> carry = Instr.if
    [] OTHER -> Instr.if
Jump ==
  /\ At("jump") /\ ~(TimedOut /\ Instr.phase # "none")
  /\ Go(IF Holds THEN Instr.to ELSE dsp + 1) /\ Quiet /\ Rest
  /\ UNCHANGED <<scsi, sfbr, scratch, carry, waitReselect, sigp, buffers>>
Interrupt ==
  /\ At("int") /\ RaiseBit(IF Instr.fly THEN "INTF" ELSE "SIR") /\ Next1 /\ Rest
  /\ UNCHANGED <<scsi, sfbr, scratch, carry, waitReselect, sigp, buffers>>

(* run(): wait for the semaphore, then execute while state.executing.       *)
ThreadWait ==
  /\ pc = "wait" /\ sem = 1 /\ sem' = 0 /\ pc' = "run"
  /\ UNCHANGED <<scsi, registers, waitReselect, sigp, interrupts, driver,
                 buffers, timer, overran>>
ThreadTest ==
  /\ pc = "run" /\ pc' = (IF executing THEN "step" ELSE "wait")
  /\ UNCHANGED <<scsi, registers, waitReselect, sigp, interrupts, driver,
                 buffers, timer, sem, overran>>
Thread ==
  \/ SelectOp \/ Timeout \/ BlockMove895 \/ BlockMove810 \/ WaitDisconnect
  \/ WaitReselect \/ SetCarry \/ Register \/ Jump \/ Interrupt
  \/ ThreadWait \/ ThreadTest

-----------------------------------------------------------------------------
(* The registers, as the driver writes and reads them.                        *)
CpuOnly == UNCHANGED <<scsi, sfbr, scratch, carry, pc, overran>>

(* mySemaphore.set(), whenever it comes: if the thread has not taken the     *)
(* last one, the exception ends the CPU's thread, which has the lock.        *)
Awaken(then) ==
  \/ sem = 0 /\ sem' = 1 /\ cpu' = then
  \/ sem = 1 /\ UNCHANGED sem /\ cpu' = "dead"

(* A write of DSP starts SCRIPTS: post_dsp_write(); so does one of DCNTL     *)
(* with STD, where they are: write_b_dcntl().                                *)
Run(then) == executing' = TRUE /\ Awaken(then)
WriteDsp(a, then) == Go(a) /\ Run(then)

(* The driver starts SCRIPTS, which wait for reselection ...                *)
Start ==
  /\ cpu = "start" /\ WriteDsp(1, "idle")
  /\ CpuOnly
  /\ UNCHANGED <<waitReselect, sigp, dstat, sist, istat, stacked, irq, job, seen,
                 wants, buffers, timer>>

(* ... and, to have a command done, sets the timer and SIGP:                *)
(* write_b_istat().                                                         *)
Signal(j) ==
  /\ cpu = "idle" /\ job.no < MaxJobs
  /\ job' = [j EXCEPT !.no = job.no + 1]
  /\ seen' = {}
  /\ moved' = 0 /\ memory' = <<>> /\ result' = -1
  /\ timer' = [timer EXCEPT !.on = (timer.fired < MaxTimers)]
  /\ sigp' = TRUE
  /\ IF waitReselect
     THEN /\ dsp' = 2 /\ waitReselect' = FALSE /\ Awaken("issued")
          /\ IF sem = 0 THEN Eval(dstat, sist, istat, stacked, TRUE)
             ELSE executing' = TRUE /\ UNCHANGED <<dstat, sist, istat, stacked, irq>>
     ELSE /\ cpu' = "issued" /\ UNCHANGED <<dsp, waitReselect, sem>>
          /\ Eval(dstat, sist, istat, stacked, executing)
  /\ CpuOnly /\ UNCHANGED wants

(* An interrupt: the driver clears INTF, ...                                *)
ClearFly ==
  /\ cpu = "issued" /\ irq /\ "INTF" \in istat
  /\ seen' = seen \cup {"INTF"}
  /\ Eval(dstat, sist, istat \ {"INTF"}, stacked, executing)
  /\ CpuOnly /\ UNCHANGED <<dsp, waitReselect, sigp, sem, cpu, job, wants, buffers, timer>>
(* ... reads SIST0 and SIST1, ...                                           *)
ReadSist ==
  /\ cpu = "issued" /\ irq /\ "SIP" \in istat
  /\ seen' = seen \cup sist
  /\ Eval(dstat, {}, istat, stacked, executing)
  /\ CpuOnly /\ UNCHANGED <<dsp, waitReselect, sigp, sem, cpu, job, wants, buffers, timer>>
(* ... and DSTAT, ...                                                         *)
ReadDstat ==
  /\ cpu = "issued" /\ irq /\ "DIP" \in istat
  /\ seen' = seen \cup (dstat \ {"DFE"})
  /\ Eval(dstat \cap {"DFE"}, sist, istat, stacked, executing)
  /\ CpuOnly /\ UNCHANGED <<dsp, waitReselect, sigp, sem, cpu, job, wants, buffers, timer>>

(* ... and acts on what it has seen: the command is over (SCRIPTS have gone *)
(* on to wait, or are started again), or has stopped in the wrong phase     *)
(* (SCRIPTS go on with the status), or the timer has halted SCRIPTS         *)
(* (write_b_dcntl()).                                                       *)
Status == CHOOSE i \in DOMAIN Script : Script[i].op = "move" /\ Script[i].phase = "status"
Ends == seen \cap {"INTF", "SIR", "STO", "IID"} # {}
Act ==
  /\ cpu = "issued" /\ ~irq /\ seen # {}
  /\ seen' = {}
  /\ LET next == IF "INTF" \in seen THEN "idle" ELSE "issued" IN
     \/ "INTF" \in seen /\ "GEN" \notin seen /\ cpu' = "idle"
        /\ UNCHANGED <<dsp, executing, sem>>
     \/ Ends /\ "INTF" \notin seen /\ cpu' = "start"
        /\ UNCHANGED <<dsp, executing, sem>>
     \/ ~Ends /\ "MA" \in seen /\ WriteDsp(Status, "issued")
     \/ /\ "GEN" \in seen /\ seen \subseteq {"GEN", "INTF"}
        /\ \/ waitReselect /\ cpu' = next /\ UNCHANGED <<dsp, executing, sem>>
           \/ ~waitReselect /\ Run(next) /\ UNCHANGED dsp
  /\ wants' = IF Ends /\ job.cmd.op = "write" /\ result = 0
              THEN [l \in DOMAIN wants |->
                      IF l \in job.cmd.lba .. job.cmd.lba + job.cmd.n - 1
                      THEN Word(l - job.cmd.lba + 1) ELSE wants[l]]
              ELSE wants
  /\ CpuOnly
  /\ UNCHANGED <<waitReselect, sigp, dstat, sist, istat, stacked, irq, job,
                 buffers, timer>>

(* check_state(): the general purpose timer expires.                        *)
Expire ==
  /\ timer.on /\ cpu = "issued" /\ ~("INTF" \in istat) /\ seen = {}
  /\ timer' = [on |-> FALSE, fired |-> timer.fired + 1]
  /\ RaiseBit("GEN")
  /\ CpuOnly /\ UNCHANGED <<dsp, waitReselect, sigp, sem, driver, buffers>>

Cpu == Start \/ ClearFly \/ ReadSist \/ ReadDstat \/ Act
Issue == \E j \in Jobs : Signal(j)
Next == Thread \/ Cpu \/ Issue \/ Expire
Spec == Init /\ [][Next]_vars /\ WF_vars(Thread) /\ WF_vars(Cpu)

-----------------------------------------------------------------------------
TypeOK ==
  /\ bus \in Phases /\ dsp \in 1 .. Len(Script)
  /\ dstat \subseteq DstatFatal \cup {"DFE"} /\ sist \subseteq SistFatal \cup {"GEN"}
  /\ istat \subseteq {"INTF", "SIP", "DIP"} /\ sem \in {0, 1}

(* What follows a halt by the timer between the test and the lock is not     *)
(* promised: the instruction that then runs may raise an interrupt, which    *)
(* goes into the second level and, DFE being set, never comes out of it.     *)

(* A command that ends well has done what was asked: the driver has the     *)
(* blocks of the medium it asked for, and the medium the blocks it gave, in *)
(* order, however the driver's segments cut them up (execute_bm_op(),       *)
(* scsi_xfer_done_me(), do_scsi_command()); one that ends with an error     *)
(* status has done nothing.                                                 *)
DataIntact ==
  ~overran /\ cpu \in {"idle", "start"} =>
    /\ result = 0 /\ job.cmd.op = "read" =>
         memory = [i \in 1 .. job.cmd.n |-> wants[job.cmd.lba + i - 1]]
    /\ medium = wants

(* A start is not lost, whenever it comes: SCRIPTS that are to run have a    *)
(* thread that runs them, or one that will find its semaphore set (run(),    *)
(* post_dsp_write(), write_b_istat(), write_b_dcntl()).                      *)
StartsAreTaken == executing => pc # "wait" \/ sem = 1

(* SCRIPTS that have stopped for an interrupt have told the CPU so: when    *)
(* nobody wakes the thread and they do not wait for reselection, the line    *)
(* is high or the driver is at work on it (eval_interrupts()).              *)
StopsAreReported ==
  /\ ~overran /\ cpu = "issued"
  /\ pc = "wait" /\ sem = 0 /\ ~executing /\ ~waitReselect
  => irq \/ seen # {}

(* Every command ends, or the driver's own start of SCRIPTS ends the thread  *)
(* of its CPU, in set().                                                     *)
CommandsEnd == cpu = "issued" ~> (cpu # "issued" \/ overran)
=============================================================================

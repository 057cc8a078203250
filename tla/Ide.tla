--------------------------------- MODULE Ide ---------------------------------
(***************************************************************************)
(* One channel of the IDE controller of the ALi chipset and its two        *)
(* drives (AliM1543C_ide.cpp): the task file that the CPU's thread reads   *)
(* and writes, the thread that executes the commands, the bus master and   *)
(* the four semaphores that pass a command from the one thread to the      *)
(* other and back. The software on the CPU is a driver that follows the    *)
(* ATA protocol; a sector is one word of the data register, a sector       *)
(* number wraps at SecMax (256) and a count of zero stands for CountMax    *)
(* (256) sectors.                                                          *)
(***************************************************************************)
EXTENDS Integers, Sequences, SequencesExt

CONSTANTS
  Kinds,     \* the pairs of drives: "disk", "ro", "cdrom" or "none" each
  Commands,  \* the commands the driver sends
  Counts,    \* the sector counts it asks for
  Multiple,  \* the block of READ MULTIPLE and WRITE MULTIPLE it has set
  SecMax, CountMax, Sectors,
  Driver,    \* "aligned" or "any": the blocks it sends
  MaxJobs    \* bound: the commands the driver sends

VARIABLES
  kind,      \* what the two drives are
  medium,    \* per drive, the contents of its sectors
  status,    \* per drive: BSY, DRQ, ERR, command_in_progress, command_cycle
  regs,      \* the task file: the command, sector count, cylinder and sector
  phase,     \* packet_phase
  buffer, ptr, size, \* the data buffer, data_ptr and data_size
  selected, active, bmIntr, irq, \* drive; bus master status; pin of the PIC
  sem,       \* the four semaphores
  pc, after, \* the thread: its next step, and the one that follows "raise"
  moved, prd, \* sectors the bus master has moved; descriptors it has yet to read
  cpu,       \* the driver's next step
  job,       \* what the driver is doing
  wants,     \* per drive, the contents the guest has reason to expect
  memory,    \* the sectors of the driver's DMA buffer
  overtaken  \* whether the driver has ever gone on before the thread was through

vars == <<kind, medium, status, regs, phase, buffer, ptr, size, selected,
          active, bmIntr, irq, sem, pc, after, moved, prd, cpu, job, wants,
          memory, overtaken>>
disks == <<kind, medium, wants>>
busMaster == <<active, moved, prd, memory>>

Drives == {0, 1}
Lbas == 0 .. Sectors - 1
Reads == {"read", "readMultiple", "readDma", "packet", "packetDma", "identify"}
Writes == {"write", "writeMultiple", "writeDma"}
Dma == {"readDma", "writeDma", "packetDma"}
Packets == {"packet", "packetDma"}

(* Commands without data.                                                    *)
NoData == {"recalibrate", "seek", "flush", "parameters", "deviceReset", "nop"}

Status == [busy : BOOLEAN, drq : BOOLEAN, err : BOOLEAN,
           inProgress : BOOLEAN, cycle : {0, 1, 2}]
St == status[selected]
With(st, changes) ==
  [f \in DOMAIN st |-> IF f \in DOMAIN changes THEN changes[f] ELSE st[f]]
Set(changes) == status' = [status EXCEPT ![selected] = With(St, changes)]

Lba(r) == r.cyl * SecMax + r.sec
Least(a, b) == IF a < b THEN a ELSE b

(* The geometry registers after a block of n sectors: the remainder of a    *)
(* carry is dropped.                                                        *)
Advance_KeepsCylinder(r, n) ==
  [r EXCEPT !.sec = IF @ + n >= SecMax THEN 0 ELSE @ + n]
Advance(r, n) ==
  IF r.sec + n >= SecMax THEN [r EXCEPT !.sec = 0, !.cyl = @ + 1]
                         ELSE [r EXCEPT !.sec = @ + n]

(* WRITE MULTIPLE goes on to the next sector, not to the next block.        *)
AdvanceWrite(r, n) == Advance(r, 1)

(* Sectors of a drive from an address on.                                  *)
Contents(d, a, n) == [i \in 1 .. n |-> medium[d][(a + i - 1) % Sectors]]
Filled(s) == [i \in 1 .. CountMax |-> IF i <= Len(s) THEN s[i] ELSE buffer[i]]
Written(d, a, n) ==
  [medium EXCEPT ![d] = [l \in Lbas |->
     IF l \in a .. a + n - 1 THEN buffer[l - a + 1] ELSE @[l]]]

NoStatus == [busy |-> FALSE, drq |-> FALSE, err |-> FALSE,
             inProgress |-> FALSE, cycle |-> 0]
NoJob == [id |-> 0, cmd |-> "none", lba |-> 0, total |-> 0, done |-> 0]

Init ==
  /\ kind \in Kinds
  /\ medium = [d \in Drives |-> [l \in Lbas |-> -(1 + l + 10 * d)]]
  /\ wants = medium
  /\ status = [d \in Drives |-> NoStatus]
  /\ regs = [cmd |-> "none", count |-> 0, cyl |-> 0, sec |-> 0]
  /\ phase = "none" /\ buffer = [i \in 1 .. CountMax |-> 0] /\ ptr = 0 /\ size = 0
  /\ selected = 0 /\ active = FALSE /\ bmIntr = FALSE /\ irq = FALSE
  /\ sem = [controller |-> 0, ready |-> 1, master |-> 0, masterReady |-> 1]
  /\ pc = "wait" /\ after = "finish" /\ moved = 0 /\ prd = <<>>
  /\ cpu = "idle" /\ job = NoJob /\ memory = <<>> /\ overtaken = FALSE

(* A semaphore of maximum one.                                              *)
Available_Always(s) == TRUE
Available(s) == sem[s] = 1
Wait(s) == Available(s) /\ sem' = [sem EXCEPT ![s] = 0]
Post(s) == sem' = [sem EXCEPT ![s] = 1]

-----------------------------------------------------------------------------
(* The thread, from semController to semControllerReady.                    *)

Goto(p) == pc' = p /\ UNCHANGED after
RaiseThen(p) == pc' = "raise" /\ after' = p

Awake ==
  /\ pc = "wait" /\ Wait("controller") /\ Goto("run")
  /\ UNCHANGED <<disks, status, regs, phase, buffer, ptr, size, selected,
                 bmIntr, irq, cpu, job, busMaster>>

Running == pc = "run" /\ St.inProgress
ThreadOnly == UNCHANGED <<sem, cpu, job, kind, wants, bmIntr, irq, selected>>

(* Nothing to do: no command, or no drive.                                  *)
Nothing ==
  /\ pc = "run" /\ (~St.inProgress \/ kind[selected] = "none")
  /\ Set([inProgress |-> FALSE])
  /\ Goto(IF St.inProgress THEN "finish" ELSE "set")
  /\ ThreadOnly
  /\ UNCHANGED <<medium, regs, phase, buffer, ptr, size, busMaster>>

Refused(cmd, k) ==
  \/ cmd \in Packets /\ k # "cdrom"
  \/ cmd \in {"readMultiple", "readDma", "identify", "seek", "parameters"}
     /\ k = "cdrom"
  \/ cmd \in Writes /\ k \in {"cdrom", "ro"}

FirstTime(cycle) == cycle = 0
(* A write looks at what the drive is the first time through.                *)
Aborts ==
  /\ Refused(regs.cmd, kind[selected])
  /\ regs.cmd = "write" \/ (regs.cmd = "writeMultiple" /\ kind[selected] = "ro")
       => FirstTime(St.cycle)

(* command_aborted() from execute().                                        *)
Abort ==
  /\ Running /\ Aborts
  /\ Set([busy |-> FALSE, drq |-> FALSE, err |-> TRUE, inProgress |-> FALSE])
  /\ ptr' = 0
  /\ RaiseThen("finish")
  /\ ThreadOnly /\ UNCHANGED <<medium, regs, phase, buffer, size, busMaster>>

Executes(cmds) ==
  Running /\ regs.cmd \in cmds /\ kind[selected] # "none"
          /\ ~Aborts

SetStatusOnly(err) ==
  /\ Set([busy |-> FALSE, drq |-> FALSE, err |-> err, inProgress |-> FALSE])
  /\ RaiseThen("finish")
  /\ ThreadOnly
  /\ UNCHANGED <<medium, regs, phase, buffer, ptr, size, busMaster>>

(* RECALIBRATE, SEEK, and FLUSH with the power management commands;         *)
(* INITIALIZE DEVICE PARAMETERS accepts the geometry of the disk only.      *)
ExecuteRecalibrate == Executes({"recalibrate"}) /\ SetStatusOnly(FALSE)
ExecuteSeek == Executes({"seek"}) /\ SetStatusOnly(FALSE)
ExecuteFlush == Executes({"flush"}) /\ SetStatusOnly(FALSE)
ExecuteParameters ==
  Executes({"parameters"}) /\ \E err \in BOOLEAN : SetStatusOnly(err)

(* set_signature() of a disk selects drive 0, ...                             *)
Signature(k, d) == IF k \in {"disk", "ro"} THEN 0 ELSE d

(* ... whose status it then is that DEVICE RESET clears.                      *)
ExecuteReset ==
  /\ Executes({"deviceReset"})
  /\ selected' = Signature(kind[selected], selected)
  /\ status' = [d \in Drives |->
       [status[d] EXCEPT !.inProgress = @ /\ d # selected, !.busy = @ /\ d # selected',
                         !.drq = @ /\ d # selected', !.err = @ /\ d # selected']]
  /\ regs' = [regs EXCEPT !.count = 1, !.sec = 1, !.cyl = 0]
  /\ Goto("finish")
  /\ UNCHANGED <<sem, cpu, job, kind, wants, bmIntr, irq>>
  /\ UNCHANGED <<medium, phase, buffer, ptr, size, busMaster>>

(* The first time through, a count of zero is CountMax.                     *)
Remaining_Zero == regs.count
Remaining ==
  IF regs.count = 0 /\ (St.cycle = 0 \/ regs.cmd \in Dma)
  THEN CountMax ELSE regs.count

(* A pass that finds the data register still in use does nothing.            *)
NothingYet ==
  /\ \/ Executes({"read"})
     \/ Executes({"readMultiple", "write", "writeMultiple"}) /\ St.cycle # 0
  /\ St.drq
  /\ Goto("finish")
  /\ ThreadOnly
  /\ UNCHANGED <<medium, status, regs, phase, buffer, ptr, size, busMaster>>

(* The next n sectors go into the buffer, which the driver is to read.        *)
ReadBlock(n) ==
  /\ buffer' = Filled(Contents(selected, Lba(regs), n))
  /\ size' = n /\ ptr' = 0
  /\ LET left == Remaining - n IN
     /\ regs' = [IF left = 0 THEN regs ELSE Advance(regs, n) EXCEPT !.count = left]
     /\ Set([busy |-> FALSE, drq |-> TRUE, err |-> FALSE, inProgress |-> left # 0])
  /\ RaiseThen("finish")
  /\ ThreadOnly /\ UNCHANGED <<medium, phase, busMaster>>

(* READ SECTORS; READ MULTIPLE, whose first time through takes DRQ for the  *)
(* data it has yet to read.                                                 *)
ExecuteRead == Executes({"read"}) /\ ~St.drq /\ ReadBlock(1)
ExecuteReadMultiple ==
  /\ Executes({"readMultiple"}) /\ (St.cycle = 0 \/ ~St.drq)
  /\ ReadBlock(Least(Remaining, Multiple))

(* WRITE SECTORS, WRITE MULTIPLE, first time through: ask for data, without *)
(* an interrupt, and only then say how much: the first block. WRITE         *)
(* MULTIPLE counts a block when it asks for it, WRITE SECTORS when it has   *)
(* written it.                                                              *)
AskFirst(then) ==
  /\ FirstTime(St.cycle)
  /\ Set([busy |-> FALSE, drq |-> TRUE])
  /\ Goto(then)
  /\ ThreadOnly /\ UNCHANGED <<medium, regs, phase, buffer, ptr, size, busMaster>>
AskSize(n, left) ==
  /\ size' = n /\ regs' = [regs EXCEPT !.count = left]
  /\ Goto("finish")
  /\ ThreadOnly /\ UNCHANGED <<medium, status, phase, buffer, ptr, busMaster>>
FirstCount == IF regs.count = 0 THEN CountMax ELSE regs.count
AskWrite == pc = "askWrite" /\ AskSize(1, FirstCount)
AskWriteMultiple ==
  /\ pc = "askMultiple"
  /\ LET n == Least(FirstCount, Multiple) IN AskSize(n, FirstCount - n)

(* ... and then: write m sectors of the buffer, and ask for n more, if any.   *)
WriteBlock(m, more, n, then) ==
  /\ ~FirstTime(St.cycle) /\ ~St.drq
  /\ medium' = Written(selected, Lba(regs), m)
  /\ ptr' = 0 /\ size' = n /\ regs' = then
  /\ Set([busy |-> FALSE, drq |-> more, err |-> FALSE, inProgress |-> more])
  /\ RaiseThen("finish")
  /\ ThreadOnly /\ UNCHANGED <<phase, buffer, busMaster>>

ExecuteWrite ==
  /\ Executes({"write"})
  /\ \/ AskFirst("askWrite")
     \/ LET left == regs.count - 1 IN
        WriteBlock(1, left # 0, size,
                   [IF left = 0 THEN regs ELSE Advance(regs, 1) EXCEPT !.count = left])
ExecuteWriteMultiple ==
  /\ Executes({"writeMultiple"})
  /\ \/ AskFirst("askMultiple")
     \/ /\ regs.count = 0
        /\ WriteBlock(size, FALSE, size, regs)
     \/ LET n == Least(regs.count, Multiple) IN
        /\ regs.count # 0
        /\ WriteBlock(size, TRUE, n, [AdvanceWrite(regs, size) EXCEPT !.count = @ - n])

(* The drive's description, here the word 0.                                  *)
IdentifyDrive == <<0>>
ExecuteIdentify ==
  /\ Executes({"identify"})
  /\ buffer' = Filled(IdentifyDrive) /\ size' = 1 /\ ptr' = 0
  /\ Set([busy |-> FALSE, drq |-> TRUE, err |-> FALSE, inProgress |-> FALSE])
  /\ RaiseThen("finish")
  /\ ThreadOnly /\ UNCHANGED <<medium, regs, phase, busMaster>>

(* READ DMA reads the sectors first, WRITE DMA writes them last.              *)
ExecuteDma ==
  /\ Executes({"readDma", "writeDma"})
  /\ regs' = [regs EXCEPT !.count = Remaining]
  /\ buffer' = IF regs.cmd = "readDma"
               THEN Filled(Contents(selected, Lba(regs), Remaining))
               ELSE buffer
  /\ size' = Remaining
  /\ Goto("masterWait")
  /\ ThreadOnly /\ UNCHANGED <<medium, status, phase, ptr, busMaster>>

(* PACKET: select the device on the SCSI bus and ask for the packet; say     *)
(* then how long it is ...                                                   *)
ExecutePacketFirst ==
  /\ Executes(Packets) /\ phase = "none"
  /\ Set([busy |-> FALSE, drq |-> TRUE])
  /\ Goto("askPacket")
  /\ ThreadOnly
  /\ UNCHANGED <<medium, regs, phase, buffer, ptr, size, busMaster>>
AskPacket ==
  /\ pc = "askPacket"
  /\ ptr' = 0 /\ size' = 1 /\ phase' = "packet" /\ Goto("finish")
  /\ ThreadOnly /\ UNCHANGED <<medium, status, regs, buffer, busMaster>>

(* ... pass it on, and bring the answer into the buffer ...                   *)
ExecutePacket ==
  /\ Executes(Packets) /\ phase = "packet"
  /\ LET n == IF buffer[1] \in 0 .. CountMax THEN buffer[1] ELSE 0 IN
     /\ IF n = 0 THEN UNCHANGED <<buffer, size, ptr>>
        ELSE /\ buffer' = Filled(Contents(selected, job.lba, n))
             /\ size' = n /\ ptr' = 0
     /\ \/ n = 0 /\ RaiseThen("packetDone") /\ phase' = "idle"
           /\ Set([busy |-> FALSE, drq |-> FALSE])
        \/ n # 0 /\ regs.cmd = "packet" /\ RaiseThen("packetData")
           /\ Set([busy |-> FALSE, drq |-> TRUE]) /\ UNCHANGED phase
        \/ n # 0 /\ regs.cmd = "packetDma" /\ Goto("masterWait")
           /\ Set([busy |-> TRUE, drq |-> FALSE]) /\ UNCHANGED phase
  /\ ThreadOnly /\ UNCHANGED <<medium, regs, busMaster>>

(* ... and, when the data register has been read out or the bus master is   *)
(* done, end the command.                                                   *)
ExecutePacketLast ==
  /\ pc = "packetLast" \/ (Executes(Packets) /\ phase = "idle")
  /\ Set([busy |-> FALSE, drq |-> FALSE])
  /\ RaiseThen("packetDone")
  /\ ThreadOnly /\ UNCHANGED <<medium, regs, phase, buffer, ptr, size, busMaster>>

(* raise_interrupt().                                                         *)
Raise ==
  /\ pc = "raise" /\ bmIntr' = TRUE /\ irq' = TRUE /\ Goto(after)
  /\ UNCHANGED <<disks, status, regs, phase, buffer, ptr, size, selected, sem,
                 cpu, job, busMaster>>

(* What the packet command does after its interrupts.                         *)
AfterPacket ==
  /\ pc \in {"packetData", "packetDone"} /\ Goto("finish")
  /\ IF pc = "packetData" THEN phase' = "idle" /\ UNCHANGED status
     ELSE Set([inProgress |-> FALSE]) /\ UNCHANGED phase
  /\ ThreadOnly /\ UNCHANGED <<medium, regs, buffer, ptr, size, busMaster>>

(* do_dma_transfer(): wait for the driver to start the bus master ...         *)
MasterWait ==
  /\ pc = "masterWait" /\ Wait("master") /\ Goto("prd") /\ moved' = 0
  /\ UNCHANGED <<disks, status, regs, phase, buffer, ptr, size, selected,
                 bmIntr, irq, cpu, job, active, prd, memory>>

(* ... follow its descriptors ...                                             *)
Fits(n) == Least(n, size - moved)
ReadDescriptor ==
  /\ pc = "prd" /\ prd # <<>> /\ moved < size
  /\ LET n == Fits(Head(prd)) IN
     /\ IF regs.cmd = "writeDma"
        THEN /\ buffer' = [i \in DOMAIN buffer |->
                  IF i \in moved + 1 .. moved + n THEN memory[i] ELSE buffer[i]]
             /\ UNCHANGED memory
        ELSE /\ memory' = memory \o SubSeq(buffer, moved + 1, moved + n)
             /\ UNCHANGED buffer
     /\ moved' = moved + n
     /\ prd' = IF Head(prd) > n THEN Append(Tail(prd), 0) ELSE Tail(prd)
  /\ UNCHANGED <<disks, status, regs, phase, ptr, size, selected, bmIntr, irq,
                 sem, pc, after, cpu, job, active>>

(* ... which are as long as the data (the bus master stops) or longer, and  *)
(* raise the interrupt.                                                     *)
Transferred ==
  /\ pc = "prd" /\ moved = size
  /\ active' = (active /\ prd # <<>>)
  /\ RaiseThen("masterReady")
  /\ UNCHANGED <<disks, status, regs, phase, buffer, ptr, size, selected,
                 bmIntr, irq, sem, cpu, job, moved, prd, memory>>

MasterReady ==
  /\ pc = "masterReady" /\ Post("masterReady") /\ Goto("dmaDone")
  /\ UNCHANGED <<disks, status, regs, phase, buffer, ptr, size, selected,
                 bmIntr, irq, cpu, job, busMaster>>

(* The end of READ DMA and WRITE DMA; a packet command goes on to its last  *)
(* phase.                                                                   *)
DmaDone ==
  /\ pc = "dmaDone"
  /\ medium' = IF regs.cmd = "writeDma"
               THEN Written(selected, Lba(regs), size)
               ELSE medium
  /\ \/ regs.cmd \notin Packets /\ Goto("finish") /\ UNCHANGED phase
        /\ Set([busy |-> FALSE, drq |-> FALSE, err |-> FALSE,
                inProgress |-> FALSE])
     \/ regs.cmd \in Packets /\ Goto("packetLast") /\ phase' = "idle"
        /\ Set([busy |-> FALSE, drq |-> TRUE])
  /\ ThreadOnly /\ UNCHANGED <<regs, buffer, ptr, size, busMaster>>

(* command_cycle++, and the thread is ready for the next part or command.   *)
Finish ==
  /\ pc = "finish" /\ Goto("set")
  /\ Set([cycle |-> Least(St.cycle + 1, 2)])
  /\ ThreadOnly /\ UNCHANGED <<medium, regs, phase, buffer, ptr, size, busMaster>>

Ready ==
  /\ pc = "set" /\ Post("ready") /\ Goto("wait")
  /\ UNCHANGED <<disks, status, regs, phase, buffer, ptr, size, selected,
                 bmIntr, irq, cpu, job, busMaster>>

Execute ==
  \/ Nothing \/ Abort \/ ExecuteRecalibrate \/ ExecuteSeek \/ ExecuteFlush
  \/ ExecuteParameters \/ ExecuteReset \/ ExecuteRead \/ ExecuteReadMultiple
  \/ ExecuteWrite \/ ExecuteWriteMultiple \/ ExecuteIdentify \/ ExecuteDma \/ ExecutePacketFirst
  \/ ExecutePacket \/ ExecutePacketLast \/ NothingYet
Ask == AskWrite \/ AskWriteMultiple \/ AskPacket
Thread ==
  /\ \/ Awake \/ Execute \/ Ask \/ Raise \/ AfterPacket \/ MasterWait
     \/ ReadDescriptor \/ Transferred \/ MasterReady \/ DmaDone \/ Finish \/ Ready
  /\ UNCHANGED overtaken

-----------------------------------------------------------------------------
(* The CPU's thread: the task file, as the driver uses it.                    *)

thread == <<pc, after, moved>>

(* The blocks whose addresses the code carries as the driver means them:    *)
(* not those of WRITE MULTIPLE after the first, see AdvanceWrite.           *)
Aligned(cmd, lba, n) ==
  \/ cmd = "readMultiple" /\ lba % Multiple = 0
  \/ cmd = "writeMultiple" /\ n <= Multiple
  \/ cmd \notin {"readMultiple", "writeMultiple"}

Transfers(cmd, n) ==
  CASE cmd = "identify" -> 1
    [] cmd \in NoData -> 0
    [] cmd \in Packets -> n + 1
    [] OTHER -> n

(* The status register; nobody drives that of an absent drive.                *)
GetStatus(d) == IF kind[d] = "none" THEN NoStatus ELSE status[d]

(* The thread has gone through all of its last pass: it sleeps, or makes     *)
(* semControllerReady available and will.                                    *)
Resting == pc = "set" \/ (pc = "wait" /\ sem.controller = 0)

(* The registers are written for both drives; then the command. The driver  *)
(* gives it when the drive is not busy, which says nothing of the thread.   *)
Begin(d, cmd, lba, c) ==
  LET n == IF c = 0 /\ cmd \notin Packets THEN CountMax ELSE c IN
  /\ cpu = "idle" /\ job.id < MaxJobs
  /\ Driver = "aligned" => Aligned(cmd, lba, n)
  /\ cmd \in Dma => ~Refused(cmd, kind[d])
  /\ cmd \in NoData => lba = 0 /\ c = 0
  /\ cmd = "deviceReset" => kind[d] = "cdrom"
  /\ kind[d] = "none" => cmd = "identify"
  /\ lba + n <= Sectors /\ ~GetStatus(d).busy
  /\ selected' = d
  /\ regs' = [cmd |-> cmd, count |-> c, cyl |-> lba \div SecMax,
              sec |-> lba % SecMax]
  /\ job' = [id |-> job.id + 1, cmd |-> cmd, lba |-> lba,
             total |-> Transfers(cmd, n), done |-> 0]
  /\ irq' = FALSE
  /\ status' = [status EXCEPT ![d] =
                  With(status[d], [drq |-> FALSE, inProgress |-> FALSE, cycle |-> 0])]
  /\ ptr' = 0
  /\ cpu' = "command" /\ memory' = <<>> /\ prd' = <<>>
  /\ overtaken' = (overtaken \/ ~Resting)
  /\ UNCHANGED <<disks, phase, buffer, size, bmIntr, sem, thread, active>>

(* The command register: BSY and command_in_progress are set ...              *)
Command ==
  /\ cpu = "command" /\ job.cmd # "nop"
  /\ Set([busy |-> TRUE, inProgress |-> TRUE])
  /\ phase' = "none"
  /\ cpu' = "readyWait"
  /\ UNCHANGED <<disks, regs, buffer, ptr, size, selected, bmIntr, irq, sem,
                 thread, job, busMaster>>

(* (NOP ends in the CPU's thread: command_aborted()) ...                     *)
Nop ==
  /\ cpu = "command" /\ job.cmd = "nop"
  /\ Set([busy |-> FALSE, err |-> TRUE])
  /\ bmIntr' = TRUE /\ irq' = TRUE /\ cpu' = "issued"
  /\ UNCHANGED <<disks, regs, phase, buffer, ptr, size, selected, sem, thread,
                 job, busMaster>>

(* ... and the thread is woken, when it is ready; the same when the last    *)
(* word of a block has gone through the data register.                      *)
ReadyWait ==
  /\ cpu = "readyWait" /\ Wait("ready") /\ cpu' = "wake"
  /\ UNCHANGED <<disks, status, regs, phase, buffer, ptr, size, selected,
                 bmIntr, irq, thread, job, busMaster>>
Wake ==
  /\ cpu = "wake" /\ Post("controller")
  /\ cpu' = IF \/ job.cmd \in Dma \ Packets
               \/ job.cmd = "packetDma" /\ job.done = 1 /\ job.total > 1
            THEN "startMaster" ELSE "issued"
  /\ UNCHANGED <<disks, status, regs, phase, buffer, ptr, size, selected,
                 bmIntr, irq, thread, job, busMaster>>

(* Descriptors of one node or two, of as many sectors or of one more.       *)
Descriptors(n) ==
  {<<n>>, <<n + 1>>, <<n, 1>>} \cup (IF n > 1 THEN {<<1, n - 1>>} ELSE {})

(* The word that the driver of job j writes into its i-th sector.             *)
Word(j, i) == j.id * Sectors + i

(* The bus master's command register: start.                                 *)
StartMaster(p) ==
  /\ cpu = "startMaster" /\ prd' = p /\ active' = TRUE
  /\ memory' = IF job.cmd = "writeDma"
               THEN [i \in 1 .. job.total |-> Word(job, i - 1)] ELSE <<>>
  /\ cpu' = "masterReadyWait"
  /\ UNCHANGED <<disks, status, regs, phase, buffer, ptr, size, selected,
                 bmIntr, irq, sem, thread, job, moved>>
Start ==
  \E p \in Descriptors(IF job.cmd \in Packets THEN job.total - 1 ELSE job.total) :
    StartMaster(p)
MasterReadyWait ==
  /\ cpu = "masterReadyWait" /\ Wait("masterReady") /\ cpu' = "masterSet"
  /\ UNCHANGED <<disks, status, regs, phase, buffer, ptr, size, selected,
                 bmIntr, irq, thread, job, busMaster>>
MasterSet ==
  /\ cpu = "masterSet" /\ Post("master") /\ cpu' = "issued"
  /\ UNCHANGED <<disks, status, regs, phase, buffer, ptr, size, selected,
                 bmIntr, irq, thread, job, busMaster>>

(* The driver polls before the first block of a write and after DEVICE      *)
(* RESET, which do not interrupt, and for a drive that is not there; else   *)
(* it waits for the interrupt. It reads the status, which withdraws the     *)
(* interrupt: a block is to be moved, or the command is over.               *)
Polls == \/ job.cmd \in (Writes \ Dma) \cup Packets \cup {"deviceReset"} /\ job.done = 0
         \/ kind[selected] = "none"
Over == ~GetStatus(selected).drq
        /\ \/ St.err \/ job.done >= job.total
           \/ job.cmd \in Dma /\ ~Polls
           \/ kind[selected] = "none"
Wanted == job.done < job.total /\ (job.cmd \in Dma => Polls)
ReadStatus ==
  /\ cpu = "issued" /\ (irq \/ Polls) /\ ~GetStatus(selected).busy
  /\ irq' = FALSE
  /\ IF job.cmd \in Dma THEN active' = FALSE /\ bmIntr' = FALSE
                        ELSE UNCHANGED <<active, bmIntr>>
  /\ \/ GetStatus(selected).drq /\ Wanted /\ cpu' = "data" /\ UNCHANGED wants
     \/ Over /\ cpu' = "idle"
        /\ wants' = [wants EXCEPT ![selected] = [l \in Lbas |->
             IF job.cmd \in Writes /\ ~St.err
                /\ l \in job.lba .. job.lba + job.total - 1
             THEN Word(job, l - job.lba) ELSE @[l]]]
  /\ UNCHANGED <<kind, medium, status, regs, phase, buffer, ptr, size, selected,
                 sem, thread, prd, memory, job>>

(* The data register. The last word of a block ends DRQ and wakes the       *)
(* thread if it has more to do.                                             *)
WakesThread_Never == FALSE
WakesThread == St.inProgress
Incoming == job.cmd \in Reads /\ ~(job.cmd \in Packets /\ job.done = 0)
Moved == ptr + 1 >= size
ReadWord ==
  /\ cpu = "data" /\ Incoming /\ St.drq /\ job.done < job.total
  /\ ptr' = ptr + 1 /\ job' = [job EXCEPT !.done = @ + 1]
  /\ Set([drq |-> ~Moved, busy |-> Moved /\ WakesThread])
  /\ cpu' = IF ~Moved THEN "data"
            ELSE IF WakesThread THEN "readyWait"
            ELSE IF job.done + 1 >= job.total THEN "idle" ELSE "issued"
  /\ UNCHANGED <<disks, regs, phase, buffer, size, selected, bmIntr, irq, sem,
                 thread, busMaster>>
WriteWord ==
  /\ cpu = "data" /\ ~Incoming /\ St.drq /\ job.done < job.total
  /\ buffer' = [buffer EXCEPT ![ptr + 1] =
       IF job.cmd \in Packets THEN job.total - 1 ELSE Word(job, job.done)]
  /\ ptr' = ptr + 1 /\ job' = [job EXCEPT !.done = @ + 1]
  /\ Set([drq |-> ~Moved, busy |-> Moved])
  /\ cpu' = IF Moved THEN "readyWait" ELSE "data"
  /\ overtaken' = (overtaken \/ pc \in {"askWrite", "askMultiple", "askPacket"})
  /\ UNCHANGED <<disks, regs, phase, size, selected, bmIntr, irq, sem, thread,
                 busMaster>>

(* The software reset of the device control register, set and cleared: it   *)
(* may come in the middle of a command, after a timeout of seconds in which *)
(* the thread has done what it can and waits for the driver. What was being *)
(* written is then for the driver to find out.                              *)
SoftReset ==
  /\ cpu \in {"issued", "data"} /\ pc = "wait" /\ sem.ready = 1
  /\ status' = [d \in Drives |-> [status[d] EXCEPT !.busy = FALSE, !.drq = FALSE,
                                  !.err = FALSE, !.inProgress = FALSE]]
  /\ selected' = Signature(kind[1], Signature(kind[0], selected))
  /\ regs' = [regs EXCEPT !.cmd = "none", !.count = 1, !.cyl = 0, !.sec = 1]
  /\ wants' = medium /\ job' = [job EXCEPT !.cmd = "none"]
  /\ cpu' = "idle"
  /\ UNCHANGED <<kind, medium, phase, buffer, ptr, size, bmIntr, irq, sem,
                 thread, busMaster, overtaken>>

Cpu ==
  \/ /\ \/ Command \/ Nop \/ ReadyWait \/ Wake \/ Start
        \/ MasterReadyWait \/ MasterSet \/ ReadStatus \/ ReadWord
     /\ UNCHANGED overtaken
  \/ WriteWord
Issue ==
  \E d \in Drives, cmd \in Commands, a \in Lbas, c \in Counts : Begin(d, cmd, a, c)
Next == Thread \/ Cpu \/ Issue \/ SoftReset

Spec == Init /\ [][Next]_vars /\ WF_vars(Thread) /\ WF_vars(Cpu)

-----------------------------------------------------------------------------
(* Counts and pointers keep their range until the driver overtakes the thread. *)
TypeOK ==
  /\ status \in [Drives -> Status]
  /\ sem \in [{"controller", "ready", "master", "masterReady"} -> {0, 1}]
  /\ phase \in {"none", "packet", "idle"}
  /\ selected \in Drives /\ {active, bmIntr, irq, overtaken} \subseteq BOOLEAN
  /\ \A d \in Drives : DOMAIN medium[d] = Lbas
  /\ ~overtaken => {regs.count, ptr, size, moved} \subseteq 0 .. CountMax

Expected(i) == IF job.cmd = "identify" THEN 0
               ELSE wants[selected][(job.lba + i) % Sectors]

(* The driver reads, through the data register or the bus master, what the  *)
(* drive holds at the sectors it asked for, and when a write is over they   *)
(* hold what it wrote and no other sector has changed (execute(),           *)
(* do_dma_transfer()): as long as the driver never goes on before the       *)
(* thread is through.                                                       *)
DataIntact ==
  ~overtaken =>
    /\ cpu = "data" /\ Incoming /\ St.drq =>
         buffer[ptr + 1] = Expected(IF job.cmd \in Packets THEN job.done - 1
                                                          ELSE job.done)
    /\ cpu = "idle" /\ job.cmd \in {"readDma", "packetDma"} =>
         memory = [i \in 1 .. Len(memory) |-> Expected(i - 1)]
    /\ cpu = "idle" => medium = wants

(* A semaphore is never set twice, however soon the driver goes on: set()   *)
(* at the maximum throws, which ends the thread of the controller or of the *)
(* CPU.                                                                     *)
SemaphoresHold ==
  /\ cpu = "wake" => sem.controller = 0
  /\ cpu = "masterSet" => sem.master = 0
  /\ pc = "set" => sem.ready = 0
  /\ pc = "masterReady" => sem.masterReady = 0

(* Every command that the driver sends ends, as long as it never goes on     *)
(* before the thread is through: nobody waits for ever for a semaphore, an  *)
(* interrupt or the end of BSY.                                             *)
CommandsEnd == cpu # "idle" ~> (cpu = "idle" \/ overtaken)

(* A pass writes sectors only when the driver has put data into the buffer   *)
(* since it gave its command (execute(): "the buffer is full.  Do something *)
(* with the data").                                                         *)
BufferFull == [][pc = "run" /\ medium' # medium => job.done > 0]_vars
=============================================================================

------------------------------ MODULE MCStorage ------------------------------
(***************************************************************************)
(* The disk controllers, each in behaviours of its own, as "part" says:    *)
(* a channel of the IDE controller, with a disk and a CD-ROM drive or a    *)
(* read-only disk alone, and the two SCSI controllers with a disk of       *)
(* four blocks, of which at most three are moved at once.                  *)
(***************************************************************************)
EXTENDS Integers, Sequences

CONSTANTS
  Parts,       \* the parts of a run
  IdeDriver,   \* the blocks that the driver of the IDE disk sends
  IdeCommands, \* its commands, with their counts and blocks
  IdeCounts, IdeMultiple,
  IdeSecMax, IdeCountMax, IdeSectors, \* tracks, the largest count, the disk
  MaxJobs, MaxTimers \* bounds: commands in a behaviour, expiries of a timer

VARIABLES
  part,
  ideKind, ideMedium, ideStatus, ideRegs, idePhase, ideBuffer, idePtr,
  ideSize, ideSelected, ideActive, ideBmIntr, ideIrq, ideSem, idePc,
  ideAfter, ideMoved, idePrd, ideCpu, ideJob, ideWants, ideMemory, ideOvertaken,
  symMedium, symTarget, symBus, symDsp, symSfbr, symScratch, symCarry,
  symExecuting, symWaitReselect, symSigp, symDstat, symSist, symIstat,
  symStacked, symIrq, symSem, symPc, symCpu, symJob, symSeen, symMoved,
  symMemory, symResult, symWants, symTimer, symOverran

ideVars == <<ideKind, ideMedium, ideStatus, ideRegs, idePhase, ideBuffer,
             idePtr, ideSize, ideSelected, ideActive, ideBmIntr, ideIrq,
             ideSem, idePc, ideAfter, ideMoved, idePrd, ideCpu, ideJob,
             ideWants, ideMemory, ideOvertaken>>
symVars == <<symMedium, symTarget, symBus, symDsp, symSfbr, symScratch,
             symCarry, symExecuting, symWaitReselect, symSigp, symDstat,
             symSist, symIstat, symStacked, symIrq, symSem, symPc, symCpu,
             symJob, symSeen, symMoved, symMemory, symResult, symWants,
             symTimer, symOverran>>

(* A run has tracks of two sectors, and 4 sectors stand for 256.             *)
DrivePairs == {<<"disk", "cdrom">>, <<"ro", "none">>}
IdeKinds == {[d \in {0, 1} |-> p[d + 1]] : p \in DrivePairs}
Ide == INSTANCE Ide WITH
  Kinds <- IdeKinds, Commands <- IdeCommands, Counts <- IdeCounts,
  Multiple <- IdeMultiple, SecMax <- IdeSecMax, CountMax <- IdeCountMax,
  Sectors <- IdeSectors, Driver <- IdeDriver, kind <- ideKind, medium <- ideMedium,
  status <- ideStatus, regs <- ideRegs, phase <- idePhase,
  buffer <- ideBuffer, ptr <- idePtr, size <- ideSize,
  selected <- ideSelected, active <- ideActive, bmIntr <- ideBmIntr,
  irq <- ideIrq, sem <- ideSem, pc <- idePc, after <- ideAfter,
  moved <- ideMoved, prd <- idePrd, cpu <- ideCpu, job <- ideJob,
  wants <- ideWants, memory <- ideMemory, overtaken <- ideOvertaken

ASSUME IdeParameters ==
  /\ {IdeSecMax, IdeCountMax, IdeSectors, IdeMultiple} \subseteq Nat \ {0}
  /\ IdeCounts \subseteq 0 .. IdeCountMax
  /\ IdeCommands \subseteq Ide!Reads \cup Ide!Writes \cup Ide!NoData

(* The program and the commands with which a driver uses Sym53C8xx: wait to *)
(* be signalled, select the disk, pass it the messages and the command,     *)
(* move the data in two segments whichever way the disk says, and interrupt *)
(* at the end: on the fly if the status was good, halting if it was not.    *)
Op(op) == [op |-> op]
Move(phase, seg) == [op |-> "move", phase |-> phase, seg |-> seg]
Move1(phase) == Move(phase, 1)
JumpIf(phase, data, carry, if, to) ==
  [op |-> "jump", phase |-> phase, data |-> data, carry |-> carry, if |-> if,
   to |-> to]
When(phase, to) == JumpIf(phase, "none", FALSE, TRUE, to)
Unless(phase, to) == JumpIf(phase, "none", FALSE, FALSE, to)
Always(to) == JumpIf("none", "none", FALSE, TRUE, to)
Reg(reg) == [op |-> "register", reg |-> reg]

DriverScript ==
  << [op |-> "reselect", to |-> 2], Reg("ctest2"), Op("select"),
     Move1("msgOut"), When("command", 7), Move1("msgIn"), Move1("command"),
     When("dataIn", 11), When("dataOut", 15), Always(18),
     Move1("dataIn"), Unless("dataIn", 18), Move("dataIn", 2), Always(18),
     Move1("dataOut"), Unless("dataOut", 18), Move("dataOut", 2),
     Move1("status"), Reg("save"), Move1("msgIn"), Op("disconnect"),
     Reg("restore"), JumpIf("none", "zero", FALSE, FALSE, 28),
     [op |-> "carry", value |-> TRUE], JumpIf("none", "none", TRUE, FALSE, 27),
     [op |-> "int", fly |-> TRUE], Always(1),
     [op |-> "int", fly |-> FALSE], Always(1) >>

Ask(id, op, lba, n, segs, messages) ==
  [id |-> id, cmd |-> [op |-> op, lba |-> lba, n |-> n], segs |-> segs,
   messages |-> messages, no |-> 0]
Identify == <<"identify">>
Negotiate == <<"identify", "negotiate">>

(* Transfers in one and two segments, that fit and that do not; the         *)
(* commands that answer with a unit; a target that is not there; an empty   *)
(* segment.                                                                 *)
DriverJobs ==
  {Ask(0, "read", 1, 2, <<1, 1>>, Identify), Ask(0, "read", 0, 3, <<1, 3>>, Negotiate),
   Ask(0, "write", 1, 2, <<1, 1>>, Identify), Ask(0, "write", 2, 1, <<2, 1>>, Negotiate),
   Ask(0, "modeSelect", 0, 1, <<1, 1>>, Identify),
   Ask(1, "test", 0, 0, <<1, 1>>, Identify), Ask(0, "read", 0, 1, <<0, 1>>, Identify)}
  \cup {Ask(0, op, 3, 2, <<1, 1>>, Identify) : op \in {"read", "write"}}
  \cup {Ask(0, op, 0, 4, <<1, 1>>, Identify) : op \in {"read", "write"}}
  \cup {Ask(0, op, 0, 0, <<1, 1>>, Identify) :
          op \in {"sense", "inquiry", "capacity", "illegal", "test"}}

Sym895 == INSTANCE Sym53C8xx WITH
  Chip <- "895", Script <- DriverScript, Jobs <- DriverJobs,
  Enabled <- {"SIR", "IID", "MA", "STO", "GEN"},
  Blocks <- 4, MostIn <- 3, MostOut <- 3,
  medium <- symMedium, target <- symTarget, bus <- symBus, dsp <- symDsp,
  sfbr <- symSfbr, scratch <- symScratch, carry <- symCarry,
  executing <- symExecuting, waitReselect <- symWaitReselect,
  sigp <- symSigp, dstat <- symDstat, sist <- symSist, istat <- symIstat,
  stacked <- symStacked, irq <- symIrq, sem <- symSem, pc <- symPc,
  cpu <- symCpu, job <- symJob, seen <- symSeen, moved <- symMoved,
  memory <- symMemory, result <- symResult, wants <- symWants,
  timer <- symTimer, overran <- symOverran
Sym810 == INSTANCE Sym53C8xx WITH
  Chip <- "810", Script <- DriverScript, Jobs <- DriverJobs,
  Enabled <- {"SIR", "IID", "MA", "STO", "GEN"},
  Blocks <- 4, MostIn <- 3, MostOut <- 3,
  medium <- symMedium, target <- symTarget, bus <- symBus, dsp <- symDsp,
  sfbr <- symSfbr, scratch <- symScratch, carry <- symCarry,
  executing <- symExecuting, waitReselect <- symWaitReselect,
  sigp <- symSigp, dstat <- symDstat, sist <- symSist, istat <- symIstat,
  stacked <- symStacked, irq <- symIrq, sem <- symSem, pc <- symPc,
  cpu <- symCpu, job <- symJob, seen <- symSeen, moved <- symMoved,
  memory <- symMemory, result <- symResult, wants <- symWants,
  timer <- symTimer, overran <- symOverran

StorageInit ==
  /\ part \in Parts
  /\ Ide!Init /\ Sym895!Init
  /\ part # "ide" => ideKind[0] = "disk"

Controllers(ofIde, of895, of810) ==
  \/ part = "ide" /\ ofIde /\ UNCHANGED symVars
  \/ part = "53C895" /\ of895 /\ UNCHANGED ideVars
  \/ part = "53C810" /\ of810 /\ UNCHANGED ideVars
StorageNext ==
  /\ UNCHANGED part
  /\ Controllers(Ide!Next, Sym895!Next, Sym810!Next)

(* The thread of each controller, and the driver's on the CPU.              *)
Threads == Controllers(Ide!Thread, Sym895!Thread, Sym810!Thread)
Drivers == Controllers(Ide!Cpu, Sym895!Cpu, Sym810!Cpu)

StorageSpec ==
  /\ StorageInit
  /\ [][StorageNext]_<<part, ideVars, symVars>>
  /\ WF_<<ideVars, symVars>>(Threads)
  /\ WF_<<ideVars, symVars>>(Drivers)

-----------------------------------------------------------------------------
(* The properties of the controllers, stated in their modules.              *)

(* A command that ends well has moved the sectors it was to move and no     *)
(* others.                                                                  *)
DataIntact == Ide!DataIntact /\ Sym895!DataIntact

(* What one thread hands to the other arrives: no semaphore is set twice,   *)
(* and SCRIPTS that have stopped in a command have raised an interrupt for  *)
(* it; no count goes below zero, and SCRIPTS never leave the program.       *)
HandedOver ==
  /\ Ide!TypeOK /\ Sym895!TypeOK
  /\ Ide!SemaphoresHold /\ Sym895!StartsAreTaken /\ Sym895!StopsAreReported

(* Every command ends.                                                        *)
CommandsEnd ==
  /\ part = "ide" => Ide!CommandsEnd
  /\ part # "ide" => Sym895!CommandsEnd

(* A drive is never written from a buffer that the driver of the command has *)
(* put nothing into.                                                        *)
BufferFull == Ide!BufferFull

-----------------------------------------------------------------------------
(* The parts of the invariants with which StorageProofs proves them.         *)

(* A driver whose blocks of READ MULTIPLE, starting at a multiple of their    *)
(* size, do not cross the end of what the sector register counts, where       *)
(* Advance drops the rest.                                                    *)
AlignedDriver == IdeDriver = "aligned" /\ IdeSecMax % IdeMultiple = 0

-----------------------------------------------------------------------------
(* The channel of the IDE controller.                                         *)

Drive == ideStatus[ideSelected]
Present == ideKind[ideSelected] # "none"
InDma == {"masterWait", "prd", "masterReady", "dmaDone"}
AskSteps == {"askWrite", "askMultiple", "askPacket"}
Steps == {"wait", "run", "raise", "packetData", "packetDone", "packetLast", "finish", "set"}
           \cup AskSteps \cup InDma
DriverSteps == {"idle", "command", "readyWait", "wake", "startMaster", "masterReadyWait",
                "masterSet", "issued", "data"}
AllCommands == Ide!Reads \cup Ide!Writes \cup Ide!NoData

Registers == [cmd : AllCommands \cup {"none"}, count : 0 .. IdeCountMax, cyl : Nat, sec : Nat]
IdeTyped ==
  /\ ideKind \in [Ide!Drives -> {"disk", "ro", "cdrom", "none"}]
  /\ ideMedium \in [Ide!Drives -> [Ide!Lbas -> Int]]
  /\ ideWants \in [Ide!Drives -> [Ide!Lbas -> Int]]
  /\ ideStatus \in [Ide!Drives -> Ide!Status]
  /\ ideRegs \in Registers
  /\ idePhase \in {"none", "packet", "idle"}
  /\ ideBuffer \in [1 .. IdeCountMax -> Int]
  /\ idePtr \in 0 .. IdeCountMax /\ ideSize \in 0 .. IdeCountMax /\ ideMoved \in 0 .. IdeCountMax
  /\ ideSelected \in Ide!Drives
  /\ ideActive \in BOOLEAN /\ ideBmIntr \in BOOLEAN /\ ideIrq \in BOOLEAN
  /\ ideSem \in [{"controller", "ready", "master", "masterReady"} -> {0, 1}]
  /\ idePc \in Steps /\ ideAfter \in {"finish", "masterReady", "packetData", "packetDone"}
  /\ idePrd \in Seq(Nat) /\ ideMemory \in Seq(Int)
  /\ ideCpu \in DriverSteps
  /\ ideJob \in [id : Nat, cmd : AllCommands \cup {"none"}, lba : Nat, total : Nat, done : Nat]

(* The command goes round between the driver and the thread: one of the four *)
(* has it.  And so does the transfer.                                        *)
OneHasCommand ==
  /\ ideSem["ready"] = 1 => ideSem["controller"] = 0 /\ ideCpu # "wake" /\ idePc = "wait"
  /\ ideSem["controller"] = 1 => ideCpu # "wake" /\ idePc = "wait"
  /\ ideCpu = "wake" => idePc = "wait"
AtTransfer == idePc \in {"prd", "masterReady"} \/ (idePc = "raise" /\ ideAfter = "masterReady")
OneHasTransfer ==
  /\ ideSem["masterReady"] = 1 => ideSem["master"] = 0 /\ ideCpu # "masterSet" /\ ~AtTransfer
  /\ ideSem["master"] = 1 => ideCpu # "masterSet" /\ ~AtTransfer
  /\ ideCpu = "masterSet" => ~AtTransfer

(* The thread is asked to execute a command, or the next part of it.         *)
Asked == ideCpu = "wake" \/ ideSem["controller"] = 1 \/ idePc = "run"
Asking == ideCpu = "readyWait" \/ Asked
Transfers == AtTransfer \/ idePc \in {"masterWait", "dmaDone"}
MasterStarts == ideCpu \in {"startMaster", "masterReadyWait", "masterSet"}
(* Whether the command has been executed once.                               *)
Executed == Drive.cycle # 0 \/ idePc \notin {"wait", "run", "set"} \cup AskSteps
Refused == Ide!Refused(ideJob.cmd, ideKind[ideSelected])

(* Whether it has DRQ set, and is yet to say for how much.                   *)
Asks == idePc \in AskSteps
AtAnswer == idePc = "packetData" \/ (idePc = "raise" /\ ideAfter = "packetData")
AtEnd == idePc = "packetDone" \/ (idePc = "raise" /\ ideAfter = "packetDone")
Control ==
  /\ ideCpu = "idle" => ~Transfers /\ (Asked => ~Present)
  /\ ideCpu # "idle" => ideRegs.cmd = ideJob.cmd /\ ideJob.cmd \in AllCommands
  /\ ~Present => /\ ideRegs.cmd \in {"identify", "none"}
                 /\ ideCpu \notin {"data", "startMaster", "masterReadyWait", "masterSet"}
                 /\ idePc \in {"wait", "run", "finish", "set"}
  /\ Asks => /\ Drive.drq /\ ~Drive.busy /\ Drive.inProgress /\ Drive.cycle = 0
             /\ ideCpu \in {"issued", "data"}
             /\ idePc = "askWrite" => ideRegs.cmd = "write"
             /\ idePc = "askMultiple" => ideRegs.cmd = "writeMultiple"
             /\ idePc = "askPacket" => ideRegs.cmd \in Ide!Packets
  /\ ideRegs.cmd = "deviceReset" => ideKind[ideSelected] = "cdrom"
  /\ ideCpu = "command" => idePc \in {"wait", "set"} /\ ~Drive.drq /\ Drive.cycle = 0
  /\ Asking => Drive.busy /\ Drive.inProgress /\ ~Drive.drq
  /\ Asked => ideCpu \notin {"command", "readyWait", "data"}
  /\ ideCpu = "data" => ~Drive.busy /\ Drive.drq
  /\ Transfers => /\ Drive.busy /\ ~Drive.drq /\ ideRegs.cmd \in Ide!Dma
                  /\ ideCpu \in {"startMaster", "masterReadyWait", "masterSet", "issued"}
                  /\ AtTransfer \/ idePc = "dmaDone" => ideCpu = "issued" /\ ideSem["master"] = 0
  /\ MasterStarts \/ ideSem["master"] = 1 =>
       /\ Asked \/ idePc = "masterWait"
       /\ ideRegs.cmd \in Ide!Dma /\ ideCpu \in {"startMaster", "masterReadyWait", "masterSet", "issued"}
       /\ ideSem["master"] = 1 => ideCpu = "issued"
  /\ ideCpu = "issued" /\ ~Drive.busy /\ Present /\ ideJob.cmd # "nop" => Executed \/ Asks
  /\ AtAnswer => ideRegs.cmd = "packet"
  /\ AtEnd => ~Drive.drq /\ ~Drive.busy /\ ideCpu \in {"issued", "idle"} /\ ideRegs.cmd \in Ide!Packets
  /\ idePc = "packetLast" =>
       ideRegs.cmd = "packetDma" /\ ideCpu = "issued" /\ ~Drive.busy /\ Drive.drq

(* How much of the command is done, before the block in the buffer.          *)
Base == ideJob.done - idePtr
At == Ide!Lba(ideRegs)
On == ideCpu # "idle" /\ Present
Pio == {"read", "readMultiple", "write", "writeMultiple"}

(* Before it has been executed, a command is as the driver has written it.   *)
Fresh ==
  On /\ ~Executed =>
    /\ ideJob.done = 0 /\ idePtr = 0
    /\ ideJob.cmd \in Pio \cup (Ide!Dma \ Ide!Packets) =>
         /\ At = ideJob.lba /\ ideRegs.sec < IdeSecMax
         /\ ideJob.total = IF ideRegs.count = 0 THEN IdeCountMax ELSE ideRegs.count
    /\ ideJob.cmd \in Ide!Packets => ideCpu = "command" \/ idePhase = "none"
InLimits ==
  On => /\ ideJob.cmd \in Ide!Packets => ideJob.total - 1 \in 0 .. IdeCountMax
        /\ ideJob.cmd \in Pio \cup (Ide!Dma \ Ide!Packets) => ideJob.total \in 1 .. IdeCountMax
        /\ ideJob.cmd \in Ide!Writes => ideJob.lba + ideJob.total <= IdeSectors
        /\ ideJob.cmd \in Ide!Dma => ~Refused
        /\ Ide!Aligned(ideJob.cmd, ideJob.lba, ideJob.total)

Running == On /\ Executed /\ ~Refused
Reading ==
  Running /\ ideJob.cmd \in {"read", "readMultiple"} =>
    /\ ideRegs.count = ideJob.total - (Base + ideSize) /\ Base >= 0
    /\ ~Drive.drq => idePtr = ideSize
    /\ Drive.inProgress <=> ideRegs.count # 0
    /\ ideRegs.count # 0 =>
         /\ At = ideJob.lba + Base + ideSize /\ ideRegs.sec < IdeSecMax
         /\ ideJob.cmd = "readMultiple" => At % IdeMultiple = 0
Writing ==
  Running /\ ideJob.cmd = "write" =>
    /\ ideRegs.count = ideJob.total - Base /\ Base >= 0 /\ idePtr \in {0, 1} /\ ideSize = 1
    /\ ideRegs.count # 0 => At = ideJob.lba + Base /\ ideRegs.sec < IdeSecMax
    /\ Drive.inProgress <=> ideRegs.count # 0
    /\ Drive.drq => ideRegs.count # 0 /\ idePtr = 0
    /\ Asking => idePtr = 1
    /\ ~Asking /\ ~Drive.drq => ideRegs.count = 0 /\ idePtr = 0 /\ ~Drive.err /\ Executed
WritingMultiple ==
  Running /\ ideJob.cmd = "writeMultiple" =>
    /\ ideRegs.count = 0 /\ ideSize = ideJob.total
    /\ At = ideJob.lba
    /\ Drive.drq => idePtr < ideSize /\ Base = 0
    /\ Asking => idePtr = ideSize /\ Base = 0
    /\ ~Asking /\ ~Drive.drq => ideJob.done = ideJob.total /\ idePtr = 0 /\ ~Drive.err
PacketPhases ==
  On /\ ideJob.cmd \in Ide!Packets /\ ideCpu # "command" =>
    /\ idePhase = "none" => ~Drive.drq \/ Asks
    /\ ideJob.done = 0 => idePtr = 0 /\ (Running => idePhase = "packet" /\ ideSize = 1)
    /\ Asking /\ Executed => idePhase # "none" /\ ideJob.done # 0
    /\ ideJob.cmd = "packetDma" /\ Drive.drq => ideJob.done = 0 \/ idePc = "packetLast"
    /\ ideJob.cmd = "packetDma" /\ idePhase = "idle" => ~Asking
    /\ MasterStarts \/ ideSem["master"] = 1 => ideJob.done = 1 /\ ideJob.total > 1
    /\ AtAnswer \/ Transfers \/ idePc = "packetLast" => ideJob.done # 0
    /\ idePc = "packetLast" => idePhase = "idle"
    /\ Drive.drq /\ ideJob.done # 0 => idePhase = "idle" \/ AtAnswer
    /\ Asked /\ idePhase = "packet" =>
         ideJob.done = 1 /\ idePtr = 1 /\ ideBuffer[1] = ideJob.total - 1
    /\ idePhase = "packet" /\ ideCpu = "readyWait" /\ ~AtAnswer =>
         ideJob.done = 1 /\ idePtr = 1 /\ ideBuffer[1] = ideJob.total - 1

(* What was refused has moved nothing.                                       *)
Aborted ==
  On /\ (Executed \/ Asks) /\ Refused => ideJob.done = 0 /\ idePtr = 0 /\ ~Drive.drq /\ ~Asking

(* The buffer holds what the driver is to read, or what it has written.      *)
Filled ==
  On /\ Drive.drq /\ ~Asks /\ idePc # "packetLast" =>
    /\ idePtr < ideSize /\ Executed
    /\ ideJob.cmd \in Ide!Reads \cup Ide!Writes
    /\ ideJob.cmd \in Ide!Writes \cup Ide!Packets => Drive.inProgress
BufferRead ==
  On /\ Drive.drq /\ ideJob.cmd \in Ide!Reads \ Ide!Packets =>
    \A i \in 1 .. ideSize : ideBuffer[i] = Ide!Expected(Base + i - 1)
BufferPacket ==
  On /\ Drive.drq /\ ideJob.cmd = "packet" /\ ideJob.done # 0 =>
    Base = 1 /\ \A i \in 1 .. ideSize : ideBuffer[i] = Ide!Expected(i - 1)
BufferWritten ==
  On /\ ideJob.cmd \in {"write", "writeMultiple"} =>
    Base >= 0 /\ \A i \in 1 .. idePtr : ideBuffer[i] = Ide!Word(ideJob, Base + i - 1)
Sizes ==
  Transfers /\ ideJob.cmd \in {"readDma", "writeDma"} =>
     At = ideJob.lba /\ ideSize = ideJob.total
BufferDma ==
  Transfers /\ ideJob.cmd \in {"readDma", "packetDma"} =>
    \A i \in 1 .. ideSize : ideBuffer[i] = Ide!Expected(i - 1)
MemoryRead ==
  ideJob.cmd \in {"readDma", "packetDma"} =>
    /\ \A i \in 1 .. Len(ideMemory) : ideMemory[i] = Ide!Expected(i - 1)
    /\ AtTransfer => Len(ideMemory) = ideMoved
    /\ Asking \/ idePc = "masterWait" \/ ideCpu = "command" => ideMemory = <<>>
    /\ ideJob.cmd = "packetDma" /\ ideJob.done = 0 => ideMemory = <<>>
MemoryWritten ==
  ideCpu # "idle" /\ ideJob.cmd = "writeDma" =>
    /\ ideCpu \in {"masterReadyWait", "masterSet"} \/ (Transfers /\ ideCpu = "issued") \/ ideSem["master"] = 1
       => Len(ideMemory) = ideJob.total
          /\ \A i \in 1 .. ideJob.total : ideMemory[i] = Ide!Word(ideJob, i - 1)
    /\ AtTransfer \/ idePc = "dmaDone" =>
         \A i \in 1 .. (IF idePc = "prd" THEN ideMoved ELSE ideSize) :
           ideBuffer[i] = Ide!Word(ideJob, i - 1)
MovedFits == AtTransfer => ideMoved <= ideSize
DmaOver ==
  On /\ ideJob.cmd \in Ide!Dma \ Ide!Packets =>
    /\ Asking => Drive.cycle = 0 /\ idePc \in {"wait", "run", "set"}
    /\ ideCpu = "issued" /\ (Asking \/ idePc = "masterWait") => ideSem["master"] = 1
    /\ ideCpu # "command" /\ ~Drive.busy => ~Drive.err /\ ~Drive.drq

(* The sectors that have been written so far.                                *)
Count == CASE ideJob.cmd \in {"write", "writeMultiple"} -> Base
           [] ideJob.cmd = "writeDma" /\ ideCpu # "command" /\ ~Drive.busy -> ideJob.total
           [] OTHER -> 0
MediumRight ==
  /\ ideCpu = "idle" => ideMedium = ideWants
  /\ \A d \in Ide!Drives, l \in Ide!Lbas :
       ideMedium[d][l] = IF ideCpu # "idle" /\ d = ideSelected
                            /\ l \in ideJob.lba .. ideJob.lba + Count - 1
                         THEN Ide!Word(ideJob, l - ideJob.lba) ELSE ideWants[d][l]

IdeInv ==
  /\ IdeTyped
  /\ OneHasCommand
  /\ OneHasTransfer
  /\ Control
  /\ Fresh
  /\ InLimits
  /\ Reading
  /\ Writing
  /\ WritingMultiple
  /\ PacketPhases
  /\ Aborted
  /\ Filled
  /\ BufferRead
  /\ BufferPacket
  /\ BufferWritten
  /\ Sizes
  /\ BufferDma
  /\ MemoryRead
  /\ MemoryWritten
  /\ MovedFits
  /\ DmaOver
  /\ MediumRight

-----------------------------------------------------------------------------
(* The SCSI controllers.                                                    *)

(* SCRIPTS of the driver's program, and the driver: what has been raised and  *)
(* not been acted on, and whether the end of a command has been reported.     *)
Raised == symSist \cup (symDstat \ {"DFE"}) \cup (symSeen \ {"INTF"})
Flown == "INTF" \in symIstat \cup symSeen

SymTyped ==
  /\ symBus \in Sym895!Phases /\ symDsp \in 1 .. 29
  /\ symDstat \subseteq {"DFE", "SIR", "IID"} /\ "DFE" \in symDstat
  /\ symSist \subseteq {"MA", "STO", "GEN"} /\ symIstat \subseteq {"INTF", "SIP", "DIP"}
  /\ symSeen \subseteq {"INTF", "SIR", "IID", "MA", "STO", "GEN"}
  /\ symIrq \in BOOLEAN /\ symExecuting \in BOOLEAN /\ symWaitReselect \in BOOLEAN
  /\ symSigp \in BOOLEAN /\ symSem \in {0, 1} /\ symPc \in {"wait", "run", "step"}
  /\ symCpu \in {"start", "idle", "issued"}

(* SIP and DIP say what SIST and DSTAT hold, and the line what ISTAT does.    *)
Levels ==
  /\ "SIP" \in symIstat <=> symSist # {}
  /\ "DIP" \in symIstat <=> symDstat # {"DFE"}
  /\ symIrq <=> symIstat # {}

(* SCRIPTS run only when all that stopped them has been acted on; an          *)
(* interrupt on the fly is raised on the way to where they wait.              *)
RunsFree == symExecuting => Raised = {}
FlyOnly == Flown => Raised = {} /\ ~symSigp /\ (symWaitReselect \/ (symExecuting /\ symDsp \in {1, 27}))

(* SCRIPTS that do not run wait for reselection, or have raised an interrupt, *)
(* unless they are to be started.                                             *)
Stopped ==
  /\ symCpu = "start" => /\ ~symExecuting /\ ~symWaitReselect /\ ~symSigp
                         /\ symIstat = {} /\ symSeen = {}
  /\ symCpu = "idle" => /\ symIstat = {} /\ symSeen = {} /\ ~symSigp
                        /\ symWaitReselect \/ (symExecuting /\ symDsp \in {1, 27})
  /\ symCpu = "issued" => symExecuting \/ symWaitReselect \/ Raised # {}
Waiting == symWaitReselect => symDsp = 2 /\ ~symExecuting /\ Raised = {} /\ symCpu # "start"

(* A signal that has not been taken finds SCRIPTS on the way to take it.      *)
SignalHeld ==
  symSigp => /\ symCpu = "issued" /\ ~symWaitReselect /\ symDsp \in {1, 2, 27}
             /\ Raised \subseteq {"GEN"}

(* SCRIPTS come back to where they wait by the interrupt on the fly only: the *)
(* carry lets them into it, and the one that halts them is followed by a new  *)
(* start.                                                                     *)
ComesBack ==
  /\ symCpu = "issued" /\ symDsp \in {1, 2, 27} => symSigp \/ Flown
  /\ symDsp = 25 => symCarry = TRUE
  /\ symDsp = 29 => "SIR" \in Raised \/ symCpu = "start"

(* What holds while the thread of the CPU lives and no instruction has run    *)
(* after a halt.                                                              *)
Settled == ~symOverran /\ symCpu # "dead"
ScriptsInv == SymTyped /\ Levels /\ RunsFree /\ FlyOnly /\ Stopped /\ Waiting /\ SignalHeld /\ ComesBack
=============================================================================

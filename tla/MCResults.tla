------------------------------- MODULE MCResults -------------------------------
(***************************************************************************)
(* What must never go wrong, each part of the system in behaviours of      *)
(* its own, as "part" says: two CPUs that lock and a device that writes;   *)
(* a bus master behind the windows of the Pchip, the registers of the      *)
(* chipset and of the PCI devices; the file that memory is saved to;       *)
(* interrupt controllers, timer and clock; the memories of the firmware    *)
(* and the picture; and the SCRIPTS processor.                             *)
(***************************************************************************)
EXTENDS LoadLocked, Integers, Sequences
CONSTANTS disk, block1, block2

VARIABLES
  part,
  dmaWindow, dmaHole, dmaTable, dmaTransfer, dmaSteady,
  pciData, pciCommand, pciLine, pciWindows, pciDrir, pciAsserting, pciPlaced,
  pciChanges,
  stateMem, stateBeyond, stateM, stateFile, statePc, stateStates,
  stateSystem, stateC, stateSaved, stateWritten, stateHeld,
  mapPchip, mapCsc, mapDim, mapDrir, mapTig, mapCf8, mapWanted, mapWrites,
  vtText, vtStart, vtCursor, vtVisible, vtPalette, vtFont, vtCharmap_updated,
  vtRows, vtOld_rows, vtUpdated, vtSnapshot, vtScreen, vtPrev_cursor, vtPass,
  vtCpu, vtAccesses, vtMissed,
  dprCpus, dprHeader, dprBuffer, dprUnit, dprCmd, dprRom, dprCpu,
  dprStarting, dprJob, dprWant, dprGiven, dprTouched, dprJobs,
  scriptsProgram, scriptsGiven, scriptsPhase, scriptsSsm, scriptsRegs,
  scriptsMem, scriptsCarry, scriptsDsp, scriptsTemp, scriptsExecuting,
  scriptsInside, scriptsDstat, scriptsStack, scriptsIntf, scriptsSigp,
  scriptsIrq, scriptsAborts, scriptsSent, scriptsEnded, scriptsLost,
  scriptsTodo, scriptsGot,
  picAsserted, picMask, picMode, picLine, picCall, picTmp, picLast,
  picBefore, picRequests, picServing,
  pitKind, pitCounter, pitMax, pitStatus, pitMode, pitPc, pitTmp, pitSt,
  pitCpu, pitCtmp, pitCst, pitLoads, pitBytes, pitClean, pitSince, pitInterval,
  toyNow, toyB, toyC, toyUip, toyRate, toyReads, toyHold, toyIndex, toyPort,
  toyGuest,
  flashFlash, flashMode, flashSteps, flashLost, flashWant, flashGot, flashJobs,
  vmMem, vmLatch, vmReg, vmOp, vmAccesses,
  vrAttr, vrFile, vrDac, vrPalette, vrDerived, vrChanged, vrMisc, vrJob,
  vrWant, vrGot, vrJobs,
  vsMode, vsVideo, vsDirty, vsUpdated, vsSize, vsDrawing, vsPass, vsHand,
  vsCpu, vsAccesses, vsStale, vsOwed

dmaVars == <<dmaWindow, dmaHole, dmaTable, dmaTransfer, dmaSteady>>
pciVars == <<pciData, pciCommand, pciLine, pciWindows, pciDrir, pciAsserting,
             pciPlaced, pciChanges>>
stateVars == <<stateMem, stateBeyond, stateM, stateFile, statePc,
               stateStates, stateSystem, stateC, stateSaved, stateWritten,
               stateHeld>>
mapVars == <<mapPchip, mapCsc, mapDim, mapDrir, mapTig, mapCf8, mapWanted,
             mapWrites>>
vtVars == <<vtText, vtStart, vtCursor, vtVisible, vtPalette, vtFont,
            vtCharmap_updated, vtRows, vtOld_rows, vtUpdated, vtSnapshot,
            vtScreen, vtPrev_cursor, vtPass, vtCpu, vtAccesses, vtMissed>>
dprVars == <<dprCpus, dprHeader, dprBuffer, dprUnit, dprCmd, dprRom, dprCpu,
             dprStarting, dprJob, dprWant, dprGiven, dprTouched, dprJobs>>
scriptsVars == <<scriptsProgram, scriptsGiven, scriptsPhase, scriptsSsm,
                 scriptsRegs, scriptsMem, scriptsCarry, scriptsDsp,
                 scriptsTemp, scriptsExecuting, scriptsInside, scriptsDstat,
                 scriptsStack, scriptsIntf, scriptsSigp, scriptsIrq,
                 scriptsAborts, scriptsSent, scriptsEnded, scriptsLost,
                 scriptsTodo, scriptsGot>>
picVars == <<picAsserted, picMask, picMode, picLine, picCall, picTmp,
             picLast, picBefore, picRequests, picServing>>
pitVars == <<pitKind, pitCounter, pitMax, pitStatus, pitMode, pitPc, pitTmp,
             pitSt, pitCpu, pitCtmp, pitCst, pitLoads, pitBytes, pitClean,
             pitSince, pitInterval>>
toyVars == <<toyNow, toyB, toyC, toyUip, toyRate, toyReads, toyHold,
             toyIndex, toyPort, toyGuest>>
flashVars == <<flashFlash, flashMode, flashSteps, flashLost, flashWant,
               flashGot, flashJobs>>
vmVars == <<vmMem, vmLatch, vmReg, vmOp, vmAccesses>>
vrVars == <<vrAttr, vrFile, vrDac, vrPalette, vrDerived, vrChanged, vrMisc,
            vrJob, vrWant, vrGot, vrJobs>>
vsVars == <<vsMode, vsVideo, vsDirty, vsUpdated, vsSize, vsDrawing, vsPass,
            vsHand, vsCpu, vsAccesses, vsStale, vsOwed>>

(* Windows that are direct or scattered, over all of memory or a part; and a table in
   which adjacent pages are apart, one invalid and one on the bus. *)
Windows ==
  {[enabled |-> TRUE, sg |-> FALSE, base |-> {}, mask |-> {}, target |-> {3}],
   [enabled |-> TRUE, sg |-> FALSE, base |-> {3}, mask |-> {2}, target |-> {}],
   [enabled |-> TRUE, sg |-> TRUE, base |-> {}, mask |-> {2, 3}, target |-> {}],
   [enabled |-> TRUE, sg |-> TRUE, base |-> {2}, mask |-> {}, target |-> {3}]}
Closed == [enabled |-> FALSE, sg |-> FALSE, base |-> {}, mask |-> {}, target |-> {}]
Pages(n) == {b \in 1 .. 3 : ((14 - n) \div 2^b) % 2 = 1}
Table == [n \in 0 .. 15 |-> [valid |-> n # 4, peer |-> n = 6, page |-> Pages(n)]]

(* A network controller, and a graphics adapter with windows of its own. *)
NicBars == [cbio |-> [io |-> TRUE, length |-> 2], cbma |-> [io |-> FALSE, length |-> 2]]
VgaBars == [fb |-> [io |-> FALSE, length |-> 4]]
Window(b, io, base) == [dev |-> "vga", bar |-> b, io |-> io, base |-> base, length |-> 2]
Pci == INSTANCE Pci WITH
  Bars <- [nic |-> NicBars, vga |-> VgaBars], Top <- 16, MaxChanges <- 3,
  Lines <- [nic |-> "12"],
  Legacy <- <<Window("3c0", TRUE, 4), Window("a0000", FALSE, 2)>>,
  data <- pciData, command <- pciCommand, line <- pciLine,
  windows <- pciWindows, drir <- pciDrir, asserting <- pciAsserting,
  placed <- pciPlaced, changes <- pciChanges

(* Four words; files of a whole system and of a small one, and systems with the same,
   with fewer, others, longer and swapped components. *)
Short(n) == [name |-> n, size |-> "short"]
Whole ==
  <<Short("CAlphaCPU"), Short("CSerial"), Short("CSerial"), Short("CAliM1543C"),
    Short("CDMA"), Short("CKeyboard"), Short("CFloppyController"), Short("CAliM1543C_usb"),
    Short("CAliM1543C_ide"), Short("CSCSIBus"), Short("CDisk"), Short("CSym53C810"),
    Short("CSym53C895"), Short("CS3Trio64"), Short("CDEC21143"), Short("CPort80"),
    Short("CDPR"), Short("CFlash")>>
Small == <<Short("CCirrus"), Short("CDisk")>>
SystemsRead ==
  {Whole, Small, SubSeq(Small, 1, 1), <<Small[2], Small[1]>>,
   <<Small[1], [name |-> "CDisk", size |-> "long"]>>}
  \cup {<<Whole[i]>> : i \in DOMAIN Whole}
State == INSTANCE StateFile WITH
  Words <- 4, Values <- {0, 1}, Saved <- {Whole, Small},
  Systems <- SystemsRead, mem <- stateMem, beyond <- stateBeyond,
  m <- stateM, file <- stateFile, pc <- statePc, states <- stateStates,
  system <- stateSystem, c <- stateC, saved <- stateSaved,
  written <- stateWritten, held <- stateHeld

(* Windows of the flash memory, the dual-port RAM, a port, and the configuration of a
   device; one of the offsets is in it. *)
MapWindow(d, h, o, h2, o2) == [dev |-> d, first |-> <<h, o>>, last |-> <<h2, o2>>]
MapWindows ==
  <<MapWindow("flash", \h80100, 0, \h80107, 16777215),
    MapWindow("dpr", \h80110, 0, \h80110, 1048575),
    MapWindow("nic", \h801FE, \h2000, \h801FE, \h20FF),
    MapWindow("keyboard", \h801FC, \h60, \h801FC, \h60)>>
MapData == {{}, 0 .. 63, {0, 5, 10, 22, 39, 63}}
Map == INSTANCE SystemMap WITH
  Windows <- MapWindows, MemoryBits <- 27, Aliases <- {0, 255},
  Data <- MapData, Offsets <- {8196, 8448}, MaxWrites <- 2,
  Settings <- Windows \cup {Closed}, Tables <- {Table}, MaxLength <- 5,
  window <- dmaWindow, hole <- dmaHole, table <- dmaTable,
  transfer <- dmaTransfer, steady <- dmaSteady,
  pchip <- mapPchip, csc <- mapCsc, dim <- mapDim, drir <- mapDrir,
  tig <- mapTig, cf8 <- mapCf8, wanted <- mapWanted, writes <- mapWrites
ASSUME MapMemory == Map!MemoryBitsOK

Vt == INSTANCE VgaText WITH
  Cols <- 1, Heights <- {1, 2}, Starts <- {0, 1}, Values <- {0, 1},
  MaxAccesses <- 3, text <- vtText, start <- vtStart, cursor <- vtCursor,
  visible <- vtVisible, palette <- vtPalette, font <- vtFont,
  charmap_updated <- vtCharmap_updated, rows <- vtRows,
  old_rows <- vtOld_rows, updated <- vtUpdated, snapshot <- vtSnapshot,
  screen <- vtScreen, prev_cursor <- vtPrev_cursor, pass <- vtPass,
  cpu <- vtCpu, accesses <- vtAccesses, missed <- vtMissed

(* A memory module, whose data is not written, and the second CPU. *)
Dpr == INSTANCE Dpr WITH
  Units <- {9, 34}, Commands <- {240}, Size <- 2, Bytes <- {1},
  Counts <- {1, 2}, MaxJobs <- 3, cpus <- dprCpus, header <- dprHeader,
  buffer <- dprBuffer, unit <- dprUnit, cmd <- dprCmd, rom <- dprRom,
  cpu <- dprCpu, starting <- dprStarting, job <- dprJob, want <- dprWant,
  given <- dprGiven, touched <- dprTouched, jobs <- dprJobs

(* Registers of two bits. *)
Scripts == INSTANCE SymScripts WITH
  W <- 2, Values <- {0, 3}, MaxAborts <- 1, program <- scriptsProgram,
  given <- scriptsGiven, phase <- scriptsPhase, ssm <- scriptsSsm,
  regs <- scriptsRegs, mem <- scriptsMem, carry <- scriptsCarry,
  dsp <- scriptsDsp, temp <- scriptsTemp, executing <- scriptsExecuting,
  inside <- scriptsInside, dstat <- scriptsDstat, stack <- scriptsStack,
  intf <- scriptsIntf, sigp <- scriptsSigp, irq <- scriptsIrq,
  aborts <- scriptsAborts, sent <- scriptsSent, ended <- scriptsEnded,
  lost <- scriptsLost, todo <- scriptsTodo, got <- scriptsGot

(* The interval timer, the serial port and two devices of controller 1. *)
Pins == {<<0, 0>>, <<0, 4>>, <<1, 4>>, <<1, 6>>}
Levels == {<<0, 4>>, <<1, 6>>}
Pic == INSTANCE Pic WITH
  Pins <- Pins, Levels <- Levels, Threads <- {"cpu"}, Guest <- "any",
  MaxRequests <- 2, asserted <- picAsserted, mask <- picMask,
  mode <- picMode, line <- picLine, call <- picCall, tmp <- picTmp,
  last <- picLast, before <- picBefore, requests <- picRequests,
  serving <- picServing

(* Bytes of two bits, and a clock that takes off two. *)
Pit == INSTANCE Pit WITH
  Bytes <- {0, 3}, MaxLoads <- 2, Factor <- 2, Byte <- 4, kind <- pitKind,
  counter <- pitCounter, max <- pitMax, status <- pitStatus, mode <- pitMode,
  pc <- pitPc, tmp <- pitTmp, st <- pitSt, cpu <- pitCpu, ctmp <- pitCtmp,
  cst <- pitCst, loads <- pitLoads, bytes <- pitBytes, clean <- pitClean,
  since <- pitSince, interval <- pitInterval

(* Noon and midnight, in both formats. *)
Hms(h, m, s) == [h |-> h, m |-> m, s |-> s]
Times == <<Hms(11, 59, 59), Hms(12, 0, 59), Hms(0, 0, 0)>>
ClockModes == {{"DM", "24"}, {"PIE"}, {"UIE", "SET"}}
Toy == INSTANCE Toy WITH
  Times <- Times, Modes <- ClockModes, Polls <- 2, Hold <- 2, now <- toyNow,
  b <- toyB, c <- toyC, uip <- toyUip, rate <- toyRate, reads <- toyReads,
  hold <- toyHold, index <- toyIndex, port <- toyPort, guest <- toyGuest

(* One address in a sector, two in another. *)
Sectors == [n \in {"0", "5555", "2aaa"} |-> IF n = "0" THEN "low" ELSE "high"]
Flash == INSTANCE Flash WITH
  Sectors <- Sectors, Bytes <- {"aa", "00"}, MaxJobs <- 2,
  flash <- flashFlash, mode <- flashMode, steps <- flashSteps,
  lost <- flashLost, want <- flashWant, got <- flashGot, jobs <- flashJobs

(* Two planes of two bytes, of two bits. *)
Base == [graphics |-> TRUE, mapping |-> 1, chain4 |-> FALSE, write |-> 0, raster |-> "copy",
  rotate |-> 0, bitmask |-> {0, 1}, set |-> {}, enable |-> {}, mapmask |-> {0, 1},
  match |-> FALSE, map |-> 0, compare |-> {}, care |-> {0, 1}]
Rasters == {"copy", "and", "or", "xor"}
WriteModes ==
  {[Base EXCEPT !.raster = r, !.rotate = 1, !.bitmask = b, !.set = {0}, !.enable = e, !.mapmask = k] :
     r \in Rasters, b \in {{0}, {1}}, e \in {{}, {0}}, k \in {{0}, {0, 1}}}
  \cup {[Base EXCEPT !.write = n] : n \in 0 .. 2}
  \cup {[Base EXCEPT !.write = 2, !.raster = r, !.bitmask = {0}] : r \in Rasters}
  \cup {[Base EXCEPT !.write = 3, !.raster = r, !.bitmask = {0}, !.set = {1}] : r \in Rasters}
  \cup {[Base EXCEPT !.chain4 = TRUE], [Base EXCEPT !.mapping = 3], [Base EXCEPT !.graphics = FALSE, !.mapping = 2],
        [Base EXCEPT !.graphics = FALSE, !.mapping = 3, !.mapmask = {1}]}
  \cup {[Base EXCEPT !.match = TRUE, !.compare = c, !.care = d] : c \in {{}, {0}}, d \in {{0}, {0, 1}}}
Va == INSTANCE VgaAdapter WITH
  MaxJobs <- 2, attr <- vrAttr, file <- vrFile, dac <- vrDac,
  palette <- vrPalette, derived <- vrDerived, changed <- vrChanged,
  misc <- vrMisc, job <- vrJob, want <- vrWant, got <- vrGot, jobs <- vrJobs,
  Width <- 2, Planes <- {0, 1}, Bank <- 1, Modes <- WriteModes,
  Bytes <- SUBSET {0, 1}, MaxAccesses <- 2, mem <- vmMem, latch <- vmLatch,
  reg <- vmReg, op <- vmOp, accesses <- vmAccesses

(* Two tiles by two, and every way from an address to a tile. *)
Mode(k, s, d2, ds, st, of, c, w) ==
  [kind |-> k, shift |-> s, div2 |-> d2, dscan |-> ds, start |-> st, offset |-> of, compare |-> c, w |-> w, h |-> 4]
Modes ==
  {Mode("planar", 0, FALSE, FALSE, 4, 4, 1, 32), Mode("planar", 0, TRUE, TRUE, 0, 3, 1, 32),
   Mode("cga", 1, TRUE, FALSE, 0, 4, 9, 32), Mode("cga", 0, FALSE, TRUE, 0, 4, 9, 16),
   Mode("chain4", 2, FALSE, FALSE, 4, 16, 9, 32), Mode("modex", 2, FALSE, TRUE, 0, 4, 9, 32)}
Vs == INSTANCE VgaScreen WITH
  XT <- 16, YT <- 2, NX <- 2, NY <- 2, Half <- 8, Line <- 4, Modes <- Modes,
  Starts <- {0, 4}, Offsets <- {0, 5, 9, 19, 33, 60}, MaxAccesses <- 2,
  mode <- vsMode, video <- vsVideo, dirty <- vsDirty, updated <- vsUpdated,
  size <- vsSize, drawing <- vsDrawing, pass <- vsPass, hand <- vsHand,
  cpu <- vsCpu, accesses <- vsAccesses, stale <- vsStale, owed <- vsOwed

ResultsInit ==
  /\ part \in {"locks", "dma", "pci", "state file", "system map", "vga text",
              "dpr", "scripts", "pic", "pit", "toy", "flash", "vga memory",
              "vga registers", "vga screen"}
  /\ part # "locks" => address = [c \in CPU |-> block1]
  /\ Init
  /\ Map!MasterInit
  /\ Pci!Init
  /\ IF part = "state file" THEN State!Init
     ELSE stateMem = 0 /\ stateBeyond = 0 /\ stateM = 0 /\ stateFile = 0 /\
          statePc = 0 /\ stateStates = 0 /\ stateSystem = 0 /\ stateC = 0 /\
          stateSaved = 0 /\ stateWritten = 0 /\ stateHeld = 0
  /\ IF part = "system map" THEN Map!RegistersInit
     ELSE mapPchip = 0 /\ mapCsc = 0 /\ mapDim = 0 /\ mapDrir = 0 /\
          mapTig = 0 /\ mapCf8 = 0 /\ mapWanted = 0 /\ mapWrites = 0
  /\ IF part = "vga text" THEN Vt!Init
     ELSE vtText = 0 /\ vtStart = 0 /\ vtCursor = 0 /\ vtVisible = 0 /\
          vtPalette = 0 /\ vtFont = 0 /\ vtCharmap_updated = 0 /\
          vtRows = 0 /\ vtOld_rows = 0 /\ vtUpdated = 0 /\ vtSnapshot = 0 /\
          vtScreen = 0 /\ vtPrev_cursor = 0 /\ vtPass = 0 /\ vtCpu = 0 /\
          vtAccesses = 0 /\ vtMissed = 0
  /\ IF part = "dpr" THEN Dpr!Init
     ELSE dprCpus = 0 /\ dprHeader = 0 /\ dprBuffer = 0 /\ dprUnit = 0 /\
          dprCmd = 0 /\ dprRom = 0 /\ dprCpu = 0 /\ dprStarting = 0 /\
          dprJob = 0 /\ dprWant = 0 /\ dprGiven = 0 /\ dprTouched = 0 /\
          dprJobs = 0
  /\ IF part = "scripts" THEN Scripts!Init
     ELSE scriptsProgram = 0 /\ scriptsGiven = 0 /\ scriptsPhase = 0 /\
          scriptsSsm = 0 /\ scriptsRegs = 0 /\ scriptsMem = 0 /\
          scriptsCarry = 0 /\ scriptsDsp = 0 /\ scriptsTemp = 0 /\
          scriptsExecuting = 0 /\ scriptsInside = 0 /\ scriptsDstat = 0 /\
          scriptsStack = 0 /\ scriptsIntf = 0 /\ scriptsSigp = 0 /\
          scriptsIrq = 0 /\ scriptsAborts = 0 /\ scriptsSent = 0 /\
          scriptsEnded = 0 /\ scriptsLost = 0 /\ scriptsTodo = 0 /\
          scriptsGot = 0
  /\ Pic!Init
  /\ part # "pit" => pitKind = "square"
  /\ Pit!Init
  /\ part # "toy" => toyB = {"PIE"}
  /\ Toy!Init
  /\ IF part = "flash" THEN Flash!Init
     ELSE flashFlash = 0 /\ flashMode = 0 /\ flashSteps = 0 /\
          flashLost = 0 /\ flashWant = 0 /\ flashGot = 0 /\ flashJobs = 0
  /\ part # "vga memory" =>
       /\ vmReg = Base
       /\ vmMem = [p \in {0, 1} |-> [n \in 0 .. 1 |-> IF n = 1 THEN {0} ELSE {}]]
  /\ Va!MemoryInit
  /\ IF part = "vga registers" THEN Va!RegistersInit
     ELSE vrAttr = 0 /\ vrFile = 0 /\ vrDac = 0 /\ vrPalette = 0 /\
          vrDerived = 0 /\ vrChanged = 0 /\ vrMisc = 0 /\ vrJob = 0 /\
          vrWant = 0 /\ vrGot = 0 /\ vrJobs = 0
  /\ IF part = "vga screen" THEN Vs!Init
     ELSE vsMode = 0 /\ vsVideo = 0 /\ vsDirty = 0 /\ vsUpdated = 0 /\
          vsSize = 0 /\ vsDrawing = 0 /\ vsPass = 0 /\ vsHand = 0 /\
          vsCpu = 0 /\ vsAccesses = 0 /\ vsStale = 0 /\ vsOwed = 0

(* "part" never changes; only the variables of its part do. *)
InLocks ==
  UNCHANGED <<part, dmaVars, pciVars, stateVars, mapVars, vtVars, dprVars,
              scriptsVars, picVars, pitVars, toyVars, flashVars, vmVars, vrVars,
              vsVars>>
InDma ==
  UNCHANGED <<part, vars, pciVars, stateVars, mapVars, vtVars, dprVars,
              scriptsVars, picVars, pitVars, toyVars, flashVars, vmVars, vrVars,
              vsVars>>
InPci ==
  UNCHANGED <<part, vars, dmaVars, stateVars, mapVars, vtVars, dprVars,
              scriptsVars, picVars, pitVars, toyVars, flashVars, vmVars, vrVars,
              vsVars>>
InState ==
  UNCHANGED <<part, vars, dmaVars, pciVars, mapVars, vtVars, dprVars, scriptsVars,
              picVars, pitVars, toyVars, flashVars, vmVars, vrVars, vsVars>>
InMap ==
  UNCHANGED <<part, vars, dmaVars, pciVars, stateVars, vtVars, dprVars,
              scriptsVars, picVars, pitVars, toyVars, flashVars, vmVars, vrVars,
              vsVars>>
InVt ==
  UNCHANGED <<part, vars, dmaVars, pciVars, stateVars, mapVars, dprVars,
              scriptsVars, picVars, pitVars, toyVars, flashVars, vmVars, vrVars,
              vsVars>>
InDpr ==
  UNCHANGED <<part, vars, dmaVars, pciVars, stateVars, mapVars, vtVars,
              scriptsVars, picVars, pitVars, toyVars, flashVars, vmVars, vrVars,
              vsVars>>
InScripts ==
  UNCHANGED <<part, vars, dmaVars, pciVars, stateVars, mapVars, vtVars, dprVars,
              picVars, pitVars, toyVars, flashVars, vmVars, vrVars, vsVars>>
InPic ==
  UNCHANGED <<part, vars, dmaVars, pciVars, stateVars, mapVars, vtVars, dprVars,
              scriptsVars, pitVars, toyVars, flashVars, vmVars, vrVars, vsVars>>
InPit ==
  UNCHANGED <<part, vars, dmaVars, pciVars, stateVars, mapVars, vtVars, dprVars,
              scriptsVars, picVars, toyVars, flashVars, vmVars, vrVars, vsVars>>
InToy ==
  UNCHANGED <<part, vars, dmaVars, pciVars, stateVars, mapVars, vtVars, dprVars,
              scriptsVars, picVars, pitVars, flashVars, vmVars, vrVars, vsVars>>
InFlash ==
  UNCHANGED <<part, vars, dmaVars, pciVars, stateVars, mapVars, vtVars, dprVars,
              scriptsVars, picVars, pitVars, toyVars, vmVars, vrVars, vsVars>>
InVm ==
  UNCHANGED <<part, vars, dmaVars, pciVars, stateVars, mapVars, vtVars, dprVars,
              scriptsVars, picVars, pitVars, toyVars, flashVars, vrVars, vsVars>>
InVr ==
  UNCHANGED <<part, vars, dmaVars, pciVars, stateVars, mapVars, vtVars, dprVars,
              scriptsVars, picVars, pitVars, toyVars, flashVars, vmVars, vsVars>>
InVs ==
  UNCHANGED <<part, vars, dmaVars, pciVars, stateVars, mapVars, vtVars, dprVars,
              scriptsVars, picVars, pitVars, toyVars, flashVars, vmVars, vrVars>>
ResultsNext ==
  \/ part = "locks" /\ InLocks /\ Next
  \/ part = "dma" /\ InDma /\ Map!MasterNext
  \/ part = "pci" /\ InPci /\ Pci!Next
  \/ part = "state file" /\ InState /\ State!Next
  \/ part = "system map" /\ InMap /\ Map!RegistersNext
  \/ part = "vga text" /\ InVt /\ Vt!Next
  \/ part = "dpr" /\ InDpr /\ Dpr!Next
  \/ part = "scripts" /\ InScripts /\ Scripts!Next
  \/ part = "pic" /\ InPic /\ Pic!Next
  \/ part = "pit" /\ InPit /\ Pit!Next
  \/ part = "toy" /\ InToy /\ Toy!Next
  \/ part = "flash" /\ InFlash /\ Flash!Next
  \/ part = "vga memory" /\ InVm /\ Va!MemoryNext
  \/ part = "vga registers" /\ InVr /\ Va!RegistersNext
  \/ part = "vga screen" /\ InVs /\ Vs!Next

ResultsSpec ==
  ResultsInit /\ [][ResultsNext]_<<part, vars, dmaVars, pciVars, stateVars, mapVars,
                                  vtVars, dprVars, scriptsVars, picVars,
                                  pitVars, toyVars, flashVars, vmVars,
                                  vrVars, vsVars>>

-----------------------------------------------------------------------------
(* The properties of the parts, stated in their modules; NotOvertaken is as   *)
(* LoadLocked has it.                                                         *)

(* Each byte of a transfer goes where PCI_Phys() sends its address; an      *)
(* access of the CPU reaches the device whose register has the address, and *)
(* an interrupt the line that the device was given; registers of the        *)
(* chipset hold what was written (ReadMem(), WriteMem(),                    *)
(* do_pci_interrupt()).                                                     *)
AddressesRight ==
  /\ part = "dma" => Map!BytesTranslated
  /\ part = "pci" => Pci!Reached /\ Pci!LinesFollow
  /\ part = "system map" =>
       Map!RegistersHold /\ Map!ConfigReached /\ Map!RegionsDecoded

(* What RestoreState() restores is what SaveState() has saved.              *)
Restored == part = "state file" => State!Restored

(* A pending interrupt of controller 0 asserts line 55, which is asserted   *)
(* for nothing only after a write of its mask; and what is pending in       *)
(* controller 1 is hidden only by writes of controller 0 (pic_interrupt(),  *)
(* pic_write()).                                                            *)
OnlyGuestMisleads ==
  part = "pic" => Pic!TypeOK /\ Pic!LineCovers /\ Pic!StaleByMask /\ Pic!HiddenByPrimary

(* The period of the timer is that of its count, and the time that a guest  *)
(* reads twice is one that the host's clock showed; the flags of the clock  *)
(* agree (pit_clock(), toy_write()).                                        *)
ClocksRight ==
  /\ part = "pit" => Pit!TypeOK /\ Pit!PeriodExact
  /\ part = "toy" => Toy!TimeRight /\ Toy!FlagsRight

(* The memories of the firmware hold what was programmed, and the registers *)
(* of the graphics adapter what was written (WriteMem(), io_write_b()); a   *)
(* SCRIPTS program computes, copies and jumps as it says, and its           *)
(* interrupts reach the CPU (execute(), run()).                             *)
RegistersRight ==
  /\ part = "flash" => Flash!FlashRight
  /\ part = "dpr" => Dpr!DprRight
  /\ part = "vga registers" => Va!RegistersHeld /\ Va!DerivedRight
  /\ part = "scripts" =>
       Scripts!ProgramsRight /\ Scripts!StaysInProgram /\ Scripts!LineRight

(* The picture in the memory of the adapter is what the accesses make it,   *)
(* and each tile that does not show it is marked; in text modes a place     *)
(* shows its character (vga_mem_write(), redraw_area(), text_update()).     *)
PictureRight ==
  /\ Va!ElementsRight /\ Va!BytesRead /\ Va!MatchesRead
  /\ [](part = "vga screen" => Vs!MarkedIfStale)
  /\ [](part = "vga text" => Vt!TextShown)
=============================================================================

------------------------------ MODULE MCProcessor ------------------------------
(***************************************************************************)
(* The processors, in behaviours each of its own, as "part" says: two      *)
(* small machines for Interrupts, one CPU with lines and two CPUs that     *)
(* interrupt each other; a translation buffer; the fetch of instructions;  *)
(* their results; and the PALcode.                                         *)
(***************************************************************************)
EXTENDS Interrupts, Sequences

CONSTANTS
  c0, c1, nic, nxm,
  TbEntries, TbSpaces, TbPages, TbGlobal, TbVersions, TbChanging, \* the translation buffer
  FetchLines, FetchPageSize, FetchSpaces, FetchPal, FetchCode   \* the fetch

(* One CPU, with a device line and an error line and every mask; two CPUs,    *)
(* each of which writes its own bits of MISC.                                 *)
OneCpu == {c0}
TwoCpus == {c0, c1}
AllEnabled == {{}, Pin}
AllMasks == SUBSET Line
NoFields == [itclr |-> {}, ipclr |-> {}, ipreq |-> {}, abw |-> {},
             abt |-> {}, devsup |-> {}, acl |-> FALSE]
OwnFields(c) ==
  {[NoFields EXCEPT !.itclr = {c}, !.devsup = {c}],
   [NoFields EXCEPT !.abw = {c}],
   [NoFields EXCEPT !.acl = TRUE, !.abt = {c}],
   [NoFields EXCEPT !.ipclr = {c}, !.ipreq = TwoCpus \ {c}]}
ClearClock == [c \in CPU |-> {[NoFields EXCEPT !.itclr = {c}]}]
OwnBits == [c \in TwoCpus |-> OwnFields(c)]

VARIABLES
  part,
  mpDrir, mpDim, mpMisc, mpCpu, mpStage, mpCc,
  tbTb, tbLast, tbNext, tbAsn, tbPt, tbOwed,
  fetchPc, fetchPcPhys, fetchRem, fetchAsn, fetchEnabled, fetchConfig,
  fetchIcache, fetchNextLine, fetchLastFound, fetchMap, fetchMem, fetchOwed,
  fpFpu, fpOp, fpDp, fpA, fpB, fpMode, fpDnz, fpDone, fpR, fpTraps,
  opsA, opsB, opsC, opsK, opsPhase,
  palPc, palCm, palPs, palSp, palFrames, palMasks, palAst, palSir, palClock,
  palCheck, palCurrent, palKsp, palPcb, palCalls, palLate, palContexts,
  faultsDir, faultsTable, faultsDtb, faultsItb, faultsFaulted,
  iprGroup, iprIpr, iprEir, iprCheck, iprPal, iprWant, iprWrites

mpVars == <<mpDrir, mpDim, mpMisc, mpCpu, mpStage, mpCc>>
tbVars == <<tbTb, tbLast, tbNext, tbAsn, tbPt, tbOwed>>
fetchVars == <<fetchPc, fetchPcPhys, fetchRem, fetchAsn, fetchEnabled,
               fetchConfig, fetchIcache, fetchNextLine, fetchLastFound,
               fetchMap, fetchMem, fetchOwed>>
fpVars == <<fpFpu, fpOp, fpDp, fpA, fpB, fpMode, fpDnz, fpDone, fpR, fpTraps>>
opsVars == <<opsA, opsB, opsC, opsK, opsPhase>>
palVars == <<palPc, palCm, palPs, palSp, palFrames, palMasks, palAst, palSir,
             palClock, palCheck, palCurrent, palKsp, palPcb, palCalls,
             palLate, palContexts>>
faultsVars == <<faultsDir, faultsTable, faultsDtb, faultsItb, faultsFaulted>>
iprVars == <<iprGroup, iprIpr, iprEir, iprCheck, iprPal, iprWant, iprWrites>>

Two == INSTANCE Interrupts WITH
  CPU <- TwoCpus, DeviceLine <- {}, ErrorLine <- {}, TickPeriod <- 2,
  MiscWrites <- OwnBits, DimWrites <- {}, IerWrites <- {}, drir <- mpDrir,
  dim <- mpDim, misc <- mpMisc, cpu <- mpCpu, stage <- mpStage, cc <- mpCc

(* The translation buffer: a run has two entries, two address spaces, and a *)
(* private and a global block.                                              *)
Tb == INSTANCE TranslationBuffer WITH
  Entries <- TbEntries, Asn <- TbSpaces, Page <- TbPages, Global <- TbGlobal,
  Version <- TbVersions, MaxChanging <- TbChanging, tb <- tbTb, last <- tbLast,
  next <- tbNext, asn <- tbAsn, pt <- tbPt, owed <- tbOwed
ASSUME TbParameters == Tb!ParametersOK

(* The fetch: two lines, two pages of two, PALcode in memory of its own.    *)
Fetch == INSTANCE InstructionFetch WITH
  Lines <- FetchLines, PageSize <- FetchPageSize, Asn <- FetchSpaces,
  Pal <- FetchPal, Code <- FetchCode, MaxOwed <- 1, pc <- fetchPc, pcPhys <- fetchPcPhys, rem <- fetchRem,
  asn <- fetchAsn, enabled <- fetchEnabled, config <- fetchConfig,
  icache <- fetchIcache, nextLine <- fetchNextLine,
  lastFound <- fetchLastFound, map <- fetchMap, mem <- fetchMem,
  owed <- fetchOwed
ASSUME FetchParameters == Fetch!ParametersOK

(* Formats of three bits and two, and of two and one. *)
Fp == INSTANCE Float WITH
  E <- 3, F <- 2, SE <- 2, SF <- 1, DF <- 2, GUARD <- 3,
  Units <- {"ieee", "vax"}, fpu <- fpFpu, op <- fpOp,
  dp <- fpDp, a <- fpA, b <- fpB, mode <- fpMode, dnz <- fpDnz,
  done <- fpDone, r <- fpR, traps <- fpTraps
ASSUME FloatFormats == Fp!FormatsOK

Host == INSTANCE Float WITH
  E <- 4, F <- 2, SE <- 3, SF <- 1, DF <- 4, GUARD <- 3, Units <- {"host"},
  fpu <- fpFpu, op <- fpOp, dp <- fpDp, a <- fpA, b <- fpB, mode <- fpMode,
  dnz <- fpDnz, done <- fpDone, r <- fpR, traps <- fpTraps

(* Quadwords of four bytes, each of two bits. *)
Ops == INSTANCE Operate WITH
  B <- 2, NB <- 4,
  Second <- {0, 1, 2, 7, 8, 15, 27, 64, 127, 128, 129, 200, 255},
  Stored <- {228}, a <- opsA, b <- opsB, c <- opsC, k <- opsK,
  phase <- opsPhase

(* Two processes; software interrupts below and above the level of ASTs. *)
Pal == INSTANCE VmsPal WITH
  Process <- {"p", "q"}, First <- "p", Soft <- {1, 4}, Levels <- {0, 2, 4},
  Scheduling <- 4, Depth <- 2, MaxCalls <- 4, pc <- palPc, cm <- palCm,
  ps <- palPs, sp <- palSp, frames <- palFrames, masks <- palMasks,
  ast <- palAst, sir <- palSir, clock <- palClock, check <- palCheck,
  current <- palCurrent, ksp <- palKsp, pcb <- palPcb, calls <- palCalls,
  late <- palLate, contexts <- palContexts

(* A page that needs tables and one that the kernel reaches without; pages that are
   read-only, absent, or fault on reads, or on writes and execution. *)
Entry(v, fo, re, we) == [v |-> v, fo |-> fo, re |-> re, we |-> we]
PageEntries ==
  {Entry(TRUE, {}, {0, 3}, {0}), Entry(FALSE, {}, {0, 3}, {0}),
   Entry(TRUE, {"read"}, {0, 3}, {0}), Entry(TRUE, {"write", "exec"}, {0, 3}, {0, 3})}
DirectoryEntries ==
  {Entry(TRUE, {}, {0}, {0}), Entry(FALSE, {}, {0}, {0}), Entry(FALSE, {}, {}, {})}
Faults == INSTANCE VmsFault WITH
  Page <- {"p0", "s0"}, Super <- {"s0"}, Mode <- {0, 3},
  Entries <- PageEntries, Levels <- DirectoryEntries, dir <- faultsDir,
  table <- faultsTable, dtb <- faultsDtb, itb <- faultsItb,
  faulted <- faultsFaulted

(* Quadwords of all bits, of each second and of each third. *)
IprPatterns == {0 .. 63, {b \in 0 .. 63 : b % 2 = 0}, {b \in 0 .. 63 : b % 3 = 0}}
IprGroups ==
  {{"PCTX", "IER_CM", "cm", "ier", "sirr"},
   {"cm", "alt", "m_ctl", "i_ctl", "va_ctl", "pal_base", "pctr", "offset", "cc"}}
IprParts ==
  {{"asn"}, {"aster"}, {"astrr"}, {"ppcen", "fpen"}, {"asn", "aster", "astrr", "ppcen", "fpen"}}
Ipr == INSTANCE PalRegisters WITH
  Patterns <- IprPatterns, Groups <- IprGroups, Parts <- IprParts,
  Pins <- {1}, MaxWrites <- 3, group <- iprGroup, ipr <- iprIpr,
  eir <- iprEir, check <- iprCheck, pal <- iprPal, want <- iprWant,
  writes <- iprWrites

ProcessorInit ==
  /\ part \in {"interrupts", "two cpus", "tb", "fetch", "float", "host float",
               "operate", "pal", "faults", "internal registers"}
  /\ Init
  /\ Two!Init
  /\ part # "tb" => tbAsn = 0
  /\ Tb!Init
  /\ part # "fetch" => fetchConfig = TRUE
  /\ Fetch!Init
  /\ IF part = "float" THEN Fp!Init
     ELSE IF part = "host float" THEN Host!Init
     ELSE fpFpu = 0 /\ fpOp = 0 /\ fpDp = 0 /\ fpA = 0 /\ fpB = 0 /\
          fpMode = 0 /\ fpDnz = 0 /\ fpDone = 0 /\ fpR = 0 /\ fpTraps = 0
  /\ IF part = "operate" THEN Ops!Init
     ELSE opsA = 0 /\ opsB = 0 /\ opsC = 0 /\ opsK = 0 /\ opsPhase = 0
  /\ IF part = "pal" THEN Pal!Init
     ELSE palPc = 0 /\ palCm = 0 /\ palPs = 0 /\ palSp = 0 /\
          palFrames = 0 /\ palMasks = 0 /\ palAst = 0 /\ palSir = 0 /\
          palClock = 0 /\ palCheck = 0 /\ palCurrent = 0 /\ palKsp = 0 /\
          palPcb = 0 /\ palCalls = 0 /\ palLate = 0 /\ palContexts = 0
  /\ IF part = "faults" THEN Faults!Init
     ELSE faultsDir = 0 /\ faultsTable = 0 /\ faultsDtb = 0 /\
          faultsItb = 0 /\ faultsFaulted = 0
  /\ IF part = "internal registers" THEN Ipr!Init
     ELSE iprGroup = 0 /\ iprIpr = 0 /\ iprEir = 0 /\ iprCheck = 0 /\
          iprPal = 0 /\ iprWant = 0 /\ iprWrites = 0

(* "part" never changes; only the variables of its part do. *)
InInterrupts ==
  UNCHANGED <<part, mpVars, tbVars, fetchVars, fpVars, opsVars, palVars,
              faultsVars, iprVars>>
InTwo ==
  UNCHANGED <<part, vars, tbVars, fetchVars, fpVars, opsVars, palVars,
              faultsVars, iprVars>>
InTb ==
  UNCHANGED <<part, vars, mpVars, fetchVars, fpVars, opsVars, palVars,
              faultsVars, iprVars>>
InFetch ==
  UNCHANGED <<part, vars, mpVars, tbVars, fpVars, opsVars, palVars,
              faultsVars, iprVars>>
InFp ==
  UNCHANGED <<part, vars, mpVars, tbVars, fetchVars, opsVars, palVars,
              faultsVars, iprVars>>
InOps ==
  UNCHANGED <<part, vars, mpVars, tbVars, fetchVars, fpVars, palVars,
              faultsVars, iprVars>>
InPal ==
  UNCHANGED <<part, vars, mpVars, tbVars, fetchVars, fpVars, opsVars,
              faultsVars, iprVars>>
InFaults ==
  UNCHANGED <<part, vars, mpVars, tbVars, fetchVars, fpVars, opsVars,
              palVars, iprVars>>
InIpr ==
  UNCHANGED <<part, vars, mpVars, tbVars, fetchVars, fpVars, opsVars,
              palVars, faultsVars>>
ProcessorNext ==
  \/ part = "interrupts" /\ InInterrupts /\ Next
  \/ part = "two cpus" /\ InTwo /\ Two!Next
  \/ part = "tb" /\ InTb /\ Tb!Next
  \/ part = "fetch" /\ InFetch /\ Fetch!Next
  \/ part = "float" /\ InFp /\ Fp!Next
  \/ part = "host float" /\ InFp /\ Host!Next
  \/ part = "operate" /\ InOps /\ Ops!Next
  \/ part = "pal" /\ InPal /\ Pal!Next
  \/ part = "faults" /\ InFaults /\ Faults!Next
  \/ part = "internal registers" /\ InIpr /\ Ipr!Next

processorVars == <<part, vars, mpVars, tbVars, fetchVars, fpVars, opsVars,
                    palVars, faultsVars, iprVars>>
ProcessorSpec == ProcessorInit /\ [][ProcessorNext]_processorVars
(* The thread of the one CPU runs.                                            *)
FairProcessorSpec ==
  ProcessorSpec
  /\ WF_processorVars(part = "interrupts" /\ InInterrupts /\ \E c \in CPU : Execute(c))

-----------------------------------------------------------------------------
(* The properties of the parts, stated in their modules; those of the one     *)
(* CPU are as Interrupts has them.                                            *)

(* Of two CPUs that interrupt each other and clear what they see, MISC shows  *)
(* whose pins are asserted (cchip_csr_write(), interrupt()).                  *)
PinsShown == part = "two cpus" => Two!MiscMatchesPins

(* Of two CPUs that arbitrate one at most reads back that it won              *)
(* (cchip_csr_write()).                                                       *)
OneWins == part = "two cpus" => Two!AtMostOneWinner

(* Neither a translation nor an instruction that is used is an old one, or    *)
(* one of another address space.                                              *)
NothingStale ==
  /\ part = "tb" => Tb!TypeOK /\ Tb!Current
  /\ part = "fetch" => Fetch!TypeOK /\ Fetch!FetchesCurrent

(* Results of instructions are those of arithmetic, rounded as the format     *)
(* says; comparisons and branches are true of the numbers; traps are those    *)
(* that the result calls for; and parts of quadwords are put together to      *)
(* bytes of memory.                                                           *)
NumbersRight ==
  /\ part = "float" =>
       /\ Fp!RoundsRight /\ Fp!ComparesRight
       /\ Fp!VaxRoundsRight /\ Fp!VaxComparesRight
  /\ part = "host float" => Host!Converted /\ Host!ConditionsRight
  /\ part = "operate" => Ops!ArithmeticRight /\ Ops!BytesRight

(* Under the PALcode of OpenVMS a return goes to what was interrupted,        *)
(* interrupts are masked as the level says and looked at when deliverable; an *)
(* access is done or reported as the page tables say (vmspal_call_*(),        *)
(* vmspal_ent_*(), virt2phys()). Any PALcode finds in the internal registers  *)
(* what it wrote and, of interrupts, what execute() delivers, and accesses    *)
(* memory for the mode it means (DO_HW_MTPR, DO_HW_MFPR, DO_HW_LDL).          *)
PalRight ==
  /\ part = "pal" => Pal!ContextKept /\ Pal!MasksRight /\ Pal!NothingUnseen
  /\ part = "faults" => Faults!FaultsRight /\ Faults!ProbesRight
  /\ part = "internal registers" =>
       Ipr!RegistersRead /\ Ipr!IsumRight /\ Ipr!ModesRight /\ Ipr!FormsRight
=============================================================================

------------------------------- MODULE MCProgress -------------------------------
(***************************************************************************)
(* What must come about, each part of the system in behaviours of its      *)
(* own, as "part" says: interrupts for a guest that serves them, by the    *)
(* controllers, the timer and the clock; what a serial port, the           *)
(* keyboard and mouse and the floppy hand to the guest; the picture on     *)
(* the screen; the start and stop of the threads; and a lock that          *)
(* several CPUs want.                                                      *)
(***************************************************************************)
EXTENDS Integers, Sequences

CONSTANTS
  Parts,     \* the parts of a run
  Callers,   \* the threads that call the interrupt controllers
  WorkFirst  \* the work of a CPU that is named before its controllers

ASSUME WorkAssumption == WorkFirst \subseteq {"pio", "dma", "scripts"}

VARIABLES
  part,
  picAsserted, picMask, picMode, picLine, picCall, picTmp, picLast,
  picBefore, picRequests, picServing,
  pitKind, pitCounter, pitMax, pitStatus, pitMode, pitPc, pitTmp, pitSt,
  pitCpu, pitCtmp, pitCst, pitLoads, pitBytes, pitClean, pitSince, pitInterval,
  toyNow, toyB, toyC, toyUip, toyRate, toyReads, toyHold, toyIndex, toyPort,
  toyGuest,
  serialInput, serialBatch, serialRing, serialW, serialR, serialIir,
  serialIer, serialPin, serialPc, serialGuest, serialBreakHit, serialStream,
  serialGot, serialCount, serialTorn, serialLapped,
  kbdS, kbdPins, kbdKeys, kbdGuest, kbdData, kbdSent, kbdAccepted, kbdGot,
  kbdDiscarded,
  floppyChannel, floppyMask, floppyParms, floppyRes, floppyDio,
  floppyCylinder, floppySeeking, floppyInterrupt, floppyDriver, floppyJob,
  floppyJobs, floppyMoved,
  vsMode, vsVideo, vsDirty, vsUpdated, vsSize, vsDrawing, vsPass, vsHand,
  vsCpu, vsAccesses, vsStale, vsOwed,
  thrOrder, thrMain, thrStops, thrStop, thrThread, thrDead, thrSem, thrReady,
  thrMaster, thrInProgress, thrExecuting, thrIo, thrAsked,
  llFlags, llAddress, llMutex, llPc, llBlock, llNext, llBefore, llOvertaken

picVars == <<picAsserted, picMask, picMode, picLine, picCall, picTmp,
             picLast, picBefore, picRequests, picServing>>
pitVars == <<pitKind, pitCounter, pitMax, pitStatus, pitMode, pitPc, pitTmp,
             pitSt, pitCpu, pitCtmp, pitCst, pitLoads, pitBytes, pitClean,
             pitSince, pitInterval>>
toyVars == <<toyNow, toyB, toyC, toyUip, toyRate, toyReads, toyHold,
             toyIndex, toyPort, toyGuest>>
serialVars == <<serialInput, serialBatch, serialRing, serialW, serialR,
                serialIir, serialIer, serialPin, serialPc, serialGuest,
                serialBreakHit, serialStream, serialGot, serialCount,
                serialTorn, serialLapped>>
kbdVars == <<kbdS, kbdPins, kbdKeys, kbdGuest, kbdData, kbdSent, kbdAccepted,
             kbdGot, kbdDiscarded>>
floppyVars == <<floppyChannel, floppyMask, floppyParms, floppyRes, floppyDio,
                floppyCylinder, floppySeeking, floppyInterrupt, floppyDriver,
                floppyJob, floppyJobs, floppyMoved>>
vsVars == <<vsMode, vsVideo, vsDirty, vsUpdated, vsSize, vsDrawing, vsPass,
            vsHand, vsCpu, vsAccesses, vsStale, vsOwed>>
thrVars == <<thrOrder, thrMain, thrStops, thrStop, thrThread, thrDead,
             thrSem, thrReady, thrMaster, thrInProgress, thrExecuting, thrIo, thrAsked>>
llVars == <<llFlags, llAddress, llMutex, llPc, llBlock, llNext, llBefore,
            llOvertaken>>

(* The interval timer and two devices of controller 1. *)
Pins == {<<0, 0>>, <<1, 4>>, <<1, 6>>}
Levels == {<<1, 6>>}
Pic == INSTANCE Pic WITH
  Pins <- Pins, Levels <- Levels, Threads <- Callers, Guest <- "served",
  MaxRequests <- 2, asserted <- picAsserted, mask <- picMask,
  mode <- picMode, line <- picLine, call <- picCall, tmp <- picTmp,
  last <- picLast, before <- picBefore, requests <- picRequests,
  serving <- picServing

(* Bytes of two bits, and a clock that takes off two. *)
Pit == INSTANCE Pit WITH
  Bytes <- {0, 3}, MaxLoads <- 1, Factor <- 2, Byte <- 4, kind <- pitKind,
  counter <- pitCounter, max <- pitMax, status <- pitStatus, mode <- pitMode,
  pc <- pitPc, tmp <- pitTmp, st <- pitSt, cpu <- pitCpu, ctmp <- pitCtmp,
  cst <- pitCst, loads <- pitLoads, bytes <- pitBytes, clean <- pitClean,
  since <- pitSince, interval <- pitInterval

(* Noon. *)
Hms(h, m, s) == [h |-> h, m |-> m, s |-> s]
ClockModes == {{"DM", "24"}, {"PIE"}, {"UIE", "SET"}}
Toy == INSTANCE Toy WITH
  Times <- <<Hms(11, 59, 59)>>, Modes <- ClockModes, Polls <- 2, Hold <- 2,
  now <- toyNow, b <- toyB, c <- toyC, uip <- toyUip, rate <- toyRate,
  reads <- toyReads, hold <- toyHold, index <- toyIndex, port <- toyPort,
  guest <- toyGuest

(* Streams with all tokens of the connection, one of them longer than the   *)
(* ring.                                                                    *)
Is(t) == [k |-> t, c |-> 0]
Char(c) == [k |-> "char", c |-> c]
Streams ==
  {<<<<Char(1), Is("lf"), Char(2), Is("iac")>>,
     <<Is("option"), Char(3), Is("subnegotiation"), Char(4)>>>>,
   <<<<Char(1), Char(2), Char(3)>>, <<Char(4), Char(5), Char(6)>>>>,
   <<<<Char(1), Is("nul"), Char(2)>>, <<Is("break"), Is("lf"), Is("ayt"), Is("command"), Is("break")>>>>}
Serial == INSTANCE Serial WITH
  Streams <- Streams, Size <- 3,
  Enables <- {{"receive"}, {"receive", "transmit"}}, input <- serialInput,
  batch <- serialBatch, ring <- serialRing, w <- serialW, r <- serialR,
  iir <- serialIir, ier <- serialIer, pin <- serialPin, pc <- serialPc,
  guest <- serialGuest, breakHit <- serialBreakHit, stream <- serialStream,
  got <- serialGot, count <- serialCount, torn <- serialTorn,
  lapped <- serialLapped

(* Two keys, and a command of each kind. *)
To(p, v) == [port |-> p, v |-> v]
Commands ==
  {To("60", v) : v \in {"poll", "on", "off"}} \cup {To(p, "-") : p \in {"aa", "20", "ad", "ae", "a8"}}
  \cup {To("d4", m) : m \in {"e9", "eb", "ee", "ff", "f3"}}
Kbd == INSTANCE Keyboard WITH
  Keys <- {<<2, 1>>}, Commands <- Commands, KbdElements <- 3, MouseSize <- 5,
  QSize <- 4, MaxCommands <- 2, s <- kbdS, pins <- kbdPins, keys <- kbdKeys,
  guest <- kbdGuest, data <- kbdData, sent <- kbdSent,
  accepted <- kbdAccepted, got <- kbdGot, discarded <- kbdDiscarded

(* Bytes of one bit, two sectors a track. *)
Addresses == {[page |-> <<0, 0>>, base |-> <<0, 0>>], [page |-> <<1, 0>>, base |-> <<0, 1>>]}
Floppy == INSTANCE Floppy WITH
  Byte <- 2, Eot <- 4, Addresses <- Addresses,
  Counts <- {<<0, 0>>, <<1, 1>>}, Chs <- {<<0, 0, 1>>, <<1, 1, 2>>},
  MaxJobs <- 2, channel <- floppyChannel, mask <- floppyMask,
  parms <- floppyParms, res <- floppyRes, dio <- floppyDio,
  cylinder <- floppyCylinder, seeking <- floppySeeking,
  interrupt <- floppyInterrupt, driver <- floppyDriver, job <- floppyJob,
  jobs <- floppyJobs, moved <- floppyMoved

(* Two tiles by two, 16 pixels wide. *)
Mode(k, s, d2, ds, st, of, c, w) ==
  [kind |-> k, shift |-> s, div2 |-> d2, dscan |-> ds, start |-> st, offset |-> of, compare |-> c, w |-> w, h |-> 4]
DrawnModes == {Mode("planar", 0, FALSE, FALSE, 4, 4, 1, 32), Mode("cga", 1, TRUE, FALSE, 0, 4, 9, 32)}
Vs == INSTANCE VgaScreen WITH
  XT <- 16, YT <- 2, NX <- 2, NY <- 2, Half <- 8, Line <- 4,
  Modes <- DrawnModes, Starts <- {4}, Offsets <- {5, 33}, MaxAccesses <- 2,
  mode <- vsMode, video <- vsVideo, dirty <- vsDirty, updated <- vsUpdated,
  size <- vsSize, drawing <- vsDrawing, pass <- vsPass, hand <- vsHand,
  cpu <- vsCpu, accesses <- vsAccesses, stale <- vsStale, owed <- vsOwed

(* The CPU named before the controllers it gives work to, and after them. *)
CpuFirst == <<"cpu", "ide", "sym", "poll">>
CpuLast == <<"ide", "poll", "sym", "cpu">>
WorkOf == [o \in {CpuFirst, CpuLast} |-> IF o = CpuFirst THEN WorkFirst ELSE {"pio", "dma", "scripts"}]
Thr == INSTANCE Threads WITH
  Orders <- {CpuFirst, CpuLast}, Work <- WorkOf, MaxStops <- 2, MaxWork <- 3,
  order <- thrOrder, main <- thrMain, stops <- thrStops, stop <- thrStop,
  thread <- thrThread, dead <- thrDead, sem <- thrSem, ready <- thrReady,
  master <- thrMaster,
  inProgress <- thrInProgress, executing <- thrExecuting, io <- thrIo,
  asked <- thrAsked

(* Two CPUs that lock two blocks. *)
Ll == INSTANCE LoadLocked WITH
  NumCPUs <- 2, Device <- {}, Block <- {"x", "y"}, flags <- llFlags,
  address <- llAddress, mutex <- llMutex, pc <- llPc, block <- llBlock,
  next <- llNext, before <- llBefore, overtaken <- llOvertaken

ProgressInit ==
  /\ part \in Parts
  /\ Pic!Init
  /\ part # "pit runs" => pitKind = "square"
  /\ Pit!Init
  /\ part # "toy polled" => toyB = {"PIE"}
  /\ Toy!Init
  /\ part # "serial" => serialIer = {"receive"} /\ serialInput = CHOOSE s \in Streams : TRUE
  /\ Serial!Init
  /\ Kbd!Init
  /\ part # "floppy" => floppySeeking = 0 /\ floppyInterrupt = FALSE
  /\ Floppy!Init
  /\ part # "vga drawn" => vsSize = <<0, 0>> /\ vsMode = CHOOSE m \in DrawnModes : TRUE
  /\ Vs!Init
  /\ part # "threads" => thrOrder = CpuFirst
  /\ Thr!Init
  /\ part # "locks" => llAddress = [c \in 0 .. 1 |-> "x"]
  /\ Ll!Init

(* "part" never changes; only the variables of its part do. *)
InPic ==
  UNCHANGED <<part, pitVars, toyVars, serialVars, kbdVars, floppyVars, vsVars,
              thrVars, llVars>>
InPit ==
  UNCHANGED <<part, picVars, toyVars, serialVars, kbdVars, floppyVars, vsVars,
              thrVars, llVars>>
InToy ==
  UNCHANGED <<part, picVars, pitVars, serialVars, kbdVars, floppyVars, vsVars,
              thrVars, llVars>>
InSerial ==
  UNCHANGED <<part, picVars, pitVars, toyVars, kbdVars, floppyVars, vsVars,
              thrVars, llVars>>
InKbd ==
  UNCHANGED <<part, picVars, pitVars, toyVars, serialVars, floppyVars, vsVars,
              thrVars, llVars>>
InFloppy ==
  UNCHANGED <<part, picVars, pitVars, toyVars, serialVars, kbdVars, vsVars,
              thrVars, llVars>>
InVs ==
  UNCHANGED <<part, picVars, pitVars, toyVars, serialVars, kbdVars, floppyVars,
              thrVars, llVars>>
InThr ==
  UNCHANGED <<part, picVars, pitVars, toyVars, serialVars, kbdVars, floppyVars,
              vsVars, llVars>>
InLl ==
  UNCHANGED <<part, picVars, pitVars, toyVars, serialVars, kbdVars, floppyVars,
              vsVars, thrVars>>
ProgressNext ==
  \/ part = "pic served" /\ InPic /\ Pic!Next
  \/ part = "pit runs" /\ InPit /\ Pit!Next
  \/ part = "toy polled" /\ InToy /\ Toy!Next
  \/ part = "serial" /\ InSerial /\ Serial!Next
  \/ part = "keyboard" /\ InKbd /\ Kbd!Next
  \/ part = "floppy" /\ InFloppy /\ Floppy!Next
  \/ part = "vga drawn" /\ InVs /\ Vs!Next
  \/ part = "threads" /\ InThr /\ Thr!Next
  \/ part = "locks" /\ InLl /\ Ll!Next

(* One fairness condition stands for that of several parts: the threads and *)
(* clocks of the devices, the routines of the guest, and what ends them.    *)
(* The threads that only look at StopThread are one of the second group.    *)
Threads ==
  \/ part = "pic served" /\ InPic /\ Pic!Step("cpu")
  \/ part = "pit runs" /\ InPit /\ Pit!Clock
  \/ part = "toy polled" /\ InToy /\ Toy!Poll
  \/ part = "serial" /\ InSerial /\ Serial!Thread
  \/ part = "keyboard" /\ InKbd /\ Kbd!Run
  \/ part = "floppy" /\ InFloppy /\ Floppy!Driver
  \/ part = "vga drawn" /\ InVs /\ Vs!Update
  \/ part = "threads" /\ InThr /\ (Thr!Main \/ \E c \in {"cpu", "ide", "sym"} : Thr!Thread(c))
Routines ==
  \/ part = "pic served" /\ InPic /\ Pic!ReadVector
  \/ part = "pit runs" /\ InPit /\ Pit!Completion
  \/ part = "serial" /\ InSerial /\ Serial!Guest
  \/ part = "keyboard" /\ InKbd /\ Kbd!Routine
  \/ part = "vga drawn" /\ InVs /\ Vs!Store
  \/ part = "threads" /\ InThr /\ Thr!Thread("poll")
Ends ==
  \/ part = "pic served" /\ InPic /\ Pic!EndService
  \/ part = "keyboard" /\ InKbd /\ Kbd!SendData

progressVars == <<part, picVars, pitVars, toyVars, serialVars, kbdVars, floppyVars,
                  vsVars, thrVars, llVars>>
ProgressSpec ==
  /\ ProgressInit /\ [][ProgressNext]_progressVars
  /\ WF_progressVars(Threads) /\ WF_progressVars(Routines) /\ WF_progressVars(Ends)

-----------------------------------------------------------------------------
(* The properties of the parts, stated in their modules.                     *)

(* A pending interrupt asserts line 55, also when a device calls from a     *)
(* thread of its own (pic_interrupt(), pic_write()).                        *)
LineCovers == part = "pic served" => Pic!LineCovers

(* A guest that ends each interrupt where it came from sees every request;  *)
(* the timer goes on interrupting, and a single count ends; an update of    *)
(* the clock begins and ends (pic_write(), pit_clock(), toy_write()).       *)
InterruptsCome ==
  /\ part = "pic served" => Pic!EveryRequestServed
  /\ part = "pit runs" => Pit!TimerRuns /\ Pit!OutputRises
  /\ part = "toy polled" => Toy!UpdatesHappen

(* The guest reads what was sent or pressed, in order and from whom it      *)
(* came, and a sector of the floppy goes where its reader wants it          *)
(* (receive(), periodic(), read_60(), send_data()).                         *)
InputRight ==
  /\ part = "serial" => Serial!ReadInOrder
  /\ part = "keyboard" => Kbd!KeysInOrder /\ Kbd!Attributed
  /\ part = "floppy" => Floppy!ReadExact /\ Floppy!NothingLeft

(* In the end it has read all of it, the floppy has done its commands, and  *)
(* the screen shows the picture (eval_interrupts(), execute(),              *)
(* get_status(), update()).                                                 *)
DevicesAnswer ==
  /\ part = "serial" => Serial!Emptied
  /\ part = "keyboard" => Kbd!AllRead
  /\ part = "floppy" => Floppy!CommandsEnd
  /\ part = "vga drawn" => Vs!PictureFollows

(* While the system runs every thread does, but for that of the IDE         *)
(* controller with a command left to do (start_threads()).                  *)
ThreadsRun == part = "threads" => Thr!AllRun

(* A stop of all threads ends, and what was being done goes on after it,    *)
(* unless the emulator fails or a command is lost (stop_threads()).         *)
ThreadsWork == part = "threads" => Thr!StopsEnd /\ Thr!WorkEnds

(* A stop ends whatever a controller is doing (stop_threads()).             *)
StopsEnd == part = "threads" => Thr!StopsEnd

(* Of CPUs that keep trying to lock one succeeds again and again            *)
(* (cpu_lock(), cpu_unlock()).                                              *)
SomeLockSucceeds == part = "locks" /\ Ll!Fairness => Ll!SomeoneSucceeds
=============================================================================

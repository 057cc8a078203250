-------------------------------- MODULE MCNic --------------------------------
(***************************************************************************)
(* The parts of CDEC21143, each checked by itself: they share no state but *)
(* what their modules say.  "part" says which one a behaviour is about.    *)
(***************************************************************************)
EXTENDS PacketQueue, TLC

CONSTANTS
  empty, small, big, jumbo,   \* frames
  eia,                        \* the interface
  RxRing, RxQueue, RxParts,   \* reception: its ring, its queue, the lengths of frames
  RxFrames, RxResetFrames,    \* bounds: frames that arrive, without and with resets
  TxRing, TxThreshold, TxLayouts, TxFrames    \* transmission

(* A frame is not laid out over more descriptors than there are.            *)
ASSUME NicAssumption ==
  /\ Frame # {}
  /\ RxRing \in Nat \ {0} /\ RxQueue \in Nat /\ RxParts \subseteq Nat \ {0}
  /\ RxFrames \in Nat /\ RxResetFrames \in Nat
  /\ TxRing \in Nat \ {0} /\ TxThreshold \in Nat /\ TxFrames \in Nat
  /\ TxLayouts \subseteq {"one", "both", "two", "chain", "setup"}
  /\ "two" \in TxLayouts => TxRing > 1

MCLength == (empty :> 0) @@ (small :> 1) @@ (big :> 2) @@ (jumbo :> 3)

VARIABLES
  part,
  rxSr, rxRing, rxCurAddr, rxCurrent, rxQueue, rxDescr, rxPc, rxNext, rxGot,
  rxArrived, rxAccepted,
  txSt, txMode, txRing, txCurAddr, txCurBuf, txSuspend, txIdling, txDescr,
  txAddr, txPc, txFill, txDemand, txQueued, txSent, txLooped,
  stCsr5, stInten, stRouted, stIrqWas, stPin, stRound, stTmp, stSampled,
  stEvents, stAccess, stLoaded, stQuiet,
  seSrom, seMii, seOp, seGot, seTransfers

rxVars == <<rxSr, rxRing, rxCurAddr, rxCurrent, rxQueue, rxDescr, rxPc,
            rxNext, rxGot, rxArrived, rxAccepted>>
txVars == <<txSt, txMode, txRing, txCurAddr, txCurBuf, txSuspend, txIdling,
            txDescr, txAddr, txPc, txFill, txDemand, txQueued, txSent,
            txLooped>>
stVars == <<stCsr5, stInten, stRouted, stIrqWas, stPin, stRound, stTmp,
            stSampled, stEvents, stAccess, stLoaded, stQuiet>>
seVars == <<seSrom, seMii, seOp, seGot, seTransfers>>

(* Reception, without resets and with them.                              *)
Rx == INSTANCE NicReceive WITH
  NIC <- {eia}, RingSize <- RxRing, QueueMax <- RxQueue, Parts <- RxParts,
  MaxFrames <- RxFrames, Resets <- "never", sr <- rxSr, ring <- rxRing,
  curAddr <- rxCurAddr, current <- rxCurrent, queue <- rxQueue,
  descr <- rxDescr, pc <- rxPc, next <- rxNext, got <- rxGot,
  arrived <- rxArrived, accepted <- rxAccepted
RxR == INSTANCE NicReceive WITH
  NIC <- {eia}, RingSize <- RxRing, QueueMax <- RxQueue, Parts <- RxParts,
  MaxFrames <- RxResetFrames, Resets <- "asleep", sr <- rxSr, ring <- rxRing,
  curAddr <- rxCurAddr, current <- rxCurrent, queue <- rxQueue,
  descr <- rxDescr, pc <- rxPc, next <- rxNext, got <- rxGot,
  arrived <- rxArrived, accepted <- rxAccepted

(* Transmission: every mode, and resets; a driver that repeats demands.     *)
Tx == INSTANCE NicTransmit WITH
  RingSize <- TxRing, Threshold <- TxThreshold, Layouts <- TxLayouts,
  Modes <- {"normal", "internal", "external"}, MaxFrames <- TxFrames,
  Repeats <- FALSE, Resets <- TRUE, st <- txSt, mode <- txMode,
  ring <- txRing, curAddr <- txCurAddr, curBuf <- txCurBuf,
  suspend <- txSuspend, idling <- txIdling, descr <- txDescr, addr <- txAddr,
  pc <- txPc, fill <- txFill, demand <- txDemand, queued <- txQueued,
  sent <- txSent, looped <- txLooped
TxP == INSTANCE NicTransmit WITH
  RingSize <- TxRing, Threshold <- TxThreshold,
  Layouts <- {"one", "two"} \cap TxLayouts, Modes <- {"normal"}, MaxFrames <- 3, Repeats <- TRUE, Resets <- FALSE,
  st <- txSt, mode <- txMode, ring <- txRing, curAddr <- txCurAddr,
  curBuf <- txCurBuf, suspend <- txSuspend, idling <- txIdling,
  descr <- txDescr, addr <- txAddr, pc <- txPc, fill <- txFill,
  demand <- txDemand, queued <- txQueued, sent <- txSent, looped <- txLooped

(* CSR5 with three events, and the serial protocols. *)
St == INSTANCE NicStatus WITH
  Normal <- {"RI", "TU"}, Abnormal <- {"LNPANC"}, MaxEvents <- 2,
  Masks <- {{}, {"RI", "TU", "LNPANC", "NIS", "AIS"}, {"RI", "AIS"}},
  csr5 <- stCsr5, inten <- stInten, routed <- stRouted, irqWas <- stIrqWas,
  pin <- stPin, round <- stRound, tmp <- stTmp, sampled <- stSampled,
  events <- stEvents, access <- stAccess, loaded <- stLoaded, quiet <- stQuiet
Se == INSTANCE NicSerial WITH
  SromAddresses <- {0, 41, 63}, MiiAddresses <- {0, 33, 1023},
  MaxTransfers <- 3, srom <- seSrom, mii <- seMii, op <- seOp, got <- seGot,
  transfers <- seTransfers

NicInit ==
  /\ part \in {"queue", "receive", "receive resets", "transmit", "transmit repeats",
              "status", "serial"}
  /\ IF part = "queue"
     THEN Init
     ELSE /\ packets = [s \in Slot |-> CHOOSE p \in Packet : TRUE]
          /\ head = 0 /\ tail = -1 /\ cnt = 0 /\ dropped = 0 /\ current = <<>>
  /\ Rx!Init /\ St!Init /\ Se!Init
  /\ Tx!Init /\ (part # "transmit" => txMode = "normal")

NicNext ==
  /\ UNCHANGED part
  /\ \/ part = "queue" /\ Next /\ UNCHANGED <<rxVars, txVars, stVars, seVars>>
     \/ part = "receive" /\ Rx!Next /\ UNCHANGED <<vars, txVars, stVars, seVars>>
     \/ part = "receive resets" /\ RxR!Next /\ UNCHANGED <<vars, txVars, stVars, seVars>>
     \/ part = "transmit" /\ Tx!Next /\ UNCHANGED <<vars, rxVars, stVars, seVars>>
     \/ part = "transmit repeats" /\ TxP!Next /\ UNCHANGED <<vars, rxVars, stVars, seVars>>
     \/ part = "status" /\ St!Next /\ UNCHANGED <<vars, rxVars, txVars, seVars>>
     \/ part = "serial" /\ Se!Next /\ UNCHANGED <<vars, rxVars, txVars, stVars>>

(* "part" never changes, so one fairness condition stands for that of each  *)
(* part: the network thread's, and those of the driver's and the CPU's      *)
(* steps.                                                                   *)
Threads ==
  \/ part = "receive" /\ Rx!ThreadStep(eia) /\ UNCHANGED <<txVars, stVars>>
  \/ part = "transmit repeats" /\ TxP!ThreadStep /\ UNCHANGED <<rxVars, stVars>>
  \/ part = "status" /\ St!Thread /\ UNCHANGED <<rxVars, txVars>>
Completions ==
  \/ part = "receive" /\ Rx!Reap(eia) /\ UNCHANGED <<txVars, stVars>>
  \/ part = "transmit repeats" /\ TxP!TxPoll /\ UNCHANGED <<rxVars, stVars>>
  \/ part = "status" /\ St!StoreStatus /\ UNCHANGED <<rxVars, txVars>>
Repetitions ==
  \/ part = "receive" /\ Rx!Restart(eia) /\ UNCHANGED <<txVars, stVars>>
  \/ part = "transmit repeats" /\ TxP!TxPollIdling /\ UNCHANGED <<rxVars, stVars>>

nicVars == <<part, vars, rxVars, txVars, stVars, seVars>>
NicSpec ==
  /\ NicInit
  /\ [][NicNext]_nicVars
  /\ WF_<<rxVars, txVars, stVars>>(Threads)
  /\ WF_<<rxVars, txVars, stVars>>(Completions)
  /\ WF_<<rxVars, txVars, stVars>>(Repetitions)

-----------------------------------------------------------------------------
(* The properties of the parts, stated in their modules.                     *)

(* dec21143_rx() and dec21143_tx() stay inside their buffers and only touch *)
(* descriptors they own; the counters of the queue agree.                   *)
DescriptorsOwned ==
  /\ TypeOK /\ TailFollows
  /\ part = "receive" => Rx!TypeOK
  /\ part = "transmit" => Tx!TypeOK
  /\ part \in {"receive", "receive resets"} => Rx!DescriptorOwned
  /\ part = "transmit" => Tx!OwnedUntilClosed

(* The driver receives the accepted frames in order and complete, and no part *)
(* of one twice, resets or not ...                                            *)
ReceivedInOrder ==
  /\ part = "receive" => Rx!InOrder
  /\ part = "receive resets" => Rx!NothingTwice

(* ... and all of them in the end.                                           *)
Delivered == part = "receive" => Rx!Delivered

(* What the driver queued is sent, as it was queued.                         *)
SentAsQueued == part = "transmit" => Tx!SentAsQueued

(* A driver that repeats its demand gets every frame sent.                   *)
QueuedIsSent == part = "transmit repeats" => TxP!QueuedIsSent

(* The interrupt line and the summary bits settle at the enabled events.     *)
EventsSettle == part = "status" => St!LineCatchesUp /\ St!SummaryCatchesUp

(* A word read from the SROM, or from the PHY, is the one asked for.         *)
SerialReads == part = "serial" => Se!SromReads /\ Se!MiiReads
=============================================================================

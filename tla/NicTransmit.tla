----------------------------- MODULE NicTransmit -----------------------------
(***************************************************************************)
(* The transmit path of CDEC21143: the driver fills descriptors, sets      *)
(* OWN and writes a poll demand to CSR1; the network thread polls,         *)
(* gathers the buffers of a frame and sends it, and suspends itself when   *)
(* it has found nothing for a while.  CSR5 is left to NicStatus.           *)
(*                                                                         *)
(* A frame is a sequence of pieces; how it lies in descriptors is its      *)
(* layout.                                                                 *)
(***************************************************************************)
EXTENDS Integers, SequencesExt

CONSTANTS
  RingSize,    \* descriptors of the ring
  Threshold,   \* tx.idling_threshold
  Layouts,     \* how the driver lays frames out
  Modes,       \* operating modes: CSR6<OM>
  MaxFrames,   \* bound: frames the driver sends between resets
  Repeats,     \* whether the driver repeats poll demands
  Resets       \* whether it resets the interface while the thread sleeps

Slot == 0 .. RingSize - 1
Null == RingSize   \* tx.cur_addr = 0

VARIABLES
  st,          \* CSR6<ST>, start transmit
  mode,        \* CSR6<OM>
  ring,        \* the guest's descriptors
  curAddr,     \* tx.cur_addr
  curBuf,      \* tx.cur_buf up to tx.cur_buf_len
  suspend, idling,
  descr, addr, \* the descriptor dec21143_tx() works on, and where it is
  pc,          \* the network thread
  fill,        \* the driver's next free descriptor
  demand,      \* the driver's write to CSR1: "due", "halfway" or "done"
  queued,      \* frames the driver has queued
  sent,        \* frames handed to pcap
  looped       \* frames handed to rx_queue
vars == <<st, mode, ring, curAddr, curBuf, suspend, idling, descr, addr, pc,
          fill, demand, queued, sent, looped>>
driverVars == <<fill, demand, queued>>

Unused == [own |-> FALSE, set |-> FALSE, fs |-> FALSE, ls |-> FALSE, ch |-> FALSE,
           buf1 |-> <<>>, buf2 |-> <<>>]

Init ==
  /\ st = TRUE /\ mode \in Modes
  /\ ring = [s \in Slot |-> Unused]
  /\ curAddr = 0 /\ curBuf = <<>>
  /\ suspend = FALSE /\ idling = 0
  /\ descr = Unused /\ addr = 0
  /\ pc = "poll"
  /\ fill = 0 /\ demand = "done"
  /\ queued = <<>> /\ sent = <<>> /\ looped = <<>>

-----------------------------------------------------------------------------
(* run(): with ST set, while (dec21143_tx()). *)
Poll ==
  /\ pc = "poll" /\ st
  /\ pc' = "fetch"
  /\ UNCHANGED <<st, mode, ring, curAddr, curBuf, suspend, idling, descr, addr,
                 driverVars, sent, looped>>

(* Mutant: the descriptor is returned before it has been read. *)
Fetch_Returns ==
  /\ pc = "fetch"
  /\ addr' = curAddr
  /\ IF suspend \/ curAddr = Null
     THEN pc' = "poll" /\ UNCHANGED <<descr, ring>>
     ELSE /\ pc' = "check" /\ descr' = ring[curAddr]
          /\ ring' = [ring EXCEPT ![curAddr].own = FALSE]
  /\ UNCHANGED <<st, mode, curAddr, curBuf, suspend, idling, driverVars, sent, looped>>

(* The descriptor at cur_addr is read, unless the process is suspended. *)
Fetch ==
  /\ pc = "fetch"
  /\ addr' = curAddr
  /\ IF suspend \/ curAddr = Null
     THEN pc' = "poll" /\ UNCHANGED descr
     ELSE pc' = "check" /\ descr' = ring[curAddr]
  /\ UNCHANGED <<st, mode, ring, curAddr, curBuf, suspend, idling, driverVars, sent, looped>>

(* Nothing to send: count, ... *)
Idle ==
  /\ pc = "check" /\ ~descr.own
  /\ IF idling > Threshold
     THEN suspend' = TRUE /\ pc' = "rest" /\ UNCHANGED idling
     ELSE idling' = idling + 1 /\ pc' = "poll" /\ UNCHANGED suspend
  /\ UNCHANGED <<st, mode, ring, curAddr, curBuf, descr, addr, driverVars, sent, looped>>

(* ... and suspend when it has been so for long. *)
Suspended ==
  /\ pc = "rest"
  /\ idling' = 0
  /\ pc' = "poll"
  /\ UNCHANGED <<st, mode, ring, curAddr, curBuf, suspend, descr, addr, driverVars, sent, looped>>

(* Mutant: the second buffer is forgotten. *)
Gathered_FirstOnly ==
  (IF descr.fs THEN <<>> ELSE curBuf)
  \o (IF descr.buf1 # <<>> THEN descr.buf1 ELSE descr.buf2)

(* tx.cur_buf with the buffers of this descriptor: the first one of the two  *)
(* that has a size, then the second unless its address is a chain.           *)
Gathered ==
  (IF descr.fs THEN <<>> ELSE curBuf)
  \o (IF descr.buf1 # <<>> THEN descr.buf1 ELSE descr.buf2)
  \o (IF descr.ch THEN <<>> ELSE descr.buf2)

(* A setup packet programs the filter; a frame that is complete is sent, or  *)
(* looped back.                                                              *)
Process ==
  /\ pc = "check" /\ descr.own
  /\ curAddr' = (addr + 1) % RingSize
  /\ IF descr.set
     THEN UNCHANGED <<curBuf, sent, looped>>
     ELSE /\ curBuf' = IF descr.ls THEN <<>> ELSE Gathered
          /\ sent' = IF descr.ls /\ mode # "internal" THEN Append(sent, Gathered) ELSE sent
          /\ looped' = IF descr.ls /\ mode # "normal" THEN Append(looped, Gathered) ELSE looped
  /\ pc' = "close"
  /\ UNCHANGED <<st, mode, ring, suspend, idling, descr, addr, driverVars>>

(* The descriptor is written back without OWN. *)
Close ==
  /\ pc = "close"
  /\ ring' = [ring EXCEPT ![addr] = [descr EXCEPT !.own = FALSE]]
  /\ pc' = "fetch"
  /\ UNCHANGED <<st, mode, curAddr, curBuf, suspend, idling, descr, addr, driverVars, sent, looped>>

-----------------------------------------------------------------------------
(* The pieces of the k-th frame, and its descriptors, by layout. *)
Given(set, fs, ls, ch, buf1, buf2) ==
  [own |-> TRUE, set |-> set, fs |-> fs, ls |-> ls, ch |-> ch, buf1 |-> buf1, buf2 |-> buf2]
Descriptors(layout, k) ==
  CASE layout = "one" -> <<Given(FALSE, TRUE, TRUE, FALSE, <<<<k, 1>>>>, <<>>)>>
    [] layout = "both" -> <<Given(FALSE, TRUE, TRUE, FALSE, <<<<k, 1>>>>, <<<<k, 2>>>>)>>
    [] layout = "second" -> <<Given(FALSE, TRUE, TRUE, FALSE, <<>>, <<<<k, 1>>>>)>>
    [] layout = "two" -> <<Given(FALSE, TRUE, FALSE, FALSE, <<<<k, 1>>>>, <<>>),
                           Given(FALSE, FALSE, TRUE, FALSE, <<<<k, 2>>>>, <<>>)>>
    [] layout = "chain" -> <<Given(FALSE, TRUE, TRUE, TRUE, <<<<k, 1>>>>, <<>>)>>
    [] layout = "setup" -> <<Given(TRUE, FALSE, FALSE, FALSE, <<>>, <<>>)>>
Pieces(layout, k) ==
  IF layout \in {"both", "two"} THEN <<<<k, 1>>, <<k, 2>>>> ELSE <<<<k, 1>>>>

(* The driver gives a frame to the interface and owes it a poll demand. *)
Queue(layout) ==
  LET k == Len(queued) + 1
      ds == Descriptors(layout, k) IN
  /\ st /\ k <= MaxFrames /\ demand = "done"
  /\ \A i \in DOMAIN ds : ~ring[(fill + i - 1) % RingSize].own
  /\ ring' = [s \in Slot |-> LET i == 1 + ((s - fill) % RingSize) IN
                             IF i \in DOMAIN ds THEN ds[i] ELSE ring[s]]
  /\ fill' = (fill + Len(ds)) % RingSize
  /\ queued' = IF layout = "setup" THEN queued ELSE Append(queued, Pieces(layout, k))
  /\ demand' = "due"
  /\ UNCHANGED <<st, mode, curAddr, curBuf, suspend, idling, descr, addr, pc, sent, looped>>

(* Mutant: a poll demand only clears TU. *)
TxPoll_KeepsSuspended ==
  /\ demand = "due" \/ (Repeats /\ demand = "done" /\ \E s \in Slot : ring[s].own)
  /\ demand' = "halfway"
  /\ UNCHANGED <<st, mode, ring, curAddr, curBuf, suspend, idling, descr, addr, pc, fill,
                 queued, sent, looped>>

(* nic_write() of CSR1 in the CPU's thread: leave suspension, ... *)
TxPoll ==
  /\ demand = "due" \/ (Repeats /\ demand = "done" /\ \E s \in Slot : ring[s].own)
  /\ suspend' = FALSE
  /\ demand' = "halfway"
  /\ UNCHANGED <<st, mode, ring, curAddr, curBuf, idling, descr, addr, pc, fill, queued, sent, looped>>

(* ... and suspend again soon if there is nothing. *)
TxPollIdling ==
  /\ demand = "halfway"
  /\ idling' = Threshold
  /\ demand' = "done"
  /\ UNCHANGED <<st, mode, ring, curAddr, curBuf, suspend, descr, addr, pc, fill, queued, sent, looped>>

(* CSR6: the driver stops and starts transmission. *)
WriteOpMode ==
  /\ st' = ~st
  /\ curAddr # Null
  /\ UNCHANGED <<mode, ring, curAddr, curBuf, suspend, idling, descr, addr, pc, driverVars, sent, looped>>

(* CSR0<SWR>: ResetNIC() leaves the part of a frame in tx.cur_buf. *)
ResetNIC ==
  /\ Resets /\ pc = "poll" /\ demand = "done"
  /\ st' = FALSE
  /\ curAddr' = Null
  /\ suspend' = FALSE
  /\ UNCHANGED <<mode, ring, curBuf, idling, descr, addr, pc, driverVars, sent, looped>>

(* The driver builds its ring anew, writes CSR4 and sets ST. *)
Restart ==
  /\ curAddr = Null
  /\ curAddr' = 0 /\ fill' = 0
  /\ ring' = [s \in Slot |-> Unused]
  /\ queued' = <<>> /\ sent' = <<>> /\ looped' = <<>>
  /\ st' = TRUE
  /\ mode' \in Modes
  /\ UNCHANGED <<curBuf, suspend, idling, descr, addr, pc, demand>>

ThreadStep == Poll \/ Fetch \/ Idle \/ Suspended \/ Process \/ Close
Next ==
  \/ ThreadStep
  \/ \E layout \in Layouts : Queue(layout)
  \/ TxPoll \/ TxPollIdling
  \/ WriteOpMode \/ ResetNIC \/ Restart

(* The thread polls for ever; the driver completes its writes to CSR1, and   *)
(* one that repeats poll demands keeps doing so while a descriptor waits.    *)
Fairness ==
  /\ WF_vars(ThreadStep)
  /\ WF_vars(TxPoll) /\ WF_vars(TxPollIdling)
Spec == Init /\ [][Next]_vars
FairSpec == Spec /\ Fairness

-----------------------------------------------------------------------------
Piece == (1 .. MaxFrames) \X {1, 2}
Descriptor == [own : BOOLEAN, set : BOOLEAN, fs : BOOLEAN, ls : BOOLEAN, ch : BOOLEAN,
               buf1 : Seq(Piece), buf2 : Seq(Piece)]
TypeOK ==
  /\ st \in BOOLEAN /\ mode \in Modes
  /\ ring \in [Slot -> Descriptor] /\ descr \in Descriptor
  /\ curAddr \in Slot \cup {Null} /\ addr \in Slot \cup {Null}
  /\ curBuf \in Seq(Piece)
  /\ suspend \in BOOLEAN /\ idling \in 0 .. Threshold + 1
  /\ pc \in {"poll", "fetch", "check", "rest", "close"}
  /\ fill \in Slot /\ demand \in {"due", "halfway", "done"}
  /\ queued \in Seq(Seq(Piece)) /\ sent \in Seq(Seq(Piece)) /\ looped \in Seq(Seq(Piece))

(* What goes out is what the driver queued: the frames in their order, each   *)
(* with its own pieces, once; in internal loopback nothing goes out, and in   *)
(* both loopbacks the frames come back.                                       *)
SentAsQueued ==
  /\ IF mode = "internal" THEN sent = <<>> ELSE IsPrefix(sent, queued)
  /\ IF mode = "normal" THEN looped = <<>> ELSE IsPrefix(looped, queued)

(* A descriptor belongs to the interface from the moment it has seen OWN      *)
(* until it closes it, so that the driver does not refill what is being read. *)
OwnedUntilClosed ==
  (pc = "check" /\ descr.own) \/ pc = "close" => addr \in Slot /\ ring[addr].own

(* "Transmit a packet, if the guest OS has marked a descriptor as containing  *)
(* data to transmit": while transmission stays started, every frame that was  *)
(* queued goes out.                                                           *)
Pending == \E s \in Slot : ring[s].own
QueuedIsSent == <>[]st => []<>~Pending
=============================================================================

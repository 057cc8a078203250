------------------------------ MODULE NicReceive ------------------------------
(***************************************************************************)
(* The receive path of CDEC21143: packets from the wire wait in            *)
(* rx_queue, and the network thread copies them, a descriptor at a time,   *)
(* into buffers that the guest's driver has given to it by setting OWN.    *)
(*                                                                         *)
(* dec21143_rx() keeps the descriptor it works on in a static array,       *)
(* which all network interfaces of the emulator share; each has a          *)
(* thread.                                                                 *)
(*                                                                         *)
(* A frame is an identity and a number of parts, a part being what fits    *)
(* the buffers of one descriptor.  rx_queue is the sequence that           *)
(* PacketQueue shows it to implement.  CSR5 is left to NicStatus.          *)
(***************************************************************************)
EXTENDS Integers, SequencesExt

CONSTANTS
  NIC,         \* the network interfaces
  RingSize,    \* descriptors of a ring
  QueueMax,    \* "queue" of the configuration
  Parts,       \* the lengths frames can have
  MaxFrames,   \* bound: frames that arrive at an interface
  Resets       \* when the driver resets the interface: "never", "asleep"
               \* (while its thread sleeps between two polls) or "any" time

Slot == 0 .. RingSize - 1
Null == -1    \* rx.cur_addr = 0: no descriptor of the ring
Incoming == [id : 1 .. MaxFrames, len : Parts]
NoFrame == [id |-> 0, len |-> 0]
NoPart == [id |-> 0, part |-> 0]

VARIABLES
  sr,          \* CSR6<SR>, start receive
  ring,        \* the guest's descriptors, and what their buffers hold
  curAddr,     \* rx.cur_addr
  current,     \* rx.current: the frame, and the parts used
  queue,       \* rx_queue
  descr,       \* the static descriptor: a copy of which, and its new rdes0
  pc,          \* the network threads
  next,        \* the descriptor the driver looks at next
  got,         \* what the driver has received, segment by segment
  arrived,     \* frames that came over the wire
  accepted     \* frames that add_tail() took since the last (re)start
vars == <<sr, ring, curAddr, current, queue, descr, pc, next, got, arrived, accepted>>

(* A descriptor that the driver has given to the interface. *)
Empty == [own |-> TRUE, fs |-> FALSE, ls |-> FALSE, data |-> NoPart]

Init ==
  /\ sr = [n \in NIC |-> TRUE]
  /\ ring = [n \in NIC |-> [s \in Slot |-> Empty]]
  /\ curAddr = [n \in NIC |-> 0]
  /\ current = [n \in NIC |-> [frame |-> NoFrame, used |-> 0]]
  /\ queue = [n \in NIC |-> <<>>]
  /\ descr = [own |-> FALSE, nic |-> CHOOSE n \in NIC : TRUE, slot |-> 0, fs |-> FALSE]
  /\ pc = [n \in NIC |-> "poll"]
  /\ next = [n \in NIC |-> 0]
  /\ got = [n \in NIC |-> <<>>]
  /\ arrived = [n \in NIC |-> 0]
  /\ accepted = [n \in NIC |-> <<>>]

Go(n, label) == pc' = [pc EXCEPT ![n] = label]
Consumed(n) == current[n].used >= current[n].frame.len

-----------------------------------------------------------------------------
(* Mutant: add_tail() notices too late that the queue is full. *)
Capture_OneLate(n, parts) ==
  /\ pc[n] = "poll" /\ sr[n]
  /\ arrived[n] < MaxFrames
  /\ arrived' = [arrived EXCEPT ![n] = @ + 1]
  /\ LET f == [id |-> arrived[n] + 1, len |-> parts] IN
     /\ Len(queue[n]) <= QueueMax
     /\ queue' = [queue EXCEPT ![n] = Append(@, f)]
     /\ accepted' = [accepted EXCEPT ![n] = Append(@, f)]
  /\ UNCHANGED <<sr, ring, curAddr, current, descr, pc, next, got>>

(* receive_process(): what pcap has goes to the queue, which drops the       *)
(* frames it has no room for.                                                *)
Capture(n, parts) ==
  /\ pc[n] = "poll" /\ sr[n]
  /\ arrived[n] < MaxFrames
  /\ arrived' = [arrived EXCEPT ![n] = @ + 1]
  /\ LET f == [id |-> arrived[n] + 1, len |-> parts] IN
     IF Len(queue[n]) < QueueMax
     THEN /\ queue' = [queue EXCEPT ![n] = Append(@, f)]
          /\ accepted' = [accepted EXCEPT ![n] = Append(@, f)]
     ELSE UNCHANGED <<queue, accepted>>
  /\ UNCHANGED <<sr, ring, curAddr, current, descr, pc, next, got>>

(* ... while (dec21143_rx()): go on while something was processed. *)
Poll(n) ==
  /\ pc[n] = "poll" /\ sr[n]
  /\ Go(n, "take")
  /\ UNCHANGED <<sr, ring, curAddr, current, queue, descr, next, got, arrived, accepted>>

(* Mutant: a frame of which a part is left gives way to the next one. *)
Take_Always(n) ==
  /\ pc[n] = "take"
  /\ IF queue[n] = <<>>
     THEN Go(n, "poll") /\ UNCHANGED <<current, queue>>
     ELSE /\ Go(n, "fetch")
          /\ current' = [current EXCEPT ![n] = [frame |-> Head(queue[n]), used |-> 0]]
          /\ queue' = [queue EXCEPT ![n] = Tail(@)]
  /\ UNCHANGED <<sr, ring, curAddr, descr, next, got, arrived, accepted>>

(* A new frame is taken from the queue when the current one is finished. *)
Take(n) ==
  /\ pc[n] = "take"
  /\ IF Consumed(n) /\ queue[n] = <<>>
     THEN Go(n, "poll") /\ UNCHANGED <<current, queue>>
     ELSE /\ Go(n, "fetch")
          /\ IF Consumed(n)
             THEN /\ current' = [current EXCEPT ![n] = [frame |-> Head(queue[n]), used |-> 0]]
                  /\ queue' = [queue EXCEPT ![n] = Tail(@)]
             ELSE UNCHANGED <<current, queue>>
  /\ UNCHANGED <<sr, ring, curAddr, descr, next, got, arrived, accepted>>

(* do_pci_read() of the descriptor into the static array; outside the ring   *)
(* there may be anything.                                                    *)
Fetch(n) ==
  /\ pc[n] = "fetch"
  /\ \E own \in IF curAddr[n] \in Slot THEN {ring[n][curAddr[n]].own} ELSE BOOLEAN :
       descr' = [own |-> own, nic |-> n, slot |-> curAddr[n], fs |-> FALSE]
  /\ Go(n, "check")
  /\ UNCHANGED <<sr, ring, curAddr, current, queue, next, got, arrived, accepted>>

(* Mutant: the descriptor is used whoever owns it. *)
Check_NoTest(n) ==
  /\ pc[n] = "check"
  /\ Go(n, "transfer")
  /\ descr' = [descr EXCEPT !.own = FALSE, !.fs = (current[n].used = 0)]
  /\ UNCHANGED <<sr, ring, curAddr, current, queue, next, got, arrived, accepted>>

(* Mutant: the receive process suspends until a poll demand. *)
Check_Suspends(n) ==
  /\ pc[n] = "check"
  /\ IF descr.own
     THEN /\ Go(n, "transfer")
          /\ descr' = [descr EXCEPT !.own = FALSE, !.fs = (current[n].used = 0)]
     ELSE Go(n, "suspended") /\ UNCHANGED descr
  /\ UNCHANGED <<sr, ring, curAddr, current, queue, next, got, arrived, accepted>>

(* Not OWN: buffer unavailable, until the next poll.  Otherwise rdes0 is     *)
(* built anew, with FS on the first part of a frame.                         *)
Check(n) ==
  /\ pc[n] = "check"
  /\ IF descr.own
     THEN /\ Go(n, "transfer")
          /\ descr' = [descr EXCEPT !.own = FALSE, !.fs = (current[n].used = 0)]
     ELSE Go(n, "poll") /\ UNCHANGED descr
  /\ UNCHANGED <<sr, ring, curAddr, current, queue, next, got, arrived, accepted>>

(* The part goes to the buffers the static descriptor points to. *)
Transfer(n) ==
  /\ pc[n] = "transfer"
  /\ ring' = IF descr.slot \in Slot
             THEN [ring EXCEPT ![descr.nic][descr.slot].data =
                     [id |-> current[n].frame.id, part |-> current[n].used + 1]]
             ELSE ring
  /\ current' = [current EXCEPT ![n].used = @ + 1]
  /\ Go(n, "close")
  /\ UNCHANGED <<sr, curAddr, queue, descr, next, got, arrived, accepted>>

(* CSR3 as the driver has programmed it, or as a reset has left it. *)
RxList(n) == IF sr[n] THEN 0 ELSE Null

(* Mutant: the ring does not end. *)
Following_NoEnd(n, a) == IF a \in Slot THEN a + 1 ELSE a

(* The address after a descriptor: the base of the ring behind the one with  *)
(* ER, the next in memory behind the others.                                 *)
Following(n, a) ==
  IF descr.slot = RingSize - 1 THEN RxList(n) ELSE IF a \in Slot THEN a + 1 ELSE a

(* rdes0 is written back to the descriptor at cur_addr, with LS behind the   *)
(* last part; that gives it to the driver.  cur_addr moves on.               *)
Close(n) ==
  /\ pc[n] = "close"
  /\ ring' = IF curAddr[n] \in Slot
             THEN [ring EXCEPT ![n][curAddr[n]] =
                     [@ EXCEPT !.own = FALSE, !.fs = descr.fs, !.ls = Consumed(n)]]
             ELSE ring
  /\ curAddr' = [curAddr EXCEPT ![n] = Following(n, @)]
  /\ Go(n, "take")
  /\ UNCHANGED <<sr, current, queue, descr, next, got, arrived, accepted>>

-----------------------------------------------------------------------------
(* The driver takes the segments of descriptors it owns and returns them. *)
Reap(n) ==
  /\ sr[n]
  /\ ~ring[n][next[n]].own
  /\ got' = [got EXCEPT ![n] = Append(@, ring[n][next[n]])]
  /\ ring' = [ring EXCEPT ![n][next[n]] = Empty]
  /\ next' = [next EXCEPT ![n] = (@ + 1) % RingSize]
  /\ UNCHANGED <<sr, curAddr, current, queue, descr, pc, arrived, accepted>>

(* CSR0<SWR>: ResetNIC() clears the registers and the addresses of the      *)
(* rings, not rx_queue and not rx.current, whatever the thread is doing.    *)
ResetNIC(n) ==
  /\ sr[n]
  /\ Resets = "any" \/ (Resets = "asleep" /\ pc[n] = "poll")
  /\ sr' = [sr EXCEPT ![n] = FALSE]
  /\ curAddr' = [curAddr EXCEPT ![n] = Null]
  /\ UNCHANGED <<ring, current, queue, descr, pc, next, got, arrived, accepted>>

(* The driver builds its ring anew, writes CSR3 and sets SR. *)
Restart(n) ==
  /\ ~sr[n]
  /\ sr' = [sr EXCEPT ![n] = TRUE]
  /\ ring' = [ring EXCEPT ![n] = [s \in Slot |-> Empty]]
  /\ curAddr' = [curAddr EXCEPT ![n] = 0]
  /\ next' = [next EXCEPT ![n] = 0]
  /\ got' = [got EXCEPT ![n] = <<>>]
  /\ accepted' = [accepted EXCEPT ![n] = <<>>]
  /\ UNCHANGED <<current, queue, descr, pc, arrived>>

ThreadStep(n) == Poll(n) \/ Take(n) \/ Fetch(n) \/ Check(n) \/ Transfer(n) \/ Close(n)
Next ==
  \/ \E n \in NIC : ThreadStep(n) \/ Reap(n) \/ ResetNIC(n) \/ Restart(n)
  \/ \E n \in NIC, parts \in Parts : Capture(n, parts)

(* The thread polls for ever, and the driver goes on taking what is there. *)
Fairness == \A n \in NIC : WF_vars(ThreadStep(n)) /\ WF_vars(Reap(n)) /\ WF_vars(Restart(n))
Spec == Init /\ [][Next]_vars
FairSpec == Spec /\ Fairness

-----------------------------------------------------------------------------
TypeOK ==
  /\ sr \in [NIC -> BOOLEAN]
  /\ ring \in [NIC -> [Slot -> [own : BOOLEAN, fs : BOOLEAN, ls : BOOLEAN,
                                data : [id : 0 .. MaxFrames, part : Nat]]]]
  /\ curAddr \in [NIC -> -1 .. RingSize]
  /\ current \in [NIC -> [frame : Incoming \cup {NoFrame}, used : Nat]]
  /\ queue \in [NIC -> Seq(Incoming)]
  /\ \A n \in NIC : Len(queue[n]) <= QueueMax
  /\ descr \in [own : BOOLEAN, nic : NIC, slot : -1 .. RingSize, fs : BOOLEAN]
  /\ pc \in [NIC -> {"poll", "take", "fetch", "check", "transfer", "close"}]
  /\ next \in [NIC -> Slot]

(* "Only use descriptors owned by the 21143": while the thread writes to a    *)
(* buffer and closes its descriptor, the descriptor is of its own ring and    *)
(* still belongs to the interface, so that the driver is not reading it.      *)
DescriptorOwned ==
  \A n \in NIC : pc[n] \in {"transfer", "close"} =>
    /\ descr.nic = n /\ descr.slot = curAddr[n]
    /\ curAddr[n] \in Slot /\ ring[n][curAddr[n]].own

(* The segments of a frame, as the driver should receive them. *)
SegmentOf(f, i) ==
  [own |-> FALSE, fs |-> i = 1, ls |-> i = f.len, data |-> [id |-> f.id, part |-> i]]
SegmentsOf(f) == [i \in 1 .. f.len |-> SegmentOf(f, i)]
Expected(frames) == FoldSeq(LAMBDA f, rest : SegmentsOf(f) \o rest, <<>>, frames)

(* No part reaches the driver twice or behind a later one, resets or not. *)
Before(d, e) == d.id < e.id \/ (d.id = e.id /\ d.part < e.part)
NothingTwice ==
  \A n \in NIC : \A i \in 2 .. Len(got[n]) : Before(got[n][i - 1].data, got[n][i].data)

(* The driver receives the accepted frames in their order, every part once,   *)
(* with FS on the first and LS on the last, however full its ring gets: what  *)
(* it has received is Expected(accepted) up to some part, since nothing comes *)
(* before a part that should come behind it.                                  *)
InOrder ==
  /\ NothingTwice
  /\ \A n \in NIC : \A i \in DOMAIN got[n] :
       /\ \E k \in DOMAIN accepted[n] : \E p \in 1 .. accepted[n][k].len :
            got[n][i] = SegmentOf(accepted[n][k], p)
       /\ \A k \in DOMAIN accepted[n] : \A p \in 1 .. accepted[n][k].len :
            LET part == SegmentOf(accepted[n][k], p) IN
            Before(part.data, got[n][i].data) => \E j \in 1 .. i - 1 : got[n][j] = part

(* Every frame that was accepted reaches the driver, although no poll demand  *)
(* (CSR2) tells the interface of the descriptors that were returned to it.    *)
Delivered == <>[](\A n \in NIC : got[n] = Expected(accepted[n]))
=============================================================================

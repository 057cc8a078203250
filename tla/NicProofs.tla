------------------------------- MODULE NicProofs -------------------------------
(***************************************************************************)
(* The network interface: what the run Nic checks of its parts on a small  *)
(* instance, for any lengths of its rings and queues, any frames and any   *)
(* number of them.  First the packet queue, then the receive and transmit  *)
(* paths, whose own theorems are those of NicReceiveProofs and             *)
(* NicTransmitProofs.                                                      *)
(***************************************************************************)
EXTENDS MCNic, SequenceTheorems, TLAPS

-----------------------------------------------------------------------------
(* CPacketQueue is a first-in first-out queue.                               *)
IInv == TypeOK /\ TailFollows

(* The index arithmetic never leaves the array. *)
LEMMA AfterInRange == ASSUME NEW i \in -1 .. Max - 1 PROVE After(i) \in Slot
  BY MaxAssumption DEF After, Slot

LEMMA IndexInRange ==
  ASSUME TypeOK, NEW i \in 1 .. Max PROVE Index(i) \in Slot
  BY MaxAssumption DEF TypeOK, Index, Slot

(* Different places of the queue are different slots of the array. *)
LEMMA IndexInjective ==
  ASSUME TypeOK, NEW i \in 1 .. Max, NEW j \in 1 .. Max, i # j
  PROVE  Index(i) # Index(j)
  BY MaxAssumption DEF TypeOK, Index, Slot

LEMMA NewPacket ==
  ASSUME NEW f \in Frame, NEW b \in BOOLEAN, ~MustDrop(f)
  PROVE  [frame |-> f, len |-> Length[f] + (IF b THEN CrcSize ELSE 0), used |-> 0]
           \in Packet
<1>1. Length[f] \in 1 .. MaxRaw BY LengthAssumption DEF MustDrop
<1>2. Length[f] + (IF b THEN CrcSize ELSE 0) \in 1 .. MaxRaw + CrcSize
  BY <1>1, LengthAssumption
<1>3. QED BY <1>2 DEF Packet

LEMMA InitInv == Init => IInv
<1>1. Init => TypeOK BY MaxAssumption, LengthAssumption DEF Init, TypeOK, Slot
<1>2. Init => TailFollows
  BY MaxAssumption DEF Init, TailFollows, After, Index
<1>3. QED BY <1>1, <1>2 DEF IInv

LEMMA NextInv == IInv /\ [Next]_vars => IInv'
<1> SUFFICES ASSUME IInv, [Next]_vars PROVE IInv'
  OBVIOUS
<1> USE MaxAssumption DEF IInv
<1>1. ASSUME NEW f \in Frame, AddTail_Dropped(f) PROVE IInv'
  BY <1>1, LengthAssumption
  DEF AddTail_Dropped, TypeOK, TailFollows, After, Index
<1>2. ASSUME NEW f \in Frame, NEW b \in BOOLEAN, AddTail(f, b) PROVE IInv'
  <2>1. cnt \in 0 .. Max - 1 BY <1>2 DEF AddTail, MustDrop, TypeOK
  <2>2. tail' \in Slot BY <1>2, AfterInRange DEF AddTail, TypeOK
  <2>3. packets' \in [Slot -> Packet]
    BY <1>2, NewPacket DEF AddTail, TypeOK
  <2>4. TypeOK' BY <1>2, <2>1, <2>2, <2>3 DEF AddTail, TypeOK, Slot
  <2>5. tail' = Index(cnt + 1) BY <1>2 DEF AddTail, TailFollows
  <2>6. TailFollows'
    BY <1>2, <2>1, <2>5 DEF AddTail, TypeOK, TailFollows, After, Index, Slot
  <2>7. QED BY <2>4, <2>6
<1>3. CASE GetHead
  <2>1. head' \in Slot BY <1>3, AfterInRange DEF GetHead, TypeOK, Slot
  <2>2. current' \in Packet BY <1>3 DEF GetHead, TypeOK
  <2>3. TypeOK' BY <1>3, <2>1, <2>2 DEF GetHead, TypeOK
  <2>4. TailFollows'
    BY <1>3 DEF GetHead, TypeOK, TailFollows, After, Index, Slot
  <2>5. QED BY <2>3, <2>4
<1>4. CASE FlushQueue
  BY <1>4 DEF FlushQueue, TypeOK, TailFollows, After, Index, Slot
<1>5. CASE UNCHANGED vars
  BY <1>5 DEF vars, TypeOK, TailFollows, After, Index
<1>6. QED BY <1>1, <1>2, <1>3, <1>4, <1>5 DEF Next

(* The counters and the packets of CPacketQueue stay in range: no add_tail()  *)
(* writes behind the array or behind the frame of a packet.                   *)
THEOREM QueueTypeCorrect == Spec => []TypeOK
<1>1. IInv => TypeOK BY DEF IInv
<1>2. QED BY InitInv, NextInv, <1>1, PTL DEF Spec

(* head, tail and cnt always describe the same queue.                         *)
THEOREM CountersAgree == Spec => []TailFollows
<1>1. IInv => TailFollows BY DEF IInv
<1>2. QED BY InitInv, NextInv, <1>1, PTL DEF Spec

-----------------------------------------------------------------------------
LEMMA ContentsSeq == ASSUME TypeOK PROVE Contents \in Seq(Packet) /\ Len(Contents) = cnt
<1>1. cnt \in Nat BY DEF TypeOK
<1>2. \A i \in 1 .. cnt : packets[Index(i)] \in Packet
  <2> SUFFICES ASSUME NEW i \in 1 .. cnt PROVE packets[Index(i)] \in Packet
    OBVIOUS
  <2>1. i \in 1 .. Max BY MaxAssumption DEF TypeOK
  <2>2. QED BY <2>1, IndexInRange DEF TypeOK
<1>3. QED BY <1>1, <1>2 DEF Contents

LEMMA InitMaps == Init => Abstract!Init
<1>1. ASSUME Init PROVE Contents = <<>>
  BY <1>1 DEF Init, Contents
<1>2. QED BY <1>1 DEF Init, Abstract!Init

(* add_tail() appends to the queue ... *)
LEMMA AddTailMaps ==
  ASSUME IInv, NEW f \in Frame, NEW b \in BOOLEAN, AddTail(f, b)
  PROVE  \E p \in Packet : Abstract!Accept(p)
<1> DEFINE p == [frame |-> f, len |-> Length[f] + (IF b THEN CrcSize ELSE 0), used |-> 0]
<1>1. p \in Packet BY NewPacket DEF AddTail
<1>2. TypeOK /\ TailFollows BY DEF IInv
<1>3. cnt \in 0 .. Max - 1 /\ Max \in Nat
  BY <1>2, MaxAssumption DEF AddTail, MustDrop, TypeOK
<1>4. packets' = [packets EXCEPT ![Index(cnt + 1)] = p]
  BY <1>2 DEF AddTail, TailFollows
<1> HIDE DEF p
<1>5. cnt' = cnt + 1 /\ head' = head BY DEF AddTail
<1>6. \A i : Index(i)' = Index(i) BY <1>5 DEF Index
<1>7. \A i \in 1 .. cnt : packets'[Index(i)] = packets[Index(i)]
  <2> SUFFICES ASSUME NEW i \in 1 .. cnt PROVE packets'[Index(i)] = packets[Index(i)]
    OBVIOUS
  <2>1. i \in 1 .. Max /\ cnt + 1 \in 1 .. Max /\ i # cnt + 1 BY <1>3
  <2>2. Index(i) # Index(cnt + 1) BY <2>1, <1>2, IndexInjective
  <2>3. QED BY <2>2, <2>1, <1>2, <1>4, IndexInRange DEF TypeOK
<1>8. packets'[Index(cnt + 1)] = p
  <2>1. cnt + 1 \in 1 .. Max BY <1>3
  <2>2. Index(cnt + 1) \in Slot BY <2>1, <1>2, IndexInRange
  <2>3. QED BY <2>2, <1>4, <1>2 DEF TypeOK
<1>9. Contents' = [i \in 1 .. cnt + 1 |-> packets'[Index(i)]]
  BY <1>5, <1>6 DEF Contents
<1>10. Contents' = Append(Contents, p)
  <2>1. Len(Contents) = cnt /\ Contents \in Seq(Packet) BY <1>2, ContentsSeq
  <2>2. /\ Append(Contents, p) \in Seq(Packet)
        /\ Len(Append(Contents, p)) = cnt + 1
        /\ \A i \in 1 .. cnt : Append(Contents, p)[i] = Contents[i]
        /\ Append(Contents, p)[cnt + 1] = p
    BY <2>1, <1>1, AppendProperties
  <2>3. \A i \in 1 .. cnt : Contents[i] = packets[Index(i)] /\ Contents[i] \in Packet
    BY <2>1, ElementOfSeq DEF Contents
  <2>4. \A i \in 1 .. cnt + 1 : Contents'[i] = Append(Contents, p)[i]
    BY <1>3, <1>7, <1>8, <1>9, <2>2, <2>3
  <2>5. \A i \in 1 .. cnt + 1 : packets'[Index(i)] \in Packet
    BY <1>1, <1>3, <1>7, <1>8, <2>3
  <2>6. Contents' \in Seq(Packet) /\ Len(Contents') = cnt + 1
    BY <1>3, <1>9, <2>5
  <2>7. QED BY <2>2, <2>4, <2>6, SeqEqual
<1>11. Len(Contents) < Max BY <1>2, <1>3, ContentsSeq
<1>12. UNCHANGED <<dropped, current>> BY DEF AddTail
<1>13. QED BY <1>1, <1>10, <1>11, <1>12 DEF Abstract!Accept

(* ... and get_head() takes from its head. *)
LEMMA GetHeadMaps == ASSUME IInv, GetHead PROVE Abstract!Get
<1>1. TypeOK /\ cnt \in 1 .. Max /\ head \in Slot /\ Max \in Nat
  BY MaxAssumption DEF IInv, TypeOK, GetHead
<1>2. Len(Contents) = cnt /\ Contents \in Seq(Packet) BY <1>1, ContentsSeq
<1>3. Contents # <<>> BY <1>1, <1>2
<1>4. Head(Contents) = packets[head]
  <2>1. Index(1) = head BY <1>1 DEF Index, Slot
  <2>2. QED BY <2>1, <1>1, <1>2, <1>3 DEF Contents
<1>5. Contents' = Tail(Contents)
  <2>1. cnt' = cnt - 1 /\ packets' = packets /\ head' = After(head)
    BY DEF GetHead
  <2>2. \A i \in 1 .. cnt - 1 : Index(i)' = Index(i + 1)
    BY <1>1, <2>1 DEF Index, After, Slot
  <2>3. Contents' = [i \in 1 .. cnt - 1 |-> packets[Index(i + 1)]]
    BY <2>1, <2>2 DEF Contents
  <2>4. /\ Tail(Contents) \in Seq(Packet)
        /\ Len(Tail(Contents)) = cnt - 1
        /\ \A i \in 1 .. cnt - 1 : Tail(Contents)[i] = Contents[i + 1]
    BY <1>1, <1>2, <1>3, HeadTailProperties
  <2>5. \A i \in 1 .. cnt - 1 :
          Contents[i + 1] = packets[Index(i + 1)] /\ Contents[i + 1] \in Packet
    BY <1>1, <1>2, ElementOfSeq DEF Contents
  <2>6. Contents' \in Seq(Packet) /\ Len(Contents') = cnt - 1
    BY <1>1, <2>3, <2>5
  <2>7. \A i \in 1 .. cnt - 1 : Contents'[i] = Tail(Contents)[i]
    BY <2>3, <2>4, <2>5
  <2>8. QED BY <2>4, <2>6, <2>7, SeqEqual
<1>6. current' = Head(Contents) /\ dropped' = dropped BY <1>4 DEF GetHead
<1>7. QED BY <1>3, <1>5, <1>6 DEF Abstract!Get

LEMMA StepMaps ==
  IInv /\ [Next]_vars => [Abstract!Next]_<<Contents, dropped, current>>
<1> SUFFICES ASSUME IInv, [Next]_vars
             PROVE  [Abstract!Next]_<<Contents, dropped, current>>
  OBVIOUS
<1>1. ASSUME NEW f \in Frame, AddTail_Dropped(f) PROVE Abstract!Refuse
  <2>1. UNCHANGED <<packets, head, cnt, current>> BY <1>1 DEF AddTail_Dropped
  <2>2. Contents' = Contents BY <2>1 DEF Contents, Index
  <2>3. QED BY <1>1, <2>1, <2>2 DEF AddTail_Dropped, Abstract!Refuse
<1>2. CASE FlushQueue
  <2>1. Contents' = <<>> BY <1>2 DEF FlushQueue, Contents
  <2>2. Abstract!Flush BY <1>2, <2>1 DEF FlushQueue, Abstract!Flush
  <2>3. QED BY <2>2 DEF Abstract!Next
<1>3. CASE UNCHANGED vars
  BY <1>3 DEF vars, Contents, Index
<1>4. QED
  BY <1>1, <1>2, <1>3, AddTailMaps, GetHeadMaps DEF Next, Abstract!Next

(* The ring with head, tail and cnt implements a first-in first-out queue:    *)
(* no packet that add_tail() accepted is lost, duplicated or overtaken.       *)
THEOREM Implements == Spec => ImplementsFifo
<1>1. Init /\ [][Next]_vars => Abstract!Init /\ [][Abstract!Next]_<<Contents, dropped, current>>
  BY InitInv, NextInv, InitMaps, StepMaps, PTL
<1>2. QED BY <1>1 DEF Spec, ImplementsFifo, Abstract!Spec

(* The other parts of the interface leave the queue alone.                    *)
LEMMA FollowsQueue == NicSpec => Spec
<1>1. NicInit => Init
  <2>1. \E p : p \in Packet
    <3>1. PICK f : f \in Frame
      BY NicAssumption
    <3>2. [frame |-> f, len |-> 1, used |-> 0] \in Packet
      BY <3>1, LengthAssumption DEF Packet
    <3> QED BY <3>2
  <2>2. (CHOOSE p \in Packet : TRUE) \in Packet
    BY <2>1
  <2> QED BY <2>2 DEF NicInit, Init
<1>2. [NicNext]_nicVars => [Next]_vars
  BY DEF NicNext, nicVars, vars
<1> QED BY <1>1, <1>2, PTL DEF NicSpec, Spec

(* The interface's queue is that first-in first-out queue.                    *)
THEOREM QueueIsFifo == NicSpec => ImplementsFifo
BY FollowsQueue, Implements

-----------------------------------------------------------------------------
(* The receive path, without resets and with them.                            *)
RxProof == INSTANCE NicReceiveProofs WITH
  NIC <- {eia}, RingSize <- RxRing, QueueMax <- RxQueue, Parts <- RxParts,
  MaxFrames <- RxFrames, Resets <- "never", sr <- rxSr, ring <- rxRing,
  curAddr <- rxCurAddr, current <- rxCurrent, queue <- rxQueue,
  descr <- rxDescr, pc <- rxPc, next <- rxNext, got <- rxGot,
  arrived <- rxArrived, accepted <- rxAccepted
RxRProof == INSTANCE NicReceiveProofs WITH
  NIC <- {eia}, RingSize <- RxRing, QueueMax <- RxQueue, Parts <- RxParts,
  MaxFrames <- RxResetFrames, Resets <- "asleep", sr <- rxSr, ring <- rxRing,
  curAddr <- rxCurAddr, current <- rxCurrent, queue <- rxQueue,
  descr <- rxDescr, pc <- rxPc, next <- rxNext, got <- rxGot,
  arrived <- rxArrived, accepted <- rxAccepted

(* While the part is "receive" the interface makes the steps of Rx.            *)
LEMMA FollowsRx == NicSpec /\ part = "receive" => RxProof!Spec /\ [](part = "receive")
<1>1. NicInit => RxProof!Init
  <2>1. Rx!Init => RxProof!Init
    BY Zenon
    DEF Rx!Init, RxProof!Init, Rx!Slot, RxProof!Slot, Rx!Empty, RxProof!Empty,
        Rx!NoFrame, RxProof!NoFrame, Rx!NoPart, RxProof!NoPart
  <2> QED BY <2>1 DEF NicInit
<1>2. part = "receive" /\ [NicNext]_nicVars => [RxProof!Next]_(RxProof!vars)
  <2>1. Rx!Next => RxProof!Next
    BY Zenon
    DEF Rx!Next, RxProof!Next, Rx!ThreadStep, RxProof!ThreadStep, Rx!Poll,
        RxProof!Poll, Rx!Take, RxProof!Take, Rx!Fetch, RxProof!Fetch,
        Rx!Check, RxProof!Check, Rx!Transfer, RxProof!Transfer, Rx!Close,
        RxProof!Close, Rx!Reap, RxProof!Reap, Rx!ResetNIC, RxProof!ResetNIC,
        Rx!Restart, RxProof!Restart, Rx!Capture, RxProof!Capture, Rx!Go,
        RxProof!Go, Rx!Consumed, RxProof!Consumed, Rx!Following,
        RxProof!Following, Rx!RxList, RxProof!RxList, Rx!Slot, RxProof!Slot,
        Rx!Empty, RxProof!Empty, Rx!NoPart, RxProof!NoPart, Rx!Null,
        RxProof!Null
  <2>2. part = "receive" /\ NicNext => Rx!Next
    BY DEF NicNext
  <2>3. UNCHANGED nicVars => UNCHANGED RxProof!vars
    BY DEF nicVars, rxVars, RxProof!vars
  <2> QED BY <2>1, <2>2, <2>3
<1>3. part = "receive" /\ [NicNext]_nicVars => (part = "receive")'
  BY DEF NicNext, nicVars
<1> QED BY <1>1, <1>2, <1>3, PTL DEF NicSpec, RxProof!Spec

(* ... and while it is "receive resets" those of RxR.                          *)
LEMMA FollowsRxR ==
  NicSpec /\ part = "receive resets" => RxRProof!Spec /\ [](part = "receive resets")
<1>1. NicInit => RxRProof!Init
  <2>1. Rx!Init => RxRProof!Init
    BY Zenon
    DEF Rx!Init, RxRProof!Init, Rx!Slot, RxRProof!Slot, Rx!Empty,
        RxRProof!Empty, Rx!NoFrame, RxRProof!NoFrame, Rx!NoPart,
        RxRProof!NoPart
  <2> QED BY <2>1 DEF NicInit
<1>2. part = "receive resets" /\ [NicNext]_nicVars => [RxRProof!Next]_(RxRProof!vars)
  <2>1. RxR!Next => RxRProof!Next
    BY Zenon
    DEF RxR!Next, RxRProof!Next, RxR!ThreadStep, RxRProof!ThreadStep, RxR!Poll,
        RxRProof!Poll, RxR!Take, RxRProof!Take, RxR!Fetch, RxRProof!Fetch,
        RxR!Check, RxRProof!Check, RxR!Transfer, RxRProof!Transfer, RxR!Close,
        RxRProof!Close, RxR!Reap, RxRProof!Reap, RxR!ResetNIC,
        RxRProof!ResetNIC, RxR!Restart, RxRProof!Restart, RxR!Capture,
        RxRProof!Capture, RxR!Go, RxRProof!Go, RxR!Consumed,
        RxRProof!Consumed, RxR!Following, RxRProof!Following, RxR!RxList,
        RxRProof!RxList, RxR!Slot, RxRProof!Slot, RxR!Empty, RxRProof!Empty,
        RxR!NoPart, RxRProof!NoPart, RxR!Null, RxRProof!Null
  <2>2. part = "receive resets" /\ NicNext => RxR!Next
    BY DEF NicNext
  <2>3. UNCHANGED nicVars => UNCHANGED RxRProof!vars
    BY DEF nicVars, rxVars, RxRProof!vars
  <2> QED BY <2>1, <2>2, <2>3
<1>3. part = "receive resets" /\ [NicNext]_nicVars => (part = "receive resets")'
  BY DEF NicNext, nicVars
<1> QED BY <1>1, <1>2, <1>3, PTL DEF NicSpec, RxRProof!Spec

-----------------------------------------------------------------------------
(* The transmit path.                                                         *)
TxProof == INSTANCE NicTransmitProofs WITH
  RingSize <- TxRing, Threshold <- TxThreshold, Layouts <- TxLayouts,
  Modes <- {"normal", "internal", "external"}, MaxFrames <- TxFrames,
  Repeats <- FALSE, Resets <- TRUE, st <- txSt, mode <- txMode,
  ring <- txRing, curAddr <- txCurAddr, curBuf <- txCurBuf,
  suspend <- txSuspend, idling <- txIdling, descr <- txDescr, addr <- txAddr,
  pc <- txPc, fill <- txFill, demand <- txDemand, queued <- txQueued,
  sent <- txSent, looped <- txLooped

(* While the part is "transmit" the interface makes the steps of Tx.           *)
LEMMA FollowsTx == NicSpec /\ part = "transmit" => TxProof!Spec /\ [](part = "transmit")
<1>1. NicInit => TxProof!Init
  <2>1. Tx!Init => TxProof!Init
    BY Zenon
    DEF Tx!Init, TxProof!Init, Tx!Slot, TxProof!Slot, Tx!Unused, TxProof!Unused
  <2> QED BY <2>1 DEF NicInit
<1>2. part = "transmit" /\ [NicNext]_nicVars => [TxProof!Next]_(TxProof!vars)
  <2>1. Tx!Next => TxProof!Next
    BY Zenon
    DEF Tx!Next, TxProof!Next, Tx!ThreadStep, TxProof!ThreadStep, Tx!Poll,
        TxProof!Poll, Tx!Fetch, TxProof!Fetch, Tx!Idle, TxProof!Idle,
        Tx!Suspended, TxProof!Suspended, Tx!Process, TxProof!Process,
        Tx!Close, TxProof!Close, Tx!Queue, TxProof!Queue, Tx!TxPoll,
        TxProof!TxPoll, Tx!TxPollIdling, TxProof!TxPollIdling, Tx!WriteOpMode,
        TxProof!WriteOpMode, Tx!ResetNIC, TxProof!ResetNIC, Tx!Restart,
        TxProof!Restart, Tx!Gathered, TxProof!Gathered, Tx!Given,
        TxProof!Given, Tx!Descriptors, TxProof!Descriptors, Tx!Pieces,
        TxProof!Pieces, Tx!Slot, TxProof!Slot, Tx!Null, TxProof!Null,
        Tx!Unused, TxProof!Unused, Tx!driverVars, TxProof!driverVars
  <2>2. part = "transmit" /\ NicNext => Tx!Next
    BY DEF NicNext
  <2>3. UNCHANGED nicVars => UNCHANGED TxProof!vars
    BY DEF nicVars, txVars, TxProof!vars
  <2> QED BY <2>1, <2>2, <2>3
<1>3. part = "transmit" /\ [NicNext]_nicVars => (part = "transmit")'
  BY DEF NicNext, nicVars
<1> QED BY <1>1, <1>2, <1>3, PTL DEF NicSpec, TxProof!Spec

-----------------------------------------------------------------------------
(* The part that a behaviour is about stays the same.                         *)
LEMMA PartStays ==
  /\ NicSpec /\ ~(part = "receive") => [](~(part = "receive"))
  /\ NicSpec /\ ~(part = "receive resets") => [](~(part = "receive resets"))
  /\ NicSpec /\ ~(part = "transmit") => [](~(part = "transmit"))
<1>1. ~(part = "receive") /\ [NicNext]_nicVars => (~(part = "receive"))'
  BY DEF NicNext, nicVars
<1>2. ~(part = "receive resets") /\ [NicNext]_nicVars => (~(part = "receive resets"))'
  BY DEF NicNext, nicVars
<1>3. ~(part = "transmit") /\ [NicNext]_nicVars => (~(part = "transmit"))'
  BY DEF NicNext, nicVars
<1> QED BY <1>1, <1>2, <1>3, PTL DEF NicSpec

(* The hypotheses of the parts' theorems, from the interface's.               *)
LEMMA PartAssumptions ==
  /\ RxProof!Bounds /\ RxProof!Quiet
  /\ RxRProof!Bounds /\ RxRProof!Quiet
  /\ TxProof!Bounds /\ TxProof!Drivable
BY NicAssumption
DEF RxProof!Bounds, RxProof!Quiet, RxRProof!Bounds, RxRProof!Quiet, TxProof!Bounds,
    TxProof!Drivable

(* dec21143_rx() and dec21143_tx() only touch descriptors and buffers that    *)
(* belong to the interface, and the counters of the queue agree.              *)
THEOREM DescriptorsSafe == NicSpec => []DescriptorsOwned
<1>1. RxProof!Spec => []RxProof!Typed /\ []RxProof!DescriptorOwned
  BY PartAssumptions, RxProof!TypeCorrect, RxProof!DescriptorsOwned
<1>2. RxRProof!Spec => []RxRProof!DescriptorOwned
  BY PartAssumptions, RxRProof!DescriptorsOwned
<1>3. TxProof!Spec => []TxProof!TypeOK /\ []TxProof!OwnedUntilClosed
  BY PartAssumptions, TxProof!TypeCorrect, TxProof!DescriptorsKept
<1>4. NicSpec => []TypeOK /\ []TailFollows
  BY FollowsQueue, QueueTypeCorrect, CountersAgree, PTL
<1>5. /\ TypeOK /\ TailFollows
      /\ part = "receive" /\ RxProof!Typed /\ RxProof!DescriptorOwned
      => DescriptorsOwned
  <2>1. RxProof!Typed => Rx!TypeOK
    <3>1. RxProof!TypeOK => Rx!TypeOK
      BY Zenon
      DEF RxProof!TypeOK, Rx!TypeOK, RxProof!Slot, Rx!Slot, RxProof!Incoming, Rx!Incoming,
          RxProof!NoFrame, Rx!NoFrame
    <3> QED BY <3>1 DEF RxProof!Typed
  <2>2. RxProof!DescriptorOwned => Rx!DescriptorOwned
    BY Zenon DEF RxProof!DescriptorOwned, Rx!DescriptorOwned, RxProof!Slot, Rx!Slot
  <2> QED BY <2>1, <2>2 DEF DescriptorsOwned
<1>6. TypeOK /\ TailFollows /\ part = "receive resets" /\ RxRProof!DescriptorOwned
      => DescriptorsOwned
  <2>1. RxRProof!DescriptorOwned => Rx!DescriptorOwned
    BY Zenon DEF RxRProof!DescriptorOwned, Rx!DescriptorOwned, RxRProof!Slot, Rx!Slot
  <2> QED BY ZenonT(60), <2>1 DEF DescriptorsOwned
<1>7. TypeOK /\ TailFollows /\ part = "transmit" /\ TxProof!TypeOK /\ TxProof!OwnedUntilClosed
      => DescriptorsOwned
  <2>1. TxProof!TypeOK => Tx!TypeOK
    BY Zenon
    DEF TxProof!TypeOK, Tx!TypeOK, TxProof!Slot, Tx!Slot, TxProof!Null, Tx!Null,
        TxProof!Piece, Tx!Piece, TxProof!Descriptor, Tx!Descriptor
  <2>2. TxProof!OwnedUntilClosed => Tx!OwnedUntilClosed
    BY Zenon DEF TxProof!OwnedUntilClosed, Tx!OwnedUntilClosed, TxProof!Slot, Tx!Slot
  <2> QED BY <2>1, <2>2 DEF DescriptorsOwned
<1>8. /\ TypeOK /\ TailFollows
      /\ ~(part = "receive") /\ ~(part = "receive resets") /\ ~(part = "transmit")
      => DescriptorsOwned
  BY DEF DescriptorsOwned
<1> QED
  BY <1>1, <1>2, <1>3, <1>4, <1>5, <1>6, <1>7, <1>8, FollowsRx, FollowsRxR, FollowsTx,
     PartStays, PTL

(* What the driver received is what the queue accepted, in that order, every  *)
(* part once; if the interface is reset, still no part twice.                 *)
THEOREM FramesReceived == NicSpec => []ReceivedInOrder
<1>1. RxProof!Spec => []RxProof!InOrder
  BY PartAssumptions, RxProof!FramesReceivedInOrder
<1>2. RxRProof!Spec => []RxRProof!NothingTwice
  BY PartAssumptions, RxRProof!PartsReceivedOnce
<1>3. RxProof!InOrder /\ part = "receive" => ReceivedInOrder
  <2>1. RxProof!InOrder => Rx!InOrder
    BY Zenon
    DEF RxProof!InOrder, Rx!InOrder, RxProof!NothingTwice, Rx!NothingTwice,
        RxProof!Before, Rx!Before, RxProof!SegmentOf, Rx!SegmentOf
  <2> QED BY <2>1 DEF ReceivedInOrder
<1>4. RxRProof!NothingTwice /\ part = "receive resets" => ReceivedInOrder
  <2>1. RxRProof!NothingTwice => Rx!NothingTwice
    BY Zenon DEF RxRProof!NothingTwice, Rx!NothingTwice, RxRProof!Before, Rx!Before
  <2> QED BY <2>1 DEF ReceivedInOrder
<1>5. ~(part = "receive") /\ ~(part = "receive resets") => ReceivedInOrder
  BY DEF ReceivedInOrder
<1> QED
  BY <1>1, <1>2, <1>3, <1>4, <1>5, FollowsRx, FollowsRxR, PartStays, PTL

(* What the interface sends, or loops back, is what the driver queued, in the *)
(* same order and each frame whole.                                           *)
THEOREM FramesSent == NicSpec => []SentAsQueued
<1>1. TxProof!Spec => []TxProof!SentAsQueued
  BY PartAssumptions, TxProof!FramesSentAsQueued
<1>2. TxProof!SentAsQueued => SentAsQueued
  BY Zenon
  DEF SentAsQueued, TxProof!SentAsQueued, Tx!SentAsQueued, TxProof!IsPrefix, Tx!IsPrefix
<1>3. ~(part = "transmit") => SentAsQueued
  BY DEF SentAsQueued
<1> QED BY <1>1, <1>2, <1>3, FollowsTx, PartStays, PTL
=============================================================================

----------------------------- MODULE PacketQueue -----------------------------
(***************************************************************************)
(* CPacketQueue (Ethernet.cpp): the receive queue of the network           *)
(* interface, an array used as a ring with a head, a tail and a count.     *)
(*                                                                         *)
(* A frame is abstracted to its identity and its length; adding the CRC    *)
(* makes it CrcSize longer.                                                *)
(***************************************************************************)
EXTENDS Integers, Sequences

CONSTANTS
  Frame,      \* frames offered to the queue
  Length,     \* Length[f]: packet_len
  MaxRaw,     \* ETH_MAX_PACKET_RAW: the longest frame without its CRC
  CrcSize,    \* 4
  Max,        \* max: "queue" of the configuration file
  DropBound   \* bound on the statistics

ASSUME MaxAssumption == Max \in Nat \ {0}
ASSUME LengthAssumption ==
  /\ Length \in [Frame -> Nat]
  /\ MaxRaw \in Nat \ {0} /\ CrcSize \in Nat /\ DropBound \in Nat

Packet == [frame : Frame, len : 1 .. MaxRaw + CrcSize, used : {0}]
Slot == 0 .. Max - 1

VARIABLES
  packets,    \* the array
  head, tail, cnt,
  dropped,    \* packets lost
  current     \* what get_head() copied out last
vars == <<packets, head, tail, cnt, dropped, current>>

Init ==
  /\ packets \in [Slot -> Packet]   \* new eth_packet[max]: not initialised
  /\ head = 0 /\ tail = -1 /\ cnt = 0
  /\ dropped = 0
  /\ current = <<>>

(* Mutant: a full queue is noticed one packet too late. *)
MustDrop_OneLate(f) == cnt > Max \/ Length[f] < 1 \/ Length[f] > MaxRaw

MustDrop(f) == cnt >= Max \/ Length[f] < 1 \/ Length[f] > MaxRaw

AddTail_Dropped(f) ==
  /\ MustDrop(f)
  /\ dropped < DropBound
  /\ dropped' = dropped + 1
  /\ UNCHANGED <<packets, head, tail, cnt, current>>

(* The index after i: both ends of the ring wrap. *)
After(i) == IF i + 1 >= Max THEN 0 ELSE i + 1

AddTail(f, needCrc) ==
  /\ ~MustDrop(f)
  /\ tail' = After(tail)
  /\ packets' = [packets EXCEPT ![After(tail)] =
       [frame |-> f, len |-> Length[f] + (IF needCrc THEN CrcSize ELSE 0), used |-> 0]]
  /\ cnt' = cnt + 1
  /\ UNCHANGED <<head, dropped, current>>

(* Mutant: the count is not reduced when the head wraps. *)
GetHead_WrapKeepsCount ==
  /\ cnt > 0
  /\ current' = packets[head]
  /\ head' = After(head)
  /\ cnt' = IF head + 1 >= Max THEN cnt ELSE cnt - 1
  /\ UNCHANGED <<packets, tail, dropped>>

GetHead ==
  /\ cnt > 0
  /\ current' = packets[head]
  /\ head' = After(head)
  /\ cnt' = cnt - 1
  /\ UNCHANGED <<packets, tail, dropped>>

(* Mutant: the tail is not reset. *)
FlushQueue_KeepsTail ==
  /\ cnt' = 0 /\ head' = 0
  /\ UNCHANGED <<packets, tail, dropped, current>>

FlushQueue ==
  /\ cnt' = 0 /\ head' = 0 /\ tail' = -1
  /\ UNCHANGED <<packets, dropped, current>>

Next ==
  \/ \E f \in Frame : AddTail_Dropped(f) \/ \E needCrc \in BOOLEAN : AddTail(f, needCrc)
  \/ GetHead
  \/ FlushQueue

Spec == Init /\ [][Next]_vars

-----------------------------------------------------------------------------
(* The packets in the queue are the cnt ones from head on.                   *)
Index(i) == IF head + i <= Max THEN head + i - 1 ELSE head + i - 1 - Max
Contents == [i \in 1 .. cnt |-> packets[Index(i)]]

TypeOK ==
  /\ packets \in [Slot -> Packet]
  /\ head \in Slot /\ tail \in -1 .. Max - 1 /\ cnt \in 0 .. Max
  /\ dropped \in 0 .. DropBound
  /\ current \in Packet \cup {<<>>}

(* The three counters agree: a packet is added in the slot behind the        *)
(* cnt-th from head.                                                         *)
TailFollows == After(tail) = Index(cnt + 1)

(* Packets leave the ring in the order they came, none twice, none           *)
(* overwritten before it was taken, and every refusal is counted.            *)
Abstract == INSTANCE Fifo WITH queue <- Contents, lost <- dropped, taken <- current
ImplementsFifo == Abstract!Spec
=============================================================================

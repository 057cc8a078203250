--------------------------------- MODULE Fifo ---------------------------------
(***************************************************************************)
(* What a packet queue promises: packets come out once each and in the     *)
(* order in which they were accepted, and a packet that is refused         *)
(* because the queue is full, or because its length is no frame's, is      *)
(* counted.                                                                *)
(***************************************************************************)
EXTENDS Naturals, Sequences

CONSTANTS Packet, Max, DropBound

VARIABLES queue, lost, taken

Init == queue = <<>> /\ lost = 0 /\ taken = <<>>

Accept(p) ==
  /\ Len(queue) < Max
  /\ queue' = Append(queue, p)
  /\ UNCHANGED <<lost, taken>>

Refuse ==
  /\ lost < DropBound
  /\ lost' = lost + 1
  /\ UNCHANGED <<queue, taken>>

Get ==
  /\ queue # <<>>
  /\ taken' = Head(queue)
  /\ queue' = Tail(queue)
  /\ UNCHANGED lost

Flush ==
  /\ queue' = <<>>
  /\ UNCHANGED <<lost, taken>>

Next == (\E p \in Packet : Accept(p)) \/ Refuse \/ Get \/ Flush

Spec == Init /\ [][Next]_<<queue, lost, taken>>
=============================================================================

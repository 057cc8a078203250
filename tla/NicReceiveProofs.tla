--------------------------- MODULE NicReceiveProofs ---------------------------
(***************************************************************************)
(* What the receive path promises for any ring, queue and frames, while    *)
(* dec21143_rx()'s static descriptor serves a single interface, which is   *)
(* reset, if at all, when its thread sleeps.                               *)
(***************************************************************************)
EXTENDS NicReceive, TLAPS

Bounds ==
  /\ NIC # {}
  /\ RingSize \in Nat \ {0} /\ QueueMax \in Nat /\ MaxFrames \in Nat
  /\ Parts \subseteq Nat \ {0}
Quiet == Resets \in {"never", "asleep"}

-----------------------------------------------------------------------------
Piece == [id : 0 .. MaxFrames, part : Nat]
Segment == [own : BOOLEAN, fs : BOOLEAN, ls : BOOLEAN, data : Piece]
Typed ==
  /\ TypeOK
  /\ got \in [NIC -> Seq(Segment)]
  /\ arrived \in [NIC -> 0 .. MaxFrames]
  /\ accepted \in [NIC -> Seq(Incoming)]

(* The thread and its descriptor: from the check of OWN to the write that     *)
(* clears it, the static descriptor is that of cur_addr.                      *)
OwnInv(n) ==
  /\ IF sr[n] THEN curAddr[n] \in Slot ELSE pc[n] = "poll"
  /\ pc[n] \in {"check", "transfer", "close"} => descr.nic = n /\ descr.slot = curAddr[n]
  /\ pc[n] = "check" /\ descr.own => ring[n][curAddr[n]].own
  /\ pc[n] \in {"transfer", "close"} => ring[n][curAddr[n]].own

-----------------------------------------------------------------------------
(* The ring: the driver owns the descriptors from its next one up to          *)
(* cur_addr; if these are the same it owns all of them or none.               *)
Filled(n, s) == ~ring[n][s].own
RingInv(n) ==
  sr[n] =>
    /\ next[n] < curAddr[n] =>
         \A s \in Slot : Filled(n, s) <=> next[n] <= s /\ s < curAddr[n]
    /\ curAddr[n] < next[n] =>
         \A s \in Slot : Filled(n, s) <=> next[n] <= s \/ s < curAddr[n]
    /\ next[n] = curAddr[n] => \A s, t \in Slot : Filled(n, s) <=> Filled(n, t)

(* How far a descriptor is from the driver's next.                            *)
Rank(n, s) == IF next[n] <= s THEN s - next[n] ELSE s - next[n] + RingSize

(* The part that is closed next, or has just been copied.                     *)
Coming(n) ==
  [id |-> current[n].frame.id,
   part |-> IF pc[n] = "close" THEN current[n].used ELSE current[n].used + 1]

(* Frames wait in the order in which they arrived, behind the current one.    *)
QueueInv(n) ==
  /\ current[n].frame.id <= arrived[n]
  /\ \A i \in DOMAIN queue[n] : current[n].frame.id < queue[n][i].id /\ queue[n][i].id <= arrived[n]
  /\ \A i, j \in DOMAIN queue[n] : i < j => queue[n][i].id < queue[n][j].id

(* What the driver has, what waits for it in the ring, and what is coming     *)
(* are in order.                                                              *)
OrderInv(n) ==
  /\ \A i, j \in DOMAIN got[n] : i < j => Before(got[n][i].data, got[n][j].data)
  /\ \A i \in DOMAIN got[n] : \A s \in Slot : Filled(n, s) => Before(got[n][i].data, ring[n][s].data)
  /\ \A s, t \in Slot : Filled(n, s) /\ Filled(n, t) /\ Rank(n, s) < Rank(n, t) =>
       Before(ring[n][s].data, ring[n][t].data)
  /\ \A s \in Slot : Filled(n, s) => Before(ring[n][s].data, Coming(n))
  /\ \A i \in DOMAIN got[n] : Before(got[n][i].data, Coming(n))
  /\ pc[n] = "close" => ring[n][curAddr[n]].data = Coming(n)

-----------------------------------------------------------------------------
(* Without resets: the current frame and the queue are the last of those      *)
(* accepted, ...                                                              *)
Taken(n) == Len(accepted[n]) - Len(queue[n])
AcceptedInv(n) ==
  /\ sr[n]
  /\ Taken(n) \in Nat
  /\ IF Taken(n) = 0 THEN current[n].frame = NoFrame ELSE current[n].frame = accepted[n][Taken(n)]
  /\ \A i \in DOMAIN queue[n] : queue[n][i] = accepted[n][Taken(n) + i]
  /\ \A i, j \in DOMAIN accepted[n] : i < j => accepted[n][i].id < accepted[n][j].id
  /\ \A i \in DOMAIN accepted[n] : accepted[n][i].id <= arrived[n]
  /\ pc[n] \in {"fetch", "check", "transfer"} => current[n].used < current[n].frame.len
  /\ current[n].used <= current[n].frame.len
  /\ pc[n] = "close" => current[n].used > 0
  /\ pc[n] \in {"transfer", "close"} => (descr.fs <=> Coming(n).part = 1) /\ ~descr.own

(* ... all that the driver has or finds in the ring are segments of them, and *)
(* every segment in front of the one that is coming is among these.           *)
SegmentIn(frames, d) ==
  \E k \in DOMAIN frames : \E p \in 1 .. frames[k].len : d = SegmentOf(frames[k], p)
Among(received, row, d) ==
  (\E i \in DOMAIN received : received[i] = d) \/ (\E s \in Slot : ~row[s].own /\ row[s] = d)
CompleteInv(n) ==
  /\ \A i \in DOMAIN got[n] : SegmentIn(accepted[n], got[n][i])
  /\ \A s \in Slot : Filled(n, s) => SegmentIn(accepted[n], ring[n][s])
  /\ \A k \in DOMAIN accepted[n] : \A p \in 1 .. accepted[n][k].len :
       LET d == SegmentOf(accepted[n][k], p) IN
       Before(d.data, Coming(n)) => Among(got[n], ring[n], d)

-----------------------------------------------------------------------------
(* Types.                                                                     *)
LEMMA SlotFacts ==
  ASSUME Bounds
  PROVE  /\ 0 \in Slot /\ Slot \subseteq -1 .. RingSize /\ Null \in -1 .. RingSize /\ Null \notin Slot
         /\ \A a \in Slot : a + 1 \in -1 .. RingSize
         /\ \A s \in Slot : (s + 1) % RingSize \in Slot
  BY DEF Bounds, Slot, Null

LEMMA RoundRing ==
  ASSUME Bounds, NEW s \in Slot
  PROVE  (s + 1) % RingSize = IF s = RingSize - 1 THEN 0 ELSE s + 1
<1> USE DEF Bounds, Slot
<1>1. CASE s = RingSize - 1
  <2>1. s + 1 = RingSize /\ RingSize % RingSize = 0
    BY <1>1
  <2> QED BY <1>1, <2>1
<1>2. CASE s # RingSize - 1
  BY <1>2
<1> QED BY <1>1, <1>2

LEMMA EmptyType == ASSUME Bounds PROVE Empty \in Segment
<1>1. NoPart \in Piece
  BY DEF Bounds, NoPart, Piece
<1> QED BY <1>1 DEF Empty, Segment

(* The types, variable by variable.                                           *)
Label == {"poll", "take", "fetch", "check", "transfer", "close"}
Current == [frame : Incoming \cup {NoFrame}, used : Nat]
Static == [own : BOOLEAN, nic : NIC, slot : -1 .. RingSize, fs : BOOLEAN]

LEMMA TypedAgain ==
  Typed <=> /\ sr \in [NIC -> BOOLEAN]
            /\ ring \in [NIC -> [Slot -> Segment]]
            /\ curAddr \in [NIC -> -1 .. RingSize]
            /\ current \in [NIC -> Current]
            /\ queue \in [NIC -> Seq(Incoming)] /\ \A n \in NIC : Len(queue[n]) <= QueueMax
            /\ descr \in Static
            /\ pc \in [NIC -> Label]
            /\ next \in [NIC -> Slot]
            /\ got \in [NIC -> Seq(Segment)]
            /\ arrived \in [NIC -> 0 .. MaxFrames]
            /\ accepted \in [NIC -> Seq(Incoming)]
  BY DEF Typed, TypeOK, Segment, Piece, Current, Static, Label

(* The same after a step that the proofs below look at one by one.            *)
LEMMA TypedNext ==
  Typed' <=> /\ sr' \in [NIC -> BOOLEAN]
             /\ ring' \in [NIC -> [Slot -> Segment]]
             /\ curAddr' \in [NIC -> -1 .. RingSize]
             /\ current' \in [NIC -> Current]
             /\ queue' \in [NIC -> Seq(Incoming)] /\ \A n \in NIC : Len(queue'[n]) <= QueueMax
             /\ descr' \in Static
             /\ pc' \in [NIC -> Label]
             /\ next' \in [NIC -> Slot]
             /\ got' \in [NIC -> Seq(Segment)]
             /\ arrived' \in [NIC -> 0 .. MaxFrames]
             /\ accepted' \in [NIC -> Seq(Incoming)]
  BY DEF Typed, TypeOK, Segment, Piece, Current, Static, Label

LEMMA PartType ==
  ASSUME Bounds, NEW c \in Current
  PROVE  c.frame.id \in 0 .. MaxFrames /\ c.frame.len \in Nat /\ c.used \in Nat
<1>1. c.frame \in Incoming \/ c.frame = NoFrame
  BY DEF Current
<1>2. CASE c.frame \in Incoming
  <2>1. c.frame.id \in 1 .. MaxFrames /\ c.frame.len \in Parts /\ c.used \in Nat
    BY <1>2 DEF Current, Incoming
  <2>2. 1 .. MaxFrames \subseteq 0 .. MaxFrames /\ Parts \subseteq Nat
    BY DEF Bounds
  <2> QED BY <2>1, <2>2
<1>3. CASE c.frame = NoFrame
  BY <1>3 DEF Current, NoFrame, Bounds
<1> QED BY <1>1, <1>2, <1>3

LEMMA AnotherFrame ==
  ASSUME Bounds, NEW a \in 0 .. MaxFrames, a < MaxFrames
  PROVE  a + 1 \in 1 .. MaxFrames
  BY DEF Bounds

LEMMA ClosedType ==
  ASSUME NEW d \in Segment, NEW p \in Piece, NEW fs \in BOOLEAN, NEW ls \in BOOLEAN
  PROVE  /\ [d EXCEPT !.data = p] \in Segment
         /\ [d EXCEPT !.own = FALSE, !.fs = fs, !.ls = ls] \in Segment
  BY DEF Segment

LEMMA UsedType ==
  ASSUME NEW c \in Current PROVE [c EXCEPT !.used = c.used + 1] \in Current
<1>1. c.used + 1 \in Nat
  BY DEF Current
<1> QED BY <1>1 DEF Current

(* The variables stay in their types, and rx_queue in its capacity, for any   *)
(* number of interfaces and whenever the driver resets them.                  *)
THEOREM TypeCorrect ==
  ASSUME Bounds
  PROVE  Spec => []Typed
<1>1. Init => Typed
  <2> SUFFICES ASSUME Init PROVE Typed
    OBVIOUS
  <2>1. 0 \in Slot /\ 0 \in -1 .. RingSize /\ 0 \in 0 .. MaxFrames /\ 0 <= QueueMax
    BY DEF Bounds, Slot
  <2>2. descr \in Static
    BY <2>1 DEF Init, Static, Bounds
  <2>3. [frame |-> NoFrame, used |-> 0] \in Current
    BY DEF Current
  <2> QED BY <2>1, <2>2, <2>3, EmptyType, TypedAgain DEF Init, Label
<1>2. Typed /\ [Next]_vars => Typed'
  <2> SUFFICES ASSUME Typed, [Next]_vars PROVE Typed'
    OBVIOUS
  <2> USE TypedAgain, TypedNext
  <2>1. ASSUME NEW n \in NIC, NEW parts \in Parts, Capture(n, parts) PROVE Typed'
    <3> DEFINE f == [id |-> arrived[n] + 1, len |-> parts]
    <3>a. arrived[n] \in 0 .. MaxFrames /\ arrived[n] < MaxFrames
      BY <2>1 DEF Capture
    <3>b. arrived' = [arrived EXCEPT ![n] = arrived[n] + 1]
      BY <2>1 DEF Capture
    <3>1. arrived[n] + 1 \in 1 .. MaxFrames
      BY <3>a, AnotherFrame
    <3>2. f \in Incoming
      BY <3>1 DEF Incoming
    <3>3. arrived' \in [NIC -> 0 .. MaxFrames]
      BY SMTT(60), <3>1, <3>b DEF Bounds
    <3>4. CASE Len(queue[n]) < QueueMax
      <4>1. queue' = [queue EXCEPT ![n] = Append(queue[n], f)]
            /\ accepted' = [accepted EXCEPT ![n] = Append(accepted[n], f)]
        BY <2>1, <3>4 DEF Capture
      <4> HIDE DEF f
      <4>2. /\ Append(queue[n], f) \in Seq(Incoming) /\ Append(accepted[n], f) \in Seq(Incoming)
            /\ Len(Append(queue[n], f)) <= QueueMax
        BY <3>2, <3>4 DEF Bounds
      <4>3. queue' \in [NIC -> Seq(Incoming)] /\ accepted' \in [NIC -> Seq(Incoming)]
            /\ \A m \in NIC : Len(queue'[m]) <= QueueMax
        BY <4>1, <4>2
      <4> QED BY <2>1, <3>3, <4>3 DEF Capture
    <3>5. CASE ~(Len(queue[n]) < QueueMax)
      BY <2>1, <3>3, <3>5 DEF Capture
    <3> QED BY <3>4, <3>5
  <2>2. ASSUME NEW n \in NIC, Poll(n) PROVE Typed'
    BY <2>2 DEF Poll, Go, Label
  <2>3. ASSUME NEW n \in NIC, Take(n) PROVE Typed'
    <3>1. Go(n, "poll") \/ Go(n, "fetch")
      BY <2>3 DEF Take
    <3>2. pc' \in [NIC -> Label]
      BY <3>1 DEF Go, Label
    <3>3. CASE Consumed(n) /\ queue[n] # <<>>
      <4>1. queue' = [queue EXCEPT ![n] = Tail(queue[n])]
            /\ current' = [current EXCEPT ![n] = [frame |-> Head(queue[n]), used |-> 0]]
        BY <2>3, <3>3 DEF Take
      <4>2. queue[n] \in Seq(Incoming) /\ Len(queue[n]) <= QueueMax
        OBVIOUS
      <4>3. Tail(queue[n]) \in Seq(Incoming) /\ Head(queue[n]) \in Incoming
            /\ Len(Tail(queue[n])) <= QueueMax
        BY SMTT(60), <3>3, <4>2 DEF Bounds
      <4>4. current' \in [NIC -> Current] /\ queue' \in [NIC -> Seq(Incoming)]
            /\ \A m \in NIC : Len(queue'[m]) <= QueueMax
        BY <4>1, <4>3 DEF Current
      <4> QED BY <2>3, <3>2, <4>4 DEF Take
    <3>4. CASE ~(Consumed(n) /\ queue[n] # <<>>)
      BY <2>3, <3>2, <3>4 DEF Take
    <3> QED BY <3>3, <3>4
  <2>4. ASSUME NEW n \in NIC, Fetch(n) PROVE Typed'
    <3>1. curAddr[n] \in Slot => ring[n][curAddr[n]].own \in BOOLEAN
      BY DEF Segment
    <3>2. PICK own \in BOOLEAN : descr' = [own |-> own, nic |-> n, slot |-> curAddr[n], fs |-> FALSE]
      BY <2>4, <3>1 DEF Fetch
    <3>3. descr' \in Static
      BY <3>2 DEF Static
    <3> QED BY <2>4, <3>3 DEF Fetch, Go, Label
  <2>5. ASSUME NEW n \in NIC, Check(n) PROVE Typed'
    <3> DEFINE first == current[n].used = 0
    <3>1. descr' = descr \/ descr' = [descr EXCEPT !.own = FALSE, !.fs = first]
      BY <2>5 DEF Check
    <3>2. Go(n, "poll") \/ Go(n, "transfer")
      BY <2>5 DEF Check
    <3>3. first \in BOOLEAN
      OBVIOUS
    <3> HIDE DEF first
    <3>4. descr' \in Static /\ pc' \in [NIC -> Label]
      BY ZenonT(60), <3>1, <3>2, <3>3 DEF Static, Go, Label
    <3> QED BY <2>5, <3>4 DEF Check
  <2>6. ASSUME NEW n \in NIC, Transfer(n) PROVE Typed'
    <3> DEFINE part == [id |-> current[n].frame.id, part |-> current[n].used + 1]
    <3>1. current[n].frame.id \in 0 .. MaxFrames /\ current[n].used \in Nat
      BY PartType
    <3>2. part \in Piece
      BY SMTT(60), <3>1 DEF Piece
    <3> DEFINE seg == [ring[descr.nic][descr.slot] EXCEPT !.data = part]
               row == [ring[descr.nic] EXCEPT ![descr.slot] = seg]
    <3>3. ring' = IF descr.slot \in Slot THEN [ring EXCEPT ![descr.nic] = row] ELSE ring
      BY <2>6 DEF Transfer
    <3>4. descr.nic \in NIC
      BY DEF Static
    <3> HIDE DEF part
    <3>a. ASSUME descr.slot \in Slot PROVE seg \in Segment
      <4>1. ring[descr.nic][descr.slot] \in Segment
        BY <3>a, <3>4
      <4> QED BY <4>1, <3>2, ClosedType
    <3> HIDE DEF seg
    <3>b. descr.slot \in Slot => row \in [Slot -> Segment]
      BY <3>a, <3>4
    <3> HIDE DEF row
    <3>5. ring' \in [NIC -> [Slot -> Segment]]
      BY <3>b, <3>3, <3>4
    <3>c. current[n] \in Current
      OBVIOUS
    <3>6. [current[n] EXCEPT !.used = current[n].used + 1] \in Current
      BY <3>c, UsedType
    <3>7. current' = [current EXCEPT ![n] = [current[n] EXCEPT !.used = current[n].used + 1]]
      BY <2>6 DEF Transfer
    <3>8. current' \in [NIC -> Current]
      BY <3>6, <3>7
    <3> QED BY <2>6, <3>5, <3>8 DEF Transfer, Go, Label
  <2>7. ASSUME NEW n \in NIC, Close(n) PROVE Typed'
    <3> DEFINE last == Consumed(n)
               fs == descr.fs
    <3>1. last \in BOOLEAN /\ fs \in BOOLEAN
      BY DEF Consumed, Static
    <3> DEFINE seg == [ring[n][curAddr[n]] EXCEPT !.own = FALSE, !.fs = fs, !.ls = last]
               row == [ring[n] EXCEPT ![curAddr[n]] = seg]
    <3>2. ring' = IF curAddr[n] \in Slot THEN [ring EXCEPT ![n] = row] ELSE ring
      BY <2>7 DEF Close
    <3> HIDE DEF last, fs
    <3>a. ASSUME curAddr[n] \in Slot PROVE seg \in Segment
      <4>1. ring[n][curAddr[n]] \in Segment /\ NoPart \in Piece
        BY <3>a, EmptyType DEF Segment, Empty
      <4> QED BY <4>1, <3>1, ClosedType
    <3> HIDE DEF seg
    <3>b. curAddr[n] \in Slot => row \in [Slot -> Segment]
      BY <3>a
    <3> HIDE DEF row
    <3>3. ring' \in [NIC -> [Slot -> Segment]]
      BY <3>2, <3>b
    <3>4. Following(n, curAddr[n]) \in -1 .. RingSize
      BY SlotFacts DEF Following, RxList
    <3> QED BY <2>7, <3>3, <3>4 DEF Close, Go, Label
  <2>8. ASSUME NEW n \in NIC, Reap(n) PROVE Typed'
    <3>1. ring[n][next[n]] \in Segment
      OBVIOUS
    <3>2. Append(got[n], ring[n][next[n]]) \in Seq(Segment)
      BY <3>1
    <3>3. ring' \in [NIC -> [Slot -> Segment]]
      BY <2>8, EmptyType DEF Reap
    <3>4. next' \in [NIC -> Slot]
      BY <2>8, SlotFacts DEF Reap
    <3> QED BY <2>8, <3>2, <3>3, <3>4 DEF Reap
  <2>9. ASSUME NEW n \in NIC, ResetNIC(n) PROVE Typed'
    BY <2>9, SlotFacts DEF ResetNIC
  <2>10. ASSUME NEW n \in NIC, Restart(n) PROVE Typed'
    <3>1. ring' \in [NIC -> [Slot -> Segment]]
      BY <2>10, EmptyType DEF Restart
    <3>2. 0 \in -1 .. RingSize /\ <<>> \in Seq(Segment) /\ <<>> \in Seq(Incoming)
      BY DEF Bounds
    <3> QED BY <2>10, <3>1, <3>2, SlotFacts DEF Restart
  <2>11. CASE UNCHANGED vars
    BY <2>11 DEF vars
  <2> QED BY <2>1, <2>2, <2>3, <2>4, <2>5, <2>6, <2>7, <2>8, <2>9, <2>10, <2>11 DEF Next, ThreadStep
<1> QED BY <1>1, <1>2, PTL DEF Spec

-----------------------------------------------------------------------------
(* One interface: what its steps do, in terms of its own state.               *)
LEMMA Facts ==
  ASSUME Bounds, Typed, NEW n \in NIC
  PROVE  /\ sr[n] \in BOOLEAN /\ curAddr[n] \in -1 .. RingSize /\ next[n] \in Slot
         /\ current[n].frame.id \in Nat /\ current[n].frame.len \in Nat /\ current[n].used \in Nat
         /\ queue[n] \in Seq(Incoming) /\ accepted[n] \in Seq(Incoming) /\ got[n] \in Seq(Segment)
         /\ \A s \in Slot : ring[n][s] \in Segment
         /\ \A d \in Segment : d.own \in BOOLEAN /\ d.data.id \in Nat /\ d.data.part \in Nat
         /\ \A f \in Incoming : f.id \in Nat /\ f.len \in Nat
         /\ arrived[n] \in Nat /\ descr.own \in BOOLEAN /\ descr.fs \in BOOLEAN
         /\ descr.nic \in NIC
         /\ Coming(n).id \in Nat /\ Coming(n).part \in Nat
<1> USE TypedAgain
<1>1. current[n].frame.id \in Nat /\ current[n].frame.len \in Nat /\ current[n].used \in Nat
  BY SMTT(60), PartType DEF Bounds
<1>2. \A d \in Segment : d.own \in BOOLEAN /\ d.data.id \in Nat /\ d.data.part \in Nat
  <2> TAKE d \in Segment
  <2>1. d.own \in BOOLEAN /\ d.data \in Piece
    BY DEF Segment
  <2>2. d.data.id \in 0 .. MaxFrames /\ d.data.part \in Nat
    BY <2>1 DEF Piece
  <2> QED BY SMTT(60), <2>1, <2>2 DEF Bounds
<1>3. \A f \in Incoming : f.id \in Nat /\ f.len \in Nat
  <2> TAKE f \in Incoming
  <2>1. f.id \in 1 .. MaxFrames /\ f.len \in Parts
    BY DEF Incoming
  <2>2. 1 .. MaxFrames \subseteq Nat /\ Parts \subseteq Nat
    BY SMTT(60) DEF Bounds
  <2> QED BY <2>1, <2>2
<1>4. arrived[n] \in Nat
  BY DEF Bounds
<1>5. descr.own \in BOOLEAN /\ descr.fs \in BOOLEAN /\ descr.nic \in NIC
  BY DEF Static
<1>6. Coming(n).id \in Nat /\ Coming(n).part \in Nat
  BY SMTT(60), <1>1 DEF Coming
<1>7. /\ sr[n] \in BOOLEAN /\ curAddr[n] \in -1 .. RingSize /\ next[n] \in Slot
      /\ queue[n] \in Seq(Incoming) /\ accepted[n] \in Seq(Incoming) /\ got[n] \in Seq(Segment)
      /\ \A s \in Slot : ring[n][s] \in Segment
  OBVIOUS
<1> QED BY <1>1, <1>2, <1>3, <1>4, <1>5, <1>6, <1>7

LEMMA OneInterface ==
  ASSUME NEW n, NIC = {n}, [Next]_vars
  PROVE  \/ \E parts \in Parts : Capture(n, parts)
         \/ Poll(n) \/ Take(n) \/ Fetch(n) \/ Check(n) \/ Transfer(n) \/ Close(n)
         \/ Reap(n) \/ ResetNIC(n) \/ Restart(n)
         \/ UNCHANGED vars
  BY DEF Next, ThreadStep

(* The copied part is in the descriptor of cur_addr, whose owner stays.       *)
LEMMA TransferEffect ==
  ASSUME Bounds, Typed, NEW n \in NIC, OwnInv(n), Transfer(n)
  PROVE  /\ pc[n] = "transfer" /\ pc' = [pc EXCEPT ![n] = "close"] /\ curAddr[n] \in Slot
         /\ UNCHANGED <<sr, curAddr, queue, descr, next, got, arrived, accepted>>
         /\ current'[n].frame = current[n].frame /\ current'[n].used = current[n].used + 1
         /\ Coming(n)' = Coming(n)
         /\ \A s \in Slot : s # curAddr[n] => ring'[n][s] = ring[n][s]
         /\ ring'[n][curAddr[n]].own = ring[n][curAddr[n]].own
         /\ ring'[n][curAddr[n]].data = Coming(n)
<1> USE TypedAgain
<1>1. /\ pc[n] = "transfer" /\ pc' = [pc EXCEPT ![n] = "close"]
      /\ UNCHANGED <<sr, curAddr, queue, descr, next, got, arrived, accepted>>
  BY DEF Transfer, Go
<1>2. descr.nic = n /\ descr.slot = curAddr[n] /\ curAddr[n] \in Slot
  BY <1>1 DEF OwnInv
<1>3. current[n] \in Current
  OBVIOUS
<1>4. current' = [current EXCEPT ![n] = [current[n] EXCEPT !.used = current[n].used + 1]]
  BY DEF Transfer
<1>5. current'[n] = [current[n] EXCEPT !.used = current[n].used + 1]
  BY <1>4
<1>6. current'[n].frame = current[n].frame /\ current'[n].used = current[n].used + 1
  BY <1>3, <1>5 DEF Current
<1>7. pc'[n] = "close"
  BY <1>1
<1>8. Coming(n) = [id |-> current[n].frame.id, part |-> current[n].used + 1]
  BY <1>1 DEF Coming
<1>9. Coming(n)' = Coming(n)
  BY <1>6, <1>7, <1>8 DEF Coming
<1> DEFINE seg == [ring[n][curAddr[n]] EXCEPT !.data = Coming(n)]
           row == [ring[n] EXCEPT ![curAddr[n]] = seg]
<1>10. ring' = [ring EXCEPT ![n] = row]
  BY <1>2, <1>8 DEF Transfer
<1>11. ring[n][curAddr[n]] \in Segment
  BY <1>2
<1>12. seg.own = ring[n][curAddr[n]].own /\ seg.data = Coming(n)
  BY <1>11 DEF Segment
<1> HIDE DEF seg
<1>13. ring'[n] = row
  BY <1>10
<1>14. ring'[n][curAddr[n]] = seg /\ \A s \in Slot : s # curAddr[n] => ring'[n][s] = ring[n][s]
  BY <1>2, <1>13
<1> QED BY <1>1, <1>2, <1>6, <1>9, <1>12, <1>14

(* The descriptor is given to the driver, and cur_addr goes round the ring.   *)
LEMMA CloseEffect ==
  ASSUME Bounds, Typed, NEW n \in NIC, OwnInv(n), Close(n)
  PROVE  /\ pc[n] = "close" /\ pc' = [pc EXCEPT ![n] = "take"] /\ sr[n] /\ curAddr[n] \in Slot
         /\ UNCHANGED <<sr, current, queue, descr, next, got, arrived, accepted>>
         /\ curAddr'[n] = IF curAddr[n] = RingSize - 1 THEN 0 ELSE curAddr[n] + 1
         /\ \A s \in Slot : s # curAddr[n] => ring'[n][s] = ring[n][s]
         /\ ring'[n][curAddr[n]] =
              [own |-> FALSE, fs |-> descr.fs, ls |-> Consumed(n), data |-> ring[n][curAddr[n]].data]
<1> USE TypedAgain
<1>1. /\ pc[n] = "close" /\ pc' = [pc EXCEPT ![n] = "take"]
      /\ UNCHANGED <<sr, current, queue, descr, next, got, arrived, accepted>>
  BY DEF Close, Go
<1>2. sr[n] /\ curAddr[n] \in Slot /\ descr.slot = curAddr[n]
  BY <1>1 DEF OwnInv
<1>3. curAddr'[n] = Following(n, curAddr[n])
  BY DEF Close
<1>4. curAddr'[n] = IF curAddr[n] = RingSize - 1 THEN 0 ELSE curAddr[n] + 1
  BY <1>2, <1>3 DEF Following, RxList
<1> DEFINE seg == [ring[n][curAddr[n]] EXCEPT !.own = FALSE, !.fs = descr.fs, !.ls = Consumed(n)]
           row == [ring[n] EXCEPT ![curAddr[n]] = seg]
<1>5. ring' = [ring EXCEPT ![n] = row]
  BY <1>2 DEF Close
<1>6. ring[n][curAddr[n]] \in Segment
  BY <1>2
<1>7. seg = [own |-> FALSE, fs |-> descr.fs, ls |-> Consumed(n), data |-> ring[n][curAddr[n]].data]
  <2> DEFINE last == Consumed(n)
             fs == descr.fs
  <2>1. seg = [ring[n][curAddr[n]] EXCEPT !.own = FALSE, !.fs = fs, !.ls = last]
    OBVIOUS
  <2> HIDE DEF seg, last, fs
  <2>2. seg = [own |-> FALSE, fs |-> fs, ls |-> last, data |-> ring[n][curAddr[n]].data]
    BY <1>6, <2>1 DEF Segment
  <2> QED BY <2>2 DEF last, fs
<1> HIDE DEF seg
<1>8. ring'[n] = row
  BY <1>5
<1>9. ring'[n][curAddr[n]] = seg /\ \A s \in Slot : s # curAddr[n] => ring'[n][s] = ring[n][s]
  BY <1>2, <1>8
<1> QED BY <1>1, <1>2, <1>4, <1>7, <1>9

(* The driver takes a segment, gives its descriptor back and goes on.         *)
LEMMA ReapEffect ==
  ASSUME Bounds, Typed, NEW n \in NIC, Reap(n)
  PROVE  /\ sr[n] /\ ~ring[n][next[n]].own
         /\ UNCHANGED <<sr, curAddr, current, queue, descr, pc, arrived, accepted>>
         /\ got'[n] = Append(got[n], ring[n][next[n]])
         /\ next'[n] = IF next[n] = RingSize - 1 THEN 0 ELSE next[n] + 1
         /\ \A s \in Slot : s # next[n] => ring'[n][s] = ring[n][s]
         /\ ring'[n][next[n]].own
<1> USE TypedAgain
<1>1. next[n] \in Slot /\ next'[n] = (next[n] + 1) % RingSize
  BY DEF Reap
<1>2. next'[n] = IF next[n] = RingSize - 1 THEN 0 ELSE next[n] + 1
  BY <1>1, RoundRing
<1>3. ring' = [ring EXCEPT ![n] = [ring[n] EXCEPT ![next[n]] = Empty]]
  BY DEF Reap
<1>4. ring'[n] = [ring[n] EXCEPT ![next[n]] = Empty]
  BY <1>3
<1>5. ring'[n][next[n]] = Empty /\ \A s \in Slot : s # next[n] => ring'[n][s] = ring[n][s]
  BY <1>1, <1>4
<1>6. Empty.own
  BY DEF Empty
<1>7. /\ sr[n] /\ ~ring[n][next[n]].own
      /\ UNCHANGED <<sr, curAddr, current, queue, descr, pc, arrived, accepted>>
      /\ got'[n] = Append(got[n], ring[n][next[n]])
  BY DEF Reap
<1> QED BY <1>2, <1>5, <1>6, <1>7

LEMMA RestartEffect ==
  ASSUME Bounds, Typed, NEW n \in NIC, Restart(n)
  PROVE  /\ ~sr[n] /\ sr'[n] /\ curAddr'[n] = 0 /\ next'[n] = 0 /\ got'[n] = <<>>
         /\ accepted'[n] = <<>>
         /\ UNCHANGED <<current, queue, descr, pc, arrived>>
         /\ \A s \in Slot : ring'[n][s].own
<1> USE TypedAgain
<1>1. ring'[n] = [s \in Slot |-> Empty]
  BY DEF Restart
<1>2. Empty.own
  BY DEF Empty
<1> QED BY <1>1, <1>2 DEF Restart

-----------------------------------------------------------------------------
(* The descriptor that the thread writes to.                                  *)
LEMMA OwnStep ==
  ASSUME Bounds, Quiet, Typed, NEW n \in NIC, NIC = {n}, OwnInv(n), [Next]_vars
  PROVE  OwnInv(n)'
<1> USE TypedAgain
<1>1. ASSUME NEW parts \in Parts, Capture(n, parts) PROVE OwnInv(n)'
  BY <1>1 DEF Capture, OwnInv
<1>2. CASE Poll(n)
  <2>1. pc'[n] = "take" /\ UNCHANGED <<sr, ring, curAddr, descr>> /\ sr[n]
    BY <1>2 DEF Poll, Go
  <2> QED BY <2>1 DEF OwnInv
<1>3. CASE Take(n)
  <2>1. pc'[n] \in {"poll", "fetch"} /\ UNCHANGED <<sr, ring, curAddr, descr>> /\ pc[n] = "take"
    BY <1>3 DEF Take, Go
  <2> QED BY <2>1 DEF OwnInv
<1>4. CASE Fetch(n)
  <2>1. pc'[n] = "check" /\ UNCHANGED <<sr, ring, curAddr>> /\ pc[n] = "fetch"
    BY <1>4 DEF Fetch, Go
  <2>2. sr[n] /\ curAddr[n] \in Slot
    BY <2>1 DEF OwnInv
  <2>3. descr' = [own |-> ring[n][curAddr[n]].own, nic |-> n, slot |-> curAddr[n], fs |-> FALSE]
    BY <1>4, <2>2 DEF Fetch
  <2>4. descr'.nic = n /\ descr'.slot = curAddr[n] /\ descr'.own = ring[n][curAddr[n]].own
    BY <2>3
  <2> QED BY <2>1, <2>2, <2>4 DEF OwnInv
<1>5. CASE Check(n)
  <2>1. pc[n] = "check" /\ UNCHANGED <<sr, ring, curAddr>>
    BY <1>5 DEF Check
  <2>2. CASE descr.own
    <3>1. pc'[n] = "transfer" /\ descr' = [descr EXCEPT !.own = FALSE, !.fs = (current[n].used = 0)]
      BY <1>5, <2>2 DEF Check, Go
    <3>2. descr \in Static
      OBVIOUS
    <3>3. descr'.nic = descr.nic /\ descr'.slot = descr.slot
      BY <3>1, <3>2 DEF Static
    <3> QED BY <2>1, <2>2, <3>1, <3>3 DEF OwnInv
  <2>3. CASE ~descr.own
    <3>1. pc'[n] = "poll" /\ descr' = descr
      BY <1>5, <2>3 DEF Check, Go
    <3> QED BY <2>1, <3>1 DEF OwnInv
  <2> QED BY <2>2, <2>3
<1>6. CASE Transfer(n)
  <2>1. pc'[n] = "close"
    BY <1>6, TransferEffect
  <2> QED BY <1>6, <2>1, TransferEffect DEF OwnInv
<1>7. CASE Close(n)
  <2>1. pc'[n] = "take" /\ curAddr'[n] \in Slot
    BY SMTT(60), <1>7, CloseEffect DEF Slot, Bounds
  <2> QED BY <1>7, <2>1, CloseEffect DEF OwnInv
<1>8. CASE Reap(n)
  <2>1. \A s \in Slot : ring[n][s].own => ring'[n][s].own
    BY <1>8, ReapEffect
  <2> QED BY <1>8, <2>1, ReapEffect DEF OwnInv
<1>9. CASE ResetNIC(n)
  <2>1. pc'[n] = "poll" /\ ~sr'[n]
    BY <1>9 DEF ResetNIC, Quiet
  <2> QED BY <2>1 DEF OwnInv
<1>10. CASE Restart(n)
  <2>1. pc'[n] = "poll" /\ sr'[n] /\ curAddr'[n] \in Slot
    BY <1>10, RestartEffect, SlotFacts DEF OwnInv
  <2> QED BY <2>1 DEF OwnInv
<1>11. CASE UNCHANGED vars
  BY <1>11 DEF vars, OwnInv
<1> QED BY <1>1, <1>2, <1>3, <1>4, <1>5, <1>6, <1>7, <1>8, <1>9, <1>10, <1>11, OneInterface

(* While the thread writes to a buffer, the descriptor is the interface's,    *)
(* whatever the driver does.                                                  *)
THEOREM DescriptorsOwned ==
  ASSUME Bounds, Quiet, NEW n, NIC = {n}
  PROVE  Spec => []DescriptorOwned
<1>1. n \in NIC
  OBVIOUS
<1>2. Init => OwnInv(n)
  BY <1>1, SlotFacts DEF Init, OwnInv, Empty
<1>3. Typed /\ OwnInv(n) /\ [Next]_vars => OwnInv(n)'
  BY <1>1, OwnStep
<1>4. Typed /\ OwnInv(n) => DescriptorOwned
  <2> SUFFICES ASSUME Typed, OwnInv(n), pc[n] \in {"transfer", "close"}
               PROVE  /\ descr.nic = n /\ descr.slot = curAddr[n]
                      /\ curAddr[n] \in Slot /\ ring[n][curAddr[n]].own
    BY DEF DescriptorOwned
  <2>1. sr[n] /\ curAddr[n] \in Slot
    BY DEF OwnInv
  <2> QED BY <2>1 DEF OwnInv
<1>5. Spec => []Typed
  BY TypeCorrect
<1> QED BY <1>2, <1>3, <1>4, <1>5, PTL DEF Spec

-----------------------------------------------------------------------------
(* The ring.                                                                  *)
LEMMA RingStep ==
  ASSUME Bounds, Quiet, Typed, NEW n \in NIC, NIC = {n}, OwnInv(n), RingInv(n), [Next]_vars
  PROVE  RingInv(n)'
<1> USE TypedAgain
<1>1. ASSUME UNCHANGED <<sr, ring, curAddr, next>> PROVE RingInv(n)'
  BY <1>1 DEF RingInv, Filled
<1>2. CASE Transfer(n)
  <2>1. \A s \in Slot : ring'[n][s].own = ring[n][s].own
    BY <1>2, TransferEffect
  <2> QED BY ZenonT(60), <1>2, <2>1, TransferEffect DEF RingInv, Filled
<1>3. CASE Close(n)
  <2>1. /\ UNCHANGED <<sr, next>> /\ curAddr[n] \in Slot /\ sr[n]
        /\ curAddr'[n] = IF curAddr[n] = RingSize - 1 THEN 0 ELSE curAddr[n] + 1
    BY <1>3, CloseEffect
  <2>2. \A s \in Slot : Filled(n, s)' <=> s = curAddr[n] \/ Filled(n, s)
    BY <1>3, CloseEffect DEF Filled
  <2>3. ~Filled(n, curAddr[n])
    BY <1>3, CloseEffect DEF Filled, OwnInv
  <2>4. next[n] \in Slot
    OBVIOUS
  <2> HIDE TypedAgain
  <2> QED BY <2>1, <2>2, <2>3, <2>4 DEF RingInv, Slot, Bounds
<1>4. CASE Reap(n)
  <2>1. /\ UNCHANGED <<sr, curAddr>> /\ sr[n]
        /\ next'[n] = IF next[n] = RingSize - 1 THEN 0 ELSE next[n] + 1
    BY <1>4, ReapEffect
  <2>2. \A s \in Slot : Filled(n, s)' <=> s # next[n] /\ Filled(n, s)
    BY <1>4, ReapEffect DEF Filled
  <2>3. Filled(n, next[n])
    BY <1>4, ReapEffect DEF Filled
  <2>4. next[n] \in Slot /\ curAddr[n] \in Slot
    BY <2>1 DEF OwnInv
  <2> HIDE TypedAgain
  <2> QED BY <2>1, <2>2, <2>3, <2>4 DEF RingInv, Slot, Bounds
<1>5. CASE ResetNIC(n)
  <2>1. ~sr'[n]
    BY <1>5 DEF ResetNIC
  <2> QED BY <2>1 DEF RingInv
<1>6. CASE Restart(n)
  <2>1. next'[n] = curAddr'[n] /\ \A s \in Slot : ~Filled(n, s)'
    BY <1>6, RestartEffect DEF Filled
  <2>2. next'[n] = 0 /\ curAddr'[n] = 0
    BY <1>6, RestartEffect
  <2> QED BY <2>1, <2>2 DEF RingInv
<1> QED BY <1>1, <1>2, <1>3, <1>4, <1>5, <1>6, OneInterface
        DEF Capture, Poll, Take, Fetch, Check, vars

(* What is filled is nearer to the driver's next descriptor than cur_addr is. *)
LEMMA FilledRank ==
  ASSUME Bounds, Typed, NEW n \in NIC, RingInv(n), sr[n], curAddr[n] \in Slot,
         ~Filled(n, curAddr[n]), NEW s \in Slot, Filled(n, s)
  PROVE  Rank(n, s) < Rank(n, curAddr[n])
<1>1. next[n] \in Slot
  BY TypedAgain
<1> QED BY <1>1 DEF RingInv, Rank, Slot, Bounds

LEMMA RankRound ==
  ASSUME Bounds, NEW d \in Slot, NEW e, e = IF d = RingSize - 1 THEN 0 ELSE d + 1,
         NEW s \in Slot, s # d
  PROVE  /\ (IF d <= s THEN s - d ELSE s - d + RingSize) \in Int
         /\ (IF d <= d THEN d - d ELSE d - d + RingSize) < (IF d <= s THEN s - d ELSE s - d + RingSize)
         /\ (IF e <= s THEN s - e ELSE s - e + RingSize) = (IF d <= s THEN s - d ELSE s - d + RingSize) - 1
  BY DEF Bounds, Slot

LEMMA BeforeTransitive ==
  ASSUME NEW a, NEW b, NEW c, a.id \in Nat, a.part \in Nat, b.id \in Nat, b.part \in Nat,
         c.id \in Nat, c.part \in Nat, Before(a, b), Before(b, c)
  PROVE  Before(a, c)
  BY SMTT(60) DEF Before

(* The queue.                                                                 *)
LEMMA QueueStep ==
  ASSUME Bounds, Quiet, Typed, NEW n \in NIC, NIC = {n}, OwnInv(n), QueueInv(n), [Next]_vars
  PROVE  QueueInv(n)'
<1> USE TypedAgain
<1>1. ASSUME UNCHANGED <<queue, arrived>>, current'[n].frame = current[n].frame
      PROVE  QueueInv(n)'
  BY <1>1 DEF QueueInv
<1>2. ASSUME NEW parts \in Parts, Capture(n, parts) PROVE QueueInv(n)'
  <2> DEFINE f == [id |-> arrived[n] + 1, len |-> parts]
  <2>1. arrived'[n] = arrived[n] + 1 /\ current' = current /\ arrived[n] \in Nat
    BY <1>2, Facts DEF Capture
  <2>2. current[n].frame.id \in Nat
    BY Facts
  <2>3. CASE queue' = queue
    <3>1. \A i \in DOMAIN queue[n] : queue[n][i].id \in Nat
      BY Facts
    <3> QED BY SMTT(60), <2>1, <2>2, <2>3, <3>1 DEF QueueInv
  <2>4. CASE queue' = [queue EXCEPT ![n] = Append(queue[n], f)]
    <3>1. queue'[n] = Append(queue[n], f)
      BY <2>4
    <3>2. queue[n] \in Seq(Incoming) /\ \A i \in DOMAIN queue[n] : queue[n][i].id \in Nat
      BY Facts
    <3>3. f.id = arrived[n] + 1
      OBVIOUS
    <3> HIDE DEF f
    <3> DEFINE last == Len(queue[n]) + 1
    <3>4. /\ \A i \in DOMAIN queue[n] : queue'[n][i] = queue[n][i] /\ i < last
          /\ queue'[n][last] = f
          /\ \A i \in DOMAIN queue'[n] : i \in DOMAIN queue[n] \/ i = last
      BY SMTT(60), <3>1, <3>2
    <3>5. DOMAIN queue[n] \subseteq Nat /\ last \in Nat
      BY <3>2
    <3> HIDE DEF last
    <3>6. current'[n].frame.id <= arrived'[n]
      BY SMTT(60), <2>1, <2>2 DEF QueueInv
    <3>7. \A i \in DOMAIN queue'[n] : current'[n].frame.id < queue'[n][i].id
                                     /\ queue'[n][i].id <= arrived'[n]
      BY SMTT(60), <2>1, <2>2, <3>2, <3>3, <3>4 DEF QueueInv
    <3>8. \A i, j \in DOMAIN queue'[n] : i < j => queue'[n][i].id < queue'[n][j].id
      BY SMTT(60), <2>1, <2>2, <3>2, <3>3, <3>4, <3>5 DEF QueueInv
    <3> QED BY <3>6, <3>7, <3>8 DEF QueueInv
  <2> QED BY <1>2, <2>3, <2>4 DEF Capture
<1>3. CASE Take(n)
  <2>1. CASE queue[n] # <<>> /\ Consumed(n)
    <3>1. /\ current'[n] = [frame |-> Head(queue[n]), used |-> 0]
          /\ queue'[n] = Tail(queue[n]) /\ arrived' = arrived
      BY <1>3, <2>1 DEF Take
    <3>2. current'[n].frame = Head(queue[n])
      BY <3>1
    <3>3. queue[n] \in Seq(Incoming) /\ queue[n] # <<>>
      BY <2>1
    <3>4. /\ current'[n].frame = queue[n][1] /\ 1 \in DOMAIN queue[n]
          /\ \A i \in DOMAIN queue'[n] : i + 1 \in DOMAIN queue[n] /\ queue'[n][i] = queue[n][i + 1]
          /\ DOMAIN queue'[n] \subseteq Nat \ {0}
      BY SMTT(60), <3>1, <3>2, <3>3
    <3> QED BY SMTT(60), <3>1, <3>4 DEF QueueInv
  <2>2. CASE ~(queue[n] # <<>> /\ Consumed(n))
    <3>1. UNCHANGED <<queue, arrived, current>>
      BY <1>3, <2>2 DEF Take
    <3> QED BY <1>1, <3>1
  <2> QED BY <2>1, <2>2
<1>4. CASE Transfer(n)
  BY <1>1, <1>4, TransferEffect
<1>5. ASSUME UNCHANGED <<queue, arrived, current>> PROVE QueueInv(n)'
  BY <1>1, <1>5
<1> QED BY <1>2, <1>3, <1>4, <1>5, OneInterface
        DEF Poll, Fetch, Check, Close, Reap, ResetNIC, Restart, vars

-----------------------------------------------------------------------------
(* What follows the part that is coming follows all that comes before it.     *)
LEMMA OrderLater ==
  ASSUME Bounds, Typed, NEW n \in NIC, OrderInv(n), UNCHANGED <<ring, got, next>>,
         pc'[n] # "close",
         Coming(n)'.id \in Nat, Coming(n)'.part \in Nat,
         Coming(n)' = Coming(n) \/ Before(Coming(n), Coming(n)')
  PROVE  OrderInv(n)'
<1> DEFINE old == Coming(n)
           new == Coming(n)'
<1>1. /\ old.id \in Nat /\ old.part \in Nat /\ new.id \in Nat /\ new.part \in Nat
      /\ new = old \/ Before(old, new)
  BY Facts
<1>2. /\ \A i \in DOMAIN got[n] : Before(got[n][i].data, old)
      /\ \A s \in Slot : Filled(n, s) => Before(ring[n][s].data, old)
  BY DEF OrderInv
<1> HIDE DEF old, new
<1>3. ASSUME NEW i \in DOMAIN got[n] PROVE Before(got[n][i].data, new)
  <2>1. got[n][i].data.id \in Nat /\ got[n][i].data.part \in Nat
    BY Facts
  <2> QED BY <1>1, <1>2, <2>1, BeforeTransitive
<1>4. ASSUME NEW s \in Slot, Filled(n, s) PROVE Before(ring[n][s].data, new)
  <2>1. ring[n][s].data.id \in Nat /\ ring[n][s].data.part \in Nat
    BY Facts
  <2> QED BY <1>1, <1>2, <1>4, <2>1, BeforeTransitive
<1>5. /\ \A i \in DOMAIN got'[n] : Before(got'[n][i].data, Coming(n)')
      /\ \A s \in Slot : Filled(n, s)' => Before(ring'[n][s].data, Coming(n)')
  BY <1>3, <1>4 DEF Filled, new
<1>6. /\ \A i, j \in DOMAIN got'[n] : i < j => Before(got'[n][i].data, got'[n][j].data)
      /\ \A i \in DOMAIN got'[n] : \A s \in Slot : Filled(n, s)' => Before(got'[n][i].data, ring'[n][s].data)
      /\ \A s, t \in Slot : Filled(n, s)' /\ Filled(n, t)' /\ Rank(n, s)' < Rank(n, t)' =>
           Before(ring'[n][s].data, ring'[n][t].data)
  BY DEF OrderInv, Filled, Rank
<1> QED BY <1>5, <1>6 DEF OrderInv

LEMMA OrderStep ==
  ASSUME Bounds, Quiet, Typed, NEW n \in NIC, NIC = {n}, OwnInv(n), RingInv(n), QueueInv(n),
         OrderInv(n), [Next]_vars
  PROVE  OrderInv(n)'
<1> USE TypedAgain
<1>1. ASSUME UNCHANGED <<ring, got, next, curAddr, current>>,
             UNCHANGED pc[n] \/ (pc[n] # "close" /\ pc'[n] # "close")
      PROVE  OrderInv(n)'
  <2>1. Coming(n)' = Coming(n)
    BY <1>1 DEF Coming
  <2> QED BY <1>1, <2>1 DEF OrderInv, Filled, Rank
<1>2. ASSUME NEW parts \in Parts, Capture(n, parts) PROVE OrderInv(n)'
  BY <1>1, <1>2 DEF Capture
<1>3. CASE Poll(n) \/ Fetch(n) \/ Check(n)
  <2>1. UNCHANGED <<ring, got, next, curAddr, current>>
    BY <1>3 DEF Poll, Fetch, Check
  <2>2. pc[n] # "close" /\ pc'[n] # "close"
    BY <1>3 DEF Poll, Fetch, Check, Go
  <2> QED BY <1>1, <2>1, <2>2
<1>4. CASE Take(n)
  <2>1. UNCHANGED <<ring, got, next, curAddr>> /\ pc[n] = "take" /\ pc'[n] \in {"poll", "fetch"}
    BY <1>4 DEF Take, Go
  <2>2. CASE queue[n] # <<>> /\ Consumed(n)
    <3>1. current'[n] = [frame |-> Head(queue[n]), used |-> 0]
      BY <1>4, <2>2 DEF Take
    <3>2. Head(queue[n]) = queue[n][1] /\ 1 \in DOMAIN queue[n]
      BY <2>2
    <3>3. Coming(n)'.id = queue[n][1].id /\ Coming(n)'.part = 1
      BY <2>1, <3>1, <3>2 DEF Coming
    <3>4. current[n].frame.id < queue[n][1].id /\ Coming(n).id = current[n].frame.id
      BY <3>2 DEF QueueInv, Coming
    <3>5. queue[n][1].id \in Nat
      BY <3>2, Facts
    <3>6. Before(Coming(n), Coming(n)')
      BY <3>3, <3>4 DEF Before
    <3> QED BY <2>1, <3>3, <3>5, <3>6, OrderLater
  <2>3. CASE ~(queue[n] # <<>> /\ Consumed(n))
    <3>1. UNCHANGED current
      BY <1>4, <2>3 DEF Take
    <3> QED BY <1>1, <2>1, <3>1
  <2> QED BY <2>2, <2>3
<1>5. CASE Transfer(n)
  <2>1. ~Filled(n, curAddr[n]) /\ \A s \in Slot : Filled(n, s)' <=> Filled(n, s)
    BY <1>5, TransferEffect DEF OwnInv, Filled
  <2>2. \A s \in Slot : Filled(n, s) => ring'[n][s] = ring[n][s]
    BY <1>5, <2>1, TransferEffect
  <2>3. \A s \in Slot : Rank(n, s)' = Rank(n, s)
    BY <1>5, TransferEffect DEF Rank
  <2>4. UNCHANGED <<got, curAddr>> /\ Coming(n)' = Coming(n) /\ ring'[n][curAddr[n]].data = Coming(n)
    BY <1>5, TransferEffect
  <2> QED BY <2>1, <2>2, <2>3, <2>4 DEF OrderInv
<1>6. CASE Close(n)
  <2> DEFINE c == curAddr[n]
  <2>1. /\ UNCHANGED <<sr, current, next, got>> /\ pc[n] = "close" /\ pc'[n] = "take"
        /\ sr[n] /\ c \in Slot
        /\ \A s \in Slot : s # c => ring'[n][s] = ring[n][s]
        /\ ring'[n][c].data = ring[n][c].data /\ ~ring'[n][c].own
    BY <1>6, CloseEffect
  <2>2. /\ Coming(n) = [id |-> current[n].frame.id, part |-> current[n].used]
        /\ Coming(n)' = [id |-> current[n].frame.id, part |-> current[n].used + 1]
    BY <2>1 DEF Coming
  <2>3. current[n].frame.id \in Nat /\ current[n].used \in Nat
    BY Facts
  <2>4. /\ Coming(n)'.id \in Nat /\ Coming(n)'.part \in Nat /\ Coming(n).id \in Nat /\ Coming(n).part \in Nat
        /\ Before(Coming(n), Coming(n)')
    BY <2>2, <2>3 DEF Before
  <2>5. ring'[n][c].data = Coming(n)
    BY <2>1 DEF OrderInv
  <2>6. ~Filled(n, c) /\ \A s \in Slot : Filled(n, s)' <=> s = c \/ Filled(n, s)
    BY <2>1 DEF Filled, OwnInv
  <2>7. \A s \in Slot : Filled(n, s) => Rank(n, s) < Rank(n, c)
    BY <2>1, <2>6, FilledRank
  <2>8. \A s \in Slot : Rank(n, s)' = Rank(n, s) /\ Rank(n, s) \in Int
    BY SMTT(60), <2>1 DEF Rank, Slot, Bounds
  <2> HIDE DEF c
  <2>9. \A i, j \in DOMAIN got'[n] : i < j => Before(got'[n][i].data, got'[n][j].data)
    BY <2>1 DEF OrderInv
  <2>10. \A i \in DOMAIN got'[n] : \A s \in Slot : Filled(n, s)' => Before(got'[n][i].data, ring'[n][s].data)
    BY SMTT(60), <2>1, <2>5, <2>6 DEF OrderInv
  <2>11. ASSUME NEW s \in Slot, NEW t \in Slot, Filled(n, s)', Filled(n, t)', Rank(n, s)' < Rank(n, t)'
         PROVE  Before(ring'[n][s].data, ring'[n][t].data)
    <3>1. s # c
      <4>1. Rank(n, s) < Rank(n, t) /\ Rank(n, s) \in Int /\ Rank(n, t) \in Int
        BY <2>8, <2>11
      <4>2. t = c \/ Rank(n, t) < Rank(n, c)
        BY <2>6, <2>7, <2>11
      <4>3. Rank(n, c) \in Int
        BY <2>1, <2>8
      <4> QED BY <4>1, <4>2, <4>3
    <3>2. Filled(n, s) /\ ring'[n][s] = ring[n][s]
      BY <2>1, <2>6, <2>11, <3>1
    <3>3. CASE t = c
      BY <2>5, <3>2, <3>3 DEF OrderInv
    <3>4. CASE t # c
      BY <2>1, <2>6, <2>8, <2>11, <3>2, <3>4 DEF OrderInv
    <3> QED BY <3>3, <3>4
  <2>12. ASSUME NEW s \in Slot, Filled(n, s)' PROVE Before(ring'[n][s].data, Coming(n)')
    <3>1. CASE s = c
      BY <2>4, <2>5, <3>1
    <3>2. CASE s # c
      <4>1. ring'[n][s] = ring[n][s] /\ Before(ring[n][s].data, Coming(n))
        BY <2>1, <2>6, <2>12, <3>2 DEF OrderInv
      <4>2. ring[n][s].data.id \in Nat /\ ring[n][s].data.part \in Nat
        BY Facts
      <4> QED BY <2>4, <4>1, <4>2, BeforeTransitive
    <3> QED BY <3>1, <3>2
  <2>13. ASSUME NEW i \in DOMAIN got'[n] PROVE Before(got'[n][i].data, Coming(n)')
    <3>1. got'[n][i] = got[n][i] /\ Before(got[n][i].data, Coming(n))
      BY <2>1, <2>13 DEF OrderInv
    <3>2. got[n][i].data.id \in Nat /\ got[n][i].data.part \in Nat
      BY <2>1, Facts
    <3> QED BY <2>4, <3>1, <3>2, BeforeTransitive
  <2> QED BY <2>1, <2>9, <2>10, <2>11, <2>12, <2>13 DEF OrderInv
<1>7. CASE Reap(n)
  <2> DEFINE d == next[n]
             last == Len(got[n]) + 1
  <2>1. /\ UNCHANGED <<sr, curAddr, current, pc>> /\ sr[n] /\ d \in Slot
        /\ got'[n] = Append(got[n], ring[n][d])
        /\ next'[n] = IF d = RingSize - 1 THEN 0 ELSE d + 1
        /\ \A s \in Slot : s # d => ring'[n][s] = ring[n][s]
        /\ ring'[n][d].own /\ ~ring[n][d].own
    BY <1>7, ReapEffect
  <2>2. Coming(n)' = Coming(n)
    BY <2>1 DEF Coming
  <2>3. Filled(n, d) /\ \A s \in Slot : Filled(n, s)' <=> s # d /\ Filled(n, s)
    BY <2>1 DEF Filled
  <2>4. \A s \in Slot : s # d => Rank(n, d) < Rank(n, s) /\ Rank(n, s)' = Rank(n, s) - 1
                                 /\ Rank(n, s) \in Int
    <3> TAKE s \in Slot
    <3> QED BY SMTT(60), <2>1, RankRound DEF Rank
  <2>5. got[n] \in Seq(Segment)
    OBVIOUS
  <2>6. /\ \A i \in DOMAIN got[n] : got'[n][i] = got[n][i] /\ i < last
        /\ got'[n][last] = ring[n][d]
        /\ \A i \in DOMAIN got'[n] : i \in DOMAIN got[n] \/ i = last
        /\ DOMAIN got[n] \subseteq Nat /\ last \in Nat
    BY SMTT(60), <2>1, <2>5
  <2>7. pc[n] = "close" => curAddr[n] \in Slot /\ curAddr[n] # d
    BY <2>1 DEF OwnInv
  <2> HIDE DEF d, last
  <2>8. ASSUME NEW i \in DOMAIN got'[n], NEW j \in DOMAIN got'[n], i < j
        PROVE  Before(got'[n][i].data, got'[n][j].data)
    <3>1. i \in DOMAIN got[n]
      BY SMTT(60), <2>6, <2>8
    <3>2. CASE j = last
      BY SMTT(60), <2>1, <2>3, <2>6, <3>1, <3>2 DEF OrderInv
    <3>3. CASE j # last
      BY <2>6, <2>8, <3>1, <3>3 DEF OrderInv
    <3> QED BY <3>2, <3>3
  <2>9. ASSUME NEW i \in DOMAIN got'[n], NEW s \in Slot, Filled(n, s)'
        PROVE  Before(got'[n][i].data, ring'[n][s].data)
    <3>1. s # d /\ Filled(n, s) /\ ring'[n][s] = ring[n][s] /\ Rank(n, d) < Rank(n, s)
      BY <2>1, <2>3, <2>4, <2>9
    <3>2. CASE i = last
      BY <2>1, <2>3, <2>6, <3>1, <3>2 DEF OrderInv
    <3>3. CASE i # last
      BY <2>6, <3>1, <3>3 DEF OrderInv
    <3> QED BY <3>2, <3>3
  <2>10. ASSUME NEW s \in Slot, NEW t \in Slot, Filled(n, s)', Filled(n, t)', Rank(n, s)' < Rank(n, t)'
         PROVE  Before(ring'[n][s].data, ring'[n][t].data)
    <3>1. /\ Filled(n, s) /\ Filled(n, t) /\ s # d /\ t # d
          /\ ring'[n][s] = ring[n][s] /\ ring'[n][t] = ring[n][t]
      BY <2>1, <2>3, <2>10
    <3>2. Rank(n, s) < Rank(n, t)
      BY <2>4, <2>10, <3>1
    <3> QED BY <3>1, <3>2 DEF OrderInv
  <2>11. \A s \in Slot : Filled(n, s)' => Before(ring'[n][s].data, Coming(n)')
    BY <2>1, <2>2, <2>3 DEF OrderInv
  <2>12. \A i \in DOMAIN got'[n] : Before(got'[n][i].data, Coming(n)')
    BY SMTT(60), <2>1, <2>2, <2>3, <2>6 DEF OrderInv
  <2>13. pc'[n] = "close" => ring'[n][curAddr'[n]].data = Coming(n)'
    BY <2>1, <2>2, <2>7 DEF OrderInv
  <2> QED BY <2>8, <2>9, <2>10, <2>11, <2>12, <2>13 DEF OrderInv
<1>8. CASE ResetNIC(n)
  <2>1. UNCHANGED <<ring, got, next, current, pc>> /\ pc[n] = "poll"
    BY <1>8 DEF ResetNIC, Quiet
  <2>2. Coming(n)' = Coming(n)
    BY <2>1 DEF Coming
  <2> QED BY <2>1, <2>2 DEF OrderInv, Filled, Rank
<1>9. CASE Restart(n)
  <2>1. \A s \in Slot : ~Filled(n, s)'
    BY <1>9, RestartEffect DEF Filled
  <2>2. got'[n] = <<>> /\ pc'[n] # "close"
    BY <1>9, RestartEffect DEF OwnInv
  <2>3. DOMAIN got'[n] = {}
    BY <2>2
  <2> QED BY <2>1, <2>2, <2>3 DEF OrderInv
<1>10. CASE UNCHANGED vars
  BY <1>1, <1>10 DEF vars
<1> QED BY <1>2, <1>3, <1>4, <1>5, <1>6, <1>7, <1>8, <1>9, <1>10, OneInterface

(* No part of a frame reaches the driver twice or behind a later one, however *)
(* often the driver resets the interface between two polls.                   *)
THEOREM PartsReceivedOnce ==
  ASSUME Bounds, Quiet, NEW n, NIC = {n}
  PROVE  Spec => []NothingTwice
<1> DEFINE Inv == OwnInv(n) /\ RingInv(n) /\ QueueInv(n) /\ OrderInv(n)
<1>1. n \in NIC
  OBVIOUS
<1>2. Init => Inv
  <2> SUFFICES ASSUME Init PROVE Inv
    OBVIOUS
  <2>1. /\ sr[n] /\ curAddr[n] = 0 /\ next[n] = 0 /\ pc[n] = "poll" /\ arrived[n] = 0
        /\ queue[n] = <<>> /\ got[n] = <<>> /\ current[n].frame.id = 0
        /\ \A s \in Slot : ring[n][s].own
    BY <1>1 DEF Init, Empty, NoFrame
  <2>2. DOMAIN queue[n] = {} /\ DOMAIN got[n] = {}
    BY <2>1
  <2>a. OwnInv(n)
    BY <2>1, SlotFacts DEF OwnInv
  <2>3. OwnInv(n) /\ RingInv(n)
    BY <2>1, <2>a DEF RingInv, Filled
  <2>4. QueueInv(n) /\ OrderInv(n)
    BY <2>1, <2>2 DEF QueueInv, OrderInv, Filled
  <2> QED BY <2>3, <2>4
<1>3. Typed /\ Inv /\ [Next]_vars => Inv'
  BY <1>1, OwnStep, RingStep, QueueStep, OrderStep
<1>4. Typed /\ Inv => NothingTwice
  <2> SUFFICES ASSUME Typed, Inv, NEW i \in 2 .. Len(got[n])
               PROVE  Before(got[n][i - 1].data, got[n][i].data)
    BY DEF NothingTwice
  <2>1. got[n] \in Seq(Segment)
    BY <1>1, TypedAgain
  <2>2. i - 1 \in DOMAIN got[n] /\ i \in DOMAIN got[n] /\ i - 1 < i
    BY <2>1
  <2> QED BY <2>2 DEF OrderInv
<1>5. Spec => []Typed
  BY TypeCorrect
<1> HIDE DEF Inv
<1> QED BY <1>2, <1>3, <1>4, <1>5, PTL DEF Spec

-----------------------------------------------------------------------------
(* Without resets: the current frame among those accepted.                    *)
LEMMA AcceptedStep ==
  ASSUME Bounds, Resets = "never", Typed, NEW n \in NIC, NIC = {n}, OwnInv(n), QueueInv(n),
         AcceptedInv(n), [Next]_vars
  PROVE  AcceptedInv(n)'
<1> USE TypedAgain
<1> DEFINE Rest(m) ==
             /\ pc[m] \in {"fetch", "check", "transfer"} => current[m].used < current[m].frame.len
             /\ current[m].used <= current[m].frame.len
             /\ pc[m] = "close" => current[m].used > 0
             /\ pc[m] \in {"transfer", "close"} => (descr.fs <=> Coming(m).part = 1) /\ ~descr.own
<1>1. ASSUME UNCHANGED <<sr, queue, accepted, arrived>>, current'[n].frame = current[n].frame, Rest(n)'
      PROVE  AcceptedInv(n)'
  BY <1>1 DEF AcceptedInv, Taken
<1>2. ASSUME NEW parts \in Parts, Capture(n, parts) PROVE AcceptedInv(n)'
  <2> DEFINE f == [id |-> arrived[n] + 1, len |-> parts]
  <2>1. /\ UNCHANGED <<sr, current, descr, pc>> /\ arrived'[n] = arrived[n] + 1 /\ arrived[n] \in Nat
    BY <1>2, Facts DEF Capture
  <2>2. Rest(n)'
    BY <2>1 DEF AcceptedInv, Coming
  <2>3. CASE UNCHANGED <<queue, accepted>>
    <3>1. \A i \in DOMAIN accepted[n] : accepted[n][i].id <= arrived[n] + 1
      <4> TAKE i \in DOMAIN accepted[n]
      <4>1. accepted[n][i].id <= arrived[n] /\ accepted[n][i].id \in Nat
        BY SMTT(60), Facts DEF AcceptedInv
      <4> QED BY <2>1, <4>1
    <3> QED BY <2>1, <2>2, <2>3, <3>1 DEF AcceptedInv, Taken
  <2>4. CASE /\ queue' = [queue EXCEPT ![n] = Append(queue[n], f)]
             /\ accepted' = [accepted EXCEPT ![n] = Append(accepted[n], f)]
    <3>1. queue'[n] = Append(queue[n], f) /\ accepted'[n] = Append(accepted[n], f)
      BY <2>4
    <3>2. queue[n] \in Seq(Incoming) /\ accepted[n] \in Seq(Incoming)
      OBVIOUS
    <3>3. f.id = arrived[n] + 1
      OBVIOUS
    <3> HIDE DEF f
    <3>4. Taken(n)' = Taken(n) /\ Taken(n) \in Nat /\ Taken(n) = Len(accepted[n]) - Len(queue[n])
      BY <3>1, <3>2 DEF Taken, AcceptedInv
    <3>5. /\ \A i \in DOMAIN accepted[n] : accepted'[n][i] = accepted[n][i]
          /\ accepted'[n][Len(accepted[n]) + 1] = f
          /\ \A i \in DOMAIN accepted'[n] : i \in DOMAIN accepted[n] \/ i = Len(accepted[n]) + 1
          /\ \A i \in DOMAIN queue[n] : queue'[n][i] = queue[n][i]
          /\ queue'[n][Len(queue[n]) + 1] = f
          /\ \A i \in DOMAIN queue'[n] : i \in DOMAIN queue[n] \/ i = Len(queue[n]) + 1
      BY SMTT(60), <3>1, <3>2
    <3>6. IF Taken(n)' = 0 THEN current'[n].frame = NoFrame
                           ELSE current'[n].frame = accepted'[n][Taken(n)']
      <4>1. Taken(n) # 0 => Taken(n) \in DOMAIN accepted[n]
        BY <3>2, <3>4
      <4> QED BY SMTT(60), <2>1, <3>4, <3>5, <4>1 DEF AcceptedInv
    <3>7. ASSUME NEW i \in DOMAIN queue'[n] PROVE queue'[n][i] = accepted'[n][Taken(n)' + i]
      <4>1. CASE i \in DOMAIN queue[n]
        <5>1. Taken(n) + i \in DOMAIN accepted[n]
          BY <3>2, <3>4, <4>1
        <5> QED BY SMTT(60), <3>4, <3>5, <4>1, <5>1 DEF AcceptedInv
      <4>2. CASE i = Len(queue[n]) + 1
        <5>1. Taken(n) + i = Len(accepted[n]) + 1
          BY <3>2, <3>4, <4>2
        <5> QED BY <3>4, <3>5, <4>2, <5>1
      <4> QED BY <3>5, <4>1, <4>2
    <3>8. \A i \in DOMAIN accepted[n] : accepted[n][i].id <= arrived[n] /\ accepted[n][i].id \in Nat
      BY SMTT(60), Facts DEF AcceptedInv
    <3>9. DOMAIN accepted[n] \subseteq Nat /\ Len(accepted[n]) \in Nat
          /\ \A i \in DOMAIN accepted[n] : i <= Len(accepted[n])
      BY SMTT(60), <3>2
    <3>10. \A i, j \in DOMAIN accepted'[n] : i < j => accepted'[n][i].id < accepted'[n][j].id
      <4> DEFINE last == Len(accepted[n]) + 1
      <4>1. /\ \A i \in DOMAIN accepted[n] : accepted'[n][i] = accepted[n][i] /\ i < last /\ i \in Nat
            /\ \A i \in DOMAIN accepted'[n] : i \in DOMAIN accepted[n] \/ i = last
            /\ accepted'[n][last] = f /\ last \in Nat
        BY SMTT(60), <3>5, <3>9
      <4> HIDE DEF last
      <4>2. \A i, j \in DOMAIN accepted[n] : i < j => accepted[n][i].id < accepted[n][j].id
        BY DEF AcceptedInv
      <4>3. \A i \in DOMAIN accepted[n] : accepted[n][i].id < f.id
        BY SMTT(60), <2>1, <3>3, <3>8
      <4> HIDE TypedAgain
      <4> QED BY <4>1, <4>2, <4>3
    <3>11. \A i \in DOMAIN accepted'[n] : accepted'[n][i].id <= arrived'[n]
      BY SMTT(60), <2>1, <3>3, <3>5, <3>8
    <3>12. sr'[n] /\ Taken(n)' \in Nat
      BY <2>1, <3>4 DEF AcceptedInv
    <3> QED BY <2>2, <3>6, <3>7, <3>10, <3>11, <3>12 DEF AcceptedInv
  <2> QED BY <1>2, <2>3, <2>4 DEF Capture
<1>3. CASE Poll(n)
  <2>1. UNCHANGED <<sr, queue, accepted, arrived, current, descr>> /\ pc'[n] = "take"
    BY <1>3 DEF Poll, Go
  <2>2. Rest(n)'
    BY <2>1 DEF AcceptedInv
  <2> QED BY <1>1, <2>1, <2>2
<1>4. CASE Take(n)
  <2>1. UNCHANGED <<sr, accepted, arrived, descr>> /\ pc[n] = "take" /\ pc'[n] \in {"poll", "fetch"}
    BY <1>4 DEF Take, Go
  <2>2. CASE queue[n] # <<>> /\ Consumed(n)
    <3>1. queue'[n] = Tail(queue[n]) /\ current'[n] = [frame |-> Head(queue[n]), used |-> 0]
      BY <1>4, <2>2 DEF Take
    <3>2. queue[n] \in Seq(Incoming) /\ accepted[n] \in Seq(Incoming)
      OBVIOUS
    <3>3. /\ Len(queue'[n]) = Len(queue[n]) - 1 /\ 1 \in DOMAIN queue[n] /\ Head(queue[n]) = queue[n][1]
          /\ \A i \in DOMAIN queue'[n] : i + 1 \in DOMAIN queue[n] /\ queue'[n][i] = queue[n][i + 1]
                                         /\ i \in Nat
      BY <2>2, <3>1, <3>2
    <3>4. Taken(n)' = Taken(n) + 1 /\ Taken(n) \in Nat
      BY <2>1, <3>2, <3>3 DEF Taken, AcceptedInv
    <3>5. current'[n].frame = accepted[n][Taken(n) + 1] /\ current'[n].used = 0
      BY SMTT(60), <3>1, <3>3 DEF AcceptedInv
    <3>6. \A i \in DOMAIN queue'[n] : queue'[n][i] = accepted[n][Taken(n)' + i]
      <4> TAKE i \in DOMAIN queue'[n]
      <4>1. queue'[n][i] = accepted[n][Taken(n) + (i + 1)]
        BY <3>3 DEF AcceptedInv
      <4>2. Taken(n) + (i + 1) = Taken(n)' + i
        BY SMTT(60), <3>3, <3>4
      <4> QED BY <4>1, <4>2
    <3>7. Head(queue[n]).len \in Nat \ {0}
      <4>1. Head(queue[n]) \in Incoming
        BY <3>2, <3>3
      <4>2. Head(queue[n]).len \in Parts
        BY <4>1 DEF Incoming
      <4> QED BY <4>2 DEF Bounds
    <3>8. Rest(n)'
      BY SMTT(60), <2>1, <3>1, <3>7
    <3>9. /\ sr'[n]
          /\ \A i, j \in DOMAIN accepted'[n] : i < j => accepted'[n][i].id < accepted'[n][j].id
          /\ \A i \in DOMAIN accepted'[n] : accepted'[n][i].id <= arrived'[n]
      BY <2>1 DEF AcceptedInv
    <3>10. Taken(n)' # 0 /\ Taken(n)' \in Nat /\ current'[n].frame = accepted'[n][Taken(n)']
      BY SMTT(60), <2>1, <3>4, <3>5
    <3> QED BY <2>1, <3>6, <3>8, <3>9, <3>10 DEF AcceptedInv
  <2>3. CASE ~(queue[n] # <<>> /\ Consumed(n))
    <3>1. UNCHANGED <<queue, current>> /\ (pc'[n] = "fetch" => ~Consumed(n))
      BY <1>4, <2>3 DEF Take, Go
    <3>2. current[n].used \in Nat /\ current[n].frame.len \in Nat
      BY Facts
    <3>3. Rest(n)'
      BY SMTT(60), <2>1, <3>1, <3>2 DEF AcceptedInv, Consumed
    <3> QED BY <1>1, <2>1, <3>1, <3>3
  <2> QED BY <2>2, <2>3
<1>5. CASE Fetch(n)
  <2>1. UNCHANGED <<sr, queue, accepted, arrived, current>> /\ pc[n] = "fetch" /\ pc'[n] = "check"
    BY <1>5 DEF Fetch, Go
  <2>2. Rest(n)'
    BY <2>1 DEF AcceptedInv
  <2> QED BY <1>1, <2>1, <2>2
<1>6. CASE Check(n)
  <2>1. UNCHANGED <<sr, queue, accepted, arrived, current>> /\ pc[n] = "check"
    BY <1>6 DEF Check
  <2>2. CASE descr.own
    <3> DEFINE first == current[n].used = 0
    <3>1. pc'[n] = "transfer" /\ descr' = [descr EXCEPT !.own = FALSE, !.fs = first]
      BY <1>6, <2>2 DEF Check, Go
    <3>2. descr \in Static
      OBVIOUS
    <3>3. current[n].used \in Nat
      BY Facts
    <3>4. Coming(n)'.part = current[n].used + 1
      BY <2>1, <3>1 DEF Coming
    <3>5. first <=> Coming(n)'.part = 1
      BY SMTT(60), <3>3, <3>4
    <3> HIDE DEF first
    <3>6. descr'.own = FALSE /\ descr'.fs = first
      BY <3>1, <3>2 DEF Static
    <3>7. Rest(n)'
      BY <2>1, <3>1, <3>5, <3>6 DEF AcceptedInv
    <3> QED BY <1>1, <2>1, <3>7
  <2>3. CASE ~descr.own
    <3>1. pc'[n] = "poll" /\ descr' = descr
      BY <1>6, <2>3 DEF Check, Go
    <3>2. Rest(n)'
      BY <2>1, <3>1 DEF AcceptedInv
    <3> QED BY <1>1, <2>1, <3>2
  <2> QED BY <2>2, <2>3
<1>7. CASE Transfer(n)
  <2>1. /\ UNCHANGED <<sr, queue, accepted, arrived, descr>> /\ pc[n] = "transfer" /\ pc'[n] = "close"
        /\ current'[n].frame = current[n].frame /\ current'[n].used = current[n].used + 1
        /\ Coming(n)' = Coming(n)
    BY <1>7, TransferEffect
  <2>2. current[n].used \in Nat /\ current[n].frame.len \in Nat
    BY Facts
  <2>3. Rest(n)'
    BY SMTT(60), <2>1, <2>2 DEF AcceptedInv
  <2> QED BY <1>1, <2>1, <2>3
<1>8. CASE Close(n)
  <2>1. UNCHANGED <<sr, queue, accepted, arrived, current>> /\ pc'[n] = "take"
    BY <1>8, CloseEffect
  <2>2. Rest(n)'
    BY <2>1 DEF AcceptedInv
  <2> QED BY <1>1, <2>1, <2>2
<1>9. CASE Reap(n) \/ UNCHANGED vars
  <2>1. UNCHANGED <<sr, queue, accepted, arrived, current, descr, pc>>
    BY <1>9 DEF Reap, vars
  <2>2. Rest(n)'
    BY <2>1 DEF AcceptedInv, Coming
  <2> QED BY <1>1, <2>1, <2>2
<1>10. ~ResetNIC(n) /\ ~Restart(n)
  BY DEF ResetNIC, Restart, AcceptedInv
<1> QED BY <1>2, <1>3, <1>4, <1>5, <1>6, <1>7, <1>8, <1>9, <1>10, OneInterface

-----------------------------------------------------------------------------
(* Nothing is missing in front of the part that is coming.                    *)
Part(n, k, p) == SegmentOf(accepted[n][k], p)

LEMMA PartFacts ==
  ASSUME Bounds, Typed, NEW n \in NIC, NEW k \in DOMAIN accepted[n],
         NEW p \in 1 .. accepted[n][k].len
  PROVE  /\ Part(n, k, p).data.id = accepted[n][k].id /\ accepted[n][k].id \in Nat
         /\ Part(n, k, p).data.part = p /\ p \in Nat
         /\ accepted[n][k].len \in Nat
<1>1. accepted[n][k] \in Incoming
  BY TypedAgain
<1>2. accepted[n][k].id \in Nat /\ accepted[n][k].len \in Nat
  BY <1>1, Facts
<1>3. p \in Nat
  BY <1>2
<1>4. Part(n, k, p).data = [id |-> accepted[n][k].id, part |-> p]
  BY DEF Part, SegmentOf
<1> QED BY <1>2, <1>3, <1>4

(* A frame is known by its number.                                            *)
LEMMA FrameOrder ==
  ASSUME Bounds, Typed, NEW n \in NIC, AcceptedInv(n),
         NEW j \in DOMAIN accepted[n], NEW k \in DOMAIN accepted[n]
  PROVE  /\ accepted[n][j].id < accepted[n][k].id => j < k
         /\ accepted[n][j].id = accepted[n][k].id => j = k
<1>1. accepted[n] \in Seq(Incoming)
  BY TypedAgain
<1>2. accepted[n][j].id \in Nat /\ accepted[n][k].id \in Nat /\ j \in Nat /\ k \in Nat
  BY <1>1, Facts
<1>3. (j < k => accepted[n][j].id < accepted[n][k].id) /\ (k < j => accepted[n][k].id < accepted[n][j].id)
  BY DEF AcceptedInv
<1> QED BY <1>2, <1>3

LEMMA CompleteSame ==
  ASSUME NEW n, CompleteInv(n), UNCHANGED <<accepted, got>>,
         \A s \in Slot : /\ Filled(n, s)' <=> Filled(n, s)
                         /\ Filled(n, s) => ring'[n][s] = ring[n][s],
         Coming(n)' = Coming(n)
  PROVE  CompleteInv(n)'
<1>1. \A d : SegmentIn(accepted'[n], d) <=> SegmentIn(accepted[n], d)
  BY DEF SegmentIn
<1>2. \A d : Among(got[n], ring[n], d) => Among(got'[n], ring'[n], d)
  BY DEF Among, Filled
<1> QED BY <1>1, <1>2 DEF CompleteInv

LEMMA CompleteStep ==
  ASSUME Bounds, Resets = "never", Typed, NEW n \in NIC, NIC = {n}, OwnInv(n), QueueInv(n),
         AcceptedInv(n), OrderInv(n), CompleteInv(n), [Next]_vars
  PROVE  CompleteInv(n)'
<1> USE TypedAgain
<1>1. ASSUME NEW parts \in Parts, Capture(n, parts) PROVE CompleteInv(n)'
  <2> DEFINE f == [id |-> arrived[n] + 1, len |-> parts]
             last == Len(accepted[n]) + 1
  <2>1. UNCHANGED <<got, ring, current, pc>>
    BY <1>1 DEF Capture
  <2>2. Coming(n)' = Coming(n) /\ \A s \in Slot : Filled(n, s)' <=> Filled(n, s)
    BY <2>1 DEF Coming, Filled
  <2>3. CASE UNCHANGED accepted
    BY <2>1, <2>2, <2>3, CompleteSame
  <2>4. CASE accepted' = [accepted EXCEPT ![n] = Append(accepted[n], f)]
    <3>1. accepted'[n] = Append(accepted[n], f) /\ accepted[n] \in Seq(Incoming)
      BY <2>4
    <3>2. f.id = arrived[n] + 1 /\ arrived[n] \in Nat /\ Coming(n).id <= arrived[n]
          /\ Coming(n).id \in Nat
      BY Facts DEF Coming, QueueInv
    <3> HIDE DEF f
    <3>3. /\ \A k \in DOMAIN accepted[n] : k \in DOMAIN accepted'[n] /\ accepted'[n][k] = accepted[n][k]
          /\ \A k \in DOMAIN accepted'[n] : k \in DOMAIN accepted[n] \/ k = last
          /\ accepted'[n][last] = f
      BY SMTT(60), <3>1
    <3> HIDE DEF last
    <3>4. \A d : SegmentIn(accepted[n], d) => SegmentIn(accepted'[n], d)
      BY <3>3 DEF SegmentIn
    <3>5. \A d : Among(got[n], ring[n], d) => Among(got'[n], ring'[n], d)
      BY <2>1, <2>2 DEF Among, Filled
    <3>6. /\ \A i \in DOMAIN got'[n] : SegmentIn(accepted'[n], got'[n][i])
          /\ \A s \in Slot : Filled(n, s)' => SegmentIn(accepted'[n], ring'[n][s])
      BY <2>1, <2>2, <3>4 DEF CompleteInv
    <3>7. ASSUME NEW k \in DOMAIN accepted'[n], NEW p \in 1 .. accepted'[n][k].len,
                 Before(SegmentOf(accepted'[n][k], p).data, Coming(n)')
          PROVE  Among(got'[n], ring'[n], SegmentOf(accepted'[n][k], p))
      <4>1. CASE k \in DOMAIN accepted[n]
        BY <2>2, <3>3, <3>5, <3>7, <4>1 DEF CompleteInv
      <4>2. CASE k = last
        <5>1. SegmentOf(accepted'[n][k], p).data.id = arrived[n] + 1
          BY <3>2, <3>3, <4>2 DEF SegmentOf
        <5> QED BY SMTT(60), <2>2, <3>2, <3>7, <5>1 DEF Before
      <4> QED BY <3>3, <4>1, <4>2
    <3> QED BY <3>6, <3>7 DEF CompleteInv
  <2> QED BY <1>1, <2>3, <2>4 DEF Capture
<1>2. CASE Poll(n) \/ Fetch(n) \/ Check(n) \/ UNCHANGED vars
  <2>1. UNCHANGED <<ring, got, current, accepted>>
    BY <1>2 DEF Poll, Fetch, Check, vars
  <2>2. UNCHANGED pc[n] \/ (pc[n] # "close" /\ pc'[n] # "close")
    BY <1>2 DEF Poll, Fetch, Check, Go, vars
  <2>3. Coming(n)' = Coming(n) /\ \A s \in Slot : Filled(n, s)' <=> Filled(n, s)
    BY <2>1, <2>2 DEF Coming, Filled
  <2> QED BY <2>1, <2>3, CompleteSame
<1>3. CASE Take(n)
  <2>1. UNCHANGED <<ring, got, accepted>> /\ pc[n] = "take" /\ pc'[n] \in {"poll", "fetch"}
    BY <1>3 DEF Take, Go
  <2>2. \A s \in Slot : Filled(n, s)' <=> Filled(n, s)
    BY <2>1 DEF Filled
  <2>3. CASE queue[n] # <<>> /\ Consumed(n)
    <3> DEFINE t == Taken(n)
    <3>1. current'[n] = [frame |-> Head(queue[n]), used |-> 0]
      BY <1>3, <2>3 DEF Take
    <3>2. queue[n] \in Seq(Incoming) /\ accepted[n] \in Seq(Incoming) /\ 1 \in DOMAIN queue[n]
          /\ Head(queue[n]) = queue[n][1]
      BY <2>3
    <3>3. t \in Nat /\ t + 1 \in DOMAIN accepted[n] /\ queue[n][1] = accepted[n][t + 1]
      BY SMTT(60), <3>2 DEF AcceptedInv, Taken
    <3>4. Coming(n)'.id = accepted[n][t + 1].id /\ Coming(n)'.part = 1
      BY SMTT(60), <2>1, <3>1, <3>2, <3>3 DEF Coming
    <3>5. /\ current[n].used = current[n].frame.len
          /\ Coming(n).id = current[n].frame.id /\ Coming(n).part = current[n].used + 1
          /\ current[n].used \in Nat
      BY SMTT(60), <2>1, <2>3, Facts DEF AcceptedInv, Consumed, Coming
    <3>6. t # 0 => current[n].frame = accepted[n][t]
      BY DEF AcceptedInv
    <3> HIDE DEF t
    <3>7. ASSUME NEW k \in DOMAIN accepted[n], NEW p \in 1 .. accepted[n][k].len,
                 Before(Part(n, k, p).data, Coming(n)')
          PROVE  Before(Part(n, k, p).data, Coming(n))
      <4>1. /\ Part(n, k, p).data.id = accepted[n][k].id /\ accepted[n][k].id \in Nat
            /\ Part(n, k, p).data.part = p /\ p \in Nat /\ accepted[n][k].len \in Nat
        BY PartFacts
      <4>2. accepted[n][k].id < accepted[n][t + 1].id
        <5>1. p >= 1
          BY <4>1
        <5> QED BY <3>4, <3>7, <4>1, <5>1 DEF Before
      <4>3. k < t + 1 /\ k \in Nat /\ k > 0
        BY SMTT(60), <3>2, <3>3, <4>2, FrameOrder
      <4>4. t \in DOMAIN accepted[n] /\ current[n].frame = accepted[n][t] /\ k <= t
        BY SMTT(60), <3>2, <3>3, <3>6, <4>3
      <4>5. CASE k = t
        BY SMTT(60), <3>5, <4>1, <4>4, <4>5 DEF Before
      <4>6. CASE k # t
        <5>1. accepted[n][k].id < accepted[n][t].id
          BY SMTT(60), <3>3, <4>3, <4>4, <4>6 DEF AcceptedInv
        <5> QED BY <3>5, <4>1, <4>4, <5>1 DEF Before
      <4> QED BY <4>5, <4>6
    <3>8. (\A d : SegmentIn(accepted'[n], d) <=> SegmentIn(accepted[n], d)) /\ (\A d : Among(got[n], ring[n], d) => Among(got'[n], ring'[n], d))
      BY <2>1, <2>2 DEF SegmentIn, Among, Filled
    <3>9. ASSUME NEW k \in DOMAIN accepted'[n], NEW p \in 1 .. accepted'[n][k].len,
                 Before(SegmentOf(accepted'[n][k], p).data, Coming(n)')
          PROVE  Among(got'[n], ring'[n], SegmentOf(accepted'[n][k], p))
      <4>1. Before(Part(n, k, p).data, Coming(n))
        BY <2>1, <3>7, <3>9 DEF Part
      <4> QED BY <2>1, <3>8, <3>9, <4>1 DEF CompleteInv, Part
    <3> QED BY <2>1, <2>2, <3>8, <3>9 DEF CompleteInv
  <2>4. CASE ~(queue[n] # <<>> /\ Consumed(n))
    <3>1. UNCHANGED current
      BY <1>3, <2>4 DEF Take
    <3>2. Coming(n)' = Coming(n)
      BY <2>1, <3>1 DEF Coming
    <3> QED BY <2>1, <2>2, <3>2, CompleteSame
  <2> QED BY <2>3, <2>4
<1>4. CASE Transfer(n)
  <2>1. UNCHANGED <<accepted, got>> /\ Coming(n)' = Coming(n)
    BY <1>4, TransferEffect
  <2>2. ~Filled(n, curAddr[n]) /\ \A s \in Slot : Filled(n, s)' <=> Filled(n, s)
    BY <1>4, TransferEffect DEF OwnInv, Filled
  <2>3. \A s \in Slot : Filled(n, s) => ring'[n][s] = ring[n][s]
    BY <1>4, <2>2, TransferEffect
  <2> QED BY <2>1, <2>2, <2>3, CompleteSame
<1>5. CASE Close(n)
  <2> DEFINE c == curAddr[n]
             t == Taken(n)
             u == current[n].used
  <2>1. /\ UNCHANGED <<sr, current, got, accepted>> /\ pc[n] = "close" /\ pc'[n] = "take"
        /\ c \in Slot
        /\ \A s \in Slot : s # c => ring'[n][s] = ring[n][s]
        /\ ring'[n][c] = [own |-> FALSE, fs |-> descr.fs, ls |-> Consumed(n), data |-> ring[n][c].data]
    BY <1>5, CloseEffect
  <2>2. /\ u \in Nat /\ current[n].frame.id \in Nat /\ current[n].frame.len \in Nat
        /\ u > 0 /\ u <= current[n].frame.len
        /\ Coming(n) = [id |-> current[n].frame.id, part |-> u]
        /\ Coming(n)' = [id |-> current[n].frame.id, part |-> u + 1]
    BY <2>1, Facts DEF AcceptedInv, Coming
  <2>3. t # 0
    BY SMTT(60), <2>2 DEF AcceptedInv, NoFrame
  <2>4. t \in DOMAIN accepted[n] /\ current[n].frame = accepted[n][t]
    <3>1. queue[n] \in Seq(Incoming) /\ accepted[n] \in Seq(Incoming)
      OBVIOUS
    <3>2. t \in Nat /\ t = Len(accepted[n]) - Len(queue[n]) /\ current[n].frame = accepted[n][t]
      BY <2>3 DEF AcceptedInv, Taken
    <3> QED BY <2>3, <3>1, <3>2
  <2>5. u \in 1 .. accepted[n][t].len
    BY <2>2, <2>4
  <2>6. /\ (descr.fs <=> u = 1) /\ descr.fs \in BOOLEAN
        /\ (Consumed(n) <=> u = accepted[n][t].len) /\ Consumed(n) \in BOOLEAN
        /\ ring[n][c].data = [id |-> accepted[n][t].id, part |-> u]
    <3>1. descr.fs <=> Coming(n).part = 1
      BY <2>1 DEF AcceptedInv
    <3>2. ring[n][c].data = Coming(n)
      BY <2>1 DEF OrderInv
    <3>3. Consumed(n) <=> u = accepted[n][t].len
      BY SMTT(60), <2>2, <2>4 DEF Consumed
    <3>4. descr.fs \in BOOLEAN
      BY Facts
    <3> QED BY SMTT(60), <2>2, <2>4, <3>1, <3>2, <3>3, <3>4 DEF Consumed
  <2>7. ring'[n][c] = SegmentOf(accepted[n][t], u)
    <3>1. descr.fs = (u = 1) /\ Consumed(n) = (u = accepted[n][t].len)
      BY <2>6
    <3> QED BY <2>1, <2>6, <3>1 DEF SegmentOf
  <2> HIDE DEF c, t, u
  <2>8. \A s \in Slot : Filled(n, s)' <=> s = c \/ Filled(n, s)
    BY <2>1 DEF Filled
  <2>9. ~Filled(n, c)
    BY <2>1 DEF OwnInv, Filled, c
  <2>10. \A d : SegmentIn(accepted'[n], d) <=> SegmentIn(accepted[n], d)
    BY <2>1 DEF SegmentIn
  <2>11. \A d : Among(got[n], ring[n], d) => Among(got'[n], ring'[n], d)
    BY ZenonT(60), <2>1, <2>8, <2>9 DEF Among, Filled
  <2>12. /\ \A i \in DOMAIN got'[n] : SegmentIn(accepted'[n], got'[n][i])
         /\ \A s \in Slot : Filled(n, s)' => SegmentIn(accepted'[n], ring'[n][s])
    <3>1. SegmentIn(accepted[n], ring'[n][c])
      BY <2>4, <2>5, <2>7 DEF SegmentIn
    <3> QED BY <2>1, <2>8, <2>10, <3>1 DEF CompleteInv
  <2>13. ASSUME NEW k \in DOMAIN accepted[n], NEW p \in 1 .. accepted[n][k].len,
                Before(Part(n, k, p).data, Coming(n)')
         PROVE  Among(got'[n], ring'[n], Part(n, k, p))
    <3>1. /\ Part(n, k, p).data.id = accepted[n][k].id /\ accepted[n][k].id \in Nat
          /\ Part(n, k, p).data.part = p /\ p \in Nat
      BY PartFacts
    <3>2. CASE Before(Part(n, k, p).data, Coming(n))
      BY <2>11, <3>2 DEF CompleteInv, Part
    <3>3. CASE ~Before(Part(n, k, p).data, Coming(n))
      <4>1. accepted[n][k].id = current[n].frame.id /\ p = u
        BY <2>2, <2>13, <3>1, <3>3 DEF Before
      <4>2. k = t
        BY <2>4, <4>1, FrameOrder
      <4>3. ring'[n][c] = Part(n, k, p)
        BY <2>7, <4>1, <4>2 DEF Part
      <4> QED BY <2>1, <2>8, <4>3 DEF Among, Filled, Part
    <3> QED BY <3>2, <3>3
  <2> QED BY <2>1, <2>12, <2>13 DEF CompleteInv, Part
<1>6. CASE Reap(n)
  <2> DEFINE d == next[n]
             last == Len(got[n]) + 1
  <2>1. /\ UNCHANGED <<current, pc, accepted>> /\ d \in Slot
        /\ got'[n] = Append(got[n], ring[n][d])
        /\ \A s \in Slot : s # d => ring'[n][s] = ring[n][s]
        /\ ring'[n][d].own /\ ~ring[n][d].own
    BY <1>6, ReapEffect
  <2>2. Coming(n)' = Coming(n)
    BY <2>1 DEF Coming
  <2>3. Filled(n, d) /\ \A s \in Slot : Filled(n, s)' <=> s # d /\ Filled(n, s)
    BY <2>1 DEF Filled
  <2>4. got[n] \in Seq(Segment)
    OBVIOUS
  <2>5. /\ \A i \in DOMAIN got[n] : i \in DOMAIN got'[n] /\ got'[n][i] = got[n][i]
        /\ last \in DOMAIN got'[n] /\ got'[n][last] = ring[n][d]
        /\ \A i \in DOMAIN got'[n] : i \in DOMAIN got[n] \/ i = last
    BY SMTT(60), <2>1, <2>4
  <2> HIDE DEF d, last
  <2>6. \A e : SegmentIn(accepted'[n], e) <=> SegmentIn(accepted[n], e)
    BY <2>1 DEF SegmentIn
  <2>7. ASSUME NEW e, Among(got[n], ring[n], e) PROVE Among(got'[n], ring'[n], e)
    <3>1. CASE \E i \in DOMAIN got[n] : got[n][i] = e
      BY <2>5, <3>1 DEF Among, Filled
    <3>2. CASE \E s \in Slot : Filled(n, s) /\ ring[n][s] = e
      <4>1. PICK s \in Slot : Filled(n, s) /\ ring[n][s] = e
        BY <3>2
      <4>2. CASE s = d
        BY <2>5, <4>1, <4>2 DEF Among, Filled
      <4>3. CASE s # d
        BY <2>1, <2>3, <4>1, <4>3 DEF Among, Filled
      <4> QED BY <4>2, <4>3
    <3> QED BY <2>7, <3>1, <3>2 DEF Among, Filled
  <2>8. \A i \in DOMAIN got'[n] : SegmentIn(accepted'[n], got'[n][i])
    BY <2>1, <2>3, <2>5, <2>6 DEF CompleteInv
  <2>9. \A s \in Slot : Filled(n, s)' => SegmentIn(accepted'[n], ring'[n][s])
    BY <2>1, <2>3, <2>6 DEF CompleteInv
  <2>10. \A k \in DOMAIN accepted[n] : \A p \in 1 .. accepted[n][k].len :
           Before(SegmentOf(accepted[n][k], p).data, Coming(n)) => Among(got'[n], ring'[n], SegmentOf(accepted[n][k], p))
    BY <2>7 DEF CompleteInv
  <2> QED BY <2>1, <2>2, <2>8, <2>9, <2>10 DEF CompleteInv
<1>7. ~ResetNIC(n) /\ ~Restart(n)
  BY DEF ResetNIC, Restart, AcceptedInv
<1> QED BY <1>1, <1>2, <1>3, <1>4, <1>5, <1>6, <1>7, OneInterface

(* The driver receives exactly the segments of the accepted frames, each      *)
(* once, marked FS and LS as its place in its frame says, and none before     *)
(* those in front of it: however full rx_queue and the ring get.              *)
THEOREM FramesReceivedInOrder ==
  ASSUME Bounds, Resets = "never", NEW n, NIC = {n}
  PROVE  Spec => []InOrder
<1> DEFINE Inv == OwnInv(n) /\ QueueInv(n) /\ OrderInv(n) /\ RingInv(n) /\ AcceptedInv(n) /\ CompleteInv(n)
<1>1. n \in NIC /\ Quiet
  BY DEF Quiet
<1>2. Init => Inv
  <2> SUFFICES ASSUME Init PROVE Inv
    OBVIOUS
  <2>1. /\ sr[n] /\ curAddr[n] = 0 /\ next[n] = 0 /\ pc[n] = "poll" /\ arrived[n] = 0
        /\ queue[n] = <<>> /\ got[n] = <<>> /\ accepted[n] = <<>>
        /\ current[n].frame = NoFrame /\ current[n].used = 0
        /\ \A s \in Slot : ring[n][s].own
    BY <1>1 DEF Init, Empty
  <2>2. DOMAIN queue[n] = {} /\ DOMAIN got[n] = {} /\ DOMAIN accepted[n] = {}
        /\ Len(queue[n]) = 0 /\ Len(accepted[n]) = 0
    BY <2>1
  <2>3. current[n].frame.id = 0 /\ current[n].frame.len = 0
    BY <2>1 DEF NoFrame
  <2>4. OwnInv(n)
    BY <2>1, SlotFacts DEF OwnInv
  <2>5. RingInv(n)
    BY <2>1 DEF RingInv, Filled
  <2>6. QueueInv(n) /\ OrderInv(n)
    BY <2>1, <2>2, <2>3 DEF QueueInv, OrderInv, Filled
  <2>7. AcceptedInv(n) /\ CompleteInv(n)
    BY <2>1, <2>2, <2>3 DEF AcceptedInv, Taken, CompleteInv, Filled
  <2> QED BY <2>4, <2>5, <2>6, <2>7
<1>3. Typed /\ Inv /\ [Next]_vars => Inv'
  BY <1>1, OwnStep, RingStep, QueueStep, OrderStep, AcceptedStep, CompleteStep
<1>4. Typed /\ Inv => InOrder
  <2> SUFFICES ASSUME Typed, Inv PROVE InOrder
    OBVIOUS
  <2>1. got[n] \in Seq(Segment)
    BY <1>1, TypedAgain
  <2>2. DOMAIN got[n] = 1 .. Len(got[n]) /\ DOMAIN got[n] \subseteq Nat
    BY <2>1
  <2>3. NothingTwice
    <3> SUFFICES ASSUME NEW i \in 2 .. Len(got[n]) PROVE Before(got[n][i - 1].data, got[n][i].data)
      BY DEF NothingTwice
    <3>1. i - 1 \in DOMAIN got[n] /\ i \in DOMAIN got[n] /\ i - 1 < i
      BY <2>1
    <3> QED BY <3>1 DEF OrderInv
  <2>4. ASSUME NEW i \in DOMAIN got[n]
        PROVE  \E k \in DOMAIN accepted[n] : \E p \in 1 .. accepted[n][k].len :
                 got[n][i] = SegmentOf(accepted[n][k], p)
    BY <2>4 DEF CompleteInv, SegmentIn
  <2>5. ASSUME NEW i \in DOMAIN got[n], NEW k \in DOMAIN accepted[n], NEW p \in 1 .. accepted[n][k].len,
               Before(Part(n, k, p).data, got[n][i].data)
        PROVE  \E j \in 1 .. i - 1 : got[n][j] = Part(n, k, p)
    <3> DEFINE e == Part(n, k, p)
               x == got[n][i].data
    <3>1. /\ e.data.id \in Nat /\ e.data.part \in Nat /\ x.id \in Nat /\ x.part \in Nat
          /\ Coming(n).id \in Nat /\ Coming(n).part \in Nat
      <4>1. e.data.id \in Nat /\ e.data.part \in Nat
        BY <1>1, PartFacts
      <4>2. got[n][i] \in Segment
        BY <2>1
      <4> QED BY <1>1, <4>1, <4>2, Facts
    <3>2. Before(x, Coming(n))
      BY DEF OrderInv
    <3>3. Before(e.data, Coming(n))
      BY <2>5, <3>1, <3>2, BeforeTransitive
    <3>4. Among(got[n], ring[n], e)
      BY <3>3 DEF CompleteInv, Part
    <3>5. ~Before(x, e.data) /\ x # e.data
      BY <2>5, <3>1 DEF Before
    <3> HIDE DEF e
    <3>6. \A s \in Slot : Filled(n, s) => ring[n][s] # e
      BY <3>5 DEF OrderInv
    <3>7. PICK j \in DOMAIN got[n] : got[n][j] = e
      BY <3>4, <3>6 DEF Among, Filled
    <3>8. ~(i < j) /\ i # j
      BY <3>5, <3>7 DEF OrderInv
    <3>9. j \in 1 .. i - 1
      BY <2>2, <3>8
    <3> QED BY <3>7, <3>9 DEF e
  <2> QED BY <2>3, <2>4, <2>5 DEF InOrder, Part
<1>5. Spec => []Typed
  BY TypeCorrect
<1> HIDE DEF Inv
<1> QED BY <1>2, <1>3, <1>4, <1>5, PTL DEF Spec
=============================================================================

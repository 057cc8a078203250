-------------------------- MODULE NicTransmitProofs --------------------------
(***************************************************************************)
(* What the transmit path promises for any ring, threshold and number of   *)
(* frames, whatever poll demands, stops and resets the driver makes.       *)
(***************************************************************************)
EXTENDS NicTransmit, SequenceTheorems, TLAPS

Bounds ==
  /\ RingSize \in Nat \ {0} /\ Threshold \in Nat /\ MaxFrames \in Nat
  /\ Layouts \subseteq {"one", "both", "second", "two", "chain", "setup"}

(* A frame is not laid out as a buffer of no size and a second one, which     *)
(* Gathered takes twice, nor over more descriptors than there are.            *)
Drivable ==
  /\ "second" \notin Layouts
  /\ "two" \in Layouts => RingSize > 1
  /\ Modes \subseteq {"normal", "internal", "external"}

-----------------------------------------------------------------------------
(* The thread: where it is in the ring, and that the descriptor it works on   *)
(* is that of cur_addr, up to Process the same as in the ring.                *)
ThreadInv ==
  /\ curAddr = Null => pc = "poll" /\ ~st
  /\ pc = "check" => addr = curAddr
  /\ pc = "check" /\ descr.own => descr = ring[addr]
  /\ pc = "close" => addr \in Slot /\ curAddr = (addr + 1) % RingSize /\ ring[addr].own

(* What waits in the ring lies between cur_addr and the driver's next free    *)
(* descriptor.                                                                *)
Waiting == {s \in Slot : ring[s].own /\ ~(pc = "close" /\ s = addr)}
Between(a, f, W) ==
  /\ a < f => \A s \in Slot : s \in W <=> a <= s /\ s < f
  /\ f < a => \A s \in Slot : s \in W <=> a <= s \/ s < f
  /\ a = f => \A s, t \in Slot : s \in W <=> t \in W
Rank(a, s) == IF a <= s THEN s - a ELSE s - a + RingSize

(* The frames that are out, and how many.                                     *)
Out == IF mode = "internal" THEN looped ELSE sent
OutInv ==
  /\ mode = "normal" => looped = <<>>
  /\ mode = "internal" => sent = <<>>
  /\ mode = "external" => sent = looped
  /\ Len(Out) <= Len(queued)
  /\ \A i \in DOMAIN Out : Out[i] = queued[i]

(* A waiting descriptor has a place in a frame that is to go out.             *)
Placed(d, done, all) ==
  \E layout \in Layouts, k \in 1 .. MaxFrames :
    \E i \in DOMAIN Descriptors(layout, k) :
      /\ d = Descriptors(layout, k)[i]
      /\ layout # "setup" => k \in done + 1 .. Len(all) /\ all[k] = Pieces(layout, k)
Earlier(p, q) == p[1] < q[1] \/ (p[1] = q[1] /\ p[2] < q[2])
First(d) == d.buf1[1]
Previous(s) == IF s = 0 THEN RingSize - 1 ELSE s - 1

(* The frames wait in order, each up to its last descriptor; a second one is  *)
(* behind the first, or behind what has been gathered of it.                  *)
Ordered(a, r, W) ==
  \A s, t \in W : ~r[s].set /\ ~r[t].set /\ Rank(a, s) < Rank(a, t) =>
    Earlier(First(r[s]), First(r[t]))
Complete(r, W, done, many) ==
  \A k \in done + 1 .. many : \E s \in W : ~r[s].set /\ r[s].ls /\ First(r[s])[1] = k
Opens(d, k) == ~d.set /\ d.fs /\ ~d.ls /\ First(d)[1] = k
Paired(a, r, W, buf) ==
  \A s \in W : ~r[s].set /\ ~r[s].fs =>
    \/ s = a /\ buf = <<<<First(r[s])[1], 1>>>>
    \/ s # a /\ Previous(s) \in W /\ Opens(r[Previous(s)], First(r[s])[1])
Frames(a, f, r, W, done, many, all, buf) ==
  /\ Between(a, f, W)
  /\ \A s \in W : Placed(r[s], done, all)
  /\ Ordered(a, r, W) /\ Complete(r, W, done, many) /\ Paired(a, r, W, buf)
FramesInv == Frames(curAddr, fill, ring, Waiting, Len(Out), Len(queued), queued, curBuf)

Inv == ThreadInv /\ OutInv /\ (curAddr # Null => FramesInv)

-----------------------------------------------------------------------------
(* Types.                                                                     *)
Layout == {"one", "both", "second", "two", "chain", "setup"}
LEMMA DescriptorForms ==
  ASSUME NEW k
  PROVE  /\ Descriptors("one", k) = <<Given(FALSE, TRUE, TRUE, FALSE, <<<<k, 1>>>>, <<>>)>>
         /\ Descriptors("both", k) = <<Given(FALSE, TRUE, TRUE, FALSE, <<<<k, 1>>>>, <<<<k, 2>>>>)>>
         /\ Descriptors("second", k) = <<Given(FALSE, TRUE, TRUE, FALSE, <<>>, <<<<k, 1>>>>)>>
         /\ Descriptors("two", k) = <<Given(FALSE, TRUE, FALSE, FALSE, <<<<k, 1>>>>, <<>>),
                                      Given(FALSE, FALSE, TRUE, FALSE, <<<<k, 2>>>>, <<>>)>>
         /\ Descriptors("chain", k) = <<Given(FALSE, TRUE, TRUE, TRUE, <<<<k, 1>>>>, <<>>)>>
         /\ Descriptors("setup", k) = <<Given(TRUE, FALSE, FALSE, FALSE, <<>>, <<>>)>>
  BY DEF Descriptors

LEMMA ShortSeqs ==
  ASSUME NEW S, NEW a \in S, NEW b \in S
  PROVE  <<a>> \in Seq(S) /\ Len(<<a>>) = 1 /\ <<a, b>> \in Seq(S) /\ Len(<<a, b>>) = 2
  OBVIOUS

LEMMA DescriptorsType ==
  ASSUME NEW layout \in Layout, NEW k \in 1 .. MaxFrames
  PROVE  /\ Descriptors(layout, k) \in Seq(Descriptor)
         /\ Len(Descriptors(layout, k)) = IF layout = "two" THEN 2 ELSE 1
         /\ Pieces(layout, k) \in Seq(Piece)
<1>1. <<k, 1>> \in Piece /\ <<k, 2>> \in Piece
  BY DEF Piece
<1>2. <<>> \in Seq(Piece) /\ <<<<k, 1>>>> \in Seq(Piece) /\ <<<<k, 2>>>> \in Seq(Piece)
      /\ <<<<k, 1>>, <<k, 2>>>> \in Seq(Piece)
  BY <1>1
<1>3. \A set, fs, ls, ch \in BOOLEAN : \A b1, b2 \in Seq(Piece) :
        Given(set, fs, ls, ch, b1, b2) \in Descriptor
  BY DEF Given, Descriptor
<1>4. Pieces(layout, k) \in Seq(Piece)
  BY <1>2 DEF Pieces
<1>5. /\ Descriptors(layout, k) \in Seq(Descriptor)
      /\ Len(Descriptors(layout, k)) = IF layout = "two" THEN 2 ELSE 1
  <2>1. CASE layout = "one"
    <3> DEFINE a == Given(FALSE, TRUE, TRUE, FALSE, <<<<k, 1>>>>, <<>>)
    <3>1. a \in Descriptor
      BY <1>2, <1>3
    <3>2. Descriptors(layout, k) = <<a>>
      BY <2>1, DescriptorForms
    <3> HIDE DEF a
    <3> QED BY <2>1, <3>1, <3>2, ShortSeqs
  <2>2. CASE layout = "both"
    <3> DEFINE a == Given(FALSE, TRUE, TRUE, FALSE, <<<<k, 1>>>>, <<<<k, 2>>>>)
    <3>1. a \in Descriptor
      BY <1>2, <1>3
    <3>2. Descriptors(layout, k) = <<a>>
      BY <2>2, DescriptorForms
    <3> HIDE DEF a
    <3> QED BY <2>2, <3>1, <3>2, ShortSeqs
  <2>3. CASE layout = "second"
    <3> DEFINE a == Given(FALSE, TRUE, TRUE, FALSE, <<>>, <<<<k, 1>>>>)
    <3>1. a \in Descriptor
      BY <1>2, <1>3
    <3>2. Descriptors(layout, k) = <<a>>
      BY <2>3, DescriptorForms
    <3> HIDE DEF a
    <3> QED BY <2>3, <3>1, <3>2, ShortSeqs
  <2>4. CASE layout = "two"
    <3> DEFINE a == Given(FALSE, TRUE, FALSE, FALSE, <<<<k, 1>>>>, <<>>)
               b == Given(FALSE, FALSE, TRUE, FALSE, <<<<k, 2>>>>, <<>>)
    <3>1. a \in Descriptor /\ b \in Descriptor
      BY <1>2, <1>3
    <3>2. Descriptors(layout, k) = <<a, b>>
      BY <2>4, DescriptorForms
    <3> HIDE DEF a, b
    <3> QED BY <2>4, <3>1, <3>2, ShortSeqs
  <2>5. CASE layout = "chain"
    <3> DEFINE a == Given(FALSE, TRUE, TRUE, TRUE, <<<<k, 1>>>>, <<>>)
    <3>1. a \in Descriptor
      BY <1>2, <1>3
    <3>2. Descriptors(layout, k) = <<a>>
      BY <2>5, DescriptorForms
    <3> HIDE DEF a
    <3> QED BY <2>5, <3>1, <3>2, ShortSeqs
  <2>6. CASE layout = "setup"
    <3> DEFINE a == Given(TRUE, FALSE, FALSE, FALSE, <<>>, <<>>)
    <3>1. a \in Descriptor
      BY <1>2, <1>3
    <3>2. Descriptors(layout, k) = <<a>>
      BY <2>6, DescriptorForms
    <3> HIDE DEF a
    <3> QED BY <2>6, <3>1, <3>2, ShortSeqs
  <2> QED BY <2>1, <2>2, <2>3, <2>4, <2>5, <2>6 DEF Layout
<1> QED BY <1>4, <1>5

LEMMA SlotFacts ==
  ASSUME Bounds
  PROVE  /\ 0 \in Slot /\ Null \notin Slot /\ Slot \subseteq Nat
         /\ \A a \in Slot : (a + 1) % RingSize = IF a = RingSize - 1 THEN 0 ELSE a + 1
         /\ \A a \in Slot : (a + 1) % RingSize \in Slot
<1>1. ASSUME NEW a \in Slot PROVE (a + 1) % RingSize = IF a = RingSize - 1 THEN 0 ELSE a + 1
  <2> USE DEF Bounds, Slot
  <2>1. CASE a = RingSize - 1
    <3>1. a + 1 = RingSize /\ RingSize % RingSize = 0
      BY <2>1
    <3> QED BY <2>1, <3>1
  <2>2. CASE a # RingSize - 1
    BY <2>2
  <2> QED BY <2>1, <2>2
<1>2. 0 \in Slot /\ Null \notin Slot /\ Slot \subseteq Nat
  BY DEF Bounds, Slot, Null
<1> QED BY <1>1, <1>2 DEF Bounds, Slot

(* Where the i-th descriptor of a frame goes.                                 *)
LEMMA QueuePlaces ==
  ASSUME Bounds, NEW f \in Slot, NEW s \in Slot
  PROVE  /\ (f + 1 - 1) % RingSize = f
         /\ 1 + ((s - f) % RingSize) \in Nat
         /\ 1 + ((s - f) % RingSize) = 1 <=> s = f
         /\ RingSize > 1 => (1 + ((s - f) % RingSize) = 2 <=> s = (f + 1) % RingSize)
         /\ (f + 2 - 1) % RingSize = (f + 1) % RingSize
<1> USE DEF Bounds, Slot
<1>1. (f + 1 - 1) % RingSize = f /\ f + 2 - 1 = f + 1
  OBVIOUS
<1>2. CASE f <= s
  <2>1. (s - f) % RingSize = s - f
    BY <1>2
  <2> QED BY <1>1, <1>2, <2>1, SlotFacts
<1>3. CASE s < f
  <2>1. s - f + RingSize \in 0 .. RingSize - 1
    BY <1>3
  <2>2. (s - f) % RingSize = s - f + RingSize
    BY <1>3, <2>1
  <2> QED BY <1>1, <1>3, <2>2, SlotFacts
<1> QED BY <1>2, <1>3

(* The variables stay in their types.                                         *)
THEOREM TypeCorrect ==
  ASSUME Bounds
  PROVE  Spec => []TypeOK
<1>1. Init => TypeOK
  <2> SUFFICES ASSUME Init PROVE TypeOK
    OBVIOUS
  <2>1. <<>> \in Seq(Piece) /\ <<>> \in Seq(Seq(Piece))
    OBVIOUS
  <2>2. Unused \in Descriptor
    BY <2>1 DEF Unused, Descriptor
  <2>3. 0 \in Slot /\ 0 \in 0 .. Threshold + 1
    BY DEF Bounds, Slot
  <2> QED BY <2>1, <2>2, <2>3 DEF Init, TypeOK
<1>2. TypeOK /\ [Next]_vars => TypeOK'
  <2> SUFFICES ASSUME TypeOK, [Next]_vars PROVE TypeOK'
    OBVIOUS
  <2>1. CASE Poll \/ Suspended \/ TxPoll \/ TxPollIdling \/ WriteOpMode \/ ResetNIC
    <3>1. 0 \in 0 .. Threshold + 1 /\ Threshold \in 0 .. Threshold + 1
      BY DEF Bounds
    <3> QED BY ZenonT(60), <2>1, <3>1
            DEF Poll, Suspended, TxPoll, TxPollIdling, WriteOpMode, ResetNIC, driverVars, TypeOK
  <2>2. CASE Fetch
    BY ZenonT(60), <2>2, SlotFacts DEF Fetch, driverVars, TypeOK
  <2>3. CASE Idle
    <3>1. idling <= Threshold => idling + 1 \in 0 .. Threshold + 1
      BY DEF TypeOK, Bounds
    <3>2. idling \in 0 .. Threshold + 1 /\ (~(idling > Threshold) => idling <= Threshold)
      BY DEF TypeOK, Bounds
    <3> QED BY <2>3, <3>1, <3>2 DEF Idle, driverVars, TypeOK
  <2>4. CASE Process
    <3>1. Gathered \in Seq(Piece)
      BY DEF Gathered, TypeOK, Descriptor
    <3>2. curBuf' \in Seq(Piece) /\ sent' \in Seq(Seq(Piece)) /\ looped' \in Seq(Seq(Piece))
      <4>1. /\ curBuf' \in {curBuf, <<>>, Gathered}
            /\ sent' = sent \/ sent' = Append(sent, Gathered)
            /\ looped' = looped \/ looped' = Append(looped, Gathered)
        BY <2>4 DEF Process
      <4>2. <<>> \in Seq(Piece) /\ curBuf \in Seq(Piece)
            /\ sent \in Seq(Seq(Piece)) /\ looped \in Seq(Seq(Piece))
        BY DEF TypeOK
      <4>3. \A q \in Seq(Seq(Piece)) : Append(q, Gathered) \in Seq(Seq(Piece))
        BY <3>1
      <4>4. curBuf' \in Seq(Piece)
        BY <3>1, <4>1, <4>2
      <4>5. sent' \in Seq(Seq(Piece)) /\ looped' \in Seq(Seq(Piece))
        BY <4>1, <4>2, <4>3
      <4> QED BY <4>4, <4>5
    <3>3. addr # Null => (addr + 1) % RingSize \in Slot
      BY SlotFacts DEF TypeOK
    <3>4. (Null + 1) % RingSize \in Slot
      BY DEF Null, Bounds, Slot
    <3>5. curAddr' \in Slot \cup {Null}
      BY <2>4, <3>3, <3>4 DEF Process
    <3> QED BY <2>4, <3>2, <3>5 DEF Process, driverVars, TypeOK
  <2>5. CASE Close
    <3>1. [descr EXCEPT !.own = FALSE] \in Descriptor
      BY DEF TypeOK, Descriptor
    <3>2. ring' \in [Slot -> Descriptor]
      BY <2>5, <3>1 DEF Close, TypeOK
    <3> QED BY <2>5, <3>2 DEF Close, driverVars, TypeOK
  <2>6. ASSUME NEW layout \in Layouts, Queue(layout) PROVE TypeOK'
    <3> DEFINE k == Len(queued) + 1
               ds == Descriptors(layout, k)
    <3>1. queued \in Seq(Seq(Piece)) /\ ring \in [Slot -> Descriptor] /\ fill \in Slot
      BY DEF TypeOK
    <3>2. k \in 1 .. MaxFrames /\ layout \in Layout
      BY <2>6, <3>1 DEF Queue, Layout, Bounds
    <3>3. ds \in Seq(Descriptor) /\ Len(ds) \in Nat /\ Pieces(layout, k) \in Seq(Piece)
      BY <3>2, DescriptorsType
    <3>4. /\ ring' = [s \in Slot |-> LET i == 1 + ((s - fill) % RingSize) IN
                                    IF i \in DOMAIN ds THEN ds[i] ELSE ring[s]]
          /\ fill' = (fill + Len(ds)) % RingSize
          /\ queued' = IF layout = "setup" THEN queued ELSE Append(queued, Pieces(layout, k))
          /\ demand' = "due"
      BY <2>6 DEF Queue
    <3> HIDE DEF ds, k
    <3>5. ring' \in [Slot -> Descriptor]
      BY <3>1, <3>3, <3>4
    <3>6. fill' \in Slot
      BY <3>1, <3>3, <3>4 DEF Bounds, Slot
    <3>7. queued' \in Seq(Seq(Piece))
      BY <3>1, <3>3, <3>4
    <3> QED BY <2>6, <3>4, <3>5, <3>6, <3>7 DEF Queue, TypeOK
  <2>7. CASE Restart
    <3>1. <<>> \in Seq(Piece) /\ <<>> \in Seq(Seq(Piece)) /\ 0 \in Slot
      BY SlotFacts
    <3>2. Unused \in Descriptor
      BY <3>1 DEF Unused, Descriptor
    <3> QED BY <2>7, <3>1, <3>2 DEF Restart, TypeOK
  <2>8. CASE UNCHANGED vars
    BY <2>8 DEF vars, driverVars, TypeOK
  <2> QED BY <2>1, <2>2, <2>3, <2>4, <2>5, <2>6, <2>7, <2>8 DEF Next, ThreadStep
<1> QED BY <1>1, <1>2, PTL DEF Spec

-----------------------------------------------------------------------------
(* The driver's step, where the frame has one descriptor and where two.       *)
LEMMA QueueEffect ==
  ASSUME Bounds, TypeOK, NEW layout \in Layouts, Queue(layout),
         NEW ds, ds = Descriptors(layout, Len(queued) + 1)
  PROVE  /\ UNCHANGED <<st, mode, curAddr, curBuf, suspend, idling, descr, addr, pc, sent, looped>>
         /\ st /\ Len(queued) + 1 \in 1 .. MaxFrames /\ fill \in Slot
         /\ queued' = IF layout = "setup" THEN queued
                      ELSE Append(queued, Pieces(layout, Len(queued) + 1))
         /\ ds \in Seq(Descriptor) /\ Len(ds) = IF layout = "two" THEN 2 ELSE 1
         /\ ~ring[fill].own /\ ring'[fill] = ds[1]
         /\ layout # "two" => /\ fill' = (fill + 1) % RingSize
                              /\ \A s \in Slot : s # fill => ring'[s] = ring[s]
         /\ layout = "two" /\ RingSize > 1 =>
              LET g == (fill + 1) % RingSize IN
              /\ fill' = (g + 1) % RingSize /\ g # fill /\ g \in Slot
              /\ ~ring[g].own /\ ring'[g] = ds[2]
              /\ \A s \in Slot : s # fill /\ s # g => ring'[s] = ring[s]
         /\ layout = "two" /\ RingSize = 1 => \A s \in Slot : s = fill
<1>1. queued \in Seq(Seq(Piece)) /\ fill \in Slot
  BY DEF TypeOK
<1>2. /\ UNCHANGED <<st, mode, curAddr, curBuf, suspend, idling, descr, addr, pc, sent, looped>>
      /\ st /\ Len(queued) + 1 \in 1 .. MaxFrames
      /\ queued' = IF layout = "setup" THEN queued
                   ELSE Append(queued, Pieces(layout, Len(queued) + 1))
  BY <1>1 DEF Queue, Bounds
<1>3. layout \in Layout
  BY DEF Layout, Bounds
<1>4. ds \in Seq(Descriptor) /\ Len(ds) = IF layout = "two" THEN 2 ELSE 1
  BY <1>2, <1>3, DescriptorsType
<1>5. /\ \A i \in DOMAIN ds : ~ring[(fill + i - 1) % RingSize].own
      /\ ring' = [s \in Slot |-> LET i == 1 + ((s - fill) % RingSize) IN
                                 IF i \in DOMAIN ds THEN ds[i] ELSE ring[s]]
      /\ fill' = (fill + Len(ds)) % RingSize
  BY DEF Queue
<1>6. \A s \in Slot : ring'[s] = IF 1 + ((s - fill) % RingSize) \in DOMAIN ds
                                 THEN ds[1 + ((s - fill) % RingSize)] ELSE ring[s]
  BY <1>5
<1>7. 1 \in DOMAIN ds /\ DOMAIN ds = IF layout = "two" THEN {1, 2} ELSE {1}
  <2>1. DOMAIN ds = 1 .. Len(ds)
    BY <1>4
  <2>2. 1 .. 1 = {1} /\ 1 .. 2 = {1, 2}
    OBVIOUS
  <2> QED BY <1>4, <2>1, <2>2
<1>8. ~ring[fill].own /\ ring'[fill] = ds[1]
  BY <1>1, <1>5, <1>6, <1>7, QueuePlaces
<1>9. ASSUME layout # "two"
      PROVE  fill' = (fill + 1) % RingSize /\ \A s \in Slot : s # fill => ring'[s] = ring[s]
  <2>1. fill' = (fill + 1) % RingSize
    BY <1>4, <1>5, <1>9
  <2>2. \A s \in Slot : s # fill => ring'[s] = ring[s]
    BY <1>1, <1>6, <1>7, <1>9, QueuePlaces
  <2> QED BY <2>1, <2>2
<1>10. ASSUME layout = "two", RingSize > 1
       PROVE  LET g == (fill + 1) % RingSize IN
              /\ fill' = (g + 1) % RingSize /\ g # fill /\ g \in Slot
              /\ ~ring[g].own /\ ring'[g] = ds[2]
              /\ \A s \in Slot : s # fill /\ s # g => ring'[s] = ring[s]
  <2> DEFINE g == (fill + 1) % RingSize
  <2>1. g \in Slot /\ g # fill /\ (g + 1) % RingSize = (fill + 2) % RingSize
    <3>1. g = IF fill = RingSize - 1 THEN 0 ELSE fill + 1
      BY <1>1, SlotFacts
    <3>2. CASE fill = RingSize - 1
      <4>1. fill + 2 = RingSize + 1 /\ (RingSize + 1) % RingSize = 1 /\ (0 + 1) % RingSize = 1
        BY <1>10, <3>2 DEF Bounds
      <4> QED BY <1>10, <3>1, <3>2, <4>1 DEF Bounds, Slot
    <3>3. CASE fill # RingSize - 1
      <4>1. g = fill + 1 /\ (g + 1) = fill + 2
        BY <1>1, <3>1, <3>3 DEF Slot, Bounds
      <4> QED BY <1>1, <3>3, <4>1, SlotFacts DEF Slot, Bounds
    <3> QED BY <3>2, <3>3
  <2>2. fill' = (g + 1) % RingSize
    BY <1>4, <1>5, <1>10, <2>1
  <2>3. 2 \in DOMAIN ds /\ ~ring[g].own
    BY ZenonT(60), <1>1, <1>5, <1>7, <1>10, QueuePlaces
  <2>4. 1 + ((g - fill) % RingSize) = 2
    BY <1>1, <1>10, <2>1, QueuePlaces
  <2>5. ring'[g] = ds[2]
    BY <1>6, <2>1, <2>3, <2>4
  <2>6. ASSUME NEW s \in Slot, s # fill, s # g PROVE ring'[s] = ring[s]
    <3>1. 1 + ((s - fill) % RingSize) # 1 /\ 1 + ((s - fill) % RingSize) # 2
      BY <1>1, <1>10, <2>6, QueuePlaces
    <3> QED BY <1>6, <1>7, <1>10, <3>1
  <2> QED BY <2>1, <2>2, <2>3, <2>5, <2>6
<1>11. RingSize = 1 => \A s \in Slot : s = fill
  BY <1>1 DEF Slot
<1> QED BY <1>1, <1>2, <1>4, <1>8, <1>9, <1>10, <1>11

LEMMA KeepsOwned ==
  ASSUME Bounds, TypeOK, NEW layout \in Layouts, Queue(layout), NEW s \in Slot, ring[s].own
  PROVE  ring'[s] = ring[s]
<1> DEFINE ds == Descriptors(layout, Len(queued) + 1)
<1>1. RingSize > 1 \/ RingSize = 1
  BY DEF Bounds
<1>2. ds = Descriptors(layout, Len(queued) + 1)
  OBVIOUS
<1> HIDE DEF ds
<1> QED BY <1>1, <1>2, QueueEffect

(* The thread's place in the ring.                                            *)
LEMMA ThreadStepInv ==
  ASSUME Bounds, TypeOK, ThreadInv, [Next]_vars
  PROVE  ThreadInv'
<1>1. curAddr \in Slot \cup {Null} /\ addr \in Slot \cup {Null} /\ ring \in [Slot -> Descriptor]
      /\ descr \in Descriptor
  BY DEF TypeOK
<1>2. CASE Poll \/ Idle \/ Suspended \/ TxPoll \/ TxPollIdling \/ WriteOpMode \/ ResetNIC
  <2>1. CASE Poll
    BY <2>1 DEF Poll, ThreadInv
  <2>2. CASE Idle
    BY <2>2 DEF Idle, ThreadInv
  <2>3. CASE Suspended
    BY <2>3 DEF Suspended, ThreadInv
  <2>4. CASE TxPoll \/ TxPollIdling
    BY <2>4 DEF TxPoll, TxPollIdling, ThreadInv
  <2>5. CASE WriteOpMode
    BY <2>5 DEF WriteOpMode, ThreadInv
  <2>6. CASE ResetNIC
    BY <2>6 DEF ResetNIC, ThreadInv
  <2> QED BY <1>2, <2>1, <2>2, <2>3, <2>4, <2>5, <2>6
<1>3. CASE Fetch
  BY <1>3 DEF Fetch, ThreadInv
<1>4. CASE Process
  <2>1. /\ pc = "check" /\ descr.own /\ UNCHANGED <<st, ring, addr>> /\ pc' = "close"
        /\ curAddr' = (addr + 1) % RingSize
    BY <1>4 DEF Process
  <2>2. addr = curAddr /\ descr = ring[addr] /\ addr \in Slot
    BY <1>1, <2>1 DEF ThreadInv
  <2>3. curAddr' # Null
    BY <2>1, <2>2, SlotFacts
  <2> QED BY <2>1, <2>2, <2>3 DEF ThreadInv
<1>5. CASE Close
  <2>1. pc = "close" /\ pc' = "fetch" /\ UNCHANGED curAddr
    BY <1>5 DEF Close
  <2> QED BY <2>1 DEF ThreadInv
<1>6. ASSUME NEW layout \in Layouts, Queue(layout) PROVE ThreadInv'
  <2>1. UNCHANGED <<st, curAddr, descr, addr, pc>>
    BY <1>6 DEF Queue
  <2>2. pc = "check" /\ descr.own => addr \in Slot /\ ring[addr].own
    BY <1>1 DEF ThreadInv
  <2>3. pc = "close" => addr \in Slot /\ ring[addr].own
    BY DEF ThreadInv
  <2>4. pc = "check" /\ descr.own => ring'[addr] = ring[addr]
    BY <1>6, <2>2, KeepsOwned
  <2>5. pc = "close" => ring'[addr] = ring[addr]
    BY <1>6, <2>3, KeepsOwned
  <2> QED BY <2>1, <2>3, <2>4, <2>5 DEF ThreadInv
<1>7. CASE Restart
  <2>1. curAddr' = 0 /\ pc = "poll" /\ pc' = pc
    BY <1>7 DEF Restart, ThreadInv
  <2>2. 0 # Null
    BY SlotFacts
  <2> QED BY <2>1, <2>2 DEF ThreadInv
<1>8. CASE UNCHANGED vars
  BY <1>8 DEF vars, driverVars, ThreadInv
<1> QED BY <1>2, <1>3, <1>4, <1>5, <1>6, <1>7, <1>8 DEF Next, ThreadStep

LEMMA ThreadInitInv == ASSUME Bounds, Init PROVE ThreadInv
  BY SlotFacts DEF Init, ThreadInv

LEMMA Owned == ASSUME TypeOK, ThreadInv PROVE OwnedUntilClosed
<1>1. ASSUME (pc = "check" /\ descr.own) \/ pc = "close" PROVE addr \in Slot /\ ring[addr].own
  <2>1. CASE pc = "check" /\ descr.own
    BY <2>1 DEF ThreadInv, TypeOK
  <2>2. CASE pc = "close"
    BY <2>2 DEF ThreadInv
  <2> QED BY <1>1, <2>1, <2>2
<1> QED BY <1>1 DEF OwnedUntilClosed

(* The interface keeps a descriptor from the read of OWN to the write that    *)
(* clears it, whatever the driver does meanwhile.                             *)
THEOREM DescriptorsKept ==
  ASSUME Bounds
  PROVE  Spec => []OwnedUntilClosed
<1>1. Init => ThreadInv
  BY ThreadInitInv
<1>2. TypeOK /\ ThreadInv /\ [Next]_vars => ThreadInv'
  BY ThreadStepInv
<1>3. TypeOK /\ ThreadInv => OwnedUntilClosed
  BY Owned
<1>4. Spec => []TypeOK
  BY TypeCorrect
<1> QED BY <1>1, <1>2, <1>3, <1>4, PTL DEF Spec

-----------------------------------------------------------------------------
(* Circular ranges.                                                           *)
LEMMA Grow ==
  ASSUME Bounds, NEW a \in Slot, NEW f \in Slot, NEW W, Between(a, f, W), f \notin W
  PROVE  Between(a, (f + 1) % RingSize, W \cup {f})
<1> DEFINE g == (f + 1) % RingSize
<1>1. g = IF f = RingSize - 1 THEN 0 ELSE f + 1
  BY SlotFacts
<1> HIDE DEF g
<1>2. Between(a, g, W \cup {f})
  BY <1>1 DEF Between, Bounds, Slot
<1> QED BY <1>2 DEF g

LEMMA Shrink ==
  ASSUME Bounds, NEW a \in Slot, NEW f \in Slot, NEW W, Between(a, f, W), a \in W
  PROVE  Between((a + 1) % RingSize, f, W \ {a})
<1> DEFINE b == (a + 1) % RingSize
<1>1. b = IF a = RingSize - 1 THEN 0 ELSE a + 1
  BY SlotFacts
<1> HIDE DEF b
<1>2. Between(b, f, W \ {a})
  BY <1>1 DEF Between, Bounds, Slot
<1> QED BY <1>2 DEF b

LEMMA Nearer ==
  ASSUME Bounds, NEW a \in Slot, NEW f \in Slot, NEW W, Between(a, f, W), f \notin W,
         NEW s \in Slot, s \in W
  PROVE  Rank(a, s) < Rank(a, f)
  BY DEF Between, Rank, Bounds, Slot

LEMMA NextFree ==
  ASSUME Bounds, RingSize > 1, NEW a \in Slot, NEW f \in Slot, NEW W, Between(a, f, W),
         f \notin W, (f + 1) % RingSize \notin W
  PROVE  (f + 1) % RingSize # a /\ Rank(a, (f + 1) % RingSize) = Rank(a, f) + 1
<1> DEFINE g == (f + 1) % RingSize
<1>1. g = IF f = RingSize - 1 THEN 0 ELSE f + 1
  BY SlotFacts
<1> HIDE DEF g
<1>2. g \notin W => g # a /\ Rank(a, g) = Rank(a, f) + 1
  BY <1>1 DEF Between, Rank, Bounds, Slot
<1> QED BY <1>2 DEF g

LEMMA RankStep ==
  ASSUME Bounds, NEW a \in Slot, NEW s \in Slot, s # a
  PROVE  /\ Rank(a, a) < Rank(a, s) /\ Rank(a, s) \in Int
         /\ Rank((a + 1) % RingSize, s) = Rank(a, s) - 1
<1> DEFINE b == (a + 1) % RingSize
<1>1. b = IF a = RingSize - 1 THEN 0 ELSE a + 1
  BY SlotFacts
<1> HIDE DEF b
<1>2. /\ Rank(a, a) < Rank(a, s) /\ Rank(a, s) \in Int
      /\ Rank(b, s) = Rank(a, s) - 1
  BY <1>1 DEF Rank, Bounds, Slot
<1> QED BY <1>2 DEF b

LEMMA RankInt ==
  ASSUME Bounds, NEW a \in Slot, NEW s \in Slot PROVE Rank(a, s) \in Int
  BY DEF Rank, Bounds, Slot

LEMMA PreviousFacts ==
  ASSUME Bounds, NEW s \in Slot
  PROVE  /\ Previous(s) \in Slot /\ (Previous(s) + 1) % RingSize = s
         /\ \A a \in Slot : Previous((a + 1) % RingSize) = a
<1>1. \A a \in Slot : (a + 1) % RingSize = IF a = RingSize - 1 THEN 0 ELSE a + 1
  BY SlotFacts
<1>2. Previous(s) \in Slot
  BY DEF Previous, Slot, Bounds
<1>3. (Previous(s) + 1) % RingSize = s
  BY <1>1, <1>2 DEF Previous, Slot, Bounds
<1>4. \A a \in Slot : Previous((a + 1) % RingSize) = a
  BY <1>1 DEF Previous, Slot, Bounds
<1> QED BY <1>2, <1>3, <1>4

(* What a waiting descriptor can be: one of a setup packet, that of a whole   *)
(* frame, or one of the two of a frame.                                       *)
Text(d) == d.buf1 \o (IF d.ch THEN <<>> ELSE d.buf2)
Whole(d, done, all) ==
  /\ ~d.set /\ d.fs /\ d.ls /\ First(d)[1] \in done + 1 .. Len(all)
  /\ First(d)[2] = 1 /\ Text(d) = all[First(d)[1]]
FrontPart(d, done, all) ==
  /\ ~d.set /\ d.fs /\ ~d.ls /\ First(d)[1] \in done + 1 .. Len(all)
  /\ First(d)[2] = 1 /\ Text(d) = <<<<First(d)[1], 1>>>>
Rear(d, done, all) ==
  /\ ~d.set /\ ~d.fs /\ d.ls /\ First(d)[1] \in done + 1 .. Len(all)
  /\ First(d)[2] = 2 /\ <<<<First(d)[1], 1>>>> \o Text(d) = all[First(d)[1]]

LEMMA Texts ==
  ASSUME NEW S, NEW x \in S, NEW y \in S
  PROVE  /\ <<x>> \o <<>> = <<x>> /\ <<>> \o <<x>> = <<x>>
         /\ <<x>> \o <<y>> = <<x, y>>
<1>1. <<x>> \in Seq(S) /\ <<y>> \in Seq(S) /\ <<x, y>> \in Seq(S) /\ <<>> \in Seq(S)
  OBVIOUS
<1>2. <<x>> \o <<>> = <<x>> /\ <<>> \o <<x>> = <<x>>
  BY <1>1, ConcatEmptySeq
<1>3. <<x>> \o <<y>> = <<x, y>>
  <2> DEFINE p == <<x>> \o <<y>>
             q == <<x, y>>
  <2>1. p \in Seq(S) /\ q \in Seq(S) /\ Len(p) = 2 /\ Len(q) = 2
    BY <1>1
  <2>2. p[1] = x /\ p[2] = y /\ q[1] = x /\ q[2] = y
    BY <1>1
  <2> HIDE DEF p, q
  <2>3. \A i \in 1 .. 2 : p[i] = q[i]
    BY <2>2
  <2>4. p = q
    BY <2>1, <2>3, SeqEqual
  <2> QED BY <2>4 DEF p, q
<1> QED BY <1>2, <1>3

LEMMA Element ==
  /\ \A a, i : i \in DOMAIN <<a>> => <<a>>[i] = a
  /\ \A a, b, i : i \in DOMAIN <<a, b>> => <<a, b>>[i] = a \/ <<a, b>>[i] = b
  OBVIOUS

LEMMA PlacedForms ==
  ASSUME Bounds, Drivable, NEW d, NEW done \in Nat, NEW all, Placed(d, done, all)
  PROVE  /\ d.own
         /\ d.set \/ (d.buf1 # <<>> /\ (Whole(d, done, all) \/ FrontPart(d, done, all) \/ Rear(d, done, all)))
<1>1. PICK layout \in Layouts, k \in 1 .. MaxFrames :
        \E i \in DOMAIN Descriptors(layout, k) :
          /\ d = Descriptors(layout, k)[i]
          /\ layout # "setup" => k \in done + 1 .. Len(all) /\ all[k] = Pieces(layout, k)
  BY DEF Placed
<1>2. PICK i \in DOMAIN Descriptors(layout, k) :
          /\ d = Descriptors(layout, k)[i]
          /\ layout # "setup" => k \in done + 1 .. Len(all) /\ all[k] = Pieces(layout, k)
  BY <1>1
<1> DEFINE x == <<k, 1>>
           y == <<k, 2>>
<1>3. x \in Piece /\ y \in Piece /\ x[1] = k /\ x[2] = 1 /\ y[1] = k /\ y[2] = 2
  BY DEF Piece
<1>4. /\ Pieces("one", k) = <<x>> /\ Pieces("chain", k) = <<x>>
      /\ Pieces("both", k) = <<x, y>> /\ Pieces("two", k) = <<x, y>>
  BY DEF Pieces
<1>5. /\ layout \in {"one", "chain"} => d = Given(FALSE, TRUE, TRUE, layout = "chain", <<x>>, <<>>)
      /\ layout = "both" => d = Given(FALSE, TRUE, TRUE, FALSE, <<x>>, <<y>>)
      /\ layout = "setup" => d = Given(TRUE, FALSE, FALSE, FALSE, <<>>, <<>>)
      /\ layout = "two" => \/ d = Given(FALSE, TRUE, FALSE, FALSE, <<x>>, <<>>)
                           \/ d = Given(FALSE, FALSE, TRUE, FALSE, <<y>>, <<>>)
  <2> DEFINE a == Given(FALSE, TRUE, TRUE, layout = "chain", <<x>>, <<>>)
             b == Given(FALSE, TRUE, TRUE, FALSE, <<x>>, <<y>>)
             c == Given(TRUE, FALSE, FALSE, FALSE, <<>>, <<>>)
             e == Given(FALSE, TRUE, FALSE, FALSE, <<x>>, <<>>)
             f == Given(FALSE, FALSE, TRUE, FALSE, <<y>>, <<>>)
             ds == Descriptors(layout, k)
  <2>1. layout = "one" => ds = <<a>>
    BY DescriptorForms
  <2>2. layout = "chain" => ds = <<a>>
    BY DescriptorForms
  <2>3. layout = "both" => ds = <<b>>
    BY DescriptorForms
  <2>4. layout = "setup" => ds = <<c>>
    BY DescriptorForms
  <2>5. layout = "two" => ds = <<e, f>>
    BY DescriptorForms
  <2>6. i \in DOMAIN ds /\ d = ds[i]
    BY <1>2
  <2> HIDE DEF a, b, c, e, f, ds, x, y
  <2>7. /\ layout \in {"one", "chain"} => d = a
        /\ layout = "both" => d = b
        /\ layout = "setup" => d = c
        /\ layout = "two" => d = e \/ d = f
    BY <2>1, <2>2, <2>3, <2>4, <2>5, <2>6, Element
  <2> QED BY <2>7 DEF a, b, c, e, f
<1>6. /\ <<x>> \o <<>> = <<x>> /\ <<y>> \o <<>> = <<y>> /\ <<x>> \o <<y>> = <<x, y>>
  BY <1>3, Texts
<1>7. <<x>>[1] = x /\ <<y>>[1] = y /\ <<x>> # <<>> /\ <<y>> # <<>>
  OBVIOUS
<1> HIDE DEF x, y
<1>8. CASE layout = "setup"
  BY <1>5, <1>8 DEF Given
<1>9. CASE layout \in {"one", "chain"}
  <2>1. /\ d.own /\ ~d.set /\ d.fs /\ d.ls /\ d.buf1 = <<x>> /\ d.buf2 = <<>>
    BY <1>5, <1>9 DEF Given
  <2>2. First(d) = x /\ Text(d) = <<x>>
    BY <1>6, <1>7, <2>1 DEF First, Text
  <2>3. k \in done + 1 .. Len(all) /\ all[k] = <<x>>
    BY <1>2, <1>4, <1>9
  <2>4. First(d)[1] = k /\ First(d)[2] = 1 /\ Text(d) = all[First(d)[1]]
    BY <1>3, <2>2, <2>3
  <2>5. Whole(d, done, all)
    BY <2>1, <2>3, <2>4 DEF Whole
  <2> QED BY <1>7, <2>1, <2>5
<1>10. CASE layout = "both"
  <2>1. /\ d.own /\ ~d.set /\ d.fs /\ d.ls /\ ~d.ch /\ d.buf1 = <<x>> /\ d.buf2 = <<y>>
    BY <1>5, <1>10 DEF Given
  <2>2. First(d) = x /\ Text(d) = <<x, y>>
    BY <1>6, <1>7, <2>1 DEF First, Text
  <2>3. k \in done + 1 .. Len(all) /\ all[k] = <<x, y>>
    BY <1>2, <1>4, <1>10
  <2>4. First(d)[1] = k /\ First(d)[2] = 1 /\ Text(d) = all[First(d)[1]]
    BY <1>3, <2>2, <2>3
  <2>5. Whole(d, done, all)
    BY <2>1, <2>3, <2>4 DEF Whole
  <2> QED BY <1>7, <2>1, <2>5
<1>11. CASE layout = "two"
  <2>1. CASE d = Given(FALSE, TRUE, FALSE, FALSE, <<x>>, <<>>)
    <3>1. /\ d.own /\ ~d.set /\ d.fs /\ ~d.ls /\ d.buf1 = <<x>> /\ d.buf2 = <<>>
      BY <2>1 DEF Given
    <3>2. First(d) = x /\ Text(d) = <<x>>
      BY <1>6, <1>7, <3>1 DEF First, Text
    <3>3. <<First(d)[1], 1>> = x
      BY <1>3, <3>2 DEF x
    <3>4. k \in done + 1 .. Len(all)
      BY <1>2, <1>11
    <3>5. First(d)[1] = k /\ First(d)[2] = 1
      BY <1>3, <3>2
    <3>6. Text(d) = <<<<First(d)[1], 1>>>>
      BY <3>2, <3>3
    <3>7. FrontPart(d, done, all)
      BY <3>1, <3>4, <3>5, <3>6 DEF FrontPart
    <3> QED BY <1>7, <3>1, <3>7
  <2>2. CASE d = Given(FALSE, FALSE, TRUE, FALSE, <<y>>, <<>>)
    <3>1. /\ d.own /\ ~d.set /\ ~d.fs /\ d.ls /\ d.buf1 = <<y>> /\ d.buf2 = <<>>
      BY <2>2 DEF Given
    <3>2. First(d) = y /\ Text(d) = <<y>>
      BY <1>6, <1>7, <3>1 DEF First, Text
    <3>3. <<First(d)[1], 1>> = x
      BY <1>3, <3>2 DEF x
    <3>4. k \in done + 1 .. Len(all) /\ all[k] = <<x, y>>
      BY <1>2, <1>4, <1>11
    <3>5. First(d)[1] = k /\ First(d)[2] = 2
      BY <1>3, <3>2
    <3>6. <<<<First(d)[1], 1>>>> \o Text(d) = <<x>> \o <<y>>
      BY <3>2, <3>3
    <3>7. <<<<First(d)[1], 1>>>> \o Text(d) = all[First(d)[1]]
      BY <1>6, <3>4, <3>5, <3>6
    <3>8. Rear(d, done, all)
      BY <3>1, <3>4, <3>5, <3>7 DEF Rear
    <3> QED BY <1>7, <3>1, <3>8
  <2> QED BY <1>5, <1>11, <2>1, <2>2
<1>12. layout # "second"
  BY DEF Drivable
<1> QED BY <1>8, <1>9, <1>10, <1>11, <1>12 DEF Bounds

LEMMA PlacedKey ==
  ASSUME Drivable, Bounds, NEW layout \in Layouts, layout # "setup", NEW k \in 1 .. MaxFrames,
         NEW i \in DOMAIN Descriptors(layout, k), NEW d, d = Descriptors(layout, k)[i]
  PROVE  ~d.set /\ First(d)[1] = k
<1> DEFINE x == <<k, 1>>
           y == <<k, 2>>
           a == Given(FALSE, TRUE, TRUE, layout = "chain", <<x>>, <<>>)
           b == Given(FALSE, TRUE, TRUE, FALSE, <<x>>, <<y>>)
           e == Given(FALSE, TRUE, FALSE, FALSE, <<x>>, <<>>)
           f == Given(FALSE, FALSE, TRUE, FALSE, <<y>>, <<>>)
           ds == Descriptors(layout, k)
<1>1. layout = "one" => ds = <<a>>
  BY DescriptorForms
<1>2. layout = "chain" => ds = <<a>>
  BY DescriptorForms
<1>3. layout = "both" => ds = <<b>>
  BY DescriptorForms
<1>4. layout = "two" => ds = <<e, f>>
  BY DescriptorForms
<1>5. i \in DOMAIN ds /\ d = ds[i] /\ layout \in {"one", "chain", "both", "two"}
  BY DEF Drivable, Bounds
<1>6. x[1] = k /\ y[1] = k
  OBVIOUS
<1> HIDE DEF x, y
<1>7. \A g \in {a, b, e, f} : ~g.set /\ First(g)[1] = k
  BY <1>6 DEF Given, First
<1> HIDE DEF a, b, e, f, ds
<1>8. d \in {a, b, e, f}
  BY <1>1, <1>2, <1>3, <1>4, <1>5, Element
<1> QED BY <1>7, <1>8

LEMMA PlacedLater ==
  ASSUME Drivable, Bounds, NEW done \in Nat, NEW all \in Seq(Seq(Piece)), NEW d,
         Placed(d, done, all), d.set \/ First(d)[1] # done + 1
  PROVE  Placed(d, done + 1, all)
<1>1. PICK layout \in Layouts, k \in 1 .. MaxFrames :
        \E i \in DOMAIN Descriptors(layout, k) :
          /\ d = Descriptors(layout, k)[i]
          /\ layout # "setup" => k \in done + 1 .. Len(all) /\ all[k] = Pieces(layout, k)
  BY DEF Placed
<1>2. PICK i \in DOMAIN Descriptors(layout, k) :
          /\ d = Descriptors(layout, k)[i]
          /\ layout # "setup" => k \in done + 1 .. Len(all) /\ all[k] = Pieces(layout, k)
  BY <1>1
<1>3. layout # "setup" => k # done + 1
  BY <1>2, PlacedKey
<1>4. layout # "setup" => k \in (done + 1) + 1 .. Len(all) /\ all[k] = Pieces(layout, k)
  BY <1>2, <1>3
<1> QED BY <1>2, <1>4 DEF Placed

LEMMA PlacedLonger ==
  ASSUME NEW done \in Nat, NEW all \in Seq(Seq(Piece)), NEW new \in Seq(Piece), NEW d,
         Placed(d, done, all)
  PROVE  Placed(d, done, Append(all, new))
<1>1. PICK layout \in Layouts, k \in 1 .. MaxFrames :
        \E i \in DOMAIN Descriptors(layout, k) :
          /\ d = Descriptors(layout, k)[i]
          /\ layout # "setup" => k \in done + 1 .. Len(all) /\ all[k] = Pieces(layout, k)
  BY DEF Placed
<1> DEFINE more == Append(all, new)
<1>2. Len(more) = Len(all) + 1 /\ \A n \in 1 .. Len(all) : more[n] = all[n]
  OBVIOUS
<1> HIDE DEF more
<1>3. layout # "setup" /\ k \in done + 1 .. Len(all) =>
        k \in done + 1 .. Len(more) /\ more[k] = all[k]
  BY <1>2
<1>4. Placed(d, done, more)
  BY <1>1, <1>3 DEF Placed
<1> QED BY <1>4 DEF more

(* The ring is rewritten where nothing waits, and a frame is queued.          *)
LEMMA FramesSame ==
  ASSUME NEW a, NEW f, NEW r, NEW W, NEW done \in Nat, NEW many, NEW all \in Seq(Seq(Piece)),
         NEW buf, Frames(a, f, r, W, done, many, all, buf), NEW r2, \A s \in W : r2[s] = r[s]
  PROVE  /\ Frames(a, f, r2, W, done, many, all, buf)
         /\ \A new \in Seq(Piece) : Frames(a, f, r2, W, done, many, Append(all, new), buf)
<1>1. Frames(a, f, r2, W, done, many, all, buf)
  <2>1. Ordered(a, r2, W)
    BY DEF Frames, Ordered
  <2>2. Complete(r2, W, done, many)
    BY DEF Frames, Complete
  <2>3. Paired(a, r2, W, buf)
    BY DEF Frames, Paired
  <2> QED BY <2>1, <2>2, <2>3 DEF Frames
<1>2. ASSUME NEW new \in Seq(Piece)
      PROVE  Frames(a, f, r2, W, done, many, Append(all, new), buf)
  BY <1>1, PlacedLonger DEF Frames
<1> QED BY <1>1, <1>2

(* One more descriptor waits.                                                 *)
LEMMA FramesPut ==
  ASSUME Bounds, NEW a \in Slot, NEW f \in Slot, NEW r, NEW W, W \subseteq Slot, f \notin W,
         NEW done \in Nat, NEW many \in Nat, NEW more \in Nat, NEW all, NEW buf,
         Frames(a, f, r, W, done, many, all, buf), Placed(r[f], done, all),
         r[f].set => more = many,
         ~r[f].set => /\ \A s \in W : ~r[s].set => Earlier(First(r[s]), First(r[f]))
                      /\ more = IF r[f].ls THEN many + 1 ELSE many
                      /\ r[f].ls => First(r[f])[1] = more
                      /\ ~r[f].fs => /\ f # a /\ Previous(f) \in W
                                     /\ Opens(r[Previous(f)], First(r[f])[1])
  PROVE  Frames(a, (f + 1) % RingSize, r, W \cup {f}, done, more, all, buf)
<1> DEFINE V == W \cup {f}
<1>1. Between(a, (f + 1) % RingSize, V)
  BY Grow DEF Frames
<1>2. \A s \in V : Placed(r[s], done, all)
  BY DEF Frames
<1>3. Ordered(a, r, V)
  <2>1. ASSUME NEW s \in V, NEW t \in V, ~r[s].set, ~r[t].set, Rank(a, s) < Rank(a, t)
        PROVE  Earlier(First(r[s]), First(r[t]))
    <3>1. Rank(a, s) \in Int /\ Rank(a, t) \in Int
      BY RankInt
    <3>2. CASE s \in W /\ t \in W
      BY <2>1, <3>2 DEF Frames, Ordered
    <3>3. CASE s \in W /\ t = f
      BY <2>1, <3>3
    <3>4. CASE s = f /\ t \in W
      <4>1. Rank(a, t) < Rank(a, f)
        BY <3>4, Nearer DEF Frames
      <4> QED BY <2>1, <3>1, <3>4, <4>1
    <3>5. CASE s = f /\ t = f
      BY <2>1, <3>1, <3>5
    <3> QED BY <3>2, <3>3, <3>4, <3>5
  <2> QED BY <2>1 DEF Ordered
<1>4. Complete(r, V, done, more)
  <2>1. ASSUME NEW k \in done + 1 .. more
        PROVE  \E s \in V : ~r[s].set /\ r[s].ls /\ First(r[s])[1] = k
    <3>1. CASE k \in done + 1 .. many
      BY <3>1 DEF Frames, Complete
    <3>2. CASE k \notin done + 1 .. many
      <4>1. ~r[f].set /\ r[f].ls /\ k = more
        BY <3>2
      <4> QED BY <4>1
    <3> QED BY <3>1, <3>2
  <2> QED BY <2>1 DEF Complete
<1>5. Paired(a, r, V, buf)
  BY DEF Frames, Paired
<1> QED BY <1>1, <1>2, <1>3, <1>4, <1>5 DEF Frames

(* The first of those that wait is taken: what it was, and what waits then.   *)
Taken(a, f, r, V, done, all, buf, d) ==
  /\ d.set => Frames(a, f, r, V, done, Len(all), all, buf)
  /\ ~d.set /\ ~d.ls =>
       /\ FrontPart(d, done, all) /\ d.buf1 # <<>>
       /\ Frames(a, f, r, V, done, Len(all), all, <<<<First(d)[1], 1>>>>)
  /\ ~d.set /\ d.ls =>
       /\ done + 1 <= Len(all) /\ d.buf1 # <<>>
       /\ IF d.fs THEN Text(d) = all[done + 1]
          ELSE buf = <<<<done + 1, 1>>>> /\ buf \o Text(d) = all[done + 1]
       /\ Frames(a, f, r, V, done + 1, Len(all), all, <<>>)

LEMMA FramesTake ==
  ASSUME Bounds, Drivable, NEW a \in Slot, NEW f \in Slot, NEW r, NEW W, W \subseteq Slot, a \in W,
         NEW done \in Nat, NEW all \in Seq(Seq(Piece)), NEW buf,
         Frames(a, f, r, W, done, Len(all), all, buf)
  PROVE  Taken((a + 1) % RingSize, f, r, W \ {a}, done, all, buf, r[a])
<1> DEFINE b == (a + 1) % RingSize
           V == W \ {a}
           d == r[a]
           Form(e) == Whole(e, done, all) \/ FrontPart(e, done, all) \/ Rear(e, done, all)
<1>1. \A s \in W : ~r[s].set => Form(r[s]) /\ r[s].buf1 # <<>>
  BY PlacedForms DEF Frames
<1>2. Between(b, f, V)
  BY Shrink DEF Frames
<1>3. \A s \in V : s # a /\ s \in W /\ s \in Slot
  OBVIOUS
<1>4. Ordered(b, r, V)
  <2>1. ASSUME NEW s \in V, NEW t \in V, ~r[s].set, ~r[t].set, Rank(b, s) < Rank(b, t)
        PROVE  Earlier(First(r[s]), First(r[t]))
    <3>1. /\ Rank(b, s) = Rank(a, s) - 1 /\ Rank(a, s) \in Int
          /\ Rank(b, t) = Rank(a, t) - 1 /\ Rank(a, t) \in Int
      BY RankStep
    <3>2. Rank(a, s) < Rank(a, t)
      BY <2>1, <3>1
    <3> QED BY <2>1, <3>2 DEF Frames, Ordered
  <2> QED BY <2>1 DEF Ordered
<1>5. \A s \in V : ~d.set /\ ~r[s].set => Earlier(First(d), First(r[s]))
  BY RankStep DEF Frames, Ordered
<1>6. ASSUME NEW new, \A s \in V : s = b /\ ~r[s].set /\ ~r[s].fs /\ Opens(d, First(r[s])[1]) =>
                                       new = <<<<First(r[s])[1], 1>>>>
      PROVE  Paired(b, r, V, new)
  <2>1. ASSUME NEW s \in V, ~r[s].set, ~r[s].fs
        PROVE  \/ s = b /\ new = <<<<First(r[s])[1], 1>>>>
               \/ s # b /\ Previous(s) \in V /\ Opens(r[Previous(s)], First(r[s])[1])
    <3>1. Previous(s) \in W /\ Opens(r[Previous(s)], First(r[s])[1])
      BY <2>1 DEF Frames, Paired
    <3>2. Previous(b) = a /\ (Previous(s) + 1) % RingSize = s
      BY PreviousFacts
    <3>3. CASE Previous(s) = a
      BY <1>6, <2>1, <3>1, <3>2, <3>3
    <3>4. CASE Previous(s) # a
      BY <2>1, <3>1, <3>2, <3>4
    <3> QED BY <3>3, <3>4
  <2> QED BY <2>1 DEF Paired
<1>7. ASSUME d.set PROVE Frames(b, f, r, V, done, Len(all), all, buf)
  <2>1. Paired(b, r, V, buf)
    BY <1>6, <1>7 DEF Opens
  <2>2. Complete(r, V, done, Len(all))
    BY <1>7 DEF Frames, Complete
  <2> QED BY <1>2, <1>4, <2>1, <2>2 DEF Frames
<1>8. ASSUME ~d.set, ~d.ls
      PROVE  /\ FrontPart(d, done, all) /\ d.buf1 # <<>>
             /\ Frames(b, f, r, V, done, Len(all), all, <<<<First(d)[1], 1>>>>)
  <2>1. FrontPart(d, done, all) /\ d.buf1 # <<>>
    BY <1>1, <1>8 DEF Whole, Rear
  <2>2. Paired(b, r, V, <<<<First(d)[1], 1>>>>)
    BY <1>6 DEF Opens
  <2>3. Complete(r, V, done, Len(all))
    BY <1>8 DEF Frames, Complete
  <2> QED BY SMTT(60), <1>2, <1>4, <2>1, <2>2, <2>3 DEF Frames
<1>9. ASSUME ~d.set, d.ls
      PROVE  /\ done + 1 <= Len(all) /\ d.buf1 # <<>>
             /\ IF d.fs THEN Text(d) = all[done + 1]
                ELSE buf = <<<<done + 1, 1>>>> /\ buf \o Text(d) = all[done + 1]
             /\ Frames(b, f, r, V, done + 1, Len(all), all, <<>>)
  <2>1. d.buf1 # <<>> /\ (Whole(d, done, all) \/ Rear(d, done, all))
    BY <1>1, <1>9 DEF FrontPart
  <2>2. First(d)[1] \in done + 1 .. Len(all)
    BY <2>1 DEF Whole, Rear
  <2>3. First(d)[1] = done + 1
    <3>1. SUFFICES ASSUME First(d)[1] # done + 1 PROVE FALSE
      OBVIOUS
    <3> done + 1 \in done + 1 .. Len(all)
      BY <2>2
    <3>2. PICK s \in W : ~r[s].set /\ r[s].ls /\ First(r[s])[1] = done + 1
      BY DEF Frames, Complete
    <3>3. Earlier(First(d), First(r[s]))
      BY <1>5, <1>9, <3>1, <3>2
    <3> QED BY <2>2, <3>1, <3>2, <3>3 DEF Earlier
  <2>4. IF d.fs THEN Text(d) = all[done + 1]
        ELSE buf = <<<<done + 1, 1>>>> /\ buf \o Text(d) = all[done + 1]
    <3>1. CASE d.fs
      BY <2>1, <2>3, <3>1 DEF Whole, Rear
    <3>2. CASE ~d.fs
      <4>1. buf = <<<<done + 1, 1>>>>
        BY <1>9, <2>3, <3>2 DEF Frames, Paired
      <4>2. <<<<done + 1, 1>>>> \o Text(d) = all[done + 1]
        BY <2>1, <2>3, <3>2 DEF Whole, Rear
      <4> QED BY <3>2, <4>1, <4>2
    <3> QED BY <3>1, <3>2
  <2>5. ASSUME NEW s \in V, ~r[s].set PROVE First(r[s])[1] # done + 1
    <3>1. SUFFICES ASSUME First(r[s])[1] = done + 1 PROVE FALSE
      OBVIOUS
    <3>2. Earlier(First(d), First(r[s])) /\ Form(r[s])
      BY <1>1, <1>5, <1>9, <2>5
    <3>3. First(d)[2] = 1 /\ First(r[s])[2] = 2
      BY <2>1, <2>3, <3>1, <3>2 DEF Earlier, Whole, FrontPart, Rear
    <3>4. ~r[s].fs
      BY SMTT(60), <3>2, <3>3 DEF Whole, FrontPart, Rear
    <3>5. Previous(s) \in W /\ Opens(r[Previous(s)], done + 1)
      BY <2>5, <3>1, <3>4 DEF Frames, Paired
    <3>6. Previous(s) # a
      BY <1>9, <3>5 DEF Opens
    <3>7. Previous(s) \in V /\ ~r[Previous(s)].set
      BY <3>5, <3>6 DEF Opens
    <3>8. Earlier(First(d), First(r[Previous(s)])) /\ Form(r[Previous(s)])
      BY <1>1, <1>5, <1>9, <3>7
    <3>9. First(r[Previous(s)])[1] = done + 1 /\ First(r[Previous(s)])[2] = 1
      BY <3>5, <3>8 DEF Opens, Whole, FrontPart, Rear
    <3> QED BY <2>3, <3>3, <3>8, <3>9 DEF Earlier
  <2>6. \A s \in V : Placed(r[s], done + 1, all)
    BY <2>5, PlacedLater DEF Frames
  <2>7. Complete(r, V, done + 1, Len(all))
    <3>1. ASSUME NEW k \in (done + 1) + 1 .. Len(all)
          PROVE  \E s \in V : ~r[s].set /\ r[s].ls /\ First(r[s])[1] = k
      <4>1. k \in done + 1 .. Len(all) /\ k # done + 1
        OBVIOUS
      <4>2. PICK s \in W : ~r[s].set /\ r[s].ls /\ First(r[s])[1] = k
        BY <4>1 DEF Frames, Complete
      <4> QED BY <2>3, <4>1, <4>2
    <3> QED BY <3>1 DEF Complete
  <2>8. Paired(b, r, V, <<>>)
    BY <1>6, <1>9 DEF Opens
  <2>9. Frames(b, f, r, V, done + 1, Len(all), all, <<>>)
    BY <1>2, <1>4, <2>6, <2>7, <2>8 DEF Frames
  <2> QED BY SMTT(60), <2>1, <2>2, <2>4, <2>9
<1> QED BY <1>7, <1>8, <1>9 DEF Taken

(* The steps that send nothing and queue nothing.                             *)
LEMMA QuietStep ==
  ASSUME Bounds, TypeOK, ThreadInv, OutInv, FramesInv, UNCHANGED <<mode, sent, looped, queued>>,
         UNCHANGED <<curAddr, fill, curBuf>>, Waiting' = Waiting,
         \A s \in Waiting : ring'[s] = ring[s]
  PROVE  OutInv' /\ FramesInv'
<1>1. OutInv' /\ Out' = Out
  BY DEF OutInv, Out
<1>2. Len(Out) \in Nat /\ queued \in Seq(Seq(Piece))
  BY DEF Out, TypeOK
<1>3. Frames(curAddr, fill, ring', Waiting, Len(Out), Len(queued), queued, curBuf)
  BY <1>2, FramesSame DEF FramesInv
<1> QED BY <1>1, <1>3 DEF FramesInv

LEMMA QuietSteps ==
  ASSUME Bounds, TypeOK, ThreadInv, OutInv, FramesInv,
         \/ Poll \/ Fetch \/ Idle \/ Suspended \/ Close
         \/ TxPoll \/ TxPollIdling \/ WriteOpMode \/ UNCHANGED vars
  PROVE  OutInv' /\ FramesInv'
<1>1. UNCHANGED <<mode, sent, looped, queued>> /\ UNCHANGED <<curAddr, fill, curBuf>>
  BY DEF Poll, Fetch, Idle, Suspended, Close, TxPoll, TxPollIdling, WriteOpMode, vars, driverVars
<1>2. CASE Close
  <2>1. /\ pc = "close" /\ pc' = "fetch" /\ UNCHANGED addr
        /\ ring' = [ring EXCEPT ![addr] = [descr EXCEPT !.own = FALSE]]
    BY <1>2 DEF Close
  <2>2. ring \in [Slot -> Descriptor] /\ descr \in Descriptor /\ addr \in Slot
    BY <2>1 DEF TypeOK, ThreadInv
  <2>3. \A s \in Slot : s # addr => ring'[s] = ring[s]
    BY <2>1, <2>2
  <2>4. ~ring'[addr].own
    <3>1. ring'[addr] = [descr EXCEPT !.own = FALSE]
      BY <2>1, <2>2
    <3>2. ~[descr EXCEPT !.own = FALSE].own
      BY <2>2 DEF Descriptor
    <3> QED BY <3>1, <3>2
  <2>5. Waiting' = Waiting /\ \A s \in Waiting : ring'[s] = ring[s]
    BY <2>1, <2>3, <2>4 DEF Waiting
  <2> QED BY <1>1, <2>5, QuietStep
<1>3. CASE Poll \/ Fetch \/ Idle \/ Suspended
  <2>1. pc # "close" /\ pc' # "close" /\ UNCHANGED ring
    BY <1>3 DEF Poll, Fetch, Idle, Suspended
  <2>2. Waiting' = Waiting
    BY <2>1 DEF Waiting
  <2> QED BY <1>1, <2>1, <2>2, QuietStep
<1>4. CASE TxPoll \/ TxPollIdling \/ WriteOpMode \/ UNCHANGED vars
  <2>1. UNCHANGED <<pc, addr, ring>>
    BY <1>4 DEF TxPoll, TxPollIdling, WriteOpMode, vars
  <2>2. Waiting' = Waiting
    BY <2>1 DEF Waiting
  <2> QED BY <1>1, <2>1, <2>2, QuietStep
<1> QED BY <1>2, <1>3, <1>4

(* The thread takes a descriptor.                                             *)
LEMMA GatheredText ==
  ASSUME TypeOK, descr.buf1 # <<>>
  PROVE  Gathered = IF descr.fs THEN Text(descr) ELSE curBuf \o Text(descr)
<1> DEFINE b == descr.buf1
           c == IF descr.ch THEN <<>> ELSE descr.buf2
<1>1. b \in Seq(Piece) /\ c \in Seq(Piece) /\ curBuf \in Seq(Piece) /\ <<>> \in Seq(Piece)
  BY DEF TypeOK, Descriptor
<1>2. Text(descr) = b \o c
  BY DEF Text
<1>3. Gathered = ((IF descr.fs THEN <<>> ELSE curBuf) \o b) \o c
  BY DEF Gathered
<1> HIDE DEF b, c
<1>4. <<>> \o b = b
  BY <1>1, ConcatEmptySeq
<1>5. (curBuf \o b) \o c = curBuf \o (b \o c)
  BY SMTT(60), <1>1, ConcatAssociative
<1> QED BY <1>2, <1>3, <1>4, <1>5

LEMMA ProcessStep ==
  ASSUME Bounds, Drivable, TypeOK, ThreadInv, OutInv, FramesInv, Process
  PROVE  OutInv' /\ FramesInv'
<1>1. /\ pc = "check" /\ descr.own /\ pc' = "close"
      /\ curAddr' = (addr + 1) % RingSize
      /\ UNCHANGED <<mode, ring, addr, fill, queued>>
      /\ descr.set => UNCHANGED <<curBuf, sent, looped>>
      /\ ~descr.set =>
           /\ curBuf' = IF descr.ls THEN <<>> ELSE Gathered
           /\ sent' = IF descr.ls /\ mode # "internal" THEN Append(sent, Gathered) ELSE sent
           /\ looped' = IF descr.ls /\ mode # "normal" THEN Append(looped, Gathered) ELSE looped
  BY DEF Process, driverVars
<1>2. /\ addr = curAddr /\ addr \in Slot /\ descr = ring[addr] /\ fill \in Slot
      /\ descr \in Descriptor
  BY <1>1 DEF ThreadInv, TypeOK
<1>3. addr \in Waiting /\ Waiting \subseteq Slot /\ Waiting' = Waiting \ {addr}
  BY <1>1, <1>2 DEF Waiting
<1>4. Len(Out) \in Nat /\ queued \in Seq(Seq(Piece)) /\ Out \in Seq(Seq(Piece))
      /\ sent \in Seq(Seq(Piece)) /\ looped \in Seq(Seq(Piece)) /\ Gathered \in Seq(Piece)
  BY SMTT(60) DEF Out, TypeOK, Gathered, Descriptor
<1> DEFINE done == Len(Out)
           b == (addr + 1) % RingSize
           V == Waiting \ {addr}
<1>5. Frames(addr, fill, ring, Waiting, done, Len(queued), queued, curBuf)
  BY <1>2 DEF FramesInv
<1>6. /\ descr.set => Frames(b, fill, ring, V, done, Len(queued), queued, curBuf)
      /\ ~descr.set /\ ~descr.ls =>
           /\ FrontPart(descr, done, queued) /\ descr.buf1 # <<>>
           /\ Frames(b, fill, ring, V, done, Len(queued), queued, <<<<First(descr)[1], 1>>>>)
      /\ ~descr.set /\ descr.ls =>
           /\ done + 1 <= Len(queued) /\ descr.buf1 # <<>>
           /\ IF descr.fs THEN Text(descr) = queued[done + 1]
              ELSE curBuf = <<<<done + 1, 1>>>> /\ curBuf \o Text(descr) = queued[done + 1]
           /\ Frames(b, fill, ring, V, done + 1, Len(queued), queued, <<>>)
  <2>1. done \in Nat /\ queued \in Seq(Seq(Piece))
    BY <1>4
  <2> HIDE DEF done
  <2>2. Taken(b, fill, ring, V, done, queued, curBuf, ring[addr])
    BY <1>2, <1>3, <1>5, <2>1, FramesTake
  <2> HIDE DEF b, V
  <2> QED BY <1>2, <2>2 DEF Taken
<1>7. CASE descr.set
  BY <1>1, <1>3, <1>6, <1>7 DEF OutInv, Out, FramesInv
<1>8. CASE ~descr.set /\ ~descr.ls
  <2>1. UNCHANGED <<sent, looped>> /\ curBuf' = Gathered
    BY <1>1, <1>8
  <2>2. Gathered = <<<<First(descr)[1], 1>>>>
    BY <1>6, <1>8, GatheredText DEF FrontPart
  <2> QED BY <1>1, <1>3, <1>6, <1>8, <2>1, <2>2 DEF OutInv, Out, FramesInv
<1>9. CASE ~descr.set /\ descr.ls
  <2>1. curBuf' = <<>>
        /\ sent' = (IF mode # "internal" THEN Append(sent, Gathered) ELSE sent)
        /\ looped' = (IF mode # "normal" THEN Append(looped, Gathered) ELSE looped)
    BY <1>1, <1>9
  <2>2. Gathered = queued[done + 1]
    <3>1. CASE descr.fs
      BY <1>6, <1>9, <3>1, GatheredText
    <3>2. CASE ~descr.fs
      BY <1>6, <1>9, <3>2, GatheredText
    <3> QED BY <3>1, <3>2
  <2>3. Out' = Append(Out, Gathered)
    BY <1>1, <2>1 DEF Out
  <2>4. Len(Out') = done + 1 /\ Out'[done + 1] = Gathered /\ \A i \in 1 .. done : Out'[i] = Out[i]
    BY <1>4, <2>3
  <2>5. DOMAIN Out' = 1 .. done + 1 /\ DOMAIN Out = 1 .. done
    BY <1>4, <2>3
  <2>6. \A i \in DOMAIN Out' : Out'[i] = queued'[i]
    <3>1. \A i \in 1 .. done : Out[i] = queued[i]
      BY <2>5 DEF OutInv
    <3>2. \A i \in 1 .. done + 1 : i \in 1 .. done \/ i = done + 1
      BY SMTT(60), <1>4
    <3> HIDE DEF done
    <3> QED BY <1>1, <2>2, <2>4, <2>5, <3>1, <3>2
  <2>7. OutInv'
    <3>1. mode \in {"normal", "internal", "external"}
      BY DEF TypeOK, Drivable
    <3>2. /\ mode' = "normal" => looped' = <<>>
          /\ mode' = "internal" => sent' = <<>>
          /\ mode' = "external" => sent' = looped'
      BY <1>1, <2>1 DEF OutInv
    <3>3. Len(Out') <= Len(queued')
      BY <1>1, <1>6, <1>9, <2>4
    <3> QED BY <2>6, <3>2, <3>3 DEF OutInv
  <2>8. FramesInv'
    BY <1>1, <1>3, <1>6, <1>9, <2>1, <2>4 DEF FramesInv
  <2> QED BY <2>7, <2>8
<1> QED BY <1>7, <1>8, <1>9

(* The driver queues a frame.                                                 *)
LEMMA NewForms ==
  ASSUME Bounds, Drivable, NEW layout \in Layouts, NEW k \in 1 .. MaxFrames,
         NEW ds, ds = Descriptors(layout, k)
  PROVE  /\ layout = "setup" => ds[1].own /\ ds[1].set
         /\ layout \in {"one", "both", "chain"} =>
              /\ ds[1].own /\ ~ds[1].set /\ ds[1].fs /\ ds[1].ls /\ First(ds[1])[1] = k
         /\ layout = "two" =>
              /\ ds[1].own /\ Opens(ds[1], k) /\ First(ds[1])[2] = 1
              /\ ds[2].own /\ ~ds[2].set /\ ~ds[2].fs /\ ds[2].ls
              /\ First(ds[2])[1] = k /\ First(ds[2])[2] = 2
         /\ layout \in {"setup", "one", "both", "chain", "two"}
         /\ 1 \in DOMAIN ds /\ (layout = "two" => 2 \in DOMAIN ds)
<1> DEFINE x == <<k, 1>>
           y == <<k, 2>>
           a == Given(FALSE, TRUE, TRUE, layout = "chain", <<x>>, <<>>)
           b == Given(FALSE, TRUE, TRUE, FALSE, <<x>>, <<y>>)
           c == Given(TRUE, FALSE, FALSE, FALSE, <<>>, <<>>)
           e == Given(FALSE, TRUE, FALSE, FALSE, <<x>>, <<>>)
           f == Given(FALSE, FALSE, TRUE, FALSE, <<y>>, <<>>)
<1>1. layout = "one" => ds = <<a>>
  BY DescriptorForms
<1>2. layout = "chain" => ds = <<a>>
  BY DescriptorForms
<1>3. layout = "both" => ds = <<b>>
  BY DescriptorForms
<1>4. layout = "two" => ds = <<e, f>>
  BY DescriptorForms
<1>5. layout = "setup" => ds = <<c>>
  BY DescriptorForms
<1>6. layout \in {"setup", "one", "both", "chain", "two"}
  BY DEF Drivable, Bounds
<1>7. x[1] = k /\ y[1] = k /\ x[2] = 1 /\ y[2] = 2
  OBVIOUS
<1> HIDE DEF x, y
<1>8. /\ c.own /\ c.set
      /\ a.own /\ ~a.set /\ a.fs /\ a.ls /\ First(a)[1] = k
      /\ b.own /\ ~b.set /\ b.fs /\ b.ls /\ First(b)[1] = k
  BY <1>7 DEF Given, First
<1>9. /\ e.own /\ Opens(e, k) /\ First(e)[2] = 1
      /\ f.own /\ ~f.set /\ ~f.fs /\ f.ls /\ First(f)[1] = k /\ First(f)[2] = 2
  BY <1>7 DEF Given, First, Opens
<1> HIDE DEF a, b, c, e, f
<1>10. \A u, v : /\ 1 \in DOMAIN <<u>> /\ <<u>>[1] = u /\ 1 \in DOMAIN <<u, v>> /\ 2 \in DOMAIN <<u, v>>
                 /\ <<u, v>>[1] = u /\ <<u, v>>[2] = v
  OBVIOUS
<1>11. layout = "setup" => 1 \in DOMAIN ds /\ ds[1] = c
  BY <1>5, <1>10
<1>12. layout \in {"one", "chain"} => 1 \in DOMAIN ds /\ ds[1] = a
  BY <1>1, <1>2, <1>10
<1>13. layout = "both" => 1 \in DOMAIN ds /\ ds[1] = b
  BY <1>3, <1>10
<1>14. layout = "two" => 1 \in DOMAIN ds /\ 2 \in DOMAIN ds /\ ds[1] = e /\ ds[2] = f
  BY <1>4, <1>10
<1> QED BY <1>6, <1>8, <1>9, <1>11, <1>12, <1>13, <1>14

LEMMA NewPlaced ==
  ASSUME NEW layout \in Layouts, NEW all \in Seq(Seq(Piece)), Len(all) + 1 \in 1 .. MaxFrames,
         Pieces(layout, Len(all) + 1) \in Seq(Piece), NEW done \in Nat, done <= Len(all),
         NEW i \in DOMAIN Descriptors(layout, Len(all) + 1), NEW d,
         d = Descriptors(layout, Len(all) + 1)[i]
  PROVE  /\ layout # "setup" => Placed(d, done, Append(all, Pieces(layout, Len(all) + 1)))
         /\ layout = "setup" => Placed(d, done, all)
<1> DEFINE k == Len(all) + 1
           new == Pieces(layout, k)
           more == Append(all, new)
<1>1. k \in 1 .. MaxFrames /\ i \in DOMAIN Descriptors(layout, k) /\ d = Descriptors(layout, k)[i]
  OBVIOUS
<1>2. Len(more) = k /\ more[k] = new /\ k \in done + 1 .. k
  OBVIOUS
<1> HIDE DEF k, more
<1>3. layout # "setup" => Placed(d, done, more)
  BY <1>1, <1>2 DEF Placed
<1>4. layout = "setup" => Placed(d, done, all)
  BY <1>1 DEF Placed
<1> QED BY <1>3, <1>4 DEF k, more

LEMMA QueueStep ==
  ASSUME Bounds, Drivable, TypeOK, ThreadInv, OutInv, FramesInv, NEW layout \in Layouts, Queue(layout)
  PROVE  OutInv' /\ FramesInv'
<1> DEFINE k == Len(queued) + 1
           ds == Descriptors(layout, k)
           done == Len(Out)
           W == Waiting
           n == Len(queued)
<1>1. /\ queued \in Seq(Seq(Piece)) /\ Out \in Seq(Seq(Piece)) /\ done \in Nat /\ n \in Nat
      /\ done <= n /\ fill \in Slot /\ ring \in [Slot -> Descriptor]
  BY SMTT(60) DEF TypeOK, Out, OutInv
<1>2. curAddr \in Slot
  BY DEF ThreadInv, Queue, TypeOK
<1>3. /\ UNCHANGED <<mode, sent, looped, curAddr, curBuf, pc, addr>>
      /\ k \in 1 .. MaxFrames /\ ~ring[fill].own /\ ring'[fill] = ds[1]
      /\ queued' = IF layout = "setup" THEN queued ELSE Append(queued, Pieces(layout, k))
      /\ layout # "two" => /\ fill' = (fill + 1) % RingSize
                           /\ \A s \in Slot : s # fill => ring'[s] = ring[s]
  BY QueueEffect
<1>4. layout = "two" =>
        LET g == (fill + 1) % RingSize IN
        /\ fill' = (g + 1) % RingSize /\ g # fill /\ g \in Slot
        /\ ~ring[g].own /\ ring'[g] = ds[2]
        /\ \A s \in Slot : s # fill /\ s # g => ring'[s] = ring[s]
  BY QueueEffect DEF Drivable
<1>5. layout \in Layout /\ Pieces(layout, k) \in Seq(Piece)
  BY <1>3, DescriptorsType DEF Bounds, Layout
<1>6. /\ layout = "setup" => ds[1].own /\ ds[1].set
      /\ layout \in {"one", "both", "chain"} =>
           /\ ds[1].own /\ ~ds[1].set /\ ds[1].fs /\ ds[1].ls /\ First(ds[1])[1] = k
      /\ layout = "two" =>
           /\ ds[1].own /\ Opens(ds[1], k) /\ First(ds[1])[2] = 1
           /\ ds[2].own /\ ~ds[2].set /\ ~ds[2].fs /\ ds[2].ls
           /\ First(ds[2])[1] = k /\ First(ds[2])[2] = 2
      /\ layout \in {"setup", "one", "both", "chain", "two"}
      /\ 1 \in DOMAIN ds /\ (layout = "two" => 2 \in DOMAIN ds)
  BY <1>3, NewForms
<1>7. \A i \in DOMAIN ds : Placed(ds[i], done, queued')
  BY <1>1, <1>3, <1>5, NewPlaced
<1>8. Len(queued') = (IF layout = "setup" THEN n ELSE k) /\ queued' \in Seq(Seq(Piece))
      /\ \A i \in 1 .. n : queued'[i] = queued[i]
  BY <1>1, <1>3, <1>5
<1>9. OutInv'
  <2>1. Out' = Out /\ DOMAIN Out = 1 .. done
    BY <1>1, <1>3 DEF Out
  <2>2. ASSUME NEW i \in DOMAIN Out PROVE Out[i] = queued'[i]
    <3>1. i \in 1 .. n
      BY <1>1, <2>1
    <3>2. Out[i] = queued[i]
      BY DEF OutInv
    <3> QED BY <1>8, <3>1, <3>2
  <2>3. Len(Out) <= Len(queued')
    BY <1>1, <1>8
  <2> QED BY <1>3, <2>1, <2>2, <2>3 DEF OutInv
<1>10. W \subseteq Slot /\ fill \notin W /\ \A s \in W : ring[s].own
  BY <1>3 DEF Waiting
<1>11. Frames(curAddr, fill, ring', W, done, n, queued', curBuf)
  <2>1. Frames(curAddr, fill, ring, W, done, n, queued, curBuf)
    BY DEF FramesInv
  <2>2. \A s \in W : ring'[s] = ring[s]
    BY <1>10, KeepsOwned
  <2> HIDE DEF W, n, done, k
  <2> QED BY ZenonT(60), <1>1, <1>3, <1>5, <2>1, <2>2, FramesSame
<1>12. \A s \in W : ring'[s] = ring[s]
  BY <1>10, KeepsOwned
<1>13. \A s \in W : ~ring'[s].set => First(ring'[s])[1] \in done + 1 .. n
  <2>1. ASSUME NEW s \in W, ~ring[s].set PROVE First(ring[s])[1] \in done + 1 .. n
    <3>1. Placed(ring[s], done, queued)
      BY DEF FramesInv, Frames
    <3> QED BY <1>1, <2>1, <3>1, PlacedForms DEF Whole, FrontPart, Rear
  <2> QED BY <1>12, <2>1
<1>14. \A s \in W : \A d : ~ring'[s].set /\ First(d)[1] = k => Earlier(First(ring'[s]), First(d))
  BY <1>1, <1>13 DEF Earlier
<1>15. pc = "close" => addr # fill /\ addr \in Slot /\ ring[addr].own
  BY <1>3 DEF ThreadInv
<1>16. CASE layout # "two"
  <2>1. Waiting' = W \cup {fill}
    BY <1>1, <1>3, <1>6, <1>15, <1>16 DEF Waiting
  <2>2. Frames(curAddr, (fill + 1) % RingSize, ring', W \cup {fill}, done, Len(queued'), queued', curBuf)
    <3>1. Placed(ring'[fill], done, queued')
      BY <1>3, <1>6, <1>7
    <3>2. ring'[fill].set => Len(queued') = n
      BY <1>3, <1>6, <1>8, <1>16
    <3>3. ~ring'[fill].set => /\ Len(queued') = n + 1 /\ First(ring'[fill])[1] = k
                             /\ ring'[fill].ls /\ ring'[fill].fs
      BY <1>3, <1>6, <1>8, <1>16
    <3>4. ~ring'[fill].set => \A s \in W : ~ring'[s].set => Earlier(First(ring'[s]), First(ring'[fill]))
      BY <1>14, <3>3
    <3>5. Len(queued') \in Nat
      BY <1>8
    <3>6. n + 1 = k
      OBVIOUS
    <3> HIDE DEF W, n, done, k, ds
    <3> QED BY <1>1, <1>2, <1>10, <1>11, <3>1, <3>2, <3>3, <3>4, <3>5, <3>6, FramesPut
  <2> QED BY <1>3, <1>9, <1>16, <2>1, <2>2 DEF FramesInv, Out
<1>17. CASE layout = "two"
  <2> DEFINE g == (fill + 1) % RingSize
             V == W \cup {fill}
  <2>1. /\ fill' = (g + 1) % RingSize /\ g # fill /\ g \in Slot
        /\ ~ring[g].own /\ ring'[g] = ds[2]
        /\ \A s \in Slot : s # fill /\ s # g => ring'[s] = ring[s]
    BY <1>4, <1>17
  <2>2. g \notin W /\ (pc = "close" => addr # g)
    BY <1>15, <2>1 DEF Waiting
  <2>3. Waiting' = V \cup {g}
    BY <1>1, <1>3, <1>6, <1>15, <1>17, <2>1, <2>2 DEF Waiting
  <2>4. g # curAddr /\ Previous(g) = fill
    <3>1. g # curAddr
      BY <1>1, <1>2, <1>10, <1>11, <1>17, <2>2, NextFree DEF Drivable, Frames
    <3>2. Previous(g) = fill
      BY <1>1, PreviousFacts
    <3> QED BY <3>1, <3>2
  <2>5. Frames(curAddr, g, ring', V, done, n, queued', curBuf)
    <3>1. Placed(ring'[fill], done, queued')
      BY <1>3, <1>6, <1>7
    <3>2. ~ring'[fill].set /\ First(ring'[fill])[1] = k /\ ~ring'[fill].ls /\ ring'[fill].fs
      BY <1>3, <1>6, <1>17 DEF Opens
    <3>3. \A s \in W : ~ring'[s].set => Earlier(First(ring'[s]), First(ring'[fill]))
      BY <1>14, <3>2
    <3> HIDE DEF W, n, done, k, ds
    <3> QED BY <1>1, <1>2, <1>10, <1>11, <3>1, <3>2, <3>3, FramesPut
  <2>6. Frames(curAddr, (g + 1) % RingSize, ring', V \cup {g}, done, Len(queued'), queued', curBuf)
    <3>1. Placed(ring'[g], done, queued')
      BY <1>6, <1>7, <1>17, <2>1
    <3>2. ~ring'[g].set /\ First(ring'[g])[1] = k /\ First(ring'[g])[2] = 2
          /\ ring'[g].ls /\ ~ring'[g].fs
      BY <1>6, <1>17, <2>1
    <3>3. Opens(ring'[fill], k) /\ First(ring'[fill])[1] = k /\ First(ring'[fill])[2] = 1
      BY <1>3, <1>6, <1>17 DEF Opens
    <3>4. \A s \in V : ~ring'[s].set => Earlier(First(ring'[s]), First(ring'[g]))
      <4>1. Earlier(First(ring'[fill]), First(ring'[g]))
        BY <3>2, <3>3 DEF Earlier
      <4> QED BY <1>14, <3>2, <4>1
    <3>5. Len(queued') = n + 1 /\ Len(queued') \in Nat /\ n + 1 = k /\ V \subseteq Slot /\ g \notin V
      BY <1>1, <1>8, <1>10, <1>17, <2>1, <2>2
    <3>6. Previous(g) \in V
      BY <2>4
    <3> HIDE DEF W, n, done, k, ds, g, V
    <3> QED BY ZenonT(60), <1>1, <1>2, <2>1, <2>4, <2>5, <3>1, <3>2, <3>3, <3>4, <3>5, <3>6, FramesPut
  <2> QED BY <1>3, <1>9, <2>1, <2>3, <2>6 DEF FramesInv, Out
<1> QED BY <1>16, <1>17

(* The ring is new.                                                           *)
LEMMA EmptyRing ==
  ASSUME NEW r, NEW buf
  PROVE  Frames(0, 0, r, {}, 0, 0, <<>>, buf)
<1>1. Between(0, 0, {})
  BY DEF Between
<1>2. Ordered(0, r, {}) /\ Complete(r, {}, 0, 0) /\ Paired(0, r, {}, buf)
  BY DEF Ordered, Complete, Paired
<1> QED BY <1>1, <1>2 DEF Frames

LEMMA FramesStep ==
  ASSUME Bounds, Drivable, TypeOK, ThreadInv, OutInv, curAddr # Null => FramesInv, [Next]_vars
  PROVE  OutInv' /\ (curAddr' # Null => FramesInv')
<1>1. CASE Poll \/ Fetch \/ Idle \/ Suspended \/ Close \/ TxPoll \/ TxPollIdling
           \/ WriteOpMode \/ UNCHANGED vars
  <2>1. UNCHANGED <<curAddr, mode, sent, looped, queued>>
    BY <1>1 DEF Poll, Fetch, Idle, Suspended, Close, TxPoll, TxPollIdling, WriteOpMode, vars,
                driverVars
  <2>2. CASE curAddr # Null
    BY <1>1, <2>2, QuietSteps
  <2>3. CASE curAddr = Null
    BY <2>1, <2>3 DEF OutInv, Out, Null
  <2> QED BY <2>2, <2>3
<1>2. CASE Process
  <2>1. curAddr # Null
    BY <1>2 DEF Process, ThreadInv
  <2> QED BY <1>2, <2>1, ProcessStep
<1>3. ASSUME NEW layout \in Layouts, Queue(layout) PROVE OutInv' /\ FramesInv'
  <2>1. curAddr # Null
    BY <1>3 DEF Queue, ThreadInv
  <2> QED BY <1>3, <2>1, QueueStep
<1>4. CASE ResetNIC
  <2>1. curAddr' = Null /\ UNCHANGED <<mode, sent, looped, queued>>
    BY <1>4 DEF ResetNIC, driverVars
  <2> QED BY <2>1 DEF OutInv, Out, Null
<1>5. CASE Restart
  <2>1. /\ curAddr' = 0 /\ fill' = 0 /\ ring' = [s \in Slot |-> Unused]
        /\ queued' = <<>> /\ sent' = <<>> /\ looped' = <<>>
    BY <1>5 DEF Restart
  <2>2. Waiting' = {}
    BY <2>1 DEF Waiting, Unused
  <2>3. Out' = <<>> /\ Len(Out') = 0 /\ Len(queued') = 0 /\ DOMAIN Out' = {}
    BY <2>1 DEF Out
  <2>4. OutInv'
    BY <2>1, <2>3 DEF OutInv
  <2>5. FramesInv'
    BY <2>1, <2>2, <2>3, EmptyRing DEF FramesInv
  <2> QED BY <2>4, <2>5
<1> QED BY <1>1, <1>2, <1>3, <1>4, <1>5 DEF Next, ThreadStep

LEMMA FramesInit == ASSUME Bounds, Init PROVE OutInv /\ FramesInv
<1>1. /\ curAddr = 0 /\ fill = 0 /\ ring = [s \in Slot |-> Unused]
      /\ queued = <<>> /\ sent = <<>> /\ looped = <<>>
  BY DEF Init
<1>2. Waiting = {}
  BY <1>1 DEF Waiting, Unused
<1>3. Out = <<>> /\ Len(Out) = 0 /\ Len(queued) = 0 /\ DOMAIN Out = {}
  BY <1>1 DEF Out
<1> QED BY <1>1, <1>2, <1>3, EmptyRing DEF OutInv, FramesInv

LEMMA Sent == ASSUME TypeOK, OutInv, Drivable PROVE SentAsQueued
<1>1. ASSUME NEW q \in Seq(Seq(Piece)), Len(q) <= Len(queued), \A i \in DOMAIN q : q[i] = queued[i]
      PROVE  IsPrefix(q, queued)
  <2>1. queued \in Seq(Seq(Piece)) /\ Len(q) \in Nat
    BY DEF TypeOK
  <2>2. SubSeq(q, 1, Len(q)) = SubSeq(queued, 1, Len(q))
    BY SMTT(60), <1>1, <2>1
  <2> QED BY <1>1, <2>2 DEF IsPrefix
<1>2. sent \in Seq(Seq(Piece)) /\ looped \in Seq(Seq(Piece))
      /\ mode \in {"normal", "internal", "external"}
  BY DEF TypeOK, Drivable
<1>3. IF mode = "internal" THEN sent = <<>> ELSE IsPrefix(sent, queued)
  BY <1>1, <1>2 DEF OutInv, Out
<1>4. IF mode = "normal" THEN looped = <<>> ELSE IsPrefix(looped, queued)
  BY <1>1, <1>2 DEF OutInv, Out
<1> QED BY <1>3, <1>4 DEF SentAsQueued

(* What goes out, and what comes back in loopback, is what the driver queued: *)
(* in its order, whole and once, across poll demands, stops and resets.       *)
THEOREM FramesSentAsQueued ==
  ASSUME Bounds, Drivable
  PROVE  Spec => []SentAsQueued
<1>1. Init => Inv
  BY ThreadInitInv, FramesInit DEF Inv
<1>2. TypeOK /\ Inv /\ [Next]_vars => Inv'
  <2> SUFFICES ASSUME TypeOK, ThreadInv, OutInv, curAddr # Null => FramesInv, [Next]_vars
               PROVE  Inv'
    BY DEF Inv
  <2>1. ThreadInv'
    BY ThreadStepInv
  <2>2. OutInv' /\ (curAddr' # Null => FramesInv')
    BY FramesStep
  <2>3. Null' = Null
    BY DEF Null
  <2> QED BY <2>1, <2>2, <2>3 DEF Inv
<1>3. TypeOK /\ Inv => SentAsQueued
  BY Sent DEF Inv
<1>4. Spec => []TypeOK
  BY TypeCorrect
<1> QED BY <1>1, <1>2, <1>3, <1>4, PTL DEF Spec
=============================================================================

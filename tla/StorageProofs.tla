---------------------------- MODULE StorageProofs ----------------------------
(***************************************************************************)
(* What the disk controllers promise.                                      *)
(***************************************************************************)
EXTENDS MCStorage, SequenceTheorems, TLAPS

-----------------------------------------------------------------------------
(* The channel of the IDE controller.                                       *)

(* The parts of the invariant, and the sets of commands, are visible throughout. *)
USE DEF IdeInv, Ide!Packets, Ide!Dma, Ide!Reads, Ide!Writes, Ide!NoData, AskSteps, Pio

(* Set of all but the cycle of a status leaves the cycle. *)
LEMMA MergedAll ==
  ASSUME NEW s \in Ide!Status, NEW a \in BOOLEAN, NEW b \in BOOLEAN, NEW c \in BOOLEAN,
         NEW d \in BOOLEAN
  PROVE  Ide!With(s, [busy |-> a, drq |-> b, err |-> c, inProgress |-> d])
           = [busy |-> a, drq |-> b, err |-> c, inProgress |-> d, cycle |-> s.cycle]
BY DEF Ide!With, Ide!Status

(* Set of the cycle of a status leaves the rest. *)
LEMMA MergedCycle ==
  ASSUME NEW s \in Ide!Status, NEW n \in {0, 1, 2}
  PROVE  Ide!With(s, [cycle |-> n])
           = [busy |-> s.busy, drq |-> s.drq, err |-> s.err, inProgress |-> s.inProgress, cycle |-> n]
BY DEF Ide!With, Ide!Status

(* What Set leaves of a drive's status, for each set of fields that the *)
(* code assigns. *)
LEMMA Merged ==
  ASSUME NEW s \in Ide!Status, NEW a \in BOOLEAN, NEW b \in BOOLEAN, NEW c \in BOOLEAN,
         NEW d \in BOOLEAN, NEW n \in {0, 1, 2}
  PROVE  /\ Ide!With(s, [busy |-> a, drq |-> b, err |-> c, inProgress |-> d])
              = [busy |-> a, drq |-> b, err |-> c, inProgress |-> d, cycle |-> s.cycle]
         /\ Ide!With(s, [busy |-> a, drq |-> b])
              = [busy |-> a, drq |-> b, err |-> s.err, inProgress |-> s.inProgress, cycle |-> s.cycle]
         /\ Ide!With(s, [drq |-> b, busy |-> a])
              = [busy |-> a, drq |-> b, err |-> s.err, inProgress |-> s.inProgress, cycle |-> s.cycle]
         /\ Ide!With(s, [inProgress |-> d])
              = [busy |-> s.busy, drq |-> s.drq, err |-> s.err, inProgress |-> d, cycle |-> s.cycle]
         /\ Ide!With(s, [busy |-> a, inProgress |-> d])
              = [busy |-> a, drq |-> s.drq, err |-> s.err, inProgress |-> d, cycle |-> s.cycle]
         /\ Ide!With(s, [busy |-> a, err |-> c])
              = [busy |-> a, drq |-> s.drq, err |-> c, inProgress |-> s.inProgress, cycle |-> s.cycle]
         /\ Ide!With(s, [cycle |-> n])
              = [busy |-> s.busy, drq |-> s.drq, err |-> s.err, inProgress |-> s.inProgress, cycle |-> n]
BY DEF Ide!With, Ide!Status

(* What writing the command register does to a drive's status. *)
LEMMA MergedBegin ==
  ASSUME NEW s \in Ide!Status, NEW b \in BOOLEAN, NEW d \in BOOLEAN, NEW n \in {0, 1, 2}
  PROVE  Ide!With(s, [drq |-> b, inProgress |-> d, cycle |-> n])
           = [busy |-> s.busy, drq |-> b, err |-> s.err, inProgress |-> d, cycle |-> n]
BY DEF Ide!With, Ide!Status

(* The parameters of the channel, in the form the proofs need. *)
LEMMA Parameters ==
  /\ IdeSecMax \in Nat \ {0} /\ IdeCountMax \in Nat \ {0} /\ IdeSectors \in Nat \ {0}
  /\ IdeCommands \subseteq AllCommands
  /\ IdeMultiple \in Nat \ {0} /\ IdeCounts \subseteq 0 .. IdeCountMax
BY IdeParameters DEF AllCommands

(* The status of the selected drive has its type. *)
LEMMA DriveIs ==
  ASSUME IdeInv
  PROVE  /\ Drive \in Ide!Status /\ Drive.cycle \in {0, 1, 2}
         /\ Drive.busy \in BOOLEAN /\ Drive.drq \in BOOLEAN /\ Drive.err \in BOOLEAN /\ Drive.inProgress \in BOOLEAN
<1>1. Drive \in Ide!Status
  BY DEF IdeTyped, Drive
<1> QED BY <1>1 DEF Ide!Status


(* The registers advanced by some sectors within a cylinder address the *)
(* sector so many further on. *)
LEMMA AdvanceIs ==
  ASSUME NEW r \in Registers, NEW n \in Nat, r.sec + n <= IdeSecMax, r.sec < IdeSecMax, n > 0
  PROVE  /\ Ide!Advance(r, n) \in Registers
         /\ Ide!Advance(r, n).cmd = r.cmd /\ Ide!Advance(r, n).sec < IdeSecMax
         /\ Ide!Lba(Ide!Advance(r, n)) = Ide!Lba(r) + n
<1>1. CASE r.sec + n = IdeSecMax
  <2>1. Ide!Advance(r, n) = [cmd |-> r.cmd, count |-> r.count, cyl |-> r.cyl + 1, sec |-> 0]
    BY <1>1, Parameters DEF Ide!Advance, Registers
  <2>2. (r.cyl + 1) * IdeSecMax + 0 = r.cyl * IdeSecMax + IdeSecMax
    BY Parameters DEF Registers
  <2>3. /\ Ide!Advance(r, n) \in Registers /\ Ide!Advance(r, n).cmd = r.cmd
        /\ Ide!Advance(r, n).cyl = r.cyl + 1 /\ Ide!Advance(r, n).sec = 0
    BY <2>1 DEF Registers
  <2>4. r.cyl * IdeSecMax \in Nat
    BY Parameters DEF Registers
  <2> QED BY <1>1, <2>2, <2>3, <2>4, Parameters DEF Ide!Lba, Registers
<1>2. CASE r.sec + n < IdeSecMax
  <2>1. Ide!Advance(r, n) = [r EXCEPT !.sec = r.sec + n]
    BY <1>2, Parameters DEF Ide!Advance, Registers
  <2>2. r.cyl * IdeSecMax \in Nat
    BY Parameters DEF Registers
  <2>3. /\ Ide!Advance(r, n) \in Registers /\ Ide!Advance(r, n).cmd = r.cmd
        /\ Ide!Advance(r, n).cyl = r.cyl /\ Ide!Advance(r, n).sec = r.sec + n
    BY <2>1 DEF Registers
  <2> QED BY <1>2, <2>2, <2>3 DEF Ide!Lba, Registers
<1> QED BY <1>1, <1>2, Parameters DEF Registers

(* A number is its quotient times the divisor plus its remainder. *)
LEMMA Quotient ==
  ASSUME NEW a \in Nat, NEW m \in Nat \ {0}
  PROVE  a \div m \in Nat /\ a % m \in 0 .. m - 1 /\ (a \div m) * m + (a % m) = a
OBVIOUS

(* A block that starts at a multiple of the block size does not cross a *)
(* cylinder. *)
LEMMA BlockFits ==
  ASSUME AlignedDriver, NEW r \in Registers, r.sec < IdeSecMax, Ide!Lba(r) % IdeMultiple = 0
  PROVE  r.sec + IdeMultiple <= IdeSecMax
<1> DEFINE m == IdeMultiple
           q == IdeSecMax \div m
           p == Ide!Lba(r) \div m
<1>1. m \in Nat \ {0} /\ IdeSecMax \in Nat \ {0} /\ r.cyl \in Nat /\ r.sec \in Nat
  BY Parameters DEF Registers
<1>2. q \in Nat /\ q * m = IdeSecMax
  BY <1>1, Quotient DEF AlignedDriver
<1>3. r.cyl * IdeSecMax \in Nat
  BY <1>1
<1>4. Ide!Lba(r) = r.cyl * IdeSecMax + r.sec /\ Ide!Lba(r) \in Nat
  BY <1>1, <1>3 DEF Ide!Lba
<1>5. p \in Nat /\ p * m = r.cyl * IdeSecMax + r.sec
  <2>1. Ide!Lba(r) % m = 0 /\ p \in Nat /\ p * m + (Ide!Lba(r) % m) = Ide!Lba(r)
    BY <1>1, <1>4, Quotient
  <2> HIDE DEF p, m
  <2>2. p * m \in Nat
    BY <1>1, <2>1
  <2> QED BY <1>4, <2>1, <2>2
<1> HIDE DEF m, q, p
<1>6. r.cyl * (q * m) = (r.cyl * q) * m /\ r.cyl * q \in Nat
  BY <1>1, <1>2
<1>7. PICK k \in Int : k = p - r.cyl * q
  BY <1>5, <1>6
<1>8. r.sec = k * m
  BY <1>1, <1>2, <1>5, <1>6, <1>7
<1>9. k < q
  <2>1. k * m < q * m
    BY <1>2, <1>8
  <2>2. q <= k => q * m <= k * m
    BY <1>1, <1>2
  <2> QED BY <2>1, <2>2, <1>1, <1>2
<1>10. (k + 1) * m <= q * m
  BY <1>1, <1>2, <1>9
<1>11. (k + 1) * m = k * m + m
  BY <1>1
<1> QED BY <1>1, <1>2, <1>8, <1>10, <1>11 DEF m

(* A step that writes no sector and begins or ends no command keeps what *)
(* the media hold. *)
LEMMA MediumKept ==
  ASSUME IdeInv, UNCHANGED <<ideMedium, ideWants, ideSelected>>, ideCpu' = "idle" <=> ideCpu = "idle",
         ideJob'.id = ideJob.id, ideJob'.lba = ideJob.lba,
         ideCpu # "idle" => Count' = Count
  PROVE  MediumRight'
BY DEF MediumRight, Ide!Word

(* A step that writes the next sectors from the buffer keeps what the media *)
(* hold. *)
LEMMA MediumGrows ==
  ASSUME IdeInv, NEW a \in Nat, NEW n \in 0 .. IdeCountMax, Count \in Nat, a = ideJob.lba + Count,
         ideCpu # "idle", UNCHANGED <<ideWants, ideSelected, ideJob, ideCpu>>,
         \A i \in 1 .. n : ideBuffer[i] = Ide!Word(ideJob, Count + i - 1),
         ideMedium' = Ide!Written(ideSelected, a, n), Count' = Count + n
  PROVE  ideMedium' \in [Ide!Drives -> [Ide!Lbas -> Int]] /\ MediumRight'
<1>1. /\ ideSelected \in Ide!Drives /\ ideBuffer \in [1 .. IdeCountMax -> Int]
      /\ ideMedium \in [Ide!Drives -> [Ide!Lbas -> Int]] /\ ideJob.lba \in Nat
      /\ IdeCountMax \in Nat /\ n \in Nat /\ \A l \in Ide!Lbas : l \in Nat
  BY SMTT(60), Parameters DEF IdeTyped, Ide!Lbas
<1>2. ASSUME NEW l \in Nat, l \in a .. a + n - 1
      PROVE  /\ ideBuffer[l - a + 1] \in Int
             /\ ideBuffer[l - a + 1] = Ide!Word(ideJob, l - ideJob.lba)
             /\ l \in ideJob.lba .. ideJob.lba + Count' - 1
  <2>0. l >= a /\ l <= a + n - 1 /\ n <= IdeCountMax /\ n \in Nat /\ IdeCountMax \in Nat
    BY <1>1, <1>2
  <2>1. l - a + 1 \in 1 .. n /\ l - a + 1 \in 1 .. IdeCountMax
    BY <2>0
  <2>2. Count + (l - a + 1) - 1 = l - ideJob.lba
    BY SMTT(60), <1>1
  <2>3. ideBuffer[l - a + 1] = Ide!Word(ideJob, Count + (l - a + 1) - 1)
    BY <2>1
  <2>4. l \in ideJob.lba .. ideJob.lba + (Count + n) - 1
    BY SMTT(60), <1>1, <2>0
  <2> QED BY <1>1, <2>1, <2>2, <2>3, <2>4
<1> DEFINE new == [l \in Ide!Lbas |-> IF l \in a .. a + n - 1 THEN ideBuffer[l - a + 1]
                                      ELSE ideMedium[ideSelected][l]]
<1>3. new \in [Ide!Lbas -> Int]
  BY ZenonT(60), <1>1, <1>2
<1>4. ideMedium' = [ideMedium EXCEPT ![ideSelected] = new]
  BY <1>1 DEF Ide!Written
<1>5. \A l \in Ide!Lbas : new[l] = IF l \in a .. a + n - 1 THEN ideBuffer[l - a + 1] ELSE ideMedium[ideSelected][l]
  OBVIOUS
<1> HIDE DEF new
<1>6. ideMedium' \in [Ide!Drives -> [Ide!Lbas -> Int]]
  BY <1>1, <1>3, <1>4
<1>7. ASSUME NEW d \in Ide!Drives, NEW l \in Ide!Lbas
      PROVE  ideMedium'[d][l] = IF d = ideSelected /\ l \in ideJob.lba .. ideJob.lba + Count' - 1
                                THEN Ide!Word(ideJob, l - ideJob.lba) ELSE ideWants[d][l]
  <2>1. ideMedium[d][l] = IF d = ideSelected /\ l \in ideJob.lba .. ideJob.lba + Count - 1
                          THEN Ide!Word(ideJob, l - ideJob.lba) ELSE ideWants[d][l]
    BY DEF MediumRight
  <2>2. l \in Nat
    BY <1>1
  <2>3. CASE d = ideSelected /\ l \in a .. a + n - 1
    <3>1. ideMedium'[d][l] = ideBuffer[l - a + 1]
      BY <1>1, <1>4, <1>5, <2>3
    <3> QED BY <1>2, <2>2, <2>3, <3>1
  <2>4. CASE ~(d = ideSelected /\ l \in a .. a + n - 1)
    <3>1. ideMedium'[d][l] = ideMedium[d][l]
      BY <1>1, <1>4, <1>5, <2>4
    <3>2. d = ideSelected => (l \in ideJob.lba .. ideJob.lba + (Count + n) - 1 <=> l \in ideJob.lba .. ideJob.lba + Count - 1)
      <4>1. d = ideSelected => l < a \/ l > a + n - 1
        BY SMTT(60), <1>1, <2>2, <2>4
      <4>2. ideJob.lba \in Nat /\ n \in Nat
        BY <1>1
      <4> QED BY <2>2, <4>1, <4>2
    <3> QED BY <2>1, <3>1, <3>2
  <2> QED BY <2>3, <2>4
<1> QED BY <1>6, <1>7 DEF MediumRight, Ide!Word

(* With no sector written yet the media are as the driver wants them. *)
LEMMA MediumIs ==
  ASSUME IdeInv, Count = 0
  PROVE  ideMedium = ideWants
<1>1. /\ ideMedium \in [Ide!Drives -> [Ide!Lbas -> Int]] /\ ideWants \in [Ide!Drives -> [Ide!Lbas -> Int]]
      /\ ideJob.lba \in Nat
  BY DEF IdeTyped
<1>2. ASSUME NEW d \in Ide!Drives PROVE ideMedium[d] = ideWants[d]
  <2>1. \A l \in Ide!Lbas : l \notin ideJob.lba .. ideJob.lba + Count - 1
    BY <1>1 DEF Ide!Lbas
  <2>2. \A l \in Ide!Lbas : ideMedium[d][l] = ideWants[d][l]
    BY <2>1 DEF MediumRight
  <2> QED BY <1>1, <2>2
<1> QED BY <1>1, <1>2

(* Sectors read into the buffer are those the driver expects. *)
LEMMA ReadIn ==
  ASSUME IdeInv, Count = 0, ideJob.cmd # "identify",
         NEW a \in Nat, NEW k \in Nat, NEW n \in 1 .. IdeCountMax, a = ideJob.lba + k,
         ideBuffer' = Ide!Filled(Ide!Contents(ideSelected, a, n))
  PROVE  /\ ideBuffer' \in [1 .. IdeCountMax -> Int]
         /\ \A i \in 1 .. n : ideBuffer'[i] = Ide!Expected(k + i - 1)
<1>1. \A j \in Nat : j % IdeSectors \in Ide!Lbas
  BY Parameters DEF Ide!Lbas
<1>2. /\ ideMedium[ideSelected] \in [Ide!Lbas -> Int] /\ ideBuffer \in [1 .. IdeCountMax -> Int]
      /\ ideSelected \in Ide!Drives /\ ideJob.lba \in Nat
  BY DEF IdeTyped
<1>3. \A j \in Ide!Lbas : ideMedium[ideSelected][j] = ideWants[ideSelected][j]
  BY MediumIs
<1>5. \A i \in 1 .. n : a + i - 1 = ideJob.lba + (k + i - 1) /\ a + i - 1 \in Nat
  BY SMTT(60), <1>2, Parameters
<1> DEFINE c == Ide!Contents(ideSelected, a, n)
<1>6. c = [i \in 1 .. n |-> ideMedium[ideSelected][(a + i - 1) % IdeSectors]]
  BY DEF Ide!Contents
<1>7. Len(c) = n /\ \A i \in 1 .. n : c[i] = ideMedium[ideSelected][(a + i - 1) % IdeSectors] /\ c[i] \in Int
  <2>0. n \in Nat /\ \A i \in 1 .. n : (a + i - 1) % IdeSectors \in Ide!Lbas
    BY <1>1, <1>5, Parameters
  <2>1. \A i \in 1 .. n : ideMedium[ideSelected][(a + i - 1) % IdeSectors] \in Int
    BY <1>2, <2>0
  <2> HIDE DEF c
  <2> QED BY <1>6, <2>0, <2>1
<1> HIDE DEF c
<1>8. ideBuffer' = [i \in 1 .. IdeCountMax |-> IF i <= Len(c) THEN c[i] ELSE ideBuffer[i]]
  BY DEF Ide!Filled, c
<1>9. \A i \in 1 .. n : ideBuffer'[i] = c[i]
  <2>1. \A i \in 1 .. n : i \in 1 .. IdeCountMax /\ i <= n
    BY Parameters
  <2> QED BY <1>7, <1>8, <2>1
<1>10. ideBuffer' \in [1 .. IdeCountMax -> Int]
  BY <1>2, <1>7, <1>8, Parameters
<1>11. \A i \in 1 .. n : Ide!Expected(k + i - 1) = c[i]
  BY ZenonT(60), <1>1, <1>3, <1>5, <1>7 DEF Ide!Expected
<1> QED BY <1>9, <1>10, <1>11

(* The block after a block that starts at a multiple of the block size does *)
(* too. *)
LEMMA NextMultiple ==
  ASSUME NEW a \in Nat, NEW m \in Nat \ {0}, a % m = 0
  PROVE  (a + m) % m = 0
<1> DEFINE q == a \div m
<1>1. q \in Nat /\ q * m + (a % m) = a
  BY Quotient
<1> HIDE DEF q
<1>2. q * m + 0 = a
  BY <1>1
<1>3. (q + 1) * m = q * m + m /\ q * m \in Nat
  BY <1>1
<1>4. a + m = (q + 1) * m /\ q + 1 \in Nat
  BY <1>1, <1>2, <1>3
<1> DEFINE x == (a + m) \div m
           r == (a + m) % m
<1>5. x \in Nat /\ r \in 0 .. m - 1 /\ x * m + r = a + m
  <2>1. a + m \in Nat
    OBVIOUS
  <2> HIDE DEF q
  <2> QED BY <2>1, Quotient
<1> HIDE DEF x, r
<1>6. PICK k \in Int : k = q + 1 - x
  BY <1>1, <1>5
<1>7. k * m = r
  <2>1. k * m = (q + 1 - x) * m
    BY <1>6
  <2>2. (q + 1 - x) * m = (q + 1) * m - x * m /\ x * m \in Nat /\ (q + 1) * m \in Nat
    BY <1>1, <1>5
  <2> QED BY <1>4, <1>5, <2>1, <2>2
<1>8. k >= 1 => k * m >= m
  BY <1>6
<1>9. k <= -1 => k * m <= -m
  BY <1>6
<1>10. k = 0
  BY <1>5, <1>6, <1>7, <1>8, <1>9
<1>11. r = 0
  BY <1>5, <1>7, <1>10
<1> QED BY <1>11 DEF r

(* A command is aborted when the drive refuses it: the second time through *)
(* there is none that it refuses. *)
LEMMA AbortsIs ==
  ASSUME IdeInv
  PROVE  Ide!Running => (Ide!Aborts <=> Ide!Refused(ideRegs.cmd, ideKind[ideSelected]))
<1> SUFFICES ASSUME Ide!Running PROVE Ide!Refused(ideRegs.cmd, ideKind[ideSelected]) => Ide!Aborts
  BY DEF Ide!Aborts
<1>1. idePc = "run" /\ Asking
  BY DEF Ide!Running, Asking, Asked
<1>2. CASE ~Present
  BY <1>1, <1>2 DEF Control, Present, Ide!Refused
<1>3. CASE Present
  <2>1. On /\ ideRegs.cmd = ideJob.cmd
    BY <1>1, <1>3 DEF Control, On, Asking, Asked
  <2>2. Ide!Refused(ideRegs.cmd, ideKind[ideSelected]) => Drive.cycle = 0
    BY <1>1, <2>1 DEF Aborted, Asks, Refused, Executed
  <2> QED BY <2>2 DEF Ide!Aborts, Ide!FirstTime, Ide!St, Drive
<1> QED BY <1>2, <1>3

(* The thread takes the command that the driver has left for it. *)
LEMMA StepAwake ==
  ASSUME IdeInv,
         Ide!Awake
  PROVE  IdeInv'
<1>1. /\ idePc = "wait" /\ ideSem["controller"] = 1 /\ idePc' = "run"
      /\ ideSem' = [ideSem EXCEPT !["controller"] = 0]
  BY DEF Ide!Awake, Ide!ThreadOnly, Ide!Goto, Ide!RaiseThen, Ide!disks, Ide!busMaster, Ide!Wait,
    Ide!Available
<1>2. UNCHANGED <<ideActive, ideAfter, ideBmIntr, ideBuffer, ideCpu, ideIrq, ideJob, ideKind,
                  ideMedium, ideMemory, ideMoved, idePhase, idePrd, idePtr, ideRegs, ideSelected,
                  ideSize, ideStatus, ideWants>>
  BY DEF Ide!Awake, Ide!ThreadOnly, Ide!Goto, Ide!RaiseThen, Ide!disks, Ide!busMaster, Ide!Wait,
    Ide!Available
<1>e. \A k \in Int : Ide!Expected(k)' = Ide!Expected(k)
  BY <1>1, <1>2 DEF Ide!Expected
<1>t. At' = At
  BY <1>2 DEF At
<1>3. (InLimits /\ BufferRead /\ BufferPacket /\ BufferWritten /\ MediumRight)'
  BY SMTT(60), <1>2 DEF Base, BufferPacket, BufferRead, BufferWritten, Count, Drive, Ide!Aligned,
    Ide!Drives, Ide!Expected, Ide!Lbas, Ide!Refused, Ide!Word, InLimits, MediumRight, On, Present,
    Refused
<1>4. (IdeTyped /\ OneHasCommand /\ OneHasTransfer /\ Control /\ Fresh)'
  BY <1>1, <1>2, <1>t DEF AllCommands, Asked, Asking, Asks, AtAnswer, AtEnd, AtTransfer, Control,
    Drive, DriverSteps, Executed, Fresh, IdeTyped, InDma, MasterStarts, On, OneHasCommand,
    OneHasTransfer, Present, Registers, Steps, Transfers
<1>5. (Reading /\ Writing /\ WritingMultiple /\ PacketPhases /\ Aborted)'
  BY <1>1, <1>2, <1>t DEF Aborted, Asked, Asking, Asks, AtAnswer, AtTransfer, Base, Drive, Executed,
    MasterStarts, On, PacketPhases, Present, Reading, Refused, Running, Transfers, Writing,
    WritingMultiple
<1>6. (Filled /\ Sizes /\ BufferDma /\ MemoryRead /\ MemoryWritten)'
  BY <1>1, <1>2 DEF Asked, Asking, Asks, AtTransfer, BufferDma, Drive, Executed, Filled, MemoryRead,
    MemoryWritten, On, Present, Sizes, Transfers
<1>7. (MovedFits /\ DmaOver)'
  BY <1>1, <1>2 DEF Asked, Asking, AtTransfer, DmaOver, Drive, MovedFits, On, Present
<1> QED BY <1>3, <1>4, <1>5, <1>6, <1>7

(* The thread has nothing to do, or no drive to do it with. *)
LEMMA StepNothing ==
  ASSUME IdeInv,
         Ide!Nothing
  PROVE  IdeInv'
<1>1. /\ idePc = "run" /\ (~Drive.inProgress \/ ~Present)
      /\ idePc' = IF Drive.inProgress THEN "finish" ELSE "set"
  BY DEF Ide!Nothing, Ide!ThreadOnly, Ide!Goto, Ide!RaiseThen, Ide!disks, Ide!busMaster, Ide!St,
    Drive, Present
<1>2. UNCHANGED <<ideActive, ideAfter, ideBmIntr, ideBuffer, ideCpu, ideIrq, ideJob, ideKind,
                  ideMedium, ideMemory, ideMoved, idePhase, idePrd, idePtr, ideRegs, ideSelected,
                  ideSem, ideSize, ideWants>>
  BY DEF Ide!Nothing, Ide!ThreadOnly, Ide!Goto, Ide!RaiseThen, Ide!disks, Ide!busMaster, Ide!St,
    Drive, Present
<1>e. \A k \in Int : Ide!Expected(k)' = Ide!Expected(k)
  BY <1>1, <1>2 DEF Ide!Expected
<1>t. At' = At
  BY <1>2 DEF At
<1>s. Drive' = [busy |-> Drive.busy, drq |-> Drive.drq, err |-> Drive.err, inProgress |-> FALSE, cycle |-> Drive.cycle] /\ ideStatus' \in [Ide!Drives -> Ide!Status]
  <2>1. ideStatus' = [ideStatus EXCEPT ![ideSelected] = [busy |-> Drive.busy, drq |-> Drive.drq, err |-> Drive.err, inProgress |-> FALSE, cycle |-> Drive.cycle]]
    BY Merged DEF Ide!Nothing, Ide!ThreadOnly, Ide!Goto, Ide!RaiseThen, Ide!disks, Ide!busMaster,
      Ide!St, Drive, Present, Ide!Set, Ide!St, Drive, IdeTyped, Ide!Status
  <2> QED BY <2>1, <1>2 DEF IdeTyped, Drive, Ide!Status
<1>3. (InLimits /\ BufferWritten)'
  BY SMTT(60), <1>2 DEF Base, BufferWritten, Ide!Aligned, Ide!Refused, Ide!Word, InLimits, On,
    Present, Refused
<1>4. (PacketPhases /\ Aborted /\ Filled /\ Sizes /\ BufferDma)'
  BY <1>1, <1>2, <1>s DEF Aborted, Asked, Asking, Asks, AtAnswer, AtTransfer, BufferDma, Drive,
    Executed, Filled, MasterStarts, On, PacketPhases, Present, Refused, Running, Sizes, Transfers
<1>5. (MemoryRead /\ MemoryWritten /\ MovedFits)'
  BY <1>1, <1>2 DEF Asked, Asking, AtTransfer, MemoryRead, MemoryWritten, MovedFits, Transfers
<1>6. (Control /\ Writing /\ WritingMultiple /\ DmaOver)'
  BY <1>1, <1>2 DEF AllCommands, Asked, Asking, Asks, AtAnswer, AtEnd, AtTransfer, Base, Control,
    DmaOver, Drive, Executed, MasterStarts, On, OneHasCommand, Present, Refused, Running, Transfers,
    Writing, WritingMultiple
<1>7. (IdeTyped /\ OneHasCommand /\ OneHasTransfer)'
  BY SMTT(60), <1>1, <1>2, <1>s DEF AllCommands, AtTransfer, DriverSteps, IdeTyped, InDma,
    OneHasCommand, OneHasTransfer, Registers, Steps
<1>Fresh. Fresh'
  BY <1>1, <1>2, <1>s, <1>t DEF Drive, Executed, Fresh, On, Present
<1>Reading. Reading'
  BY <1>1, <1>2, <1>s DEF Base, Drive, Executed, On, Present, Reading, Refused, Running
<1>BufferRead. BufferRead'
  BY SMTT(60), <1>2, <1>s, <1>e DEF Base, BufferRead, Drive, IdeTyped, On, Present
<1>BufferPacket. BufferPacket'
  BY <1>2, <1>s, <1>e DEF Base, BufferPacket, Drive, On, Present
<1>MediumRight. MediumRight'
  <2>1. ideCpu # "idle" => Count' = Count
    BY <1>2 DEF Base, Count, Drive
  <2> QED BY <1>1, <1>2, <2>1, MediumKept
<1> QED
  BY <1>3, <1>4, <1>5, <1>6, <1>7, <1>Fresh, <1>Reading, <1>BufferRead, <1>BufferPacket,
    <1>MediumRight DEF IdeInv

(* A command that the drive refuses is aborted: it has moved nothing. *)
LEMMA StepAbort ==
  ASSUME IdeInv,
         Ide!Abort
  PROVE  IdeInv'
<1>1. /\ idePc = "run" /\ Drive.inProgress /\ Ide!Refused(ideRegs.cmd, ideKind[ideSelected])
      /\ idePc' = "raise" /\ ideAfter' = "finish" /\ idePtr' = 0
  BY AbortsIs DEF Ide!Abort, Ide!ThreadOnly, Ide!Goto, Ide!RaiseThen, Ide!disks, Ide!busMaster,
    Ide!Running, Ide!St, Drive
<1>2. UNCHANGED <<ideActive, ideBmIntr, ideBuffer, ideCpu, ideIrq, ideJob, ideKind, ideMedium,
                  ideMemory, ideMoved, idePhase, idePrd, ideRegs, ideSelected, ideSem, ideSize,
                  ideWants>>
  BY DEF Ide!Abort, Ide!ThreadOnly, Ide!Goto, Ide!RaiseThen, Ide!disks, Ide!busMaster, Ide!Running,
    Ide!St, Drive
<1>e. \A k \in Int : Ide!Expected(k)' = Ide!Expected(k)
  BY <1>1, <1>2 DEF Ide!Expected
<1>t. At' = At
  BY <1>2 DEF At
<1>s. Drive' = [busy |-> FALSE, drq |-> FALSE, err |-> TRUE, inProgress |-> FALSE, cycle |-> Drive.cycle] /\ ideStatus' \in [Ide!Drives -> Ide!Status]
  <2>1. ideStatus' = [ideStatus EXCEPT ![ideSelected] = [busy |-> FALSE, drq |-> FALSE, err |-> TRUE, inProgress |-> FALSE, cycle |-> Drive.cycle]]
    BY Merged DEF Ide!Abort, Ide!ThreadOnly, Ide!Goto, Ide!RaiseThen, Ide!disks, Ide!busMaster,
      Ide!Running, Ide!St, Drive, Ide!Set, Ide!St, Drive, IdeTyped, Ide!Status
  <2> QED BY <2>1, <1>2 DEF IdeTyped, Drive, Ide!Status
<1>InLimits. InLimits'
  BY SMTT(60), <1>2 DEF Ide!Aligned, Ide!Refused, InLimits, On, Present, Refused
<1>3. (BufferRead /\ BufferPacket /\ BufferWritten /\ Sizes /\ BufferDma)'
  BY SMTT(60), <1>1, <1>2, <1>s DEF AtTransfer, Base, BufferDma, BufferPacket, BufferRead,
    BufferWritten, Drive, IdeTyped, On, Present, Sizes, Transfers
<1>4. (MemoryRead /\ MemoryWritten /\ MovedFits)'
  BY <1>1, <1>2 DEF Asked, Asking, AtTransfer, MemoryRead, MemoryWritten, MovedFits, Transfers
<1>5. (Reading /\ Writing /\ WritingMultiple /\ PacketPhases)'
  BY <1>1, <1>2, <1>s DEF AllCommands, Asked, Asking, Asks, AtAnswer, AtEnd, AtTransfer, Base,
    Control, Drive, Executed, MasterStarts, On, OneHasCommand, PacketPhases, Present, Reading,
    Refused, Running, Transfers, Writing, WritingMultiple
<1>IdeTyped. IdeTyped'
  BY SMTT(60), <1>1, <1>2, <1>s, Parameters DEF AllCommands, DriverSteps, IdeTyped, InDma,
    Registers, Steps
<1>OneHasCommand. OneHasCommand'
  BY <1>1, <1>2 DEF OneHasCommand
<1>OneHasTransfer. OneHasTransfer'
  BY <1>1, <1>2 DEF AtTransfer, OneHasTransfer
<1>Control. Control'
  BY <1>1, <1>2 DEF AllCommands, Asked, Asking, Asks, AtAnswer, AtEnd, AtTransfer, Control, Drive,
    Executed, Ide!Refused, InLimits, MasterStarts, On, OneHasCommand, Present, Refused, Transfers
<1>Fresh. Fresh'
  BY <1>1, <1>2 DEF Drive, Executed, Fresh, On, Present
<1>Aborted. Aborted'
  BY <1>1, <1>2, <1>s DEF Aborted, AllCommands, Asked, Asking, Asks, AtAnswer, AtEnd, AtTransfer,
    Control, Drive, Executed, Fresh, MasterStarts, On, OneHasCommand, Present, Refused, Transfers
<1>Filled. Filled'
  BY <1>2, <1>s DEF Asks, Drive, Executed, Filled, On, Present
<1>DmaOver. DmaOver'
  BY <1>1, <1>2 DEF AllCommands, Asked, Asking, Asks, AtAnswer, AtEnd, AtTransfer, Control, DmaOver,
    Drive, Executed, InLimits, MasterStarts, On, Present, Refused, Transfers
<1>MediumRight. MediumRight'
  <2>1. ideCpu # "idle" => Count' = Count
    BY <1>1, <1>2 DEF Aborted, AllCommands, Asked, Asking, Asks, AtAnswer, AtEnd, AtTransfer, Base,
      Control, Count, Drive, Executed, Fresh, InLimits, MasterStarts, On, Present, Refused,
      Transfers
  <2> QED BY <1>1, <1>2, <2>1, MediumKept
<1> QED
  BY <1>InLimits, <1>3, <1>4, <1>5, <1>IdeTyped, <1>OneHasCommand, <1>OneHasTransfer, <1>Control,
    <1>Fresh, <1>Aborted, <1>Filled, <1>DmaOver, <1>MediumRight DEF IdeInv

(* The commands that only set the status. *)
LEMMA StepStatusOnly ==
  ASSUME IdeInv,
         NEW err \in BOOLEAN, idePc = "run", Drive.inProgress, Present,
         ideRegs.cmd \in {"recalibrate", "seek", "flush", "parameters"},
         ~Ide!Refused(ideRegs.cmd, ideKind[ideSelected]), Ide!SetStatusOnly(err)
  PROVE  IdeInv'
<1>1. /\ idePc' = "raise" /\ ideAfter' = "finish"
  BY DEF Ide!ThreadOnly, Ide!Goto, Ide!RaiseThen, Ide!disks, Ide!busMaster, Ide!SetStatusOnly
<1>2. UNCHANGED <<ideActive, ideBmIntr, ideBuffer, ideCpu, ideIrq, ideJob, ideKind, ideMedium,
                  ideMemory, ideMoved, idePhase, idePrd, idePtr, ideRegs, ideSelected, ideSem,
                  ideSize, ideWants>>
  BY DEF Ide!ThreadOnly, Ide!Goto, Ide!RaiseThen, Ide!disks, Ide!busMaster, Ide!SetStatusOnly
<1>e. \A k \in Int : Ide!Expected(k)' = Ide!Expected(k)
  BY <1>1, <1>2 DEF Ide!Expected
<1>t. At' = At
  BY <1>2 DEF At
<1>s.
       /\ Drive' = [busy |-> FALSE, drq |-> FALSE, err |-> err, inProgress |-> FALSE, cycle |-> Drive.cycle]
      /\ ideStatus' \in [Ide!Drives -> Ide!Status]
  <2>1. ideStatus' = [ideStatus EXCEPT ![ideSelected] =
                       Ide!With(Drive, [busy |-> FALSE, drq |-> FALSE, err |-> err, inProgress |-> FALSE])]
    BY DEF Ide!SetStatusOnly, Ide!Set, Ide!St, Drive
  <2>2. ideStatus' = [ideStatus EXCEPT ![ideSelected] =
                       [busy |-> FALSE, drq |-> FALSE, err |-> err, inProgress |-> FALSE, cycle |-> Drive.cycle]]
    BY ZenonT(60), <2>1, DriveIs, MergedAll
  <2> QED BY <1>2, <2>2, DriveIs DEF IdeTyped, Drive, Ide!Status
<1>3. (InLimits /\ BufferWritten)'
  BY SMTT(60), <1>2 DEF Base, BufferWritten, Ide!Aligned, Ide!Refused, Ide!Word, InLimits, On,
    Present, Refused
<1>4. (BufferRead /\ BufferPacket /\ Sizes /\ BufferDma /\ MemoryRead)'
  BY SMTT(60), <1>1, <1>2, <1>s DEF Asked, Asking, AtTransfer, Base, BufferDma, BufferPacket,
    BufferRead, Drive, MemoryRead, On, Present, Sizes, Transfers
<1>5. (MemoryWritten /\ MovedFits)'
  BY SMTT(60), <1>1, <1>2 DEF AtTransfer, MemoryWritten, MovedFits, Transfers
<1>6. (Control /\ Reading /\ Writing /\ WritingMultiple /\ PacketPhases)'
  BY <1>1, <1>2 DEF AllCommands, Asked, Asking, Asks, AtAnswer, AtEnd, AtTransfer, Base, Control,
    Drive, Executed, MasterStarts, On, OneHasCommand, PacketPhases, Present, Reading, Refused,
    Running, Transfers, Writing, WritingMultiple
<1>7. (Aborted /\ DmaOver)'
  BY <1>2 DEF Aborted, AllCommands, Asked, Asking, Asks, AtAnswer, AtEnd, AtTransfer, Control,
    DmaOver, Drive, Executed, MasterStarts, On, Present, Refused, Transfers
<1>IdeTyped. IdeTyped'
  BY SMTT(60), <1>1, <1>2, <1>s DEF AllCommands, DriverSteps, IdeTyped, InDma, Registers, Steps
<1>OneHasCommand. OneHasCommand'
  BY <1>2 DEF OneHasCommand
<1>OneHasTransfer. OneHasTransfer'
  BY <1>1, <1>2 DEF AtTransfer, OneHasTransfer
<1>Fresh. Fresh'
  BY <1>1, <1>2 DEF Drive, Executed, Fresh, On, Present
<1>Filled. Filled'
  BY <1>2, <1>s DEF Asks, Drive, Executed, Filled, On, Present
<1>MediumRight. MediumRight'
  <2>1. ideCpu # "idle" => Count' = Count
    BY <1>2 DEF Base, Count, Drive
  <2> QED BY <1>1, <1>2, <2>1, MediumKept
<1> QED
  BY <1>3, <1>4, <1>5, <1>6, <1>7, <1>IdeTyped, <1>OneHasCommand, <1>OneHasTransfer, <1>Fresh,
    <1>Filled, <1>MediumRight DEF IdeInv

(* READ SECTORS and READ MULTIPLE: the next block goes into the buffer, and *)
(* the registers are at the block after it. *)
LEMMA StepReadBlock ==
  ASSUME IdeInv,
         AlignedDriver, NEW n, idePc = "run", Drive.inProgress, Present,
         ideRegs.cmd \in {"read", "readMultiple"},
         ~Ide!Refused(ideRegs.cmd, ideKind[ideSelected]),
         n = IF ideRegs.cmd = "read" THEN 1 ELSE Ide!Least(Ide!Remaining, IdeMultiple),
         Ide!ReadBlock(n)
  PROVE  IdeInv'
<1>0. /\ ideBuffer' = Ide!Filled(Ide!Contents(ideSelected, Ide!Lba(ideRegs), n))
      /\ ideRegs' = [IF Ide!Remaining - n = 0 THEN ideRegs ELSE Ide!Advance(ideRegs, n) EXCEPT !.count = Ide!Remaining - n]
  BY DEF Ide!ThreadOnly, Ide!Goto, Ide!RaiseThen, Ide!disks, Ide!busMaster, Ide!ReadBlock
<1>1. /\ idePc' = "raise" /\ ideAfter' = "finish" /\ ideSize' = n /\ idePtr' = 0
  BY DEF Ide!ThreadOnly, Ide!Goto, Ide!RaiseThen, Ide!disks, Ide!busMaster, Ide!ReadBlock
<1>2. UNCHANGED <<ideActive, ideBmIntr, ideCpu, ideIrq, ideJob, ideKind, ideMedium, ideMemory,
                  ideMoved, idePhase, idePrd, ideSelected, ideSem, ideWants>>
  BY DEF Ide!ThreadOnly, Ide!Goto, Ide!RaiseThen, Ide!disks, Ide!busMaster, Ide!ReadBlock
<1>e. \A k \in Int : Ide!Expected(k)' = Ide!Expected(k)
  BY <1>1, <1>2 DEF Ide!Expected
<1>s. /\ Drive'.busy = FALSE
      /\ Drive'.drq = TRUE
      /\ Drive'.err = FALSE
      /\ Drive'.inProgress <=> (Ide!Remaining - n # 0)
      /\ Drive'.cycle = Drive.cycle
      /\ ideStatus' \in [Ide!Drives -> Ide!Status]
  <2>1. ideStatus' = [ideStatus EXCEPT ![ideSelected] = [busy |-> FALSE, drq |-> TRUE, err |-> FALSE, inProgress |-> (Ide!Remaining - n # 0), cycle |-> Drive.cycle]]
    BY Merged DEF Ide!ThreadOnly, Ide!Goto, Ide!RaiseThen, Ide!disks, Ide!busMaster, Ide!ReadBlock,
      Ide!Set, Ide!St, Drive, IdeTyped, Ide!Status
  <2> QED BY <2>1, <1>2 DEF IdeTyped, Drive, Ide!Status
<1>a. On /\ ideJob.cmd = ideRegs.cmd /\ ~Refused /\ ~Drive.drq
       /\ ideCpu \notin {"idle", "command", "readyWait", "wake", "data"}
  BY DEF Asks, Control, Asking, Asked, On, Present, Refused, OneHasCommand
<1>b. /\ Ide!Remaining = ideJob.total - ideJob.done /\ Ide!Remaining \in 1 .. IdeCountMax
      /\ ideJob.done \in Nat /\ ideJob.total \in Nat
      /\ At = ideJob.lba + ideJob.done /\ ideRegs.sec < IdeSecMax
      /\ ideJob.cmd = "readMultiple" => At % IdeMultiple = 0
  <2>0. ideJob.total \in 1 .. IdeCountMax /\ ideJob.done \in Nat /\ ideJob.lba \in Nat
         /\ ideRegs.count \in 0 .. IdeCountMax
    BY <1>a DEF InLimits, IdeTyped, Registers
  <2>1. CASE Drive.cycle = 0
    <3>1. ideJob.done = 0 /\ At = ideJob.lba /\ ideRegs.sec < IdeSecMax
          /\ ideJob.total = IF ideRegs.count = 0 THEN IdeCountMax ELSE ideRegs.count
      BY <1>a, <2>1 DEF Fresh, Executed
    <3>2. ideJob.cmd = "readMultiple" => ideJob.lba % IdeMultiple = 0
      BY <1>a DEF InLimits, Ide!Aligned
    <3> QED BY <1>a, <2>0, <2>1, <3>1, <3>2 DEF Ide!Remaining, Ide!St, Drive
  <2>2. CASE Drive.cycle # 0
    <3>1. /\ ideRegs.count = ideJob.total - ideJob.done /\ ideRegs.count # 0
          /\ At = ideJob.lba + ideJob.done /\ ideRegs.sec < IdeSecMax
          /\ ideJob.cmd = "readMultiple" => At % IdeMultiple = 0
      <4>1. Running /\ Base + ideSize = ideJob.done
        BY <1>a, <2>0, <2>2 DEF Reading, Running, Executed, Base, IdeTyped
      <4>2. ideJob.lba + Base + ideSize = ideJob.lba + (Base + ideSize)
        BY <2>0 DEF Base, IdeTyped
      <4> QED BY <1>a, <4>1, <4>2 DEF Reading
    <3>2. Ide!Remaining = ideRegs.count
      BY <1>a, <2>2 DEF Ide!Remaining, Ide!St, Drive
    <3> QED BY <2>0, <3>1, <3>2
  <2> QED BY <2>1, <2>2
<1>c. /\ n \in 1 .. Ide!Remaining /\ n \in 1 .. IdeCountMax
      /\ n < Ide!Remaining => ideRegs.sec + n <= IdeSecMax
      /\ n < Ide!Remaining /\ ideJob.cmd = "readMultiple" => n = IdeMultiple
  <2>1. ideRegs \in Registers /\ ideRegs.sec \in Nat
    BY DEF IdeTyped, Registers
  <2>2. ideJob.cmd = "readMultiple" => ideRegs.sec + IdeMultiple <= IdeSecMax
    BY <1>a, <1>b, <2>1, BlockFits DEF At
  <2> QED BY <1>a, <1>b, <2>1, <2>2, Parameters DEF Ide!Least
<1>d. /\ ideRegs' \in Registers /\ ideRegs'.cmd = ideRegs.cmd /\ ideRegs'.count = Ide!Remaining - n
      /\ n < Ide!Remaining => At' = At + n /\ ideRegs'.sec < IdeSecMax
      /\ n < Ide!Remaining /\ ideJob.cmd = "readMultiple" => At' % IdeMultiple = 0
  <2> DEFINE r == IF Ide!Remaining - n = 0 THEN ideRegs ELSE Ide!Advance(ideRegs, n)
  <2>1. ideRegs \in Registers
    BY DEF IdeTyped
  <2>2. /\ r \in Registers /\ r.cmd = ideRegs.cmd
        /\ n < Ide!Remaining => Ide!Lba(r) = At + n /\ r.sec < IdeSecMax
    BY <1>b, <1>c, <2>1, AdvanceIs DEF At
  <2>3. ideRegs' = [r EXCEPT !.count = Ide!Remaining - n]
    BY <1>0
  <2>5. Ide!Remaining - n \in 0 .. IdeCountMax
    BY <1>b, <1>c, Parameters
  <2> HIDE DEF r
  <2>4. /\ ideRegs' \in Registers /\ ideRegs'.cmd = r.cmd /\ ideRegs'.count = Ide!Remaining - n
        /\ ideRegs'.cyl = r.cyl /\ ideRegs'.sec = r.sec
    BY <2>2, <2>3, <2>5 DEF Registers
  <2>6. n < Ide!Remaining => At' = At + n /\ ideRegs'.sec < IdeSecMax
    BY <2>2, <2>4 DEF At, Ide!Lba
  <2>7. At \in Nat /\ IdeMultiple \in Nat \ {0}
    BY SMTT(60), <1>b, Parameters DEF IdeTyped
  <2> QED BY <1>b, <1>c, <2>2, <2>4, <2>6, <2>7, NextMultiple
<1>f. /\ ideBuffer' \in [1 .. IdeCountMax -> Int]
      /\ \A i \in 1 .. n : ideBuffer'[i] = Ide!Expected(ideJob.done + i - 1)
  <2>1. Count = 0 /\ ideJob.cmd # "identify"
    BY <1>a DEF Count
  <2>2. ideJob.done \in Nat /\ At \in Nat
    BY SMTT(60), <1>b DEF IdeTyped
  <2>3. ideBuffer' = Ide!Filled(Ide!Contents(ideSelected, At, n))
    BY <1>0 DEF At
  <2> QED BY <1>b, <1>c, <2>1, <2>2, <2>3, ReadIn
<1>InLimits. InLimits'
  BY SMTT(60), <1>2 DEF Ide!Aligned, Ide!Refused, InLimits, On, Present, Refused
<1>3. (OneHasCommand /\ OneHasTransfer /\ Fresh /\ Aborted /\ BufferWritten)'
  BY <1>1, <1>2, <1>a DEF Aborted, Asked, Asking, Asks, AtTransfer, Base, BufferWritten, Drive,
    Executed, Fresh, On, OneHasCommand, OneHasTransfer, Present, Refused
<1>4. (Sizes /\ BufferDma /\ MemoryRead /\ MemoryWritten /\ MovedFits)'
  BY <1>1, <1>2 DEF Asked, Asking, AtTransfer, BufferDma, MemoryRead, MemoryWritten, MovedFits,
    Sizes, Transfers
<1>MediumRight. MediumRight'
  <2>1. ideCpu # "idle" => Count' = Count
    BY <1>2, <1>a DEF Base, Count, Drive
  <2> QED BY <1>1, <1>2, <2>1, MediumKept
<1>IdeTyped. IdeTyped'
  BY SMTT(60), <1>1, <1>2, <1>s, <1>c, <1>d, <1>f, Parameters DEF IdeTyped, Steps
<1>Control. Control'
  BY <1>1, <1>2, <1>s, <1>a, <1>d, SMTT(20) DEF Asks, Control, Drive, Present, OneHasCommand,
    Asking, Asked, MasterStarts, Transfers, AtTransfer, AtAnswer, AtEnd, Executed, On
<1>Reading. Reading'
  BY <1>1, <1>2, <1>s, <1>a, <1>b, <1>c, <1>d DEF Reading, Running, On, Present, Base, Drive
<1>Writing. Writing'
  BY <1>1, <1>2, <1>a DEF Writing
<1>WritingMultiple. WritingMultiple'
  BY <1>1, <1>2, <1>a DEF WritingMultiple
<1>PacketPhases. PacketPhases'
  BY <1>1, <1>2, <1>a DEF Asks, PacketPhases
<1>Filled. Filled'
  BY <1>1, <1>2, <1>a, <1>b, <1>c DEF Asks, Filled, Executed
<1>BufferRead. BufferRead'
  BY <1>1, <1>2, <1>e, <1>b, <1>f DEF BufferRead, Base
<1>BufferPacket. BufferPacket'
  BY <1>1, <1>2, <1>a DEF BufferPacket
<1>DmaOver. DmaOver'
  BY <1>1, <1>2, <1>a DEF DmaOver
<1> QED
  BY <1>InLimits, <1>3, <1>4, <1>MediumRight, <1>IdeTyped, <1>Control, <1>Reading, <1>Writing,
    <1>WritingMultiple, <1>PacketPhases, <1>Filled, <1>BufferRead, <1>BufferPacket, <1>DmaOver DEF
    IdeInv

(* IDENTIFY DEVICE: the description goes into the buffer. *)
LEMMA StepExecuteIdentify ==
  ASSUME IdeInv,
         Ide!ExecuteIdentify
  PROVE  IdeInv'
<1>1. /\ idePc = "run" /\ Drive.inProgress /\ Present /\ ideRegs.cmd = "identify"
      /\ ~Ide!Refused(ideRegs.cmd, ideKind[ideSelected])
      /\ idePc' = "raise" /\ ideAfter' = "finish"
      /\ ideSize' = 1 /\ idePtr' = 0
          /\ ideBuffer' = [i \in 1 .. IdeCountMax |-> IF i = 1 THEN 0 ELSE ideBuffer[i]]
  BY AbortsIs DEF Ide!ExecuteIdentify, Ide!ThreadOnly, Ide!Goto, Ide!RaiseThen, Ide!disks,
    Ide!busMaster,
    Ide!Filled, Ide!IdentifyDrive, Ide!Executes, Ide!Running, Ide!St, Drive, Present
<1>2. UNCHANGED <<ideActive, ideBmIntr, ideCpu, ideIrq, ideJob, ideKind, ideMedium, ideMemory,
                  ideMoved, idePhase, idePrd, ideRegs, ideSelected, ideSem, ideWants>>
  BY DEF Ide!ExecuteIdentify, Ide!ThreadOnly, Ide!Goto, Ide!RaiseThen, Ide!disks, Ide!busMaster,
    Ide!Filled, Ide!IdentifyDrive, Ide!Executes, Ide!Running, Ide!St, Drive, Present
<1>e. \A k \in Int : Ide!Expected(k)' = Ide!Expected(k)
  BY <1>1, <1>2 DEF Ide!Expected
<1>t. At' = At
  BY <1>2 DEF At
<1>s. Drive' = [busy |-> FALSE, drq |-> TRUE, err |-> FALSE, inProgress |-> FALSE, cycle |-> Drive.cycle] /\ ideStatus' \in [Ide!Drives -> Ide!Status]
  <2>1. ideStatus' = [ideStatus EXCEPT ![ideSelected] = [busy |-> FALSE, drq |-> TRUE, err |-> FALSE, inProgress |-> FALSE, cycle |-> Drive.cycle]]
    BY Merged DEF Ide!ExecuteIdentify, Ide!ThreadOnly, Ide!Goto, Ide!RaiseThen, Ide!disks,
      Ide!busMaster, Ide!Filled, Ide!IdentifyDrive, Ide!Executes, Ide!Running, Ide!St, Drive,
      Present, Ide!Set, Ide!St, Drive, IdeTyped, Ide!Status
  <2> QED BY <2>1, <1>2 DEF IdeTyped, Drive, Ide!Status
<1>InLimits. InLimits'
  BY SMTT(60), <1>2 DEF Ide!Aligned, Ide!Refused, InLimits, On, Present, Refused
<1>3. (Sizes /\ BufferDma /\ MemoryRead /\ MemoryWritten /\ MovedFits)'
  BY SMTT(60), <1>1, <1>2 DEF Asked, Asking, AtTransfer, BufferDma, MemoryRead, MemoryWritten,
    MovedFits, Sizes, Transfers
<1>4. (Control /\ Reading /\ Writing /\ WritingMultiple /\ PacketPhases)'
  BY <1>1, <1>2 DEF AllCommands, Asked, Asking, Asks, AtAnswer, AtEnd, AtTransfer, Base, Control,
    Drive, Executed, MasterStarts, On, OneHasCommand, PacketPhases, Present, Reading, Refused,
    Running, Transfers, Writing, WritingMultiple
<1>5. (BufferPacket /\ DmaOver)'
  BY <1>1, <1>2 DEF AllCommands, Asked, Asking, Asks, AtAnswer, AtEnd, AtTransfer, Base,
    BufferPacket, Control, DmaOver, Drive, Executed, MasterStarts, On, Present, Transfers
<1>6. (Aborted /\ Filled)'
  BY <1>1, <1>2 DEF Aborted, AllCommands, Asked, Asking, Asks, AtAnswer, AtEnd, AtTransfer, Control,
    Drive, Executed, Filled, MasterStarts, On, Present, Refused, Transfers
<1>IdeTyped. IdeTyped'
  BY SMTT(60), <1>1, <1>2, <1>s, Parameters DEF AllCommands, DriverSteps, IdeTyped, InDma,
    Registers, Steps
<1>OneHasCommand. OneHasCommand'
  BY <1>1, <1>2 DEF OneHasCommand
<1>OneHasTransfer. OneHasTransfer'
  BY <1>1, <1>2 DEF AtTransfer, OneHasTransfer
<1>Fresh. Fresh'
  BY <1>1, <1>2 DEF Drive, Executed, Fresh, On, Present
<1>BufferRead. BufferRead'
  BY <1>1, <1>2, Parameters DEF AllCommands, Asked, Asking, Asks, AtAnswer, AtEnd, AtTransfer, Base,
    BufferRead, Control, Drive, Executed, Ide!Expected, MasterStarts, On, Present, Transfers
<1>BufferWritten. BufferWritten'
  BY <1>1, <1>2 DEF Base, BufferWritten, IdeTyped, On, Present
<1>MediumRight. MediumRight'
  <2>1. ideCpu # "idle" => Count' = Count
    BY <1>1, <1>2 DEF AllCommands, Asked, Asking, Asks, AtAnswer, AtEnd, AtTransfer, Base, Control,
      Count, Drive, Executed, MasterStarts, Present, Transfers
  <2> QED BY <1>1, <1>2, <2>1, MediumKept
<1> QED
  BY <1>InLimits, <1>3, <1>4, <1>5, <1>6, <1>IdeTyped, <1>OneHasCommand, <1>OneHasTransfer,
    <1>Fresh, <1>BufferRead, <1>BufferWritten, <1>MediumRight DEF IdeInv

(* The thread asks for the data of a write, or for the packet ... *)
LEMMA StepAsk ==
  ASSUME IdeInv,
         NEW then \in AskSteps, idePc = "run", Drive.inProgress, Present,
         ideRegs.cmd \in {"write", "writeMultiple"} \cup Ide!Packets,
         ~Ide!Refused(ideRegs.cmd, ideKind[ideSelected]),
         then = "askWrite" => ideRegs.cmd = "write",
         then = "askMultiple" => ideRegs.cmd = "writeMultiple",
         then = "askPacket" => ideRegs.cmd \in Ide!Packets,
         ideRegs.cmd \in Ide!Packets => idePhase = "none",
         ideRegs.cmd \notin Ide!Packets => Drive.cycle = 0,
         Ide!Set([busy |-> FALSE, drq |-> TRUE]), Ide!Goto(then), Ide!ThreadOnly,
         UNCHANGED <<ideMedium, ideRegs, idePhase, ideBuffer, idePtr, ideSize, Ide!busMaster>>
  PROVE  IdeInv'
<1>1. /\ idePc = "run" /\ Drive.inProgress /\ Present /\ idePc' = then
  BY DEF Ide!Goto
<1>2. UNCHANGED <<ideActive, ideAfter, ideBmIntr, ideBuffer, ideCpu, ideIrq, ideJob, ideKind,
                  ideMedium, ideMemory, ideMoved, idePhase, idePrd, idePtr, ideRegs, ideSelected,
                  ideSem, ideSize, ideWants>>
  BY DEF Ide!ThreadOnly, Ide!Goto, Ide!busMaster
<1>e. \A k \in Int : Ide!Expected(k)' = Ide!Expected(k)
  BY <1>1, <1>2 DEF Ide!Expected
<1>t. At' = At
  BY <1>2 DEF At
<1>s. Drive' = [busy |-> FALSE, drq |-> TRUE, err |-> Drive.err, inProgress |-> Drive.inProgress, cycle |-> Drive.cycle] /\ ideStatus' \in [Ide!Drives -> Ide!Status]
  <2>1. ideStatus' = [ideStatus EXCEPT ![ideSelected] = [busy |-> FALSE, drq |-> TRUE, err |-> Drive.err, inProgress |-> Drive.inProgress, cycle |-> Drive.cycle]]
    BY Merged DEF Ide!Set, Ide!St, Drive, IdeTyped, Ide!Status
  <2> QED BY <2>1, <1>2 DEF IdeTyped, Drive, Ide!Status
<1>a. /\ On /\ ideJob.cmd = ideRegs.cmd /\ ~Refused /\ Asking /\ ~Drive.drq
      /\ ideCpu \notin {"idle", "command", "readyWait", "wake", "data"}
      /\ ideSem["controller"] = 0
  BY <1>1 DEF IdeTyped, Control, Asking, Asked, On, Present, Refused, OneHasCommand
<1>b. /\ Drive.cycle = 0 /\ ~Executed /\ ~Executed'
  <2>1. ideJob.cmd \in Ide!Packets => ~Executed
    BY <1>a DEF PacketPhases
  <2> QED BY <1>1, <1>2, <1>s, <1>a, <2>1 DEF Executed
<1>c. /\ ideJob.done = 0 /\ idePtr = 0 /\ ideCpu = "issued" /\ ideSem["master"] = 0
  <2>1. ideJob.done = 0 /\ idePtr = 0
    BY <1>a, <1>b DEF Fresh
  <2>2. ~MasterStarts /\ ideSem["master"] # 1
    BY <1>a, <2>1 DEF Control, PacketPhases
  <2> QED BY <1>a, <2>1, <2>2 DEF IdeTyped, DriverSteps, MasterStarts
<1>d. Asks' /\ ~Asking' /\ ~Transfers' /\ ~AtTransfer' /\ ~AtAnswer' /\ ~AtEnd' /\ ~MasterStarts' /\ On'
  BY <1>1, <1>2, <1>a, <1>c DEF Asks, Asking, Asked, Transfers, AtTransfer, AtAnswer, AtEnd,
    MasterStarts, On, Present
<1>IdeTyped. IdeTyped'
  BY SMTT(60), <1>1, <1>2, <1>s DEF IdeTyped, Steps
<1>3. (OneHasCommand /\ OneHasTransfer /\ MovedFits)'
  BY <1>1, <1>2, <1>d, <1>a, <1>c DEF OneHasCommand, OneHasTransfer, MovedFits
<1>Control. Control'
  BY <1>1, <1>2, <1>s, <1>a, <1>b, <1>c, <1>d DEF Control, Present, Asks, Asking, Asked
<1>Fresh. Fresh'
  BY <1>1, <1>2, <1>t, <1>a, <1>b, <1>c DEF Fresh, On, Present
<1>InLimits. InLimits'
  BY <1>2 DEF InLimits, On, Present, Refused
<1>4. (Reading /\ Writing /\ WritingMultiple /\ Aborted)'
  BY <1>2, <1>a, <1>b DEF Asks, Reading, Writing, WritingMultiple, Aborted, Running, Refused
<1>PacketPhases. PacketPhases'
  BY <1>1, <1>2, <1>s, <1>a, <1>b, <1>c, <1>d DEF PacketPhases, Running, Asked, Asking
<1>Filled. Filled'
  BY <1>d DEF Filled
<1>5. (BufferRead /\ BufferPacket)'
  BY <1>2, <1>a, <1>c DEF BufferRead, BufferPacket
<1>6. (BufferWritten /\ Sizes /\ BufferDma /\ MemoryWritten)'
  BY <1>1, <1>2, <1>a, <1>c, <1>d DEF BufferWritten, Base, Sizes, BufferDma, MemoryWritten, On,
    Present, Ide!Word
<1>MemoryRead. MemoryRead'
  BY <1>1, <1>2, <1>e, <1>a, <1>c, <1>d DEF MemoryRead
<1>DmaOver. DmaOver'
  BY <1>2, <1>a DEF DmaOver
<1>MediumRight. MediumRight'
  <2>1. ideCpu # "idle" => Count' = Count
    BY <1>1, <1>2, <1>a DEF Base, Count, Drive
  <2> QED BY <1>1, <1>2, <2>1, MediumKept
<1> QED
  BY <1>IdeTyped, <1>3, <1>Control, <1>Fresh, <1>InLimits, <1>4, <1>PacketPhases, <1>Filled, <1>5,
    <1>6, <1>MemoryRead, <1>DmaOver, <1>MediumRight DEF IdeInv

LEMMA StepExecutePacketFirst ==
  ASSUME IdeInv, Ide!ExecutePacketFirst
  PROVE  IdeInv'
<1>1. /\ idePc = "run" /\ Drive.inProgress /\ Present /\ ideRegs.cmd \in Ide!Packets
      /\ ~Ide!Refused(ideRegs.cmd, ideKind[ideSelected]) /\ idePhase = "none"
  BY AbortsIs DEF Ide!ExecutePacketFirst, Ide!Executes, Ide!Running, Ide!St, Drive, Present
<1>2. /\ Ide!Set([busy |-> FALSE, drq |-> TRUE]) /\ Ide!Goto("askPacket") /\ Ide!ThreadOnly
      /\ UNCHANGED <<ideMedium, ideRegs, idePhase, ideBuffer, idePtr, ideSize, Ide!busMaster>>
  BY DEF Ide!ExecutePacketFirst
<1>3. "askPacket" \in AskSteps
  OBVIOUS
<1> QED BY <1>1, <1>2, <1>3, StepAsk

LEMMA StepAskFirst ==
  ASSUME IdeInv,
         NEW then, idePc = "run", Drive.inProgress, Present,
         \/ then = "askWrite" /\ ideRegs.cmd = "write"
         \/ then = "askMultiple" /\ ideRegs.cmd = "writeMultiple",
         ~Ide!Refused(ideRegs.cmd, ideKind[ideSelected]), Ide!AskFirst(then)
  PROVE  IdeInv'
<1>1. /\ Ide!Set([busy |-> FALSE, drq |-> TRUE]) /\ Ide!Goto(then) /\ Ide!ThreadOnly
      /\ UNCHANGED <<ideMedium, ideRegs, idePhase, ideBuffer, idePtr, ideSize, Ide!busMaster>>
      /\ Drive.cycle = 0
  BY DEF Ide!AskFirst, Ide!FirstTime, Ide!St, Drive
<1>2. /\ then \in AskSteps /\ ideRegs.cmd \notin Ide!Packets
      /\ ideRegs.cmd \in {"write", "writeMultiple"} \cup Ide!Packets
  OBVIOUS
<1> QED BY <1>1, <1>2, StepAsk

(* Nothing of the buffer is in use when the thread asks. *)
LEMMA AskIs ==
  ASSUME IdeInv, Asks
  PROVE  /\ On /\ ideJob.cmd = ideRegs.cmd /\ ~Executed /\ ~Asking /\ ~Transfers /\ ~MasterStarts
         /\ ideCpu \in {"issued", "data"} /\ ideSem["master"] = 0 /\ ideSem["controller"] = 0
         /\ Drive.drq /\ ~Drive.busy /\ Drive.inProgress /\ Drive.cycle = 0
         /\ ideJob.done = 0 /\ idePtr = 0 /\ ~Refused
         /\ idePc = "askWrite" => ideJob.cmd = "write"
         /\ idePc = "askMultiple" => ideJob.cmd = "writeMultiple"
         /\ idePc = "askPacket" => ideJob.cmd \in Ide!Packets
<1>1. /\ On /\ ideJob.cmd = ideRegs.cmd /\ ~Transfers /\ ~MasterStarts
      /\ ideCpu \in {"issued", "data"} /\ ideSem["controller"] = 0 /\ idePc \in AskSteps
      /\ Drive.drq /\ ~Drive.busy /\ Drive.inProgress /\ Drive.cycle = 0
      /\ idePc = "askWrite" => ideJob.cmd = "write"
      /\ idePc = "askMultiple" => ideJob.cmd = "writeMultiple"
      /\ idePc = "askPacket" => ideJob.cmd \in Ide!Packets
  BY DEF IdeTyped, OneHasCommand, Control, On, Present, Asks, Transfers, AtTransfer, MasterStarts
<1>2. ~Asking /\ ~Executed
  BY <1>1 DEF Asking, Asked, Executed
<1>3. ideJob.done = 0 /\ idePtr = 0
  BY <1>1, <1>2 DEF Fresh
<1>4. ideSem["master"] = 0
  BY <1>1, <1>2 DEF IdeTyped, Control, Asking
<1>5. ~Refused
  BY <1>1 DEF Aborted, Asks
<1> QED BY <1>1, <1>2, <1>3, <1>4, <1>5

(* While the driver reads from the data register, the thread has nothing to *)
(* say of the block. *)
LEMMA ReadsIs ==
  ASSUME IdeInv, ideCpu = "data", Ide!Incoming
  PROVE  /\ On /\ Drive.drq /\ ~Asks /\ idePc # "packetLast"
         /\ ideJob.cmd # "packetDma" /\ idePtr < ideSize /\ Executed /\ ~Refused
<1>1. On /\ Drive.drq /\ idePc # "packetLast"
  BY DEF Control, On, Present
<1>2. ~Asks
  BY AskIs DEF Asks, Ide!Incoming
<1>3. ideJob.cmd # "packetDma"
  BY <1>1 DEF PacketPhases, Ide!Incoming
<1>4. idePtr < ideSize /\ Executed
  BY <1>1, <1>2 DEF Filled
<1>5. ~Refused
  BY <1>1, <1>4 DEF Aborted
<1> QED BY <1>1, <1>2, <1>3, <1>4, <1>5

(* ... and says how much: the packet ... *)
LEMMA StepAskPacket ==
  ASSUME IdeInv,
         Ide!AskPacket
  PROVE  IdeInv'
<1>1. /\ idePc = "askPacket" /\ idePc' = "finish" /\ idePtr' = 0 /\ ideSize' = 1
      /\ idePhase' = "packet"
  BY DEF Ide!AskPacket, Ide!Goto
<1>2. UNCHANGED <<ideActive, ideAfter, ideBmIntr, ideBuffer, ideCpu, ideIrq, ideJob, ideKind,
                  ideMedium, ideMemory, ideMoved, idePrd, ideRegs, ideSelected, ideSem, ideStatus,
                  ideWants>>
  BY DEF Ide!AskPacket, Ide!ThreadOnly, Ide!Goto, Ide!busMaster
<1>e. \A k \in Int : Ide!Expected(k)' = Ide!Expected(k)
  BY <1>1, <1>2 DEF Ide!Expected
<1>t. At' = At
  BY <1>2 DEF At
<1>s. Drive' = Drive
  BY <1>2 DEF Drive
<1>a. Asks
  BY <1>1 DEF Asks
<1>b. /\ On /\ ideJob.cmd \in Ide!Packets /\ ideRegs.cmd = ideJob.cmd /\ ideJob.done = 0 /\ idePtr = 0
      /\ Drive.drq /\ ~Drive.busy /\ Drive.inProgress /\ ideCpu \in {"issued", "data"}
      /\ ideSem["master"] = 0 /\ ideSem["controller"] = 0 /\ ~Refused
  BY <1>1, <1>a, AskIs
<1>d. /\ ~Asks' /\ ~Asking' /\ ~Transfers' /\ ~AtTransfer' /\ ~AtAnswer' /\ ~AtEnd'
      /\ ~MasterStarts' /\ On' /\ Executed'
  BY <1>1, <1>2, <1>b DEF Asks, Asking, Asked, Transfers, AtTransfer, AtAnswer, AtEnd, MasterStarts,
    On, Present, Executed
<1>IdeTyped. IdeTyped'
  BY SMTT(60), <1>1, <1>2, Parameters DEF IdeTyped, Steps, Registers
<1>3. (OneHasCommand /\ OneHasTransfer /\ MovedFits)'
  BY <1>1, <1>2, <1>d, <1>b DEF OneHasCommand, OneHasTransfer, MovedFits
<1>Control. Control'
  BY <1>1, <1>2, <1>s, <1>b, <1>d DEF Control, Present, Asked
<1>4. (Fresh /\ Reading /\ Writing /\ WritingMultiple /\ Aborted)'
  BY <1>2, <1>b, <1>d DEF Asks, Fresh, Reading, Writing, WritingMultiple, Aborted, Refused
<1>InLimits. InLimits'
  BY <1>2 DEF InLimits, On, Present, Refused
<1>PacketPhases. PacketPhases'
  BY <1>1, <1>2, <1>s, <1>b, <1>d DEF PacketPhases, Running, Asked, Asking
<1>Filled. Filled'
  BY <1>1, <1>2, <1>s, <1>b, <1>d DEF Filled
<1>5. (BufferRead /\ BufferPacket)'
  BY <1>2, <1>b DEF BufferRead, BufferPacket
<1>6. (BufferWritten /\ Sizes /\ BufferDma /\ MemoryWritten)'
  BY <1>1, <1>2, <1>b, <1>d DEF BufferWritten, Sizes, BufferDma, MemoryWritten
<1>MemoryRead. MemoryRead'
  BY <1>1, <1>2, <1>e, <1>b, <1>d DEF MemoryRead
<1>DmaOver. DmaOver'
  BY <1>2, <1>b DEF DmaOver
<1>MediumRight. MediumRight'
  <2>1. ideCpu # "idle" => Count' = Count
    BY <1>1, <1>2, <1>b DEF Base, Count, Drive
  <2> QED BY <1>1, <1>2, <2>1, MediumKept
<1> QED
  BY <1>IdeTyped, <1>3, <1>Control, <1>InLimits, <1>4, <1>PacketPhases, <1>Filled, <1>5,
    <1>6, <1>MemoryRead, <1>DmaOver, <1>MediumRight DEF IdeInv

(* PACKET ends when its answer has been read, or the bus master is done. *)
LEMMA StepExecutePacketLast ==
  ASSUME IdeInv,
         Ide!ExecutePacketLast
  PROVE  IdeInv'
<1>1. /\ (idePc = "run" /\ Drive.inProgress) \/ idePc = "packetLast"
      /\ Present /\ On /\ ideRegs.cmd \in Ide!Packets /\ ideJob.cmd = ideRegs.cmd
      /\ ideCpu \notin {"command", "readyWait", "wake", "data"}
      /\ ~Refused /\ idePc' = "raise" /\ ideAfter' = "packetDone" /\ idePhase = "idle"
  <2>1. idePc' = "raise" /\ ideAfter' = "packetDone"
    BY DEF Ide!ExecutePacketLast, Ide!RaiseThen
  <2>2. CASE idePc = "packetLast"
    BY <2>1, <2>2 DEF Asks, Control, PacketPhases, InLimits, On, Present
  <2>3. CASE idePc # "packetLast"
    <3>1. /\ idePc = "run" /\ Drive.inProgress /\ Present /\ ideRegs.cmd \in Ide!Packets
          /\ ~Ide!Refused(ideRegs.cmd, ideKind[ideSelected]) /\ idePhase = "idle"
      BY <2>3, AbortsIs DEF Ide!ExecutePacketLast, Ide!Executes, Ide!Running, Ide!St, Drive, Present
    <3> QED BY <2>1, <3>1 DEF Control, Asked, Asking, On, Refused, OneHasCommand
  <2> QED BY <2>2, <2>3
<1>2. UNCHANGED <<ideActive, ideBmIntr, ideBuffer, ideCpu, ideIrq, ideJob, ideKind, ideMedium,
                  ideMemory, ideMoved, idePhase, idePrd, idePtr, ideRegs, ideSelected, ideSem,
                  ideSize, ideWants>>
  BY DEF Ide!ExecutePacketLast, Ide!ThreadOnly, Ide!Goto, Ide!RaiseThen, Ide!disks, Ide!busMaster,
    Ide!Executes, Ide!Running, Ide!St, Drive, Present
<1>e. \A k \in Int : Ide!Expected(k)' = Ide!Expected(k)
  BY <1>1, <1>2 DEF Ide!Expected
<1>t. At' = At
  BY <1>2 DEF At
<1>s. Drive' = [busy |-> FALSE, drq |-> FALSE, err |-> Drive.err, inProgress |-> Drive.inProgress, cycle |-> Drive.cycle] /\ ideStatus' \in [Ide!Drives -> Ide!Status]
  <2>1. ideStatus' = [ideStatus EXCEPT ![ideSelected] = [busy |-> FALSE, drq |-> FALSE, err |-> Drive.err, inProgress |-> Drive.inProgress, cycle |-> Drive.cycle]]
    BY Merged DEF Ide!ExecutePacketLast, Ide!ThreadOnly, Ide!Goto, Ide!RaiseThen, Ide!disks,
      Ide!busMaster, Ide!Executes, Ide!Running, Ide!St, Drive, Present, Ide!Set, Ide!St, Drive,
      IdeTyped, Ide!Status
  <2> QED BY <2>1, <1>2 DEF IdeTyped, Drive, Ide!Status
<1>3. (InLimits /\ BufferWritten)'
  BY SMTT(60), <1>2 DEF Base, BufferWritten, Ide!Aligned, Ide!Refused, Ide!Word, InLimits, On,
    Present, Refused
<1>4. (BufferRead /\ BufferPacket /\ Sizes /\ BufferDma /\ MemoryRead)'
  <2>1. (BufferRead /\ BufferPacket)'
    BY <1>s DEF BufferRead, BufferPacket
  <2>2. (Sizes /\ BufferDma)'
    BY <1>1 DEF Sizes, BufferDma, Transfers, AtTransfer
  <2>3. MemoryRead'
    BY <1>1, <1>2, <1>e DEF IdeTyped, OneHasCommand, MemoryRead, AtTransfer, Asking, Asked
  <2> QED BY <2>1, <2>2, <2>3
<1>p. ideJob.done # 0
  <2>1. CASE idePc = "packetLast"
    BY <1>1, <2>1 DEF PacketPhases
  <2>2. CASE idePc = "run"
    <3>1. Executed /\ Asking
      BY <1>1, <2>2 DEF Fresh, Asking, Asked
    <3> QED BY <1>1, <3>1 DEF PacketPhases
  <2> QED BY <1>1, <2>1, <2>2
<1>5. (MemoryWritten /\ MovedFits)'
  BY <1>1, <1>2 DEF AtTransfer, MemoryWritten, MovedFits, Transfers
<1>6. (Reading /\ Writing /\ WritingMultiple /\ Aborted /\ DmaOver)'
  BY <1>1, <1>2 DEF Aborted, AllCommands, Asked, Asking, Asks, AtAnswer, AtEnd, AtTransfer, Base,
    Control, DmaOver, Drive, Executed, MasterStarts, On, Present, Reading, Refused, Running,
    Transfers, Writing, WritingMultiple
<1>IdeTyped. IdeTyped'
  BY SMTT(60), <1>1, <1>2, <1>s DEF AllCommands, DriverSteps, IdeTyped, InDma, Registers, Steps
<1>OneHasCommand. OneHasCommand'
  BY <1>1, <1>2 DEF OneHasCommand
<1>OneHasTransfer. OneHasTransfer'
  BY <1>1, <1>2 DEF AtTransfer, OneHasTransfer
<1>Control. Control'
  BY SMTT(60), <1>1, <1>2, <1>s DEF AllCommands, Asked, Asking, Asks, AtAnswer, AtEnd, AtTransfer,
    Control, Drive, DriverSteps, Executed, IdeTyped, InDma, MasterStarts, On, OneHasCommand,
    PacketPhases, Present, Refused, Registers, Running, Steps, Transfers
<1>Fresh. Fresh'
  BY <1>1, <1>2 DEF Drive, Executed, Fresh, On, Present
<1>PacketPhases. PacketPhases'
  <2>1. ~Asking' /\ ~Asked' /\ ~AtAnswer' /\ ~Transfers' /\ On' /\ Drive'.drq = FALSE
    BY <1>1, <1>2, <1>s DEF IdeTyped, OneHasCommand, Asking, Asked, AtAnswer, Transfers, AtTransfer,
      On, Present
  <2>2. MasterStarts \/ ideSem["master"] = 1 => ideJob.done = 1 /\ ideJob.total > 1
    BY <1>1 DEF PacketPhases
  <2> QED BY <1>1, <1>2, <1>p, <2>1, <2>2 DEF PacketPhases, MasterStarts
<1>Filled. Filled'
  BY <1>2, <1>s DEF Asks, Drive, Executed, Filled, On, Present
<1>MediumRight. MediumRight'
  <2>1. ideCpu # "idle" => Count' = Count
    BY <1>2 DEF Base, Count, Drive
  <2> QED BY <1>1, <1>2, <2>1, MediumKept
<1> QED
  BY <1>3, <1>4, <1>5, <1>6, <1>IdeTyped, <1>OneHasCommand, <1>OneHasTransfer, <1>Control, <1>Fresh,
    <1>PacketPhases, <1>Filled, <1>MediumRight DEF IdeInv

(* The interrupt is raised. *)
LEMMA StepRaise ==
  ASSUME IdeInv,
         Ide!Raise
  PROVE  IdeInv'
<1>1. /\ idePc = "raise" /\ idePc' = ideAfter
      /\ ideBmIntr' = TRUE /\ ideIrq' = TRUE
  BY DEF Ide!Raise, Ide!ThreadOnly, Ide!Goto, Ide!RaiseThen, Ide!disks, Ide!busMaster
<1>2. UNCHANGED <<ideActive, ideAfter, ideBuffer, ideCpu, ideJob, ideKind, ideMedium, ideMemory,
                  ideMoved, idePhase, idePrd, idePtr, ideRegs, ideSelected, ideSem, ideSize,
                  ideStatus, ideWants>>
  BY DEF Ide!Raise, Ide!ThreadOnly, Ide!Goto, Ide!RaiseThen, Ide!disks, Ide!busMaster
<1>e. \A k \in Int : Ide!Expected(k)' = Ide!Expected(k)
  BY <1>1, <1>2 DEF Ide!Expected
<1>t. At' = At
  BY <1>2 DEF At
<1>3. (InLimits /\ BufferRead /\ BufferPacket /\ BufferWritten /\ MediumRight)'
  BY SMTT(60), <1>2 DEF Base, BufferPacket, BufferRead, BufferWritten, Count, Drive, Ide!Aligned,
    Ide!Drives, Ide!Expected, Ide!Lbas, Ide!Refused, Ide!Word, InLimits, MediumRight, On, Present,
    Refused
<1>4. (IdeTyped /\ OneHasCommand /\ OneHasTransfer /\ Control /\ Fresh)'
  BY SMTT(60), <1>1, <1>2 DEF AllCommands, Asked, Asking, Asks, AtAnswer, AtEnd, AtTransfer,
    Control, Drive, DriverSteps, Executed, Fresh, IdeTyped, InDma, MasterStarts, On, OneHasCommand,
    OneHasTransfer, Present, Registers, Steps, Transfers
<1>5. (Reading /\ WritingMultiple /\ PacketPhases /\ Aborted /\ Filled)'
  BY <1>1, <1>2, <1>t DEF Aborted, Asked, Asking, Asks, AtAnswer, AtTransfer, Base, Drive, Executed,
    Filled, IdeTyped, MasterStarts, On, PacketPhases, Present, Reading, Refused, Running, Transfers,
    WritingMultiple
<1>6. (Sizes /\ BufferDma /\ MemoryWritten /\ MovedFits /\ DmaOver)'
  BY SMTT(60), <1>1, <1>2, <1>e, <1>t DEF Asked, Asking, AtTransfer, BufferDma, DmaOver, Drive,
    IdeTyped, MemoryWritten, MovedFits, On, Present, Sizes, Transfers
<1>MemoryRead. MemoryRead'
  BY SMTT(60), <1>1, <1>2, <1>e DEF Asked, Asking, AtTransfer, IdeTyped, MemoryRead
<1>Writing. Writing'
  <2>1. (Asking' <=> Asking) /\ (Executed' <=> Executed) /\ Drive' = Drive /\ Base' = Base
    BY <1>1, <1>2 DEF IdeTyped, Asking, Asked, Executed, Drive, Base
  <2> QED BY <1>2, <1>t, <2>1 DEF Writing, Running, On, Present, Refused
<1> QED BY <1>3, <1>4, <1>5, <1>6, <1>MemoryRead, <1>Writing

(* The thread takes the transfer that the driver has started. *)
LEMMA StepMasterWait ==
  ASSUME IdeInv,
         Ide!MasterWait
  PROVE  IdeInv'
<1>1. /\ idePc = "masterWait" /\ ideSem["master"] = 1 /\ idePc' = "prd" /\ ideMoved' = 0
      /\ ideSem' = [ideSem EXCEPT !["master"] = 0]
  BY DEF Ide!MasterWait, Ide!ThreadOnly, Ide!Goto, Ide!RaiseThen, Ide!disks, Ide!busMaster,
    Ide!Wait, Ide!Available
<1>2. UNCHANGED <<ideActive, ideAfter, ideBmIntr, ideBuffer, ideCpu, ideIrq, ideJob, ideKind,
                  ideMedium, ideMemory, idePhase, idePrd, idePtr, ideRegs, ideSelected, ideSize,
                  ideStatus, ideWants>>
  BY DEF Ide!MasterWait, Ide!ThreadOnly, Ide!Goto, Ide!RaiseThen, Ide!disks, Ide!busMaster,
    Ide!Wait, Ide!Available
<1>e. \A k \in Int : Ide!Expected(k)' = Ide!Expected(k)
  BY <1>1, <1>2 DEF Ide!Expected
<1>t. At' = At
  BY <1>2 DEF At
<1>3. (InLimits /\ BufferRead /\ BufferPacket /\ BufferWritten /\ MediumRight)'
  BY SMTT(60), <1>2 DEF Base, BufferPacket, BufferRead, BufferWritten, Count, Drive, Ide!Aligned,
    Ide!Drives, Ide!Expected, Ide!Lbas, Ide!Refused, Ide!Word, InLimits, MediumRight, On, Present,
    Refused
<1>4. (IdeTyped /\ OneHasCommand /\ OneHasTransfer /\ Control /\ Fresh)'
  BY SMTT(60), <1>1, <1>2, Parameters DEF AllCommands, Asked, Asking, Asks, AtAnswer, AtEnd,
    AtTransfer, Control, Drive, DriverSteps, Executed, Fresh, IdeTyped, InDma, MasterStarts, On,
    OneHasCommand, OneHasTransfer, Present, Registers, Steps, Transfers
<1>5. (Reading /\ Writing /\ WritingMultiple /\ PacketPhases /\ Aborted)'
  BY <1>1, <1>2, <1>t DEF Aborted, Asked, Asking, Asks, AtAnswer, AtTransfer, Base, Drive, Executed,
    MasterStarts, On, PacketPhases, Present, Reading, Refused, Running, Transfers, Writing,
    WritingMultiple
<1>6. (Filled /\ Sizes /\ BufferDma /\ MemoryRead /\ MemoryWritten)'
  BY <1>1, <1>2, <1>e, <1>t DEF Asked, Asking, Asks, AtTransfer, BufferDma, Drive, Executed, Filled,
    MemoryRead, MemoryWritten, On, Present, Sizes, Transfers
<1>7. (MovedFits /\ DmaOver)'
  BY <1>1, <1>2 DEF Asked, Asking, AtTransfer, DmaOver, Drive, IdeTyped, MovedFits, On, Present
<1> QED BY <1>3, <1>4, <1>5, <1>6, <1>7

(* All of the transfer has gone through the descriptors. *)
LEMMA StepTransferred ==
  ASSUME IdeInv,
         Ide!Transferred
  PROVE  IdeInv'
<1>1. /\ idePc = "prd" /\ ideMoved = ideSize /\ idePc' = "raise" /\ ideAfter' = "masterReady"
      /\ ideActive' = (ideActive /\ idePrd # <<>>)
  BY DEF Ide!Transferred, Ide!ThreadOnly, Ide!Goto, Ide!RaiseThen, Ide!disks, Ide!busMaster
<1>2. UNCHANGED <<ideBmIntr, ideBuffer, ideCpu, ideIrq, ideJob, ideKind, ideMedium, ideMemory,
                  ideMoved, idePhase, idePrd, idePtr, ideRegs, ideSelected, ideSem, ideSize,
                  ideStatus, ideWants>>
  BY DEF Ide!Transferred, Ide!ThreadOnly, Ide!Goto, Ide!RaiseThen, Ide!disks, Ide!busMaster
<1>e. \A k \in Int : Ide!Expected(k)' = Ide!Expected(k)
  BY <1>1, <1>2 DEF Ide!Expected
<1>t. At' = At
  BY <1>2 DEF At
<1>3. (InLimits /\ BufferRead /\ BufferPacket /\ BufferWritten /\ MediumRight)'
  BY SMTT(60), <1>2 DEF Base, BufferPacket, BufferRead, BufferWritten, Count, Drive, Ide!Aligned,
    Ide!Drives, Ide!Expected, Ide!Lbas, Ide!Refused, Ide!Word, InLimits, MediumRight, On, Present,
    Refused
<1>4. (OneHasCommand /\ OneHasTransfer /\ Control /\ Fresh /\ Reading)'
  BY SMTT(60), <1>1, <1>2 DEF AllCommands, Asked, Asking, Asks, AtAnswer, AtEnd, AtTransfer, Base,
    Control, Drive, Executed, Fresh, MasterStarts, On, OneHasCommand, OneHasTransfer, Present,
    Reading, Refused, Running, Transfers
<1>5. (Writing /\ WritingMultiple /\ PacketPhases /\ Aborted /\ Filled)'
  BY <1>1, <1>2, <1>t DEF Aborted, Asked, Asking, Asks, AtAnswer, AtTransfer, Base, Drive, Executed,
    Filled, MasterStarts, On, PacketPhases, Present, Refused, Running, Transfers, Writing,
    WritingMultiple
<1>6. (Sizes /\ BufferDma /\ MemoryRead /\ MemoryWritten /\ MovedFits)'
  BY <1>1, <1>2, <1>e, <1>t DEF Asked, Asking, AtTransfer, BufferDma, MemoryRead, MemoryWritten,
    MovedFits, Sizes, Transfers
<1>IdeTyped. IdeTyped'
  BY SMTT(60), <1>1, <1>2 DEF AllCommands, DriverSteps, IdeTyped, InDma, Registers, Steps
<1>DmaOver. DmaOver'
  BY <1>1, <1>2 DEF Asked, Asking, DmaOver, Drive, On, Present
<1> QED BY <1>3, <1>4, <1>5, <1>6, <1>IdeTyped, <1>DmaOver

(* The bus master is ready for another transfer. *)
LEMMA StepMasterReady ==
  ASSUME IdeInv,
         Ide!MasterReady
  PROVE  IdeInv'
<1>1. /\ idePc = "masterReady" /\ idePc' = "dmaDone"
      /\ ideSem' = [ideSem EXCEPT !["masterReady"] = 1]
  BY DEF Ide!MasterReady, Ide!ThreadOnly, Ide!Goto, Ide!RaiseThen, Ide!disks, Ide!busMaster,
    Ide!Post
<1>2. UNCHANGED <<ideActive, ideAfter, ideBmIntr, ideBuffer, ideCpu, ideIrq, ideJob, ideKind,
                  ideMedium, ideMemory, ideMoved, idePhase, idePrd, idePtr, ideRegs, ideSelected,
                  ideSize, ideStatus, ideWants>>
  BY DEF Ide!MasterReady, Ide!ThreadOnly, Ide!Goto, Ide!RaiseThen, Ide!disks, Ide!busMaster,
    Ide!Post
<1>e. \A k \in Int : Ide!Expected(k)' = Ide!Expected(k)
  BY <1>1, <1>2 DEF Ide!Expected
<1>t. At' = At
  BY <1>2 DEF At
<1>3. (InLimits /\ BufferRead /\ BufferPacket /\ BufferWritten /\ MediumRight)'
  BY SMTT(60), <1>2 DEF Base, BufferPacket, BufferRead, BufferWritten, Count, Drive, Ide!Aligned,
    Ide!Drives, Ide!Expected, Ide!Lbas, Ide!Refused, Ide!Word, InLimits, MediumRight, On, Present,
    Refused
<1>4. (IdeTyped /\ OneHasCommand /\ OneHasTransfer /\ Control /\ Fresh)'
  BY SMTT(60), <1>1, <1>2 DEF AllCommands, Asked, Asking, Asks, AtAnswer, AtEnd, AtTransfer,
    Control, Drive, DriverSteps, Executed, Fresh, IdeTyped, InDma, MasterStarts, On, OneHasCommand,
    OneHasTransfer, Present, Registers, Steps, Transfers
<1>5. (Reading /\ Writing /\ WritingMultiple /\ PacketPhases /\ Aborted)'
  BY <1>1, <1>2, <1>t DEF Aborted, Asked, Asking, Asks, AtAnswer, AtTransfer, Base, Drive, Executed,
    MasterStarts, On, PacketPhases, Present, Reading, Refused, Running, Transfers, Writing,
    WritingMultiple
<1>6. (Filled /\ Sizes /\ BufferDma /\ MemoryRead /\ MemoryWritten)'
  BY <1>1, <1>2, <1>e, <1>t DEF Asked, Asking, Asks, AtTransfer, BufferDma, Drive, Executed, Filled,
    MemoryRead, MemoryWritten, On, Present, Sizes, Transfers
<1>7. (MovedFits /\ DmaOver)'
  BY <1>1, <1>2 DEF Asked, Asking, AtTransfer, DmaOver, Drive, MovedFits, On, Present
<1> QED BY <1>3, <1>4, <1>5, <1>6, <1>7

(* The thread counts the part of the command it has executed. *)
LEMMA StepFinish ==
  ASSUME IdeInv,
         Ide!Finish
  PROVE  IdeInv'
<1>1. /\ idePc = "finish" /\ idePc' = "set"
  BY DEF Ide!Finish, Ide!ThreadOnly, Ide!Goto, Ide!RaiseThen, Ide!disks, Ide!busMaster, Ide!St,
    Drive
<1>2. UNCHANGED <<ideActive, ideAfter, ideBmIntr, ideBuffer, ideCpu, ideIrq, ideJob, ideKind,
                  ideMedium, ideMemory, ideMoved, idePhase, idePrd, idePtr, ideRegs, ideSelected,
                  ideSem, ideSize, ideWants>>
  BY DEF Ide!Finish, Ide!ThreadOnly, Ide!Goto, Ide!RaiseThen, Ide!disks, Ide!busMaster, Ide!St,
    Drive
<1>e. \A k \in Int : Ide!Expected(k)' = Ide!Expected(k)
  BY <1>1, <1>2 DEF Ide!Expected
<1>t. At' = At
  BY <1>2 DEF At
<1>s. /\ Drive'.busy = Drive.busy /\ Drive'.drq = Drive.drq /\ Drive'.err = Drive.err
       /\ Drive'.inProgress = Drive.inProgress
      /\ Drive'.cycle \in {1, 2} /\ ideStatus' \in [Ide!Drives -> Ide!Status]
  <2> DEFINE c == Ide!Least(Drive.cycle + 1, 2)
  <2>1. c \in {1, 2}
    BY DriveIs DEF Ide!Least
  <2>2. ideStatus' = [ideStatus EXCEPT ![ideSelected] = Ide!With(Drive, [cycle |-> c])]
    BY DEF Ide!Finish, Ide!Set, Ide!St, Drive
  <2> HIDE DEF c
  <2>3. ideStatus' = [ideStatus EXCEPT ![ideSelected] = [busy |-> Drive.busy, drq |-> Drive.drq, err |-> Drive.err,
                 inProgress |-> Drive.inProgress, cycle |-> c]]
    BY <2>1, <2>2, DriveIs, MergedCycle
  <2> QED BY <2>1, <2>3, <1>2, DriveIs DEF IdeTyped, Drive, Ide!Status
<1>3. (InLimits /\ BufferWritten)'
  BY SMTT(60), <1>2 DEF Base, BufferWritten, Ide!Aligned, Ide!Refused, Ide!Word, InLimits, On,
    Present, Refused
<1>4. (MemoryRead /\ MemoryWritten /\ MovedFits /\ DmaOver)'
  BY <1>1, <1>2, <1>s, <1>e DEF Asked, Asking, AtTransfer, DmaOver, Drive, MemoryRead,
    MemoryWritten, MovedFits, On, Present, Transfers
<1>5. (Sizes /\ BufferDma)'
  BY <1>1, <1>2 DEF AtTransfer, BufferDma, Sizes, Transfers
<1>IdeTyped. IdeTyped'
  BY SMTT(60), <1>1, <1>2, <1>s DEF AllCommands, DriverSteps, IdeTyped, InDma, Registers, Steps
<1>OneHasCommand. OneHasCommand'
  BY <1>1, <1>2 DEF OneHasCommand
<1>OneHasTransfer. OneHasTransfer'
  BY <1>1, <1>2 DEF AtTransfer, OneHasTransfer
<1>Control. Control'
  BY <1>1, <1>2, <1>s DEF AllCommands, Asked, Asking, Asks, AtAnswer, AtEnd, AtTransfer, Control,
    Drive, Executed, MasterStarts, Present, Transfers
<1>Fresh. Fresh'
  BY <1>2, <1>s DEF Drive, Executed, Fresh, On, Present
<1>Reading. Reading'
  BY <1>1, <1>2, <1>s, <1>t DEF Base, Drive, Executed, On, Present, Reading, Refused, Running
<1>Writing. Writing'
  BY <1>1, <1>2, <1>s, <1>t DEF Asked, Asking, Base, Drive, Executed, On, Present, Refused, Running,
    Writing
<1>WritingMultiple. WritingMultiple'
  BY <1>1, <1>2, <1>s, <1>t DEF Asked, Asking, Base, Drive, Executed, On, Present, Refused, Running,
    WritingMultiple
<1>PacketPhases. PacketPhases'
  BY <1>1, <1>2, <1>s DEF Asked, Asking, Asks, AtAnswer, AtTransfer, Drive, Executed, MasterStarts,
    On, PacketPhases, Present, Refused, Running, Transfers
<1>Aborted. Aborted'
  BY <1>1, <1>2, <1>s DEF Aborted, Asked, Asking, Asks, Drive, Executed, On, Present, Refused
<1>Filled. Filled'
  BY <1>1, <1>2, <1>s DEF Asks, Drive, Executed, Filled, On, Present
<1>BufferRead. BufferRead'
  BY SMTT(60), <1>2, <1>s, <1>e DEF Base, BufferRead, Drive, IdeTyped, On, Present
<1>BufferPacket. BufferPacket'
  BY <1>2, <1>s, <1>e DEF Base, BufferPacket, Drive, On, Present
<1>MediumRight. MediumRight'
  <2>1. ideCpu # "idle" => Count' = Count
    BY <1>2 DEF Base, Count, Drive
  <2> QED BY <1>1, <1>2, <2>1, MediumKept
<1> QED
  BY <1>3, <1>4, <1>5, <1>IdeTyped, <1>OneHasCommand, <1>OneHasTransfer, <1>Control, <1>Fresh,
    <1>Reading, <1>Writing, <1>WritingMultiple, <1>PacketPhases, <1>Aborted, <1>Filled,
    <1>BufferRead, <1>BufferPacket, <1>MediumRight DEF IdeInv

(* The thread is ready for the next part or command. *)
LEMMA StepReady ==
  ASSUME IdeInv,
         Ide!Ready
  PROVE  IdeInv'
<1>1. /\ idePc = "set" /\ idePc' = "wait"
      /\ ideSem' = [ideSem EXCEPT !["ready"] = 1]
  BY DEF Ide!Ready, Ide!ThreadOnly, Ide!Goto, Ide!RaiseThen, Ide!disks, Ide!busMaster, Ide!Post
<1>2. UNCHANGED <<ideActive, ideAfter, ideBmIntr, ideBuffer, ideCpu, ideIrq, ideJob, ideKind,
                  ideMedium, ideMemory, ideMoved, idePhase, idePrd, idePtr, ideRegs, ideSelected,
                  ideSize, ideStatus, ideWants>>
  BY DEF Ide!Ready, Ide!ThreadOnly, Ide!Goto, Ide!RaiseThen, Ide!disks, Ide!busMaster, Ide!Post
<1>e. \A k \in Int : Ide!Expected(k)' = Ide!Expected(k)
  BY <1>1, <1>2 DEF Ide!Expected
<1>t. At' = At
  BY <1>2 DEF At
<1>3. (InLimits /\ BufferRead /\ BufferPacket /\ BufferWritten /\ MediumRight)'
  BY SMTT(60), <1>2 DEF Base, BufferPacket, BufferRead, BufferWritten, Count, Drive, Ide!Aligned,
    Ide!Drives, Ide!Expected, Ide!Lbas, Ide!Refused, Ide!Word, InLimits, MediumRight, On, Present,
    Refused
<1>4. (IdeTyped /\ OneHasCommand /\ OneHasTransfer /\ Control /\ Fresh)'
  BY SMTT(60), <1>1, <1>2, <1>t DEF AllCommands, Asked, Asking, Asks, AtAnswer, AtEnd, AtTransfer,
    Control, Drive, DriverSteps, Executed, Fresh, IdeTyped, InDma, MasterStarts, On, OneHasCommand,
    OneHasTransfer, Present, Registers, Steps, Transfers
<1>5. (Reading /\ Writing /\ WritingMultiple /\ PacketPhases /\ Aborted)'
  BY <1>1, <1>2, <1>t DEF Aborted, Asked, Asking, Asks, AtAnswer, AtTransfer, Base, Drive, Executed,
    MasterStarts, On, PacketPhases, Present, Reading, Refused, Running, Transfers, Writing,
    WritingMultiple
<1>6. (Filled /\ Sizes /\ BufferDma /\ MemoryRead /\ MemoryWritten)'
  BY <1>1, <1>2, <1>e DEF Asked, Asking, Asks, AtTransfer, BufferDma, Drive, Executed, Filled,
    MemoryRead, MemoryWritten, On, Present, Sizes, Transfers
<1>7. (MovedFits /\ DmaOver)'
  BY <1>1, <1>2 DEF Asked, Asking, AtTransfer, DmaOver, Drive, MovedFits, On, Present
<1> QED BY <1>3, <1>4, <1>5, <1>6, <1>7

(* The command register sets BSY and the command in progress. *)
LEMMA StepCommand ==
  ASSUME IdeInv,
         Ide!Command
  PROVE  IdeInv'
<1>1. /\ ideCpu = "command" /\ ideJob.cmd # "nop" /\ ideCpu' = "readyWait"
      /\ idePhase' = "none"
  BY DEF Ide!Command, Ide!disks, Ide!busMaster, Ide!thread, Ide!St, Drive
<1>2. UNCHANGED <<ideActive, ideAfter, ideBmIntr, ideBuffer, ideIrq, ideJob, ideKind, ideMedium,
                  ideMemory, ideMoved, idePc, idePrd, idePtr, ideRegs, ideSelected, ideSem, ideSize,
                  ideWants>>
  BY DEF Ide!Command, Ide!disks, Ide!busMaster, Ide!thread, Ide!St, Drive
<1>e. \A k \in Int : Ide!Expected(k)' = Ide!Expected(k)
  BY <1>1, <1>2 DEF Ide!Expected
<1>t. At' = At
  BY <1>2 DEF At
<1>s. Drive' = [busy |-> TRUE, drq |-> Drive.drq, err |-> Drive.err, inProgress |-> TRUE, cycle |-> Drive.cycle] /\ ideStatus' \in [Ide!Drives -> Ide!Status]
  <2>1. ideStatus' = [ideStatus EXCEPT ![ideSelected] = [busy |-> TRUE, drq |-> Drive.drq, err |-> Drive.err, inProgress |-> TRUE, cycle |-> Drive.cycle]]
    BY Merged DEF Ide!Command, Ide!disks, Ide!busMaster, Ide!thread, Ide!St, Drive, Ide!Set, Ide!St,
      Drive, IdeTyped, Ide!Status
  <2> QED BY <2>1, <1>2 DEF IdeTyped, Drive, Ide!Status
<1>3. (Sizes /\ BufferDma /\ MovedFits)'
  BY SMTT(60), <1>2 DEF At, AtTransfer, BufferDma, Ide!Expected, Ide!Lba, MovedFits, Sizes,
    Transfers
<1>4. (BufferWritten /\ MemoryRead)'
  BY <1>1, <1>2 DEF Asked, Asking, AtTransfer, Base, BufferWritten, MemoryRead, On, Present
<1>IdeTyped. IdeTyped'
  BY SMTT(60), <1>1, <1>2, <1>s DEF AllCommands, DriverSteps, IdeTyped, InDma, Registers, Steps
<1>OneHasCommand. OneHasCommand'
  BY <1>1, <1>2 DEF OneHasCommand
<1>OneHasTransfer. OneHasTransfer'
  BY <1>1, <1>2 DEF AtTransfer, OneHasTransfer
<1>Control. Control'
  BY <1>1, <1>2, <1>s DEF AllCommands, Asked, Asking, Asks, AtAnswer, AtEnd, AtTransfer, Control,
    Drive, Executed, MasterStarts, Present, Transfers
<1>Fresh. Fresh'
  BY <1>1, <1>2, <1>s, <1>t DEF Drive, Executed, Fresh, On, Present
<1>InLimits. InLimits'
  BY <1>1, <1>2 DEF InLimits, On, Present, Refused
<1>Reading. Reading'
  BY <1>1, <1>2, <1>s DEF AllCommands, Asked, Asking, Asks, AtAnswer, AtEnd, AtTransfer, Base,
    Control, Drive, Executed, MasterStarts, On, Present, Reading, Refused, Running, Transfers
<1>Writing. Writing'
  BY <1>1, <1>2, <1>s DEF AllCommands, Asked, Asking, Asks, AtAnswer, AtEnd, AtTransfer, Base,
    Control, Drive, Executed, Fresh, MasterStarts, On, Present, Refused, Running, Transfers, Writing
<1>WritingMultiple. WritingMultiple'
  BY <1>1, <1>2, <1>s DEF AllCommands, Asked, Asking, Asks, AtAnswer, AtEnd, AtTransfer, Base,
    Control, Drive, Executed, MasterStarts, On, Present, Refused, Running, Transfers,
    WritingMultiple
<1>PacketPhases. PacketPhases'
  BY <1>1, <1>2, <1>s DEF AllCommands, Asked, Asking, Asks, AtAnswer, AtEnd, AtTransfer, Control,
    Drive, Executed, Fresh, MasterStarts, On, PacketPhases, Present, Refused, Running, Transfers
<1>Aborted. Aborted'
  BY <1>1, <1>2, <1>s DEF Aborted, AllCommands, Asked, Asking, Asks, AtAnswer, AtEnd, AtTransfer,
    Control, Drive, Executed, MasterStarts, On, Present, Refused, Transfers
<1>Filled. Filled'
  BY <1>1, <1>2, <1>s DEF Asks, Drive, Executed, Filled, On, Present
<1>BufferRead. BufferRead'
  BY SMTT(60), <1>1, <1>2, <1>s, <1>e DEF Base, BufferRead, Drive, IdeTyped, On, Present
<1>BufferPacket. BufferPacket'
  BY <1>1, <1>2, <1>s, <1>e DEF Base, BufferPacket, Drive, On, Present
<1>MemoryWritten. MemoryWritten'
  BY <1>1, <1>2 DEF AtTransfer, MemoryWritten, Transfers
<1>DmaOver. DmaOver'
  BY <1>1, <1>2, <1>s DEF AllCommands, Asked, Asking, Asks, AtAnswer, AtEnd, AtTransfer, Control,
    DmaOver, Drive, Executed, MasterStarts, On, Present, Transfers
<1>MediumRight. MediumRight'
  <2>1. ideCpu # "idle" => Count' = Count
    BY <1>2 DEF Base, Count, Drive
  <2> QED BY <1>1, <1>2, <2>1, MediumKept
<1> QED
  BY <1>3, <1>4, <1>IdeTyped, <1>OneHasCommand, <1>OneHasTransfer, <1>Control, <1>Fresh,
    <1>InLimits, <1>Reading, <1>Writing, <1>WritingMultiple, <1>PacketPhases, <1>Aborted, <1>Filled,
    <1>BufferRead, <1>BufferPacket, <1>MemoryWritten, <1>DmaOver, <1>MediumRight DEF IdeInv

(* NOP ends in the CPU's thread. *)
LEMMA StepNop ==
  ASSUME IdeInv,
         Ide!Nop
  PROVE  IdeInv'
<1>1. /\ ideCpu = "command" /\ ideJob.cmd = "nop" /\ ideCpu' = "issued"
      /\ ideBmIntr' = TRUE /\ ideIrq' = TRUE
  BY DEF Ide!Nop, Ide!disks, Ide!busMaster, Ide!thread, Ide!St, Drive
<1>2. UNCHANGED <<ideActive, ideAfter, ideBuffer, ideJob, ideKind, ideMedium, ideMemory, ideMoved,
                  idePc, idePhase, idePrd, idePtr, ideRegs, ideSelected, ideSem, ideSize, ideWants>>
  BY DEF Ide!Nop, Ide!disks, Ide!busMaster, Ide!thread, Ide!St, Drive
<1>e. \A k \in Int : Ide!Expected(k)' = Ide!Expected(k)
  BY <1>1, <1>2 DEF Ide!Expected
<1>t. At' = At
  BY <1>2 DEF At
<1>s. Drive' = [busy |-> FALSE, drq |-> Drive.drq, err |-> TRUE, inProgress |-> Drive.inProgress, cycle |-> Drive.cycle] /\ ideStatus' \in [Ide!Drives -> Ide!Status]
  <2>1. ideStatus' = [ideStatus EXCEPT ![ideSelected] = [busy |-> FALSE, drq |-> Drive.drq, err |-> TRUE, inProgress |-> Drive.inProgress, cycle |-> Drive.cycle]]
    BY Merged DEF Ide!Nop, Ide!disks, Ide!busMaster, Ide!thread, Ide!St, Drive, Ide!Set, Ide!St,
      Drive, IdeTyped, Ide!Status
  <2> QED BY <2>1, <1>2 DEF IdeTyped, Drive, Ide!Status
<1>3. (Sizes /\ BufferDma /\ MovedFits)'
  BY SMTT(60), <1>2 DEF At, AtTransfer, BufferDma, Ide!Expected, Ide!Lba, MovedFits, Sizes,
    Transfers
<1>4. (InLimits /\ Reading /\ Writing /\ WritingMultiple /\ PacketPhases)'
  BY <1>1, <1>2 DEF Asked, Asking, Asks, AtAnswer, AtTransfer, Base, Drive, Executed, InLimits,
    MasterStarts, On, PacketPhases, Present, Reading, Refused, Running, Transfers, Writing,
    WritingMultiple
<1>5. (MemoryWritten /\ DmaOver)'
  BY <1>1, <1>2 DEF Asked, Asking, AtTransfer, DmaOver, Drive, MemoryWritten, On, Present, Transfers
<1>6. (IdeTyped /\ OneHasCommand /\ OneHasTransfer)'
  BY SMTT(60), <1>1, <1>2, <1>s DEF AllCommands, AtTransfer, DriverSteps, IdeTyped, InDma,
    OneHasCommand, OneHasTransfer, Registers, Steps
<1>7. (Control /\ Fresh)'
  BY <1>1, <1>2 DEF AllCommands, Asked, Asking, Asks, AtAnswer, AtEnd, AtTransfer, Control, Drive,
    Executed, Fresh, MasterStarts, On, Present, Transfers
<1>8. (Aborted /\ Filled /\ BufferPacket)'
  BY <1>1, <1>2, <1>s DEF Aborted, Asked, Asking, Asks, Base, BufferPacket, Drive, Executed, Filled,
    On, Present, Refused
<1>9. (BufferWritten /\ MemoryRead)'
  BY <1>1, <1>2 DEF Asked, Asking, AtTransfer, Base, BufferWritten, MemoryRead, On, Present
<1>BufferRead. BufferRead'
  BY <1>1, <1>2 DEF Base, BufferRead, Drive, On, Present
<1>MediumRight. MediumRight'
  <2>1. ideCpu # "idle" => Count' = Count
    BY <1>2 DEF Base, Count, Drive
  <2> QED BY <1>1, <1>2, <2>1, MediumKept
<1> QED BY <1>3, <1>4, <1>5, <1>6, <1>7, <1>8, <1>9, <1>BufferRead, <1>MediumRight

(* The driver waits for the thread to be ready. *)
LEMMA StepReadyWait ==
  ASSUME IdeInv,
         Ide!ReadyWait
  PROVE  IdeInv'
<1>1. /\ ideCpu = "readyWait" /\ ideSem["ready"] = 1 /\ ideCpu' = "wake"
      /\ ideSem' = [ideSem EXCEPT !["ready"] = 0]
  BY DEF Ide!ReadyWait, Ide!disks, Ide!busMaster, Ide!thread, Ide!Wait, Ide!Available
<1>2. UNCHANGED <<ideActive, ideAfter, ideBmIntr, ideBuffer, ideIrq, ideJob, ideKind, ideMedium,
                  ideMemory, ideMoved, idePc, idePhase, idePrd, idePtr, ideRegs, ideSelected,
                  ideSize, ideStatus, ideWants>>
  BY DEF Ide!ReadyWait, Ide!disks, Ide!busMaster, Ide!thread, Ide!Wait, Ide!Available
<1>e. \A k \in Int : Ide!Expected(k)' = Ide!Expected(k)
  BY <1>1, <1>2 DEF Ide!Expected
<1>t. At' = At
  BY <1>2 DEF At
<1>3. (Sizes /\ BufferDma /\ MovedFits)'
  BY SMTT(60), <1>2 DEF At, AtTransfer, BufferDma, Ide!Expected, Ide!Lba, MovedFits, Sizes,
    Transfers
<1>4. (IdeTyped /\ OneHasCommand /\ OneHasTransfer /\ Control /\ Fresh)'
  BY SMTT(60), <1>1, <1>2, <1>t DEF AllCommands, Asked, Asking, Asks, AtAnswer, AtEnd, AtTransfer,
    Control, Drive, DriverSteps, Executed, Fresh, IdeTyped, InDma, MasterStarts, On, OneHasCommand,
    OneHasTransfer, Present, Registers, Steps, Transfers
<1>5. (InLimits /\ Reading /\ Writing /\ WritingMultiple /\ Aborted)'
  BY <1>1, <1>2, <1>t DEF Aborted, Asked, Asking, Asks, Base, Drive, Executed, InLimits, On,
    Present, Reading, Refused, Running, Writing, WritingMultiple
<1>PacketPhases. PacketPhases'
  BY <1>1, <1>2 DEF Asked, Asking, Asks, AtAnswer, AtTransfer, Drive, Executed, MasterStarts, On,
    OneHasCommand, PacketPhases, Present, Refused, Running, Transfers
<1>Filled. Filled'
  BY <1>1, <1>2 DEF Asks, Drive, Executed, Filled, On, Present
<1>BufferRead. BufferRead'
  BY SMTT(60), <1>1, <1>2, <1>e DEF Base, BufferRead, Drive, IdeTyped, On, Present
<1>BufferPacket. BufferPacket'
  BY <1>1, <1>2, <1>e DEF Base, BufferPacket, Drive, On, Present
<1>BufferWritten. BufferWritten'
  BY <1>1, <1>2 DEF Base, BufferWritten, On, Present
<1>MemoryRead. MemoryRead'
  BY <1>1, <1>2 DEF Asked, Asking, AtTransfer, MemoryRead
<1>MemoryWritten. MemoryWritten'
  BY <1>1, <1>2 DEF AtTransfer, MemoryWritten, Transfers
<1>DmaOver. DmaOver'
  BY <1>1, <1>2 DEF Asked, Asking, DmaOver, Drive, On, Present
<1>MediumRight. MediumRight'
  <2>1. ideCpu # "idle" => Count' = Count
    BY <1>2 DEF Base, Count, Drive
  <2> QED BY <1>1, <1>2, <2>1, MediumKept
<1> QED
  BY <1>3, <1>4, <1>5, <1>PacketPhases, <1>Filled, <1>BufferRead, <1>BufferPacket, <1>BufferWritten,
    <1>MemoryRead, <1>MemoryWritten, <1>DmaOver, <1>MediumRight DEF IdeInv

(* The driver wakes the thread. *)
LEMMA StepWake ==
  ASSUME IdeInv,
         Ide!Wake
  PROVE  IdeInv'
<1>1. /\ ideCpu = "wake"
       /\ ideCpu' = IF ideJob.cmd \in Ide!Dma \ Ide!Packets \/ (ideJob.cmd = "packetDma"
           /\ ideJob.done = 1 /\ ideJob.total > 1) THEN "startMaster" ELSE "issued"
      /\ ideSem' = [ideSem EXCEPT !["controller"] = 1]
  BY DEF Ide!Wake, Ide!disks, Ide!busMaster, Ide!thread, Ide!Post
<1>2. UNCHANGED <<ideActive, ideAfter, ideBmIntr, ideBuffer, ideIrq, ideJob, ideKind, ideMedium,
                  ideMemory, ideMoved, idePc, idePhase, idePrd, idePtr, ideRegs, ideSelected,
                  ideSize, ideStatus, ideWants>>
  BY DEF Ide!Wake, Ide!disks, Ide!busMaster, Ide!thread, Ide!Post
<1>e. \A k \in Int : Ide!Expected(k)' = Ide!Expected(k)
  BY <1>1, <1>2 DEF Ide!Expected
<1>t. At' = At
  BY <1>2 DEF At
<1>3. (Sizes /\ BufferDma /\ MovedFits)'
  BY SMTT(60), <1>2 DEF At, AtTransfer, BufferDma, Ide!Expected, Ide!Lba, MovedFits, Sizes,
    Transfers
<1>4. (InLimits /\ Reading /\ Writing /\ WritingMultiple /\ PacketPhases)'
  BY SMTT(60), <1>1, <1>2, <1>t DEF Asked, Asking, Asks, AtAnswer, AtTransfer, Base, Drive,
    Executed, IdeTyped, InLimits, MasterStarts, On, PacketPhases, Present, Reading, Refused,
    Running, Transfers, Writing, WritingMultiple
<1>IdeTyped. IdeTyped'
  BY <1>1, <1>2 DEF AllCommands, DriverSteps, IdeTyped, InDma, Registers, Steps
<1>OneHasCommand. OneHasCommand'
  BY <1>1, <1>2 DEF OneHasCommand
<1>OneHasTransfer. OneHasTransfer'
  BY <1>1, <1>2 DEF AtTransfer, OneHasTransfer
<1>Control. Control'
  BY <1>1, <1>2 DEF Asked, Asking, Asks, AtAnswer, AtEnd, AtTransfer, Control, Drive, Executed,
    IdeTyped, MasterStarts, Present, Transfers
<1>Fresh. Fresh'
  BY <1>1, <1>2, <1>t DEF Drive, Executed, Fresh, On, Present
<1>Aborted. Aborted'
  BY <1>1, <1>2 DEF Aborted, Asked, Asking, Asks, Drive, Executed, On, Present, Refused
<1>Filled. Filled'
  BY <1>1, <1>2 DEF Asks, Drive, Executed, Filled, On, Present
<1>BufferRead. BufferRead'
  BY <1>1, <1>2, <1>e DEF Base, BufferRead, Drive, IdeTyped, On, Present
<1>BufferPacket. BufferPacket'
  BY <1>1, <1>2, <1>e DEF Base, BufferPacket, Drive, On, Present
<1>BufferWritten. BufferWritten'
  BY <1>1, <1>2 DEF Base, BufferWritten, On, Present
<1>MemoryRead. MemoryRead'
  BY <1>1, <1>2 DEF Asked, Asking, AtTransfer, MemoryRead
<1>MemoryWritten. MemoryWritten'
  BY <1>1, <1>2 DEF AllCommands, Asked, Asking, Asks, AtAnswer, AtEnd, AtTransfer, Control, Drive,
    Executed, MasterStarts, MemoryWritten, Present, Transfers
<1>DmaOver. DmaOver'
  BY <1>1, <1>2 DEF Asked, Asking, DmaOver, Drive, On, Present
<1>MediumRight. MediumRight'
  <2>1. ideCpu # "idle" => Count' = Count
    BY <1>2 DEF Base, Count, Drive
  <2> QED BY <1>1, <1>2, <2>1, MediumKept
<1> QED
  BY <1>3, <1>4, <1>IdeTyped, <1>OneHasCommand, <1>OneHasTransfer, <1>Control, <1>Fresh, <1>Aborted,
    <1>Filled, <1>BufferRead, <1>BufferPacket, <1>BufferWritten, <1>MemoryRead, <1>MemoryWritten,
    <1>DmaOver, <1>MediumRight DEF IdeInv

(* The driver waits for the bus master to be ready. *)
LEMMA StepMasterReadyWait ==
  ASSUME IdeInv,
         Ide!MasterReadyWait
  PROVE  IdeInv'
<1>1. /\ ideCpu = "masterReadyWait" /\ ideSem["masterReady"] = 1 /\ ideCpu' = "masterSet"
      /\ ideSem' = [ideSem EXCEPT !["masterReady"] = 0]
  BY DEF Ide!MasterReadyWait, Ide!disks, Ide!busMaster, Ide!thread, Ide!Wait, Ide!Available
<1>2. UNCHANGED <<ideActive, ideAfter, ideBmIntr, ideBuffer, ideIrq, ideJob, ideKind, ideMedium,
                  ideMemory, ideMoved, idePc, idePhase, idePrd, idePtr, ideRegs, ideSelected,
                  ideSize, ideStatus, ideWants>>
  BY DEF Ide!MasterReadyWait, Ide!disks, Ide!busMaster, Ide!thread, Ide!Wait, Ide!Available
<1>e. \A k \in Int : Ide!Expected(k)' = Ide!Expected(k)
  BY SMTT(60), <1>1, <1>2 DEF Ide!Expected
<1>t. At' = At
  BY <1>2 DEF At
<1>3. (Sizes /\ BufferDma /\ MovedFits)'
  BY SMTT(60), <1>2 DEF At, AtTransfer, BufferDma, Ide!Expected, Ide!Lba, MovedFits, Sizes,
    Transfers
<1>4. (InLimits /\ Reading /\ Writing /\ WritingMultiple /\ PacketPhases)'
  BY <1>1, <1>2, <1>t DEF Asked, Asking, Asks, AtAnswer, AtTransfer, Base, Drive, Executed,
    InLimits, MasterStarts, On, PacketPhases, Present, Reading, Refused, Running, Transfers,
    Writing, WritingMultiple
<1>5. (MemoryWritten /\ DmaOver)'
  BY <1>1, <1>2 DEF Asked, Asking, AtTransfer, DmaOver, Drive, MemoryWritten, On, Present, Transfers
<1>6. (Aborted /\ Filled /\ BufferPacket)'
  BY <1>1, <1>2, <1>e DEF Aborted, Asked, Asking, Asks, Base, BufferPacket, Drive, Executed, Filled,
    On, Present, Refused
<1>7. (BufferWritten /\ MemoryRead)'
  BY <1>1, <1>2, <1>e DEF Asked, Asking, AtTransfer, Base, BufferWritten, MemoryRead, On, Present
<1>IdeTyped. IdeTyped'
  BY SMTT(60), <1>1, <1>2 DEF AllCommands, DriverSteps, IdeTyped, InDma, Registers, Steps
<1>OneHasCommand. OneHasCommand'
  BY <1>1, <1>2 DEF OneHasCommand
<1>OneHasTransfer. OneHasTransfer'
  BY <1>1, <1>2 DEF AtTransfer, IdeTyped, OneHasTransfer
<1>Control. Control'
  BY <1>1, <1>2 DEF AllCommands, Asked, Asking, Asks, AtAnswer, AtEnd, AtTransfer, Control, Drive,
    Executed, MasterStarts, Present, Transfers
<1>Fresh. Fresh'
  BY <1>1, <1>2, <1>t DEF Drive, Executed, Fresh, On, Present
<1>BufferRead. BufferRead'
  BY SMTT(60), <1>1, <1>2, <1>e DEF Base, BufferRead, Drive, IdeTyped, On, Present
<1>MediumRight. MediumRight'
  <2>1. ideCpu # "idle" => Count' = Count
    BY <1>2 DEF Base, Count, Drive
  <2> QED BY <1>1, <1>2, <2>1, MediumKept
<1> QED
  BY <1>3, <1>4, <1>5, <1>6, <1>7, <1>IdeTyped, <1>OneHasCommand, <1>OneHasTransfer, <1>Control,
    <1>Fresh, <1>BufferRead, <1>MediumRight DEF IdeInv

(* The driver hands the transfer to the thread. *)
LEMMA StepMasterSet ==
  ASSUME IdeInv,
         Ide!MasterSet
  PROVE  IdeInv'
<1>1. /\ ideCpu = "masterSet" /\ ideCpu' = "issued"
      /\ ideSem' = [ideSem EXCEPT !["master"] = 1]
  BY DEF Ide!MasterSet, Ide!disks, Ide!busMaster, Ide!thread, Ide!Post
<1>2. UNCHANGED <<ideActive, ideAfter, ideBmIntr, ideBuffer, ideIrq, ideJob, ideKind, ideMedium,
                  ideMemory, ideMoved, idePc, idePhase, idePrd, idePtr, ideRegs, ideSelected,
                  ideSize, ideStatus, ideWants>>
  BY DEF Ide!MasterSet, Ide!disks, Ide!busMaster, Ide!thread, Ide!Post
<1>e. \A k \in Int : Ide!Expected(k)' = Ide!Expected(k)
  BY SMTT(60), <1>1, <1>2 DEF Ide!Expected
<1>t. At' = At
  BY <1>2 DEF At
<1>3. (Sizes /\ BufferDma /\ MovedFits)'
  BY SMTT(60), <1>2 DEF At, AtTransfer, BufferDma, Ide!Expected, Ide!Lba, MovedFits, Sizes,
    Transfers
<1>4. (InLimits /\ Reading /\ Writing /\ WritingMultiple /\ PacketPhases)'
  BY <1>1, <1>2, <1>t DEF Asked, Asking, Asks, AtAnswer, AtTransfer, Base, Drive, Executed,
    InLimits, MasterStarts, On, PacketPhases, Present, Reading, Refused, Running, Transfers,
    Writing, WritingMultiple
<1>5. (MemoryWritten /\ DmaOver)'
  BY <1>1, <1>2 DEF Asked, Asking, AtTransfer, DmaOver, Drive, IdeTyped, MemoryWritten, On, Present,
    Transfers
<1>IdeTyped. IdeTyped'
  BY SMTT(60), <1>1, <1>2 DEF AllCommands, DriverSteps, IdeTyped, InDma, Registers, Steps
<1>OneHasCommand. OneHasCommand'
  BY <1>1, <1>2 DEF OneHasCommand
<1>OneHasTransfer. OneHasTransfer'
  BY <1>1, <1>2 DEF AtTransfer, OneHasTransfer
<1>Control. Control'
  BY <1>1, <1>2 DEF AllCommands, Asked, Asking, Asks, AtAnswer, AtEnd, AtTransfer, Control, Drive,
    Executed, MasterStarts, Present, Transfers
<1>Fresh. Fresh'
  BY <1>1, <1>2, <1>t DEF Drive, Executed, Fresh, On, Present
<1>Aborted. Aborted'
  BY <1>1, <1>2 DEF Aborted, Asked, Asking, Asks, Drive, Executed, On, Present, Refused
<1>Filled. Filled'
  BY <1>1, <1>2 DEF Asks, Drive, Executed, Filled, On, Present
<1>BufferRead. BufferRead'
  BY SMTT(60), <1>1, <1>2, <1>e DEF Base, BufferRead, Drive, IdeTyped, On, Present
<1>BufferPacket. BufferPacket'
  BY <1>1, <1>2, <1>e DEF Base, BufferPacket, Drive, On, Present
<1>BufferWritten. BufferWritten'
  BY <1>1, <1>2 DEF Base, BufferWritten, On, Present
<1>MemoryRead. MemoryRead'
  BY <1>1, <1>2, <1>e DEF Asked, Asking, AtTransfer, MemoryRead
<1>MediumRight. MediumRight'
  <2>1. ideCpu # "idle" => Count' = Count
    BY <1>2 DEF Base, Count, Drive
  <2> QED BY <1>1, <1>2, <2>1, MediumKept
<1> QED
  BY <1>3, <1>4, <1>5, <1>IdeTyped, <1>OneHasCommand, <1>OneHasTransfer, <1>Control, <1>Fresh,
    <1>Aborted, <1>Filled, <1>BufferRead, <1>BufferPacket, <1>BufferWritten, <1>MemoryRead,
    <1>MediumRight DEF IdeInv

(* After its interrupt, PACKET goes on to its answer or is over. *)
LEMMA StepAfterPacket ==
  ASSUME IdeInv,
         Ide!AfterPacket
  PROVE  IdeInv'
<1>1. /\ idePc \in {"packetData", "packetDone"} /\ idePc' = "finish"
      /\ idePhase' = IF idePc = "packetData" THEN "idle" ELSE idePhase
  BY DEF Ide!AfterPacket, Ide!ThreadOnly, Ide!Goto, Ide!RaiseThen, Ide!disks, Ide!busMaster, Ide!St,
    Drive
<1>2. UNCHANGED <<ideActive, ideAfter, ideBmIntr, ideBuffer, ideCpu, ideIrq, ideJob, ideKind,
                  ideMedium, ideMemory, ideMoved, idePrd, idePtr, ideRegs, ideSelected, ideSem,
                  ideSize, ideWants>>
  BY DEF Ide!AfterPacket, Ide!ThreadOnly, Ide!Goto, Ide!RaiseThen, Ide!disks, Ide!busMaster, Ide!St,
    Drive
<1>e. \A k \in Int : Ide!Expected(k)' = Ide!Expected(k)
  BY <1>1, <1>2 DEF Ide!Expected
<1>t. At' = At
  BY <1>2 DEF At
<1>s. /\ Drive'.busy = Drive.busy /\ Drive'.drq = Drive.drq /\ Drive'.err = Drive.err
       /\ Drive'.cycle = Drive.cycle
      /\ idePc = "packetData" => Drive'.inProgress = Drive.inProgress
      /\ idePc = "packetDone" => ~Drive'.inProgress
      /\ ideStatus' \in [Ide!Drives -> Ide!Status]
  <2>1. CASE idePc = "packetData"
    <3>1. ideStatus' = ideStatus
      BY <2>1 DEF Ide!AfterPacket
    <3> QED BY <3>1, <2>1, <1>2 DEF IdeTyped, Drive
  <2>2. CASE idePc # "packetData"
    <3>1. ideStatus' = [ideStatus EXCEPT ![ideSelected] = [busy |-> Drive.busy, drq |-> Drive.drq, err |-> Drive.err,
                 inProgress |-> FALSE, cycle |-> Drive.cycle]]
      BY <2>2, DriveIs, Merged DEF Ide!AfterPacket, Ide!Set, Ide!St, Drive
    <3> QED BY <3>1, <2>2, <1>2 DEF IdeTyped, Drive, Ide!Status
  <2> QED BY <2>1, <2>2
<1>3. (InLimits /\ BufferWritten)'
  BY SMTT(60), <1>2 DEF Base, BufferWritten, Ide!Aligned, Ide!Refused, Ide!Word, InLimits, On,
    Present, Refused
<1>4. (MemoryRead /\ MemoryWritten /\ MovedFits /\ DmaOver)'
  BY <1>1, <1>2, <1>s, <1>e DEF Asked, Asking, AtTransfer, DmaOver, Drive, MemoryRead,
    MemoryWritten, MovedFits, On, Present, Transfers
<1>IdeTyped. IdeTyped'
  BY SMTT(60), <1>1, <1>2, <1>s DEF AllCommands, DriverSteps, IdeTyped, InDma, Registers, Steps
<1>OneHasCommand. OneHasCommand'
  BY <1>1, <1>2 DEF OneHasCommand
<1>OneHasTransfer. OneHasTransfer'
  BY <1>1, <1>2 DEF AtTransfer, OneHasTransfer
<1>Control. Control'
  BY <1>1, <1>2, <1>s DEF AllCommands, Asked, Asking, Asks, AtAnswer, AtEnd, AtTransfer, Control,
    Drive, Executed, MasterStarts, Present, Transfers
<1>Fresh. Fresh'
  BY <1>1, <1>2 DEF Drive, Executed, Fresh, On, Present
<1>Reading. Reading'
  BY <1>1, <1>2 DEF AllCommands, Asked, Asking, Asks, AtAnswer, AtEnd, AtTransfer, Base, Control,
    Drive, Executed, MasterStarts, On, Present, Reading, Refused, Running, Transfers
<1>Writing. Writing'
  BY <1>1, <1>2 DEF AllCommands, Asked, Asking, Asks, AtAnswer, AtEnd, AtTransfer, Base, Control,
    Drive, Executed, MasterStarts, On, Present, Refused, Running, Transfers, Writing
<1>WritingMultiple. WritingMultiple'
  BY <1>1, <1>2, <1>s, <1>t DEF Asked, Asking, Base, Drive, Executed, On, Present, Refused, Running,
    WritingMultiple
<1>PacketPhases. PacketPhases'
  BY <1>1, <1>2, <1>s DEF AllCommands, Asked, Asking, Asks, AtAnswer, AtEnd, AtTransfer, Control,
    Drive, Executed, MasterStarts, On, PacketPhases, Present, Refused, Running, Transfers
<1>Aborted. Aborted'
  BY <1>1, <1>2, <1>s DEF Aborted, Asked, Asking, Asks, Drive, Executed, On, Present, Refused
<1>Filled. Filled'
  BY <1>1, <1>2, <1>s DEF AllCommands, Asked, Asking, Asks, AtAnswer, AtEnd, AtTransfer, Control,
    Drive, Executed, Filled, MasterStarts, On, Present, Transfers
<1>BufferRead. BufferRead'
  BY SMTT(60), <1>2, <1>s, <1>e DEF Base, BufferRead, Drive, IdeTyped, On, Present
<1>BufferPacket. BufferPacket'
  BY <1>2, <1>s, <1>e DEF Base, BufferPacket, Drive, On, Present
<1>Sizes. Sizes'
  BY <1>1, <1>2 DEF AtTransfer, Sizes, Transfers
<1>BufferDma. BufferDma'
  BY <1>1, <1>2 DEF AtTransfer, BufferDma, Transfers
<1>MediumRight. MediumRight'
  <2>1. ideCpu # "idle" => Count' = Count
    BY <1>2 DEF Base, Count, Drive
  <2> QED BY <1>1, <1>2, <2>1, MediumKept
<1> QED
  BY <1>3, <1>4, <1>IdeTyped, <1>OneHasCommand, <1>OneHasTransfer, <1>Control, <1>Fresh, <1>Reading,
    <1>Writing, <1>WritingMultiple, <1>PacketPhases, <1>Aborted, <1>Filled, <1>BufferRead,
    <1>BufferPacket, <1>Sizes, <1>BufferDma, <1>MediumRight DEF IdeInv

(* ... or the data of the first block of a write. *)
LEMMA StepAskSize ==
  ASSUME IdeInv,
         NEW n, NEW left, Ide!AskSize(n, left),
         \/ idePc = "askWrite" /\ n = 1 /\ left = Ide!FirstCount
         \/ idePc = "askMultiple" /\ n = Ide!Least(Ide!FirstCount, IdeMultiple) /\ left = Ide!FirstCount - n
  PROVE  IdeInv'
<1>0. ideRegs' = [ideRegs EXCEPT !.count = left]
  BY DEF Ide!AskSize
<1>1. idePc' = "finish" /\ ideSize' = n
  BY DEF Ide!AskSize, Ide!Goto
<1>2. UNCHANGED <<ideActive, ideAfter, ideBmIntr, ideBuffer, ideCpu, ideIrq, ideJob, ideKind,
                  ideMedium, ideMemory, ideMoved, idePhase, idePrd, idePtr, ideSelected, ideSem,
                  ideStatus, ideWants>>
  BY DEF Ide!AskSize, Ide!ThreadOnly, Ide!Goto, Ide!busMaster
<1>e. \A k \in Int : Ide!Expected(k)' = Ide!Expected(k)
  BY <1>1, <1>2 DEF Ide!Expected
<1>s. Drive' = Drive
  BY <1>2 DEF Drive
<1>a. /\ On /\ ideJob.cmd \in {"write", "writeMultiple"} /\ ideRegs.cmd = ideJob.cmd
      /\ ideJob.done = 0 /\ idePtr = 0 /\ ~Executed
      /\ Drive.drq /\ ~Drive.busy /\ Drive.inProgress /\ ideCpu \in {"issued", "data"}
      /\ ideSem["master"] = 0 /\ ideSem["controller"] = 0 /\ ~Refused
      /\ idePc = "askWrite" <=> ideJob.cmd = "write"
  <2>1. Asks
    BY DEF Asks
  <2> QED BY <2>1, AskIs DEF Control
<1>b. /\ At = ideJob.lba /\ ideRegs.sec < IdeSecMax
      /\ n \in 1 .. IdeCountMax /\ left \in 0 .. IdeCountMax
      /\ ideJob.total \in Nat /\ ideJob.lba \in Nat
      /\ IF ideJob.cmd = "write" THEN n = 1 /\ left = ideJob.total /\ left # 0
         ELSE n = ideJob.total /\ left = 0
  <2>1. /\ At = ideJob.lba /\ ideRegs.sec < IdeSecMax /\ Ide!FirstCount = ideJob.total
    BY <1>a DEF Fresh, Ide!FirstCount
  <2>3. ideJob.total \in 1 .. IdeCountMax /\ (ideJob.cmd = "writeMultiple" => ideJob.total <= IdeMultiple)
    BY <1>a DEF InLimits, Ide!Aligned
  <2>4. ideJob.lba \in Nat
    BY DEF IdeTyped
  <2> QED BY <1>a, <2>1, <2>3, <2>4, Parameters DEF Ide!Least
<1>c. /\ ideRegs' \in Registers /\ ideRegs'.cmd = ideRegs.cmd /\ ideRegs'.count = left
      /\ At' = At /\ ideRegs'.sec = ideRegs.sec
  <2>1. ideRegs \in Registers
    BY DEF IdeTyped
  <2>2. /\ ideRegs' \in Registers /\ ideRegs'.cmd = ideRegs.cmd /\ ideRegs'.count = left
        /\ ideRegs'.cyl = ideRegs.cyl /\ ideRegs'.sec = ideRegs.sec
    BY <1>0, <1>b, <2>1 DEF Registers
  <2> QED BY <2>2 DEF At, Ide!Lba
<1>d. /\ ~Asks' /\ ~Asking' /\ ~Transfers' /\ ~AtTransfer' /\ ~AtAnswer' /\ ~AtEnd'
      /\ ~MasterStarts' /\ On' /\ Executed'
  BY <1>1, <1>2, <1>a DEF Asks, Asking, Asked, Transfers, AtTransfer, AtAnswer, AtEnd, MasterStarts,
    On, Present, Executed
<1>f. Base = 0 /\ Base' = 0
  BY <1>2, <1>a DEF Base
<1>IdeTyped. IdeTyped'
  BY SMTT(60), <1>1, <1>2, <1>b, <1>c, Parameters DEF IdeTyped, Steps
<1>3. (OneHasCommand /\ OneHasTransfer /\ MovedFits)'
  BY <1>1, <1>2, <1>d, <1>a DEF OneHasCommand, OneHasTransfer, MovedFits
<1>Control. Control'
  BY <1>1, <1>2, <1>s, <1>a, <1>c, <1>d DEF Control, Present, Asked
<1>4. (Fresh /\ Reading /\ PacketPhases /\ Aborted)'
  BY <1>2, <1>a, <1>d DEF Asks, Fresh, Reading, PacketPhases, Aborted, Refused
<1>Writing. Writing'
  BY <1>1, <1>2, <1>s, <1>a, <1>b, <1>c, <1>d, <1>f DEF Writing
<1>WritingMultiple. WritingMultiple'
  BY <1>1, <1>2, <1>s, <1>a, <1>b, <1>c, <1>d, <1>f DEF WritingMultiple
<1>InLimits. InLimits'
  BY <1>2 DEF InLimits, On, Present, Refused
<1>Filled. Filled'
  BY <1>1, <1>2, <1>s, <1>a, <1>b, <1>d DEF Filled
<1>5. (BufferRead /\ BufferPacket)'
  BY <1>2, <1>a DEF BufferRead, BufferPacket
<1>6. (BufferWritten /\ Sizes /\ BufferDma /\ MemoryWritten)'
  BY <1>1, <1>2, <1>a, <1>d, <1>f DEF BufferWritten, Sizes, BufferDma, MemoryWritten
<1>7. (MemoryRead /\ DmaOver)'
  BY <1>2, <1>a DEF MemoryRead, DmaOver
<1>MediumRight. MediumRight'
  <2>1. ideCpu # "idle" => Count' = Count
    BY <1>2, <1>a, <1>f DEF Count
  <2> QED BY <1>1, <1>2, <2>1, MediumKept
<1> QED
  BY <1>IdeTyped, <1>3, <1>Control, <1>InLimits, <1>4, <1>Writing, <1>WritingMultiple, <1>Filled,
    <1>5, <1>6, <1>7, <1>MediumRight DEF IdeInv

LEMMA StepAskWrite ==
  ASSUME IdeInv, Ide!AskWrite
  PROVE  IdeInv'
<1>1. idePc = "askWrite" /\ Ide!AskSize(1, Ide!FirstCount)
  BY DEF Ide!AskWrite
<1> DEFINE left == Ide!FirstCount
<1>2. left = Ide!FirstCount
  OBVIOUS
<1> HIDE DEF left
<1> QED BY <1>1, <1>2, StepAskSize

LEMMA StepAskWriteMultiple ==
  ASSUME IdeInv, Ide!AskWriteMultiple
  PROVE  IdeInv'
<1> DEFINE n == Ide!Least(Ide!FirstCount, IdeMultiple)
           left == Ide!FirstCount - n
<1>1. idePc = "askMultiple" /\ Ide!AskSize(n, left)
  BY DEF Ide!AskWriteMultiple
<1>2. n = Ide!Least(Ide!FirstCount, IdeMultiple) /\ left = Ide!FirstCount - n
  OBVIOUS
<1> HIDE DEF n, left
<1> QED BY <1>1, <1>2, StepAskSize

(* WRITE SECTORS writes the block in the buffer, and asks for the next. *)
LEMMA StepWriteOne ==
  ASSUME IdeInv,
         idePc = "run", Drive.inProgress, Present, ideRegs.cmd \in {"write"},
         ~Ide!Refused(ideRegs.cmd, ideKind[ideSelected]), ~Ide!FirstTime(Ide!St.cycle),
         NEW then,
         then = [IF ideRegs.count - 1 = 0 THEN ideRegs ELSE Ide!Advance(ideRegs, 1) EXCEPT !.count = ideRegs.count - 1],
         Ide!WriteBlock(1, ideRegs.count - 1 # 0, ideSize, then)
  PROVE  IdeInv'
<1>0. /\ ideMedium' = Ide!Written(ideSelected, Ide!Lba(ideRegs), 1) /\ ideRegs' = then
  BY DEF Ide!WriteBlock
<1>1. /\ idePc' = "raise" /\ ideAfter' = "finish" /\ idePtr' = 0 /\ Drive.cycle # 0
      /\ ideSize' = ideSize
  BY DEF Ide!RaiseThen, Ide!WriteBlock, Ide!FirstTime, Ide!St, Drive
<1>2. UNCHANGED <<ideActive, ideBmIntr, ideBuffer, ideCpu, ideIrq, ideJob, ideKind, ideMemory,
                  ideMoved, idePhase, idePrd, ideSelected, ideSem, ideWants>>
  BY DEF Ide!ThreadOnly, Ide!Goto, Ide!RaiseThen, Ide!disks, Ide!busMaster, Ide!WriteBlock,
    Ide!FirstTime, Ide!St, Drive
<1>e. \A k \in Int : Ide!Expected(k)' = Ide!Expected(k)
  BY <1>1, <1>2 DEF Ide!Expected
<1>s. /\ Drive'.busy = FALSE
      /\ Drive'.drq <=> (ideRegs.count - 1 # 0)
      /\ Drive'.err = FALSE
      /\ Drive'.inProgress <=> (ideRegs.count - 1 # 0)
      /\ Drive'.cycle = Drive.cycle
      /\ ideStatus' \in [Ide!Drives -> Ide!Status]
  <2>1. ideStatus' = [ideStatus EXCEPT ![ideSelected] = [busy |-> FALSE, drq |-> (ideRegs.count - 1 # 0), err |-> FALSE, inProgress |-> (ideRegs.count - 1 # 0), cycle |-> Drive.cycle]]
    BY Merged DEF Ide!ThreadOnly, Ide!Goto, Ide!RaiseThen, Ide!disks, Ide!busMaster, Ide!WriteBlock,
      Ide!FirstTime, Ide!St, Drive, Ide!Set, Ide!St, Drive, IdeTyped, Ide!Status
  <2> QED BY <2>1, <1>2 DEF IdeTyped, Drive, Ide!Status
<1>a. On /\ ideJob.cmd = ideRegs.cmd /\ ~Refused /\ ~Drive.drq /\ Drive.busy
       /\ ideCpu \notin {"idle", "command", "readyWait", "wake", "data"}
      /\ ideSem["controller"] = 0
  BY DEF Asks, IdeTyped, Control, Asking, Asked, On, Present, Refused, OneHasCommand
<1>b. /\ ideRegs.count = ideJob.total - Base /\ ideRegs.count \in 1 .. IdeCountMax
       /\ idePtr = 1 /\ ideSize = 1 /\ ideSize <= IdeCountMax
      /\ At = ideJob.lba + Base /\ Base \in Nat /\ ideRegs.sec < IdeSecMax /\ ideJob.total \in Nat
      /\ \A i \in 1 .. ideSize : ideBuffer[i] = Ide!Word(ideJob, Base + i - 1)
  <2>1. Running /\ Asking
    BY <1>1, <1>a DEF Running, Executed, Asking, Asked
  <2>2. ideRegs.count \in 0 .. IdeCountMax /\ ideJob.total \in Nat /\ ideJob.done \in Nat
    BY DEF IdeTyped, Registers
  <2>3. /\ ideRegs.count = ideJob.total - Base /\ ideRegs.count # 0 /\ idePtr = 1 /\ ideSize = 1
        /\ At = ideJob.lba + Base /\ Base >= 0 /\ ideRegs.sec < IdeSecMax
    BY <1>a, <2>1 DEF Writing
  <2>4. \A i \in 1 .. idePtr : ideBuffer[i] = Ide!Word(ideJob, Base + i - 1)
    BY <1>a DEF BufferWritten
  <2> QED BY <2>2, <2>3, <2>4, Parameters DEF Base
<1>w. Base' = Base + 1 /\ Base \in Nat /\ ideJob.lba + (Base + 1) = (ideJob.lba + Base) + 1
  <2>1. ideJob.done \in Nat /\ ideJob.lba \in Nat
    BY DEF IdeTyped
  <2>2. Base = ideJob.done - 1 /\ Base' = ideJob.done - 0
    BY <1>1, <1>2, <1>b DEF Base
  <2> QED BY <1>b, <2>1, <2>2
<1>c. ideSize' = 1
  BY <1>1, <1>b
<1>d. /\ ideRegs' \in Registers /\ ideRegs'.cmd = ideRegs.cmd /\ ideRegs'.count = ideRegs.count - 1
      /\ ideRegs'.count # 0 => At' = At + 1 /\ ideRegs'.sec < IdeSecMax
  <2> DEFINE r == IF ideRegs.count - 1 = 0 THEN ideRegs ELSE Ide!Advance(ideRegs, 1)
  <2>1. ideRegs \in Registers /\ ideRegs.sec \in Nat
    BY DEF IdeTyped, Registers
  <2>2. /\ r \in Registers /\ r.cmd = ideRegs.cmd
        /\ ideRegs.count # 1 => Ide!Lba(r) = At + 1 /\ r.sec < IdeSecMax
    BY <1>b, <1>c, <2>1, AdvanceIs, Parameters DEF At
  <2>3. ideRegs' = [r EXCEPT !.count = ideRegs.count - 1]
    BY <1>0
  <2>5. ideRegs.count - 1 \in 0 .. IdeCountMax
    BY <1>b, Parameters
  <2> HIDE DEF r
  <2>4. /\ ideRegs' \in Registers /\ ideRegs'.cmd = r.cmd /\ ideRegs'.count = ideRegs.count - 1
        /\ ideRegs'.cyl = r.cyl /\ ideRegs'.sec = r.sec
    BY <2>2, <2>3, <2>5 DEF Registers
  <2> QED BY <1>b, <2>2, <2>4 DEF At, Ide!Lba
<1>m. /\ ideMedium' \in [Ide!Drives -> [Ide!Lbas -> Int]]
      /\ MediumRight'
  <2>1. Count = Base /\ Count' = Count + ideSize
         /\ ideJob \in [id : Nat, cmd : AllCommands \cup {"none"}, lba : Nat, total : Nat, done : Nat]
    <3>1. Count = Base /\ Count' = Base'
      BY <1>1, <1>2, <1>a DEF Count
    <3> QED BY <1>b, <1>w, <3>1 DEF IdeTyped
  <2>2. ideMedium' = Ide!Written(ideSelected, At, ideSize) /\ ideCpu # "idle" /\ ideCpu' = ideCpu
    BY <1>0, <1>2, <1>a, <1>b DEF At
  <2>3. /\ At \in Nat /\ At = ideJob.lba + Count /\ Count \in Nat /\ ideSize \in 0 .. IdeCountMax
        /\ \A i \in 1 .. ideSize : ideBuffer[i] = Ide!Word(ideJob, Count + i - 1)
    BY <1>b, <2>1, Parameters
  <2> QED BY <1>2, <2>1, <2>2, <2>3, MediumGrows
<1>y. ideRegs' \in Registers /\ ideStatus' \in [Ide!Drives -> Ide!Status]
       /\ ideSize' \in 0 .. IdeCountMax /\ idePtr' \in 0 .. IdeCountMax
      /\ ideMedium' \in [Ide!Drives -> [Ide!Lbas -> Int]]
  BY <1>1, <1>s, <1>b, <1>c, <1>d, <1>m, Parameters
<1>InLimits. InLimits'
  BY SMTT(60), <1>2 DEF Ide!Aligned, Ide!Refused, InLimits, On, Present, Refused
<1>3. (BufferDma /\ MemoryRead /\ MemoryWritten /\ MovedFits /\ DmaOver)'
  BY <1>1, <1>2 DEF Asked, Asking, AtTransfer, BufferDma, DmaOver, Drive, MemoryRead, MemoryWritten,
    MovedFits, On, Present, Transfers
<1>4. (BufferWritten /\ Sizes)'
  BY <1>1, <1>2 DEF AtTransfer, Base, BufferWritten, IdeTyped, On, Present, Sizes, Transfers
<1>5. (WritingMultiple /\ Aborted)'
  BY <1>1, <1>2, <1>b DEF Aborted, Asked, Asking, Asks, Base, Drive, Executed, On, Present, Refused,
    Running, WritingMultiple
<1>OneHasCommand. OneHasCommand'
  BY <1>2 DEF OneHasCommand
<1>OneHasTransfer. OneHasTransfer'
  BY <1>1, <1>2 DEF AtTransfer, OneHasTransfer
<1>Control. Control'
  BY <1>1, <1>2, <1>a, <1>d DEF AllCommands, Asked, Asking, Asks, AtAnswer, AtEnd, AtTransfer,
    Control, Drive, Executed, MasterStarts, Present, Transfers
<1>Fresh. Fresh'
  BY <1>1, <1>2 DEF Drive, Executed, Fresh, On, Present
<1>Reading. Reading'
  BY <1>1, <1>2, <1>b DEF Base, Drive, Executed, On, Present, Reading, Refused, Running
<1>Filled. Filled'
  BY <1>1, <1>2, <1>s, <1>a, <1>c DEF Asks, Drive, Executed, Filled, On, Present
<1>IdeTyped. IdeTyped'
  BY <1>1, <1>2, <1>y DEF IdeTyped, Steps
<1>Writing. Writing'
  BY <1>1, <1>2, <1>s, <1>a, <1>b, <1>c, <1>d, <1>w DEF Writing, Running, On, Present, Drive,
    Executed, Asking, Asked
<1>PacketPhases. PacketPhases'
  BY <1>1, <1>2, <1>a DEF Asks, PacketPhases
<1>BufferRead. BufferRead'
  BY <1>1, <1>2, <1>a DEF BufferRead
<1>BufferPacket. BufferPacket'
  BY <1>1, <1>2, <1>a DEF BufferPacket
<1>MediumRight. MediumRight'
  BY <1>m
<1> QED
  BY <1>InLimits, <1>3, <1>4, <1>5, <1>OneHasCommand, <1>OneHasTransfer, <1>Control, <1>Fresh,
    <1>Reading, <1>Filled, <1>IdeTyped, <1>Writing, <1>PacketPhases, <1>BufferRead, <1>BufferPacket,
    <1>MediumRight DEF IdeInv

(* WRITE MULTIPLE of a block at most: it writes all of the sectors, and is *)
(* over. *)
LEMMA StepWriteAll ==
  ASSUME IdeInv,
         idePc = "run", Drive.inProgress, Present, ideRegs.cmd \in {"writeMultiple"},
         ~Ide!Refused(ideRegs.cmd, ideKind[ideSelected]), ~Ide!FirstTime(Ide!St.cycle),
         Ide!WriteBlock(ideSize, FALSE, ideSize, ideRegs)
  PROVE  IdeInv'
<1>0. /\ ideMedium' = Ide!Written(ideSelected, Ide!Lba(ideRegs), ideSize)
      /\ ideRegs' = ideRegs /\ ideSize' = ideSize
  BY DEF Ide!WriteBlock
<1>1. /\ idePc' = "raise" /\ ideAfter' = "finish" /\ idePtr' = 0 /\ Drive.cycle # 0
  BY DEF Ide!ThreadOnly, Ide!Goto, Ide!RaiseThen, Ide!disks, Ide!busMaster, Ide!WriteBlock,
    Ide!FirstTime, Ide!St, Drive
<1>2. UNCHANGED <<ideActive, ideBmIntr, ideBuffer, ideCpu, ideIrq, ideJob, ideKind, ideMemory,
                  ideMoved, idePhase, idePrd, ideSelected, ideSem, ideWants>>
  BY DEF Ide!ThreadOnly, Ide!Goto, Ide!RaiseThen, Ide!disks, Ide!busMaster, Ide!WriteBlock,
    Ide!FirstTime, Ide!St, Drive
<1>e. \A k \in Int : Ide!Expected(k)' = Ide!Expected(k)
  BY <1>1, <1>2 DEF Ide!Expected
<1>s. /\ Drive'.busy = FALSE
      /\ Drive'.drq = FALSE
      /\ Drive'.err = FALSE
      /\ Drive'.inProgress = FALSE
      /\ Drive'.cycle = Drive.cycle
      /\ ideStatus' \in [Ide!Drives -> Ide!Status]
  <2>1. ideStatus' = [ideStatus EXCEPT ![ideSelected] = [busy |-> FALSE, drq |-> FALSE, err |-> FALSE, inProgress |-> FALSE, cycle |-> Drive.cycle]]
    BY Merged DEF Ide!ThreadOnly, Ide!Goto, Ide!RaiseThen, Ide!disks, Ide!busMaster, Ide!WriteBlock,
      Ide!FirstTime, Ide!St, Drive, Ide!Set, Ide!St, Drive, IdeTyped, Ide!Status
  <2> QED BY <2>1, <1>2 DEF IdeTyped, Drive, Ide!Status
<1>a. On /\ ideJob.cmd = ideRegs.cmd /\ ~Refused /\ ~Drive.drq /\ Drive.busy
       /\ ideCpu \notin {"idle", "command", "readyWait", "wake", "data"}
      /\ ideSem["controller"] = 0
  BY DEF Asks, IdeTyped, Control, Asking, Asked, On, Present, Refused, OneHasCommand
<1>b. /\ ideRegs.count = 0 /\ ideSize = ideJob.total /\ ideJob.done = ideSize
       /\ ideSize \in 1 .. IdeCountMax
      /\ At = ideJob.lba + Base /\ Base = 0 /\ idePtr = ideSize
      /\ \A i \in 1 .. ideSize : ideBuffer[i] = Ide!Word(ideJob, Base + i - 1)
  <2>1. Running /\ Asking
    BY <1>1, <1>a DEF Running, Executed, Asking, Asked
  <2>2. ideSize \in 0 .. IdeCountMax /\ ideJob.total \in 1 .. IdeCountMax /\ ideJob.done \in Nat
    BY <1>a DEF IdeTyped, InLimits
  <2>3. /\ ideRegs.count = 0 /\ ideSize = ideJob.total /\ idePtr = ideSize /\ Base = 0
         /\ At = ideJob.lba
    BY <1>a, <2>1 DEF WritingMultiple
  <2>4. \A i \in 1 .. idePtr : ideBuffer[i] = Ide!Word(ideJob, Base + i - 1)
    BY <1>a DEF BufferWritten
  <2>5. ideJob.done = ideSize /\ At = ideJob.lba + Base
    <3>1. ideJob.done \in Nat /\ idePtr \in Nat /\ ideJob.lba \in Nat /\ ideJob.done - idePtr = 0
      BY <2>2, <2>3, Parameters DEF IdeTyped, Base
    <3> QED BY SMTT(60), <2>3, <3>1
  <2> QED BY <2>2, <2>3, <2>4, <2>5
<1>c. ideSize' = ideSize
  BY <1>0
<1>d. ideRegs' = ideRegs /\ ideRegs \in Registers /\ At' = At
  BY <1>0 DEF At, IdeTyped
<1>m. /\ ideMedium' \in [Ide!Drives -> [Ide!Lbas -> Int]]
      /\ MediumRight'
  <2>1. Count = Base /\ Count' = Count + ideSize
         /\ ideJob \in [id : Nat, cmd : AllCommands \cup {"none"}, lba : Nat, total : Nat, done : Nat]
    BY <1>1, <1>2, <1>a, <1>b DEF Count, Base, IdeTyped
  <2>2. ideMedium' = Ide!Written(ideSelected, At, ideSize) /\ ideCpu # "idle" /\ ideCpu' = ideCpu
    BY <1>0, <1>2, <1>a DEF At
  <2> QED BY <1>2, <1>b, <2>1, <2>2, MediumGrows
<1>y. ideRegs' \in Registers /\ ideStatus' \in [Ide!Drives -> Ide!Status]
       /\ ideSize' \in 0 .. IdeCountMax /\ idePtr' \in 0 .. IdeCountMax
      /\ ideMedium' \in [Ide!Drives -> [Ide!Lbas -> Int]]
  BY <1>1, <1>s, <1>b, <1>c, <1>d, <1>m, Parameters
<1>InLimits. InLimits'
  BY SMTT(60), <1>2 DEF Ide!Aligned, Ide!Refused, InLimits, On, Present, Refused
<1>3. (OneHasCommand /\ OneHasTransfer /\ Control /\ Fresh /\ Reading)'
  BY SMTT(60), <1>1, <1>2, <1>s, <1>a, <1>d DEF AllCommands, Asked, Asking, Asks, AtAnswer, AtEnd,
    AtTransfer, Base, Control, Drive, DriverSteps, Executed, Fresh, IdeTyped, InDma, MasterStarts,
    On, OneHasCommand, OneHasTransfer, Present, Reading, Refused, Registers, Running, Steps,
    Transfers
<1>4. (Writing /\ PacketPhases)'
  BY <1>2, <1>a DEF Asks, Writing, PacketPhases, Running
<1>Aborted. Aborted'
  BY <1>2, <1>a DEF Aborted, Asks, Refused, Present
<1>5. (BufferRead /\ BufferPacket)'
  BY <1>2, <1>a, <1>s, <1>c DEF BufferRead, BufferPacket
<1>6. (MovedFits /\ DmaOver)'
  BY <1>1, <1>2 DEF Asked, Asking, AtTransfer, DmaOver, Drive, MovedFits, On, Present
<1>7. (BufferWritten /\ Sizes /\ BufferDma)'
  BY <1>1, <1>2, <1>b DEF AtTransfer, Base, BufferDma, BufferWritten, On, Present, Sizes, Transfers
<1>8. (MemoryRead /\ MemoryWritten)'
  BY <1>1, <1>2 DEF Asked, Asking, AtTransfer, MemoryRead, MemoryWritten, Transfers
<1>WritingMultiple. WritingMultiple'
  BY <1>1, <1>2, <1>s, <1>a, <1>b, <1>c, <1>d DEF Asked, Asking, Base, Count, Drive, Executed,
    MediumRight, On, Present, Refused, Running, WritingMultiple
<1>Filled. Filled'
  BY <1>2, <1>s, <1>c DEF Asks, Drive, Executed, Filled, On, Present
<1>IdeTyped. IdeTyped'
  BY <1>1, <1>2, <1>y DEF IdeTyped, Steps
<1>MediumRight. MediumRight'
  BY <1>m
<1> QED
  BY <1>InLimits, <1>3, <1>4, <1>Aborted, <1>5, <1>6, <1>7, <1>8, <1>WritingMultiple, <1>Filled,
    <1>IdeTyped, <1>MediumRight DEF IdeInv

(* DEVICE RESET clears the drive. *)
LEMMA StepExecuteReset ==
  ASSUME IdeInv,
         Ide!ExecuteReset
  PROVE  IdeInv'
<1>0. /\ ideRegs' = [ideRegs EXCEPT !.count = 1, !.sec = 1, !.cyl = 0]
      /\ ideSelected' = ideSelected
  BY DEF Asks, Ide!ExecuteReset, Ide!Signature, Control, Ide!Executes, Ide!Running, Ide!St, Drive,
    Present
<1>1. /\ idePc = "run" /\ Drive.inProgress /\ Present /\ ideRegs.cmd = "deviceReset"
       /\ idePc' = "finish"
  BY DEF Ide!ThreadOnly, Ide!Goto, Ide!RaiseThen, Ide!disks, Ide!busMaster, Ide!ExecuteReset,
    Ide!Executes, Ide!Running, Ide!St, Drive, Present
<1>2. UNCHANGED <<ideActive, ideAfter, ideBmIntr, ideBuffer, ideCpu, ideIrq, ideJob, ideKind,
                  ideMedium, ideMemory, ideMoved, idePhase, idePrd, idePtr, ideSelected, ideSem,
                  ideSize, ideWants>>
  BY <1>0 DEF Ide!ExecuteReset, Ide!ThreadOnly, Ide!Goto, Ide!RaiseThen, Ide!disks, Ide!busMaster
<1>e. \A k \in Int : Ide!Expected(k)' = Ide!Expected(k)
  BY SMTT(60), <1>1, <1>2 DEF Ide!Expected
<1>s. Drive' = [busy |-> FALSE, drq |-> FALSE, err |-> FALSE, inProgress |-> FALSE, cycle |-> Drive.cycle]
      /\ ideStatus' \in [Ide!Drives -> Ide!Status]
  <2>1. ideStatus' = [d \in Ide!Drives |-> [ideStatus[d] EXCEPT !.inProgress = @ /\ d # ideSelected,
               !.busy = @ /\ d # ideSelected, !.drq = @ /\ d # ideSelected, !.err = @
                   /\ d # ideSelected]]
    BY <1>0 DEF Ide!ExecuteReset
  <2>2. /\ ideSelected \in Ide!Drives
        /\ \A d \in Ide!Drives : ideStatus[d] \in [busy : BOOLEAN, drq : BOOLEAN, err : BOOLEAN, inProgress : BOOLEAN, cycle : {0, 1, 2}]
    BY DEF IdeTyped, Ide!Status
  <2>3. \A d \in Ide!Drives : ideStatus'[d] \in Ide!Status
    BY ZenonT(60), <2>1, <2>2 DEF Ide!Status
  <2>4. Drive' = [busy |-> FALSE, drq |-> FALSE, err |-> FALSE, inProgress |-> FALSE, cycle |-> Drive.cycle]
    BY ZenonT(60), <1>0, <2>1, <2>2 DEF Drive
  <2> QED BY <2>1, <2>3, <2>4
<1>a. On /\ ideJob.cmd = ideRegs.cmd /\ ~Drive.drq /\ Drive.busy
       /\ ideCpu \notin {"idle", "command", "readyWait", "wake", "data"}
      /\ ideSem["controller"] = 0
  BY <1>1 DEF Asks, IdeTyped, Control, Asking, Asked, On, Present, OneHasCommand
<1>d. ideRegs' \in Registers /\ ideRegs'.cmd = ideRegs.cmd
  <2>1. ideRegs \in Registers
    BY DEF IdeTyped
  <2>2. 1 \in 0 .. IdeCountMax /\ 1 \in Nat /\ 0 \in Nat
    BY Parameters
  <2>3. ideRegs' = [cmd |-> ideRegs.cmd, count |-> 1, cyl |-> 0, sec |-> 1]
    BY <1>0, <2>1 DEF Registers
  <2> QED BY <2>1, <2>2, <2>3 DEF Registers
<1>3. (InLimits /\ BufferWritten)'
  BY SMTT(60), <1>2 DEF Base, BufferWritten, Ide!Aligned, Ide!Refused, Ide!Word, InLimits, On,
    Present, Refused
<1>4. (Reading /\ Writing /\ WritingMultiple /\ PacketPhases /\ Filled)'
  BY <1>1, <1>2, <1>s, <1>a DEF Asked, Asking, Asks, AtAnswer, AtTransfer, Base, Drive, Executed,
    Filled, MasterStarts, On, PacketPhases, Present, Reading, Refused, Running, Transfers, Writing,
    WritingMultiple
<1>5. (BufferRead /\ BufferPacket /\ Sizes /\ BufferDma /\ MemoryRead)'
  BY <1>1, <1>2, <1>a DEF Asked, Asking, AtTransfer, Base, BufferDma, BufferPacket, BufferRead,
    Drive, MemoryRead, On, Present, Sizes, Transfers
<1>6. (MemoryWritten /\ MovedFits /\ DmaOver)'
  BY <1>1, <1>2, <1>a DEF Asked, Asking, AtTransfer, DmaOver, Drive, MemoryWritten, MovedFits, On,
    Present, Transfers
<1>7. (Control /\ Fresh)'
  BY <1>1, <1>2, <1>a, <1>d DEF AllCommands, Asked, Asking, Asks, AtAnswer, AtEnd, AtTransfer,
    Control, Drive, Executed, Fresh, MasterStarts, On, Present, Transfers
<1>IdeTyped. IdeTyped'
  BY SMTT(60), <1>1, <1>2, <1>s, <1>d DEF AllCommands, DriverSteps, IdeTyped, InDma, Registers,
    Steps
<1>OneHasCommand. OneHasCommand'
  BY <1>1, <1>2 DEF OneHasCommand
<1>OneHasTransfer. OneHasTransfer'
  BY <1>1, <1>2 DEF AtTransfer, OneHasTransfer
<1>Aborted. Aborted'
  BY <1>1, <1>2, <1>s, <1>a DEF Aborted, Asked, Asking, Asks, Drive, Executed, Fresh, On, Present,
    Refused
<1>MediumRight. MediumRight'
  <2>1. ideCpu # "idle" => Count' = Count
    BY <1>2 DEF Base, Count, Drive
  <2> QED BY <1>1, <1>2, <2>1, MediumKept
<1> QED
  BY <1>3, <1>4, <1>5, <1>6, <1>7, <1>IdeTyped, <1>OneHasCommand, <1>OneHasTransfer, <1>Aborted,
    <1>MediumRight DEF IdeInv

(* READ DMA fills the buffer, WRITE DMA waits for the driver's data. *)
LEMMA StepExecuteDma ==
  ASSUME IdeInv,
         Ide!ExecuteDma
  PROVE  IdeInv'
<1>0. /\ ideRegs' = [ideRegs EXCEPT !.count = Ide!Remaining]
      /\ ideSize' = Ide!Remaining
      /\ ideBuffer' = IF ideRegs.cmd = "readDma" THEN Ide!Filled(Ide!Contents(ideSelected, Ide!Lba(ideRegs), Ide!Remaining)) ELSE ideBuffer
  BY DEF Ide!ThreadOnly, Ide!Goto, Ide!RaiseThen, Ide!disks, Ide!busMaster, Ide!ExecuteDma,
    Ide!Executes, Ide!Running, Ide!St, Drive, Present
<1>1. /\ idePc = "run" /\ Drive.inProgress /\ Present
       /\ ideRegs.cmd \in {"readDma", "writeDma"} /\ ~Ide!Refused(ideRegs.cmd, ideKind[ideSelected])
      /\ idePc' = "masterWait"
  BY AbortsIs DEF Ide!ThreadOnly, Ide!Goto, Ide!RaiseThen, Ide!disks, Ide!busMaster, Ide!ExecuteDma,
    Ide!Executes, Ide!Running, Ide!St, Drive, Present
<1>2. UNCHANGED <<ideActive, ideAfter, ideBmIntr, ideCpu, ideIrq, ideJob, ideKind, ideMedium,
                  ideMemory, ideMoved, idePhase, idePrd, idePtr, ideSelected, ideSem, ideStatus,
                  ideWants>>
  BY DEF Ide!ThreadOnly, Ide!Goto, Ide!RaiseThen, Ide!disks, Ide!busMaster, Ide!ExecuteDma,
    Ide!Executes, Ide!Running, Ide!St, Drive, Present
<1>e. \A k \in Int : Ide!Expected(k)' = Ide!Expected(k)
  BY <1>1, <1>2 DEF Ide!Expected
<1>a. On /\ ideJob.cmd = ideRegs.cmd /\ ~Drive.drq /\ Drive.busy
       /\ ideCpu \notin {"idle", "command", "readyWait", "wake", "data"}
      /\ ideSem["controller"] = 0
  BY <1>1 DEF Asks, IdeTyped, Control, Asking, Asked, On, Present, OneHasCommand
<1>b. /\ Drive.cycle = 0 /\ ideJob.done = 0 /\ idePtr = 0 /\ At = ideJob.lba
       /\ ideRegs.sec < IdeSecMax
      /\ ideJob.total \in 1 .. IdeCountMax /\ Ide!Remaining = ideJob.total
          /\ ideSize' = ideJob.total
  <2>1. Drive.cycle = 0
    BY <1>1, <1>a DEF DmaOver, Asking, Asked
  <2>2. /\ ideJob.done = 0 /\ idePtr = 0 /\ At = ideJob.lba /\ ideRegs.sec < IdeSecMax
        /\ ideJob.total = IF ideRegs.count = 0 THEN IdeCountMax ELSE ideRegs.count
    BY <1>a, <1>1, <2>1 DEF Fresh, Executed
  <2>3. Ide!Remaining = ideJob.total
    BY <2>1, <2>2 DEF Ide!Remaining, Ide!St, Drive
  <2>4. ideJob.total \in 1 .. IdeCountMax
    BY <1>1, <1>a DEF InLimits
  <2> QED BY <1>0, <2>1, <2>2, <2>3, <2>4
<1>d. ideRegs' \in Registers /\ ideRegs'.cmd = ideRegs.cmd /\ At' = At /\ ideRegs'.sec = ideRegs.sec
  <2>1. ideRegs \in Registers
    BY DEF IdeTyped
  <2>2. /\ ideRegs' \in Registers /\ ideRegs'.cmd = ideRegs.cmd
        /\ ideRegs'.cyl = ideRegs.cyl /\ ideRegs'.sec = ideRegs.sec
    BY <1>0, <1>b, <2>1, Parameters DEF Registers
  <2> QED BY <2>2 DEF At, Ide!Lba
<1>f. /\ ideBuffer' \in [1 .. IdeCountMax -> Int]
      /\ ideJob.cmd = "readDma" => \A i \in 1 .. ideSize' : ideBuffer'[i] = Ide!Expected(i - 1)
  <2>1. CASE ideJob.cmd = "readDma"
    <3>1. Count = 0 /\ ideJob.cmd # "identify"
      BY <2>1 DEF Count
    <3>2. ideBuffer' = Ide!Filled(Ide!Contents(ideSelected, At, ideSize'))
      BY <1>0, <1>a, <2>1 DEF At
    <3>3. ideJob.lba \in Nat /\ At = ideJob.lba + 0
      BY <1>b DEF IdeTyped
    <3>4. /\ ideBuffer' \in [1 .. IdeCountMax -> Int]
          /\ \A i \in 1 .. ideSize' : ideBuffer'[i] = Ide!Expected(0 + i - 1)
      BY <1>b, <3>1, <3>2, <3>3, ReadIn
    <3> QED BY <1>b, <3>4, Parameters
  <2>2. CASE ideJob.cmd # "readDma"
    <3>1. ideBuffer' = ideBuffer
      BY <1>0, <1>a, <2>2
    <3> QED BY <2>2, <3>1 DEF IdeTyped
  <2> QED BY <2>1, <2>2
<1>3. (InLimits /\ MediumRight)'
  BY SMTT(60), <1>2 DEF Base, Count, Drive, Ide!Aligned, Ide!Drives, Ide!Lbas, Ide!Refused,
    Ide!Word, InLimits, MediumRight, On, Present, Refused
<1>4. (Reading /\ Writing /\ WritingMultiple /\ Aborted /\ Filled)'
  BY <1>1, <1>2, <1>a DEF Aborted, Asked, Asking, Asks, Base, Drive, Executed, Filled, On, Present,
    Reading, Refused, Running, Writing, WritingMultiple
<1>5. (MemoryRead /\ MovedFits /\ DmaOver)'
  BY <1>1, <1>2, <1>a DEF Asked, Asking, AtTransfer, DmaOver, Drive, MemoryRead, MovedFits, On,
    Present
<1>6. (Control /\ Fresh)'
  BY <1>1, <1>2, <1>a, <1>d DEF AllCommands, Asked, Asking, Asks, AtAnswer, AtEnd, AtTransfer,
    Control, Drive, DriverSteps, Executed, Fresh, IdeTyped, InDma, MasterStarts, On, Present,
    Registers, Steps, Transfers
<1>7. (BufferRead /\ BufferPacket /\ BufferWritten)'
  BY <1>1, <1>2, <1>a DEF Base, BufferPacket, BufferRead, BufferWritten, Drive, On, Present
<1>IdeTyped. IdeTyped'
  BY SMTT(60), <1>1, <1>2, <1>b, <1>d, <1>f DEF AllCommands, DriverSteps, IdeTyped, InDma,
    Registers, Steps
<1>OneHasCommand. OneHasCommand'
  BY <1>1, <1>2 DEF OneHasCommand
<1>OneHasTransfer. OneHasTransfer'
  BY <1>1, <1>2 DEF AtTransfer, OneHasTransfer
<1>PacketPhases. PacketPhases'
  BY <1>1, <1>2, <1>a DEF Asked, Asking, Asks, AtAnswer, AtTransfer, Drive, Executed, MasterStarts,
    On, PacketPhases, Present, Refused, Running, Transfers
<1>Sizes. Sizes'
  BY <1>2, <1>b, <1>d DEF AtTransfer, Sizes, Transfers
<1>BufferDma. BufferDma'
  BY <1>1, <1>2, <1>e, <1>a, <1>f DEF AtTransfer, BufferDma, Transfers
<1>MemoryWritten. MemoryWritten'
  BY <1>1, <1>2 DEF Asked, Asking, AtTransfer, DmaOver, Drive, MemoryWritten, On, Present, Transfers
<1> QED
  BY <1>3, <1>4, <1>5, <1>6, <1>7, <1>IdeTyped, <1>OneHasCommand, <1>OneHasTransfer,
    <1>PacketPhases, <1>Sizes, <1>BufferDma, <1>MemoryWritten DEF IdeInv

(* A packet that asks for nothing is over. *)
LEMMA StepPacketEmpty ==
  ASSUME IdeInv,
         Ide!ExecutePacket, ideBuffer[1] = 0, 0 \in 0 .. IdeCountMax
  PROVE  IdeInv'
<1>1. /\ idePc = "run" /\ Drive.inProgress /\ Present /\ ideRegs.cmd \in Ide!Packets
       /\ idePhase = "packet" /\ ~Ide!Refused(ideRegs.cmd, ideKind[ideSelected])
      /\ idePc' = "raise" /\ ideAfter' = "packetDone" /\ idePhase' = "idle"
  BY AbortsIs DEF Ide!ThreadOnly, Ide!Goto, Ide!RaiseThen, Ide!disks, Ide!busMaster,
    Ide!ExecutePacket,
    Ide!Executes, Ide!Running, Ide!St, Drive, Present
<1>2. UNCHANGED <<ideActive, ideBmIntr, ideBuffer, ideCpu, ideIrq, ideJob, ideKind, ideMedium,
                  ideMemory, ideMoved, idePrd, idePtr, ideRegs, ideSelected, ideSem, ideSize,
                  ideWants>>
  BY DEF Ide!ThreadOnly, Ide!Goto, Ide!RaiseThen, Ide!disks, Ide!busMaster, Ide!ExecutePacket,
    Ide!Executes, Ide!Running, Ide!St, Drive, Present
<1>e. \A k \in Int : Ide!Expected(k)' = Ide!Expected(k)
  BY <1>1, <1>2 DEF Ide!Expected
<1>t. At' = At
  BY <1>2 DEF At
<1>s. Drive' = [busy |-> FALSE, drq |-> FALSE, err |-> Drive.err, inProgress |-> Drive.inProgress, cycle |-> Drive.cycle] /\ ideStatus' \in [Ide!Drives -> Ide!Status]
  <2>1. ideStatus' = [ideStatus EXCEPT ![ideSelected] = [busy |-> FALSE, drq |-> FALSE, err |-> Drive.err, inProgress |-> Drive.inProgress, cycle |-> Drive.cycle]]
    BY Merged DEF Ide!ThreadOnly, Ide!Goto, Ide!RaiseThen, Ide!disks, Ide!busMaster,
      Ide!ExecutePacket, Ide!Executes, Ide!Running, Ide!St, Drive, Present, Ide!Set, Ide!St, Drive,
      IdeTyped, Ide!Status
  <2> QED BY <2>1, <1>2 DEF IdeTyped, Drive, Ide!Status
<1>a. On /\ ideJob.cmd = ideRegs.cmd /\ ~Drive.drq /\ Drive.busy
       /\ ideCpu \notin {"idle", "command", "readyWait", "wake", "data"}
      /\ ideSem["controller"] = 0
  BY <1>1 DEF Asks, IdeTyped, Control, Asking, Asked, On, Present, OneHasCommand
<1>b. /\ ideJob.done = 1 /\ idePtr = 1 /\ ideBuffer[1] = ideJob.total - 1 /\ Base = 0
      /\ ideJob.total - 1 \in 0 .. IdeCountMax /\ ideJob.total \in Nat /\ ideJob.lba \in Nat
  <2>1. ideJob.done = 1 /\ idePtr = 1 /\ ideBuffer[1] = ideJob.total - 1
    BY <1>1, <1>a DEF Asks, PacketPhases, Asked
  <2>2. ideJob.total - 1 \in 0 .. IdeCountMax
    BY <1>1, <1>a DEF InLimits
  <2> QED BY <2>1, <2>2 DEF IdeTyped, Base
<1>3. (InLimits /\ BufferWritten)'
  BY SMTT(60), <1>2 DEF Base, BufferWritten, Ide!Aligned, Ide!Refused, Ide!Word, InLimits, On,
    Present, Refused
<1>4. (Aborted /\ BufferRead /\ BufferPacket /\ Sizes /\ BufferDma)'
  BY <1>1, <1>2, <1>s, <1>a DEF Aborted, Asked, Asking, Asks, AtTransfer, Base, BufferDma,
    BufferPacket, BufferRead, Drive, Executed, On, Present, Refused, Sizes, Transfers
<1>5. (MemoryRead /\ MemoryWritten /\ MovedFits /\ DmaOver)'
  BY SMTT(60), <1>1, <1>2, <1>a DEF Asked, Asking, AtTransfer, DmaOver, Drive, MemoryRead,
    MemoryWritten, MovedFits, On, Present, Transfers
<1>6. (Reading /\ Writing /\ WritingMultiple)'
  BY <1>1, <1>2, <1>s DEF AllCommands, Asked, Asking, Asks, AtAnswer, AtEnd, AtTransfer, Base,
    Control, Drive, Executed, MasterStarts, On, Present, Reading, Refused, Running, Transfers,
    Writing, WritingMultiple
<1>IdeTyped. IdeTyped'
  BY SMTT(60), <1>1, <1>2, <1>s DEF AllCommands, DriverSteps, IdeTyped, InDma, Registers, Steps
<1>OneHasCommand. OneHasCommand'
  BY <1>1, <1>2 DEF OneHasCommand
<1>OneHasTransfer. OneHasTransfer'
  BY <1>1, <1>2 DEF AtTransfer, OneHasTransfer
<1>Control. Control'
  BY <1>1, <1>2, <1>s, <1>a DEF AllCommands, Asked, Asking, Asks, AtAnswer, AtEnd, AtTransfer,
    Control, Drive, DriverSteps, Executed, IdeTyped, InDma, MasterStarts, On, PacketPhases, Present,
    Refused, Registers, Running, Steps, Transfers
<1>Fresh. Fresh'
  BY <1>1, <1>2 DEF Drive, Executed, Fresh, On, Present
<1>PacketPhases. PacketPhases'
  BY <1>1, <1>2, <1>s, <1>a DEF Asked, Asking, Asks, AtAnswer, AtTransfer, Drive, Executed,
    MasterStarts, On, PacketPhases, Present, Refused, Running, Transfers
<1>Filled. Filled'
  BY <1>2, <1>s DEF Asks, Drive, Executed, Filled, On, Present
<1>MediumRight. MediumRight'
  <2>1. ideCpu # "idle" => Count' = Count
    BY <1>2 DEF Base, Count, Drive
  <2> QED BY <1>1, <1>2, <2>1, MediumKept
<1> QED
  BY <1>3, <1>4, <1>5, <1>6, <1>IdeTyped, <1>OneHasCommand, <1>OneHasTransfer, <1>Control, <1>Fresh,
    <1>PacketPhases, <1>Filled, <1>MediumRight DEF IdeInv

(* The answer to a packet goes into the buffer, for the data register. *)
LEMMA StepPacketData ==
  ASSUME IdeInv,
         NEW n, n = ideBuffer[1], n # 0, n \in 0 .. IdeCountMax, Ide!ExecutePacket,
         ideRegs.cmd = "packet"
  PROVE  IdeInv'
<1>0. /\ ideBuffer' = Ide!Filled(Ide!Contents(ideSelected, ideJob.lba, n))
  BY DEF Ide!ThreadOnly, Ide!Goto, Ide!RaiseThen, Ide!disks, Ide!busMaster, Ide!ExecutePacket,
    Ide!Executes, Ide!Running, Ide!St, Drive, Present
<1>1. /\ idePc = "run" /\ Drive.inProgress /\ Present /\ ideRegs.cmd \in Ide!Packets
       /\ idePhase = "packet" /\ ~Ide!Refused(ideRegs.cmd, ideKind[ideSelected])
      /\ idePc' = "raise" /\ ideAfter' = "packetData" /\ idePtr' = 0 /\ ideSize' = n
  BY AbortsIs DEF Ide!ThreadOnly, Ide!Goto, Ide!RaiseThen, Ide!disks, Ide!busMaster,
    Ide!ExecutePacket,
    Ide!Executes, Ide!Running, Ide!St, Drive, Present
<1>2. UNCHANGED <<ideActive, ideBmIntr, ideCpu, ideIrq, ideJob, ideKind, ideMedium, ideMemory,
                  ideMoved, idePhase, idePrd, ideRegs, ideSelected, ideSem, ideWants>>
  BY DEF Ide!ThreadOnly, Ide!Goto, Ide!RaiseThen, Ide!disks, Ide!busMaster, Ide!ExecutePacket,
    Ide!Executes, Ide!Running, Ide!St, Drive, Present
<1>e. \A k \in Int : Ide!Expected(k)' = Ide!Expected(k)
  BY <1>1, <1>2 DEF Ide!Expected
<1>t. At' = At
  BY <1>2 DEF At
<1>s. Drive' = [busy |-> FALSE, drq |-> TRUE, err |-> Drive.err, inProgress |-> Drive.inProgress, cycle |-> Drive.cycle] /\ ideStatus' \in [Ide!Drives -> Ide!Status]
  <2>1. ideStatus' = [ideStatus EXCEPT ![ideSelected] = [busy |-> FALSE, drq |-> TRUE, err |-> Drive.err, inProgress |-> Drive.inProgress, cycle |-> Drive.cycle]]
    BY Merged DEF Ide!ThreadOnly, Ide!Goto, Ide!RaiseThen, Ide!disks, Ide!busMaster,
      Ide!ExecutePacket, Ide!Executes, Ide!Running, Ide!St, Drive, Present, Ide!Set, Ide!St, Drive,
      IdeTyped, Ide!Status
  <2> QED BY <2>1, <1>2 DEF IdeTyped, Drive, Ide!Status
<1>a. On /\ ideJob.cmd = ideRegs.cmd /\ ~Drive.drq /\ Drive.busy
       /\ ideCpu \notin {"idle", "command", "readyWait", "wake", "data"}
      /\ ideSem["controller"] = 0
  BY <1>1 DEF Asks, IdeTyped, Control, Asking, Asked, On, Present, OneHasCommand
<1>b. /\ ideJob.done = 1 /\ idePtr = 1 /\ ideBuffer[1] = ideJob.total - 1 /\ Base = 0
      /\ ideJob.total - 1 \in 0 .. IdeCountMax /\ ideJob.total \in Nat /\ ideJob.lba \in Nat
  <2>1. ideJob.done = 1 /\ idePtr = 1 /\ ideBuffer[1] = ideJob.total - 1
    BY <1>1, <1>a DEF Asks, PacketPhases, Asked
  <2>2. ideJob.total - 1 \in 0 .. IdeCountMax
    BY <1>1, <1>a DEF InLimits
  <2> QED BY <2>1, <2>2 DEF IdeTyped, Base
<1>f. /\ n \in 1 .. IdeCountMax /\ n \in Nat
      /\ ideBuffer' \in [1 .. IdeCountMax -> Int]
      /\ \A i \in 1 .. n : ideBuffer'[i] = Ide!Expected(i - 1)
  <2>1. Count = 0 /\ ideJob.cmd # "identify"
    BY <1>1, <1>a DEF Count
  <2>2. n \in 1 .. IdeCountMax /\ n \in Nat /\ ideJob.lba + 0 = ideJob.lba
    BY <1>b, Parameters
  <2>3. /\ ideBuffer' \in [1 .. IdeCountMax -> Int]
        /\ \A i \in 1 .. n : ideBuffer'[i] = Ide!Expected(0 + i - 1)
    BY <1>0, <1>b, <2>1, <2>2, ReadIn
  <2> QED BY <2>2, <2>3
<1>InLimits. InLimits'
  BY SMTT(60), <1>2 DEF Ide!Aligned, Ide!Refused, InLimits, On, Present, Refused
<1>3. (Reading /\ Writing /\ WritingMultiple /\ PacketPhases /\ Aborted)'
  BY <1>1, <1>2, <1>a DEF Aborted, Asked, Asking, Asks, AtAnswer, AtTransfer, Base, Drive, Executed,
    MasterStarts, On, PacketPhases, Present, Reading, Refused, Running, Transfers, Writing,
    WritingMultiple
<1>4. (MemoryRead /\ MemoryWritten /\ MovedFits /\ DmaOver)'
  BY <1>1, <1>2, <1>a DEF Asked, Asking, AtTransfer, DmaOver, Drive, MemoryRead, MemoryWritten,
    MovedFits, On, Present, Transfers
<1>5. (Control /\ Fresh)'
  BY <1>1, <1>2, <1>a DEF AllCommands, Asked, Asking, Asks, AtAnswer, AtEnd, AtTransfer, Control,
    Drive, Executed, Fresh, MasterStarts, On, Present, Transfers
<1>6. (Sizes /\ BufferDma)'
  BY <1>1, <1>2 DEF AtTransfer, BufferDma, Sizes, Transfers
<1>IdeTyped. IdeTyped'
  BY SMTT(60), <1>1, <1>2, <1>s, <1>f, Parameters DEF AllCommands, DriverSteps, IdeTyped, InDma,
    Registers, Steps
<1>OneHasCommand. OneHasCommand'
  BY <1>1, <1>2 DEF OneHasCommand
<1>OneHasTransfer. OneHasTransfer'
  BY <1>1, <1>2 DEF AtTransfer, OneHasTransfer
<1>Filled. Filled'
  BY <1>1, <1>2, <1>s, <1>a, <1>f DEF Asks, Drive, Executed, Filled, On, Present
<1>BufferRead. BufferRead'
  BY <1>2, <1>a DEF Base, BufferRead, Drive, On, Present
<1>BufferPacket. BufferPacket'
  BY <1>1, <1>2, <1>e, <1>b, <1>f DEF Base, BufferPacket, Drive, On, Present
<1>BufferWritten. BufferWritten'
  BY <1>1, <1>2, <1>b DEF Base, BufferWritten, On, Present
<1>MediumRight. MediumRight'
  <2>1. ideCpu # "idle" => Count' = Count
    BY <1>2, <1>a DEF Base, Count, Drive
  <2> QED BY <1>1, <1>2, <2>1, MediumKept
<1> QED
  BY <1>InLimits, <1>3, <1>4, <1>5, <1>6, <1>IdeTyped, <1>OneHasCommand, <1>OneHasTransfer,
    <1>Filled, <1>BufferRead, <1>BufferPacket, <1>BufferWritten, <1>MediumRight DEF IdeInv

(* The answer to a packet goes into the buffer, for the bus master. *)
LEMMA StepPacketDma ==
  ASSUME IdeInv,
         NEW n, n = ideBuffer[1], n # 0, n \in 0 .. IdeCountMax, Ide!ExecutePacket,
         ideRegs.cmd = "packetDma"
  PROVE  IdeInv'
<1>0. /\ ideBuffer' = Ide!Filled(Ide!Contents(ideSelected, ideJob.lba, n))
  BY DEF Ide!ThreadOnly, Ide!Goto, Ide!RaiseThen, Ide!disks, Ide!busMaster, Ide!ExecutePacket,
    Ide!Executes, Ide!Running, Ide!St, Drive, Present
<1>1. /\ idePc = "run" /\ Drive.inProgress /\ Present /\ ideRegs.cmd \in Ide!Packets
       /\ idePhase = "packet" /\ ~Ide!Refused(ideRegs.cmd, ideKind[ideSelected])
      /\ idePc' = "masterWait" /\ idePtr' = 0 /\ ideSize' = n
  BY AbortsIs DEF Ide!ThreadOnly, Ide!Goto, Ide!RaiseThen, Ide!disks, Ide!busMaster,
    Ide!ExecutePacket,
    Ide!Executes, Ide!Running, Ide!St, Drive, Present
<1>2. UNCHANGED <<ideActive, ideAfter, ideBmIntr, ideCpu, ideIrq, ideJob, ideKind, ideMedium,
                  ideMemory, ideMoved, idePhase, idePrd, ideRegs, ideSelected, ideSem, ideWants>>
  BY DEF Ide!ThreadOnly, Ide!Goto, Ide!RaiseThen, Ide!disks, Ide!busMaster, Ide!ExecutePacket,
    Ide!Executes, Ide!Running, Ide!St, Drive, Present
<1>e. \A k \in Int : Ide!Expected(k)' = Ide!Expected(k)
  BY <1>1, <1>2 DEF Ide!Expected
<1>t. At' = At
  BY <1>2 DEF At
<1>s. Drive' = [busy |-> TRUE, drq |-> FALSE, err |-> Drive.err, inProgress |-> Drive.inProgress, cycle |-> Drive.cycle] /\ ideStatus' \in [Ide!Drives -> Ide!Status]
  <2>1. ideStatus' = [ideStatus EXCEPT ![ideSelected] = [busy |-> TRUE, drq |-> FALSE, err |-> Drive.err, inProgress |-> Drive.inProgress, cycle |-> Drive.cycle]]
    BY Merged DEF Ide!ThreadOnly, Ide!Goto, Ide!RaiseThen, Ide!disks, Ide!busMaster,
      Ide!ExecutePacket, Ide!Executes, Ide!Running, Ide!St, Drive, Present, Ide!Set, Ide!St, Drive,
      IdeTyped, Ide!Status
  <2> QED BY <2>1, <1>2 DEF IdeTyped, Drive, Ide!Status
<1>a. On /\ ideJob.cmd = ideRegs.cmd /\ ~Drive.drq /\ Drive.busy
       /\ ideCpu \notin {"idle", "command", "readyWait", "wake", "data"}
      /\ ideSem["controller"] = 0
  BY <1>1 DEF Asks, IdeTyped, Control, Asking, Asked, On, Present, OneHasCommand
<1>b. /\ ideJob.done = 1 /\ idePtr = 1 /\ ideBuffer[1] = ideJob.total - 1 /\ Base = 0
      /\ ideJob.total - 1 \in 0 .. IdeCountMax /\ ideJob.total \in Nat /\ ideJob.lba \in Nat
  <2>1. ideJob.done = 1 /\ idePtr = 1 /\ ideBuffer[1] = ideJob.total - 1
    BY <1>1, <1>a DEF Asks, PacketPhases, Asked
  <2>2. ideJob.total - 1 \in 0 .. IdeCountMax
    BY <1>1, <1>a DEF InLimits
  <2> QED BY <2>1, <2>2 DEF IdeTyped, Base
<1>f. /\ n \in 1 .. IdeCountMax /\ n \in Nat
      /\ ideBuffer' \in [1 .. IdeCountMax -> Int]
      /\ \A i \in 1 .. n : ideBuffer'[i] = Ide!Expected(i - 1)
  <2>1. Count = 0 /\ ideJob.cmd # "identify"
    BY <1>1, <1>a DEF Count
  <2>2. n \in 1 .. IdeCountMax /\ n \in Nat /\ ideJob.lba + 0 = ideJob.lba
    BY <1>b, Parameters
  <2>3. /\ ideBuffer' \in [1 .. IdeCountMax -> Int]
        /\ \A i \in 1 .. n : ideBuffer'[i] = Ide!Expected(0 + i - 1)
    BY SMTT(60), <1>0, <1>b, <2>1, <2>2, ReadIn
  <2> QED BY <2>2, <2>3
<1>InLimits. InLimits'
  BY SMTT(60), <1>2 DEF Ide!Aligned, Ide!Refused, InLimits, On, Present, Refused
<1>3. (Reading /\ Writing /\ WritingMultiple /\ PacketPhases /\ Aborted)'
  BY <1>1, <1>2, <1>s, <1>a DEF Aborted, Asked, Asking, Asks, AtAnswer, AtTransfer, Base, Drive,
    Executed, MasterStarts, On, PacketPhases, Present, Reading, Refused, Running, Transfers,
    Writing, WritingMultiple
<1>4. (MemoryRead /\ MemoryWritten /\ MovedFits /\ DmaOver)'
  BY SMTT(60), <1>1, <1>2, <1>a DEF Asked, Asking, AtTransfer, DmaOver, Drive, MemoryRead,
    MemoryWritten, MovedFits, On, Present, Transfers
<1>5. (Control /\ Fresh)'
  BY <1>1, <1>2, <1>s, <1>a DEF AllCommands, Asked, Asking, Asks, AtAnswer, AtEnd, AtTransfer,
    Control, Drive, DriverSteps, Executed, Fresh, IdeTyped, InDma, MasterStarts, On, Present,
    Registers, Steps, Transfers
<1>IdeTyped. IdeTyped'
  BY SMTT(60), <1>1, <1>2, <1>s, <1>f, Parameters DEF AllCommands, DriverSteps, IdeTyped, InDma,
    Registers, Steps
<1>OneHasCommand. OneHasCommand'
  BY <1>1, <1>2 DEF OneHasCommand
<1>OneHasTransfer. OneHasTransfer'
  BY <1>1, <1>2 DEF AtTransfer, OneHasTransfer
<1>Filled. Filled'
  BY <1>2, <1>s DEF Asks, Drive, Executed, Filled, On, Present
<1>BufferRead. BufferRead'
  BY <1>2, <1>a DEF Base, BufferRead, Drive, On, Present
<1>BufferPacket. BufferPacket'
  BY <1>1, <1>2, <1>e, <1>b, <1>f DEF Base, BufferPacket, Drive, On, Present
<1>BufferWritten. BufferWritten'
  BY <1>1, <1>2, <1>b DEF Base, BufferWritten, On, Present
<1>Sizes. Sizes'
  BY <1>2, <1>a DEF AtTransfer, Sizes, Transfers
<1>BufferDma. BufferDma'
  BY <1>1, <1>2, <1>e, <1>f DEF AtTransfer, BufferDma, Transfers
<1>MediumRight. MediumRight'
  <2>1. ideCpu # "idle" => Count' = Count
    BY <1>2, <1>a DEF Base, Count, Drive
  <2> QED BY <1>1, <1>2, <2>1, MediumKept
<1> QED
  BY <1>InLimits, <1>3, <1>4, <1>5, <1>IdeTyped, <1>OneHasCommand, <1>OneHasTransfer, <1>Filled,
    <1>BufferRead, <1>BufferPacket, <1>BufferWritten, <1>Sizes, <1>BufferDma, <1>MediumRight DEF
    IdeInv

(* A descriptor moves its sectors between the memory and the buffer. *)
LEMMA StepReadDescriptor ==
  ASSUME IdeInv,
         NEW n, n = Ide!Fits(Head(idePrd)), Ide!ReadDescriptor
  PROVE  IdeInv'
<1>0. /\ idePrd' = IF Head(idePrd) > n THEN Append(Tail(idePrd), 0) ELSE Tail(idePrd)
      /\ IF ideRegs.cmd = "writeDma" THEN ideBuffer' = [i \in DOMAIN ideBuffer |-> IF i \in ideMoved + 1 .. ideMoved + n THEN ideMemory[i] ELSE ideBuffer[i]] /\ ideMemory' = ideMemory ELSE ideMemory' = ideMemory \o SubSeq(ideBuffer, ideMoved + 1, ideMoved + n) /\ ideBuffer' = ideBuffer
  BY DEF Ide!ReadDescriptor, Ide!disks
<1>1. /\ idePc = "prd" /\ idePrd # <<>> /\ ideMoved < ideSize
      /\ ideMoved' = ideMoved + n
  BY DEF Ide!ReadDescriptor, Ide!disks
<1>2. UNCHANGED <<ideActive, ideAfter, ideBmIntr, ideCpu, ideIrq, ideJob, ideKind, ideMedium, idePc,
                  idePhase, idePtr, ideRegs, ideSelected, ideSem, ideSize, ideStatus, ideWants>>
  BY DEF Ide!ReadDescriptor, Ide!disks
<1>e. \A k \in Int : Ide!Expected(k)' = Ide!Expected(k)
  BY <1>1, <1>2 DEF Ide!Expected
<1>t. At' = At
  BY <1>2 DEF At
<1>a. On /\ ideCpu = "issued" /\ ideJob.cmd = ideRegs.cmd /\ ideJob.cmd \in Ide!Dma
       /\ ~Drive.drq /\ ~Asked /\ Transfers /\ AtTransfer
  BY <1>1 DEF Asks, Control, Transfers, AtTransfer, On, Present, Asked, OneHasCommand
<1>b. /\ n \in Nat /\ ideMoved \in Nat /\ ideSize \in Nat /\ ideSize <= IdeCountMax
       /\ ideMoved + n <= ideSize /\ ideMoved + n \in 0 .. IdeCountMax
      /\ idePrd' \in Seq(Nat) /\ IdeCountMax \in Nat
  <2>1. /\ idePrd \in Seq(Nat) /\ idePrd # <<>> /\ ideSize \in Nat /\ ideMoved \in Nat
         /\ ideSize <= IdeCountMax /\ IdeCountMax \in Nat
    BY <1>1, Parameters DEF IdeTyped
  <2>2. Head(idePrd) \in Nat /\ Tail(idePrd) \in Seq(Nat)
    BY <2>1, HeadTailProperties
  <2>3. n \in Nat /\ n <= ideSize - ideMoved
    BY <1>1, <2>1, <2>2 DEF Ide!Fits, Ide!Least
  <2>4. Append(Tail(idePrd), 0) \in Seq(Nat)
    BY <2>2
  <2> QED BY SMTT(60), <1>0, <2>1, <2>2, <2>3, <2>4
<1>d. /\ ideBuffer' \in [1 .. IdeCountMax -> Int] /\ ideMemory' \in Seq(Int)
      /\ ideJob.cmd = "writeDma" => ideMemory' = ideMemory
          /\ \A i \in 1 .. ideMoved + n : ideBuffer'[i] = Ide!Word(ideJob, i - 1)
      /\ ideJob.cmd \in {"readDma", "packetDma"} =>
           /\ ideBuffer' = ideBuffer /\ Len(ideMemory') = ideMoved + n
           /\ \A i \in 1 .. Len(ideMemory') : ideMemory'[i] = Ide!Expected(i - 1)
  <2>1. ideBuffer \in [1 .. IdeCountMax -> Int] /\ ideMemory \in Seq(Int)
    BY DEF IdeTyped
  <2>2. CASE ideJob.cmd = "writeDma"
    <3>1. /\ ideMemory' = ideMemory
          /\ ideBuffer' = [i \in 1 .. IdeCountMax |-> IF i \in ideMoved + 1 .. ideMoved + n THEN ideMemory[i] ELSE ideBuffer[i]]
      BY <1>0, <1>a, <2>1, <2>2
    <3>2. /\ Len(ideMemory) = ideJob.total
           /\ \A i \in 1 .. ideJob.total : ideMemory[i] = Ide!Word(ideJob, i - 1)
          /\ \A i \in 1 .. ideMoved : ideBuffer[i] = Ide!Word(ideJob, i - 1)
      BY <1>1, <1>a, <2>2 DEF MemoryWritten
    <3>3. ideSize = ideJob.total
      BY <1>a, <2>2 DEF Sizes
    <3>4. \A i \in ideMoved + 1 .. ideMoved + n : i \in 1 .. Len(ideMemory) /\ ideMemory[i] \in Int
      <4>1. \A i \in ideMoved + 1 .. ideMoved + n : i \in 1 .. Len(ideMemory)
        BY <1>b, <3>2, <3>3
      <4>2. \A i \in 1 .. Len(ideMemory) : ideMemory[i] \in Int
        BY <2>1
      <4> QED BY <4>1, <4>2
    <3>5. \A i \in 1 .. ideMoved + n : i \in 1 .. IdeCountMax
           /\ (i \in ideMoved + 1 .. ideMoved + n \/ i \in 1 .. ideMoved)
      BY <1>b
    <3>6. ideBuffer' \in [1 .. IdeCountMax -> Int]
      BY <2>1, <3>1, <3>4
    <3>7. \A i \in 1 .. ideMoved + n : ideBuffer'[i] = Ide!Word(ideJob, i - 1)
      BY <3>1, <3>2, <3>4, <3>5
    <3> QED BY <2>1, <2>2, <3>1, <3>6, <3>7
  <2>3. CASE ideJob.cmd # "writeDma"
    <3> DEFINE s == SubSeq(ideBuffer, ideMoved + 1, ideMoved + n)
    <3>1. ideMemory' = ideMemory \o s /\ ideBuffer' = ideBuffer
      BY <1>0, <1>a, <2>3
    <3>2. ideJob.cmd \in {"readDma", "packetDma"}
      BY <1>a, <2>3
    <3>3. s \in Seq(Int) /\ Len(s) = n /\ \A i \in 1 .. n : s[i] = ideBuffer[ideMoved + i]
      <4>1. ideBuffer \in Seq(Int) /\ Len(ideBuffer) = IdeCountMax
        BY <1>b, <2>1
      <4>2. \A i \in ideMoved + 1 .. ideMoved + n : i \in 1 .. Len(ideBuffer)
        BY <1>b, <4>1
      <4>3. (ideMoved + n) - (ideMoved + 1) + 1 = n
             /\ (IF ideMoved + 1 <= ideMoved + n THEN (ideMoved + n) - (ideMoved + 1) + 1 ELSE 0) = n
        BY <1>b
      <4>4. /\ s \in Seq(Int)
            /\ Len(s) = IF ideMoved + 1 <= ideMoved + n THEN (ideMoved + n) - (ideMoved + 1) + 1 ELSE 0
            /\ \A i \in 1 .. (ideMoved + n) - (ideMoved + 1) + 1 : s[i] = ideBuffer[ideMoved + 1 + i - 1]
        BY <1>b, <4>1, <4>2, SubSeqProperties
      <4>5. \A i \in 1 .. n : ideMoved + 1 + i - 1 = ideMoved + i
        BY <1>b
      <4> QED BY <4>3, <4>4, <4>5
    <3> HIDE DEF s
    <3>4. /\ Len(ideMemory) = ideMoved
           /\ \A i \in 1 .. Len(ideMemory) : ideMemory[i] = Ide!Expected(i - 1)
      BY <1>a, <3>2 DEF MemoryRead
    <3>5. \A i \in 1 .. ideSize : ideBuffer[i] = Ide!Expected(i - 1)
      BY <1>a, <3>2 DEF BufferDma
    <3>6. /\ ideMemory' \in Seq(Int) /\ Len(ideMemory') = ideMoved + n
          /\ \A i \in 1 .. ideMoved + n : ideMemory'[i] = IF i <= ideMoved THEN ideMemory[i] ELSE s[i - ideMoved]
      <4>1. ideMemory \in Seq(Int)
        BY DEF IdeTyped
      <4>2. /\ ideMemory \o s \in Seq(Int) /\ Len(ideMemory \o s) = Len(ideMemory) + Len(s)
            /\ \A i \in 1 .. Len(ideMemory) + Len(s) :
                 (ideMemory \o s)[i] = IF i <= Len(ideMemory) THEN ideMemory[i] ELSE s[i - Len(ideMemory)]
        BY <3>3, <4>1, ConcatProperties
      <4> QED BY <3>1, <3>3, <3>4, <4>2
    <3>7. ASSUME NEW i \in 1 .. ideMoved + n PROVE ideMemory'[i] = Ide!Expected(i - 1)
      <4>1. CASE i <= ideMoved
        <5>1. i \in 1 .. Len(ideMemory) /\ ideMemory'[i] = ideMemory[i]
          BY <1>b, <3>4, <3>6, <4>1
        <5> QED BY <3>4, <5>1
      <4>2. CASE i > ideMoved
        <5>1. i - ideMoved \in 1 .. n /\ ideMoved + (i - ideMoved) = i /\ i \in 1 .. ideSize
          BY <1>b, <4>2
        <5>2. ideMemory'[i] = s[i - ideMoved]
          BY <1>b, <3>6, <4>2
        <5>3. s[i - ideMoved] = ideBuffer[i]
          BY <3>3, <5>1
        <5> QED BY <3>5, <5>1, <5>2, <5>3
      <4> QED BY <1>b, <4>1, <4>2
    <3> QED BY <2>1, <2>3, <3>1, <3>6, <3>7
  <2> QED BY <2>2, <2>3
<1>y. /\ ideBuffer' \in [1 .. IdeCountMax -> Int] /\ ideMemory' \in Seq(Int)
       /\ ideMoved' \in 0 .. IdeCountMax /\ idePrd' \in Seq(Nat)
  BY SMTT(60), <1>1, <1>b, <1>d
<1>3. (OneHasCommand /\ OneHasTransfer /\ Control /\ Fresh /\ InLimits /\ Reading /\ Writing
       /\ WritingMultiple /\ Aborted /\ Filled /\ Sizes /\ DmaOver /\ MediumRight)'
  BY SMTT(60), <1>2 DEF Aborted, AllCommands, Asked, Asking, Asks, At, AtAnswer, AtEnd, AtTransfer,
    Base, Control, Count, DmaOver, Drive, Executed, Filled, Fresh, Ide!Aligned, Ide!Drives, Ide!Lba,
    Ide!Lbas, Ide!Refused, Ide!Word, InLimits, MasterStarts, MediumRight, On, OneHasCommand,
    OneHasTransfer, Present, Reading, Refused, Running, Sizes, Transfers, Writing, WritingMultiple
<1>IdeTyped. IdeTyped'
  BY ZenonT(60), <1>1, <1>2, <1>y DEF IdeTyped, Steps
<1>PacketPhases. PacketPhases'
  BY <1>1, <1>2, <1>a DEF Asks, PacketPhases, Asked, Asking, AtAnswer, Running, Executed, Drive, On,
    Present, MasterStarts, Refused
<1>BufferRead. BufferRead'
  BY <1>1, <1>2, <1>a DEF BufferRead, Drive
<1>BufferPacket. BufferPacket'
  BY <1>1, <1>2, <1>a DEF BufferPacket, Drive
<1>BufferWritten. BufferWritten'
  BY <1>1, <1>2, <1>a DEF BufferWritten
<1>BufferDma. BufferDma'
  <2>1. ASSUME ideJob.cmd \in {"readDma", "packetDma"}
        PROVE  \A i \in 1 .. ideSize : ideBuffer'[i] = Ide!Expected(i - 1)'
    <3>1. \A i \in 1 .. ideSize : ideBuffer[i] = Ide!Expected(i - 1)
      BY <1>a, <2>1 DEF BufferDma
    <3>2. \A i \in 1 .. ideSize : Ide!Expected(i - 1)' = Ide!Expected(i - 1)
      <4>1. ASSUME NEW i \in 1 .. ideSize PROVE Ide!Expected(i - 1)' = Ide!Expected(i - 1)
        BY <1>e
      <4> QED BY <4>1
    <3>3. ideBuffer' = ideBuffer
      BY <1>d, <2>1
    <3> QED BY <3>1, <3>2, <3>3
  <2> QED BY <1>2, <2>1 DEF BufferDma
<1>MemoryRead. MemoryRead'
  <2>1. ideJob.cmd \in {"readDma", "packetDma"} =>
          (\A i \in 1 .. Len(ideMemory) : ideMemory[i] = Ide!Expected(i - 1))'
              /\ Len(ideMemory') = ideMoved'
    <3>1. ASSUME ideJob.cmd \in {"readDma", "packetDma"}, NEW i \in 1 .. Len(ideMemory')
          PROVE  ideMemory'[i] = Ide!Expected(i - 1)'
      BY <1>d, <1>e, <3>1
    <3> QED BY <1>1, <1>d, <3>1
  <2>2. ideJob' = ideJob /\ ~Asking' /\ idePc' # "masterWait" /\ ideCpu' # "command"
    BY <1>1, <1>2, <1>a DEF Asking, Asked
  <2>3. ideJob.cmd = "packetDma" => ideJob.done # 0
    BY <1>a DEF Asks, PacketPhases
  <2> QED BY <2>1, <2>2, <2>3 DEF MemoryRead
<1>MemoryWritten. MemoryWritten'
  BY <1>1, <1>2, <1>a, <1>d DEF MemoryWritten, Transfers, AtTransfer
<1>MovedFits. MovedFits'
  BY <1>1, <1>2, <1>b DEF MovedFits
<1> QED
  BY <1>3, <1>IdeTyped, <1>PacketPhases, <1>BufferRead, <1>BufferPacket, <1>BufferWritten,
    <1>BufferDma, <1>MemoryRead, <1>MemoryWritten, <1>MovedFits DEF IdeInv

(* READ DMA and WRITE DMA are over: what was to be written has been. *)
LEMMA StepDmaDone ==
  ASSUME IdeInv,
         Ide!DmaDone, ideRegs.cmd \notin Ide!Packets
  PROVE  IdeInv'
<1>0.
       /\ ideMedium' = IF ideRegs.cmd = "writeDma" THEN Ide!Written(ideSelected, Ide!Lba(ideRegs), ideSize) ELSE ideMedium
  BY DEF Ide!ThreadOnly, Ide!Goto, Ide!RaiseThen, Ide!disks, Ide!busMaster, Ide!DmaDone
<1>1. /\ idePc = "dmaDone" /\ ideRegs.cmd \notin Ide!Packets /\ idePc' = "finish"
  BY DEF Ide!ThreadOnly, Ide!Goto, Ide!RaiseThen, Ide!disks, Ide!busMaster, Ide!DmaDone
<1>2. UNCHANGED <<ideActive, ideAfter, ideBmIntr, ideBuffer, ideCpu, ideIrq, ideJob, ideKind,
                  ideMemory, ideMoved, idePhase, idePrd, idePtr, ideRegs, ideSelected, ideSem,
                  ideSize, ideWants>>
  BY DEF Ide!ThreadOnly, Ide!Goto, Ide!RaiseThen, Ide!disks, Ide!busMaster, Ide!DmaDone
<1>e. \A k \in Int : Ide!Expected(k)' = Ide!Expected(k)
  BY <1>1, <1>2 DEF Ide!Expected
<1>t. At' = At
  BY <1>2 DEF At
<1>s. Drive' = [busy |-> FALSE, drq |-> FALSE, err |-> FALSE, inProgress |-> FALSE, cycle |-> Drive.cycle] /\ ideStatus' \in [Ide!Drives -> Ide!Status]
  <2>1. ideStatus' = [ideStatus EXCEPT ![ideSelected] = [busy |-> FALSE, drq |-> FALSE, err |-> FALSE, inProgress |-> FALSE, cycle |-> Drive.cycle]]
    BY Merged DEF Ide!ThreadOnly, Ide!Goto, Ide!RaiseThen, Ide!disks, Ide!busMaster, Ide!DmaDone,
      Ide!Set, Ide!St, Drive, IdeTyped, Ide!Status
  <2> QED BY <2>1, <1>2 DEF IdeTyped, Drive, Ide!Status
<1>a. /\ On /\ ideCpu = "issued" /\ ideJob.cmd = ideRegs.cmd /\ ideJob.cmd \in Ide!Dma
       /\ ~Drive.drq /\ Drive.busy /\ ~Asking /\ Transfers
      /\ ideSem["master"] = 0 /\ ideSem["controller"] = 0
  BY <1>1 DEF Asks, IdeTyped, Control, Transfers, AtTransfer, On, Present, Asking, Asked,
    OneHasCommand
<1>m. /\ ideMedium' \in [Ide!Drives -> [Ide!Lbas -> Int]]
      /\ MediumRight'
  <2>1. CASE ideJob.cmd = "writeDma"
    <3>1. At = ideJob.lba /\ ideSize = ideJob.total
      BY <1>a, <2>1 DEF Sizes
    <3>2. /\ ideSize \in 0 .. IdeCountMax /\ ideSize \in Nat /\ ideJob.lba \in Nat
          /\ ideJob.lba + 0 = ideJob.lba /\ 0 + ideSize = ideSize
              /\ \A i \in 1 .. ideSize : 0 + i - 1 = i - 1
      BY Parameters DEF IdeTyped
    <3>3. \A i \in 1 .. ideSize : ideBuffer[i] = Ide!Word(ideJob, i - 1)
      BY <1>1, <1>a, <2>1 DEF MemoryWritten
    <3>4. Count = 0 /\ Count' = Count + ideSize
      BY <1>1, <1>2, <1>s, <1>a, <2>1, <3>1, <3>2 DEF Count
    <3>5. ideMedium' = Ide!Written(ideSelected, At, ideSize) /\ ideCpu # "idle" /\ ideCpu' = ideCpu
      BY <1>0, <1>2, <1>a, <2>1 DEF At
    <3>6. \A i \in 1 .. ideSize : ideBuffer[i] = Ide!Word(ideJob, Count + i - 1)
      BY <3>2, <3>3, <3>4
    <3>7. ideJob.lba \in Nat /\ At = ideJob.lba + Count /\ Count \in Nat
      BY <3>1, <3>2, <3>4
    <3> QED BY <1>2, <3>2, <3>4, <3>5, <3>6, <3>7, MediumGrows
  <2>2. CASE ideJob.cmd # "writeDma"
    <3>1. ideMedium' = ideMedium
      BY <1>0, <1>a, <2>2
    <3>2. Count' = Count
      BY <1>1, <1>2, <1>a, <2>2 DEF Count
    <3> QED BY <1>2, <3>1, <3>2, MediumKept DEF IdeTyped
  <2> QED BY <2>1, <2>2
<1>3. (InLimits /\ BufferWritten)'
  BY SMTT(60), <1>2 DEF Base, BufferWritten, Ide!Aligned, Ide!Refused, Ide!Word, InLimits, On,
    Present, Refused
<1>4. (OneHasCommand /\ OneHasTransfer /\ Control /\ Fresh /\ Writing)'
  BY SMTT(60), <1>1, <1>2 DEF AllCommands, Asked, Asking, Asks, AtAnswer, AtEnd, AtTransfer, Base,
    Control, Drive, Executed, Fresh, MasterStarts, On, OneHasCommand, OneHasTransfer, Present,
    Refused, Running, Transfers, Writing
<1>5. (WritingMultiple /\ PacketPhases /\ Aborted /\ Filled /\ BufferRead)'
  BY SMTT(60), <1>1, <1>2, <1>s, <1>t, <1>a DEF Aborted, Asked, Asking, Asks, AtAnswer, AtTransfer,
    Base, BufferRead, Drive, Executed, Filled, MasterStarts, On, PacketPhases, Present, Refused,
    Running, Transfers, WritingMultiple
<1>6. (BufferPacket /\ Sizes /\ BufferDma /\ MemoryRead /\ MemoryWritten)'
  BY <1>1, <1>2, <1>e, <1>a DEF Asked, Asking, AtTransfer, Base, BufferDma, BufferPacket, Drive,
    MemoryRead, MemoryWritten, On, Present, Sizes, Transfers
<1>7. (MovedFits /\ DmaOver)'
  BY <1>1, <1>2, <1>s DEF Asked, Asking, AtTransfer, DmaOver, Drive, MovedFits, On, Present
<1>Reading. Reading'
  BY <1>1, <1>2 DEF AllCommands, Asked, Asking, Asks, AtAnswer, AtEnd, AtTransfer, Base, Control,
    Drive, Executed, MasterStarts, On, Present, Reading, Refused, Running, Transfers
<1>IdeTyped. IdeTyped'
  BY <1>1, <1>2, <1>s, <1>m DEF IdeTyped, Steps
<1>MediumRight. MediumRight'
  BY <1>m
<1> QED BY <1>3, <1>4, <1>5, <1>6, <1>7, <1>Reading, <1>IdeTyped, <1>MediumRight

(* The transfer of a packet command is over. *)
LEMMA StepDmaDonePacket ==
  ASSUME IdeInv,
         Ide!DmaDone, ideRegs.cmd \in Ide!Packets
  PROVE  IdeInv'
<1>1. /\ idePc = "dmaDone" /\ ideRegs.cmd \in Ide!Packets /\ idePc' = "packetLast"
       /\ idePhase' = "idle"
  BY DEF Ide!ThreadOnly, Ide!Goto, Ide!RaiseThen, Ide!disks, Ide!busMaster, Ide!DmaDone
<1>2. UNCHANGED <<ideActive, ideAfter, ideBmIntr, ideBuffer, ideCpu, ideIrq, ideJob, ideKind, ideMedium,
                  ideMemory, ideMoved, idePrd, idePtr, ideRegs, ideSelected, ideSem, ideSize,
                  ideWants>>
  BY DEF Ide!ThreadOnly, Ide!Goto, Ide!RaiseThen, Ide!disks, Ide!busMaster, Ide!DmaDone
<1>e. \A k \in Int : Ide!Expected(k)' = Ide!Expected(k)
  BY <1>1, <1>2 DEF Ide!Expected
<1>t. At' = At
  BY <1>2 DEF At
<1>s. Drive' = [busy |-> FALSE, drq |-> TRUE, err |-> Drive.err, inProgress |-> Drive.inProgress, cycle |-> Drive.cycle] /\ ideStatus' \in [Ide!Drives -> Ide!Status]
  <2>1. ideStatus' = [ideStatus EXCEPT ![ideSelected] = [busy |-> FALSE, drq |-> TRUE, err |-> Drive.err, inProgress |-> Drive.inProgress, cycle |-> Drive.cycle]]
    BY Merged DEF Ide!ThreadOnly, Ide!Goto, Ide!RaiseThen, Ide!disks, Ide!busMaster, Ide!DmaDone,
      Ide!Set, Ide!St, Drive, IdeTyped, Ide!Status
  <2> QED BY <2>1, <1>2 DEF IdeTyped, Drive, Ide!Status
<1>a. /\ On /\ ideCpu = "issued" /\ ideJob.cmd = ideRegs.cmd /\ ideJob.cmd \in Ide!Dma
       /\ ~Drive.drq /\ Drive.busy /\ ~Asking /\ Transfers
      /\ ideSem["master"] = 0 /\ ideSem["controller"] = 0
  BY <1>1 DEF Asks, IdeTyped, Control, Transfers, AtTransfer, On, Present, Asking, Asked,
    OneHasCommand
<1>3. (InLimits /\ BufferWritten)'
  BY SMTT(60), <1>2 DEF Base, BufferWritten, Ide!Aligned, Ide!Refused, Ide!Word, InLimits, On,
    Present, Refused
<1>4. (Reading /\ WritingMultiple /\ PacketPhases /\ Aborted /\ Filled)'
  BY <1>1, <1>2, <1>s, <1>a DEF Aborted, Asked, Asking, Asks, AtAnswer, AtTransfer, Base, Drive,
    Executed, Filled, MasterStarts, On, PacketPhases, Present, Reading, Refused, Running, Transfers,
    WritingMultiple
<1>5. (MemoryWritten /\ MovedFits /\ DmaOver)'
  BY <1>1, <1>2, <1>a DEF Asked, Asking, AtTransfer, DmaOver, Drive, MemoryWritten, MovedFits, On,
    Present, Transfers
<1>IdeTyped. IdeTyped'
  BY SMTT(60), <1>1, <1>2, <1>s DEF AllCommands, DriverSteps, IdeTyped, InDma, Registers, Steps
<1>OneHasCommand. OneHasCommand'
  BY <1>1, <1>2 DEF OneHasCommand
<1>OneHasTransfer. OneHasTransfer'
  BY <1>1, <1>2 DEF AtTransfer, OneHasTransfer
<1>Control. Control'
  BY <1>1, <1>2, <1>s, <1>a DEF AllCommands, Asked, Asking, Asks, AtAnswer, AtEnd, AtTransfer,
    Control, Drive, Executed, MasterStarts, Present, Transfers
<1>Fresh. Fresh'
  BY <1>1, <1>2 DEF Drive, Executed, Fresh, On, Present
<1>BufferRead. BufferRead'
  BY <1>2, <1>a DEF Base, BufferRead, Drive, On, Present
<1>BufferPacket. BufferPacket'
  BY <1>1, <1>2, <1>a DEF BufferPacket
<1>Sizes. Sizes'
  BY <1>1, <1>2 DEF AtTransfer, Sizes, Transfers
<1>BufferDma. BufferDma'
  BY <1>1, <1>2 DEF AtTransfer, BufferDma, Transfers
<1>MemoryRead. MemoryRead'
  BY <1>1, <1>2, <1>e DEF Asked, Asking, AtTransfer, MemoryRead
<1>MediumRight. MediumRight'
  <2>1. ideCpu # "idle" => Count' = Count
    BY <1>2 DEF Base, Count, Drive
  <2> QED BY <1>1, <1>2, <2>1, MediumKept
<1>Writing. Writing'
  BY <1>1, <1>2, <1>a DEF Writing
<1> QED
  BY <1>3, <1>4, <1>5, <1>IdeTyped, <1>OneHasCommand, <1>OneHasTransfer, <1>Control, <1>Fresh,
    <1>BufferRead, <1>BufferPacket, <1>Sizes, <1>BufferDma, <1>MemoryRead, <1>MediumRight,
    <1>Writing DEF IdeInv

(* The driver gives the bus master its descriptors, and its data. *)
LEMMA StepStartMaster ==
  ASSUME IdeInv,
         NEW p \in Ide!Descriptors(IF ideJob.cmd \in Ide!Packets THEN ideJob.total - 1 ELSE ideJob.total),
         Ide!StartMaster(p)
  PROVE  IdeInv'
<1>0.
       /\ ideMemory' = IF ideJob.cmd = "writeDma" THEN [i \in 1 .. ideJob.total |-> Ide!Word(ideJob, i - 1)] ELSE <<>>
  BY DEF Ide!StartMaster, Ide!disks, Ide!busMaster, Ide!thread
<1>1. /\ ideCpu = "startMaster" /\ ideCpu' = "masterReadyWait" /\ ideActive' = TRUE /\ idePrd' = p
  BY DEF Ide!StartMaster, Ide!disks, Ide!busMaster, Ide!thread
<1>2. UNCHANGED <<ideAfter, ideBmIntr, ideBuffer, ideIrq, ideJob, ideKind, ideMedium, ideMoved,
                  idePc, idePhase, idePtr, ideRegs, ideSelected, ideSem, ideSize, ideStatus,
                  ideWants>>
  BY DEF Ide!StartMaster, Ide!disks, Ide!busMaster, Ide!thread
<1>e. \A k \in Int : Ide!Expected(k)' = Ide!Expected(k)
  BY <1>1, <1>2 DEF Ide!Expected
<1>t. At' = At
  BY <1>2 DEF At
<1>a. /\ On /\ ideJob.cmd = ideRegs.cmd /\ ideJob.cmd \in Ide!Dma /\ ~AtTransfer
       /\ idePc # "dmaDone" /\ MasterStarts
      /\ Transfers => idePc = "masterWait"
  BY <1>1 DEF Asks, Control, On, Present, MasterStarts, Transfers
<1>b. /\ idePrd' \in Seq(Nat) /\ ideMemory' \in Seq(Int)
      /\ ideJob.cmd = "writeDma" => Len(ideMemory') = ideJob.total
          /\ \A i \in 1 .. ideJob.total : ideMemory'[i] = Ide!Word(ideJob, i - 1)
      /\ ideJob.cmd # "writeDma" => ideMemory' = <<>>
  <2>0. ideJob.cmd \in Ide!Packets => ideJob.total > 1
    BY <1>1, <1>a DEF Asks, PacketPhases
  <2>1. ideJob.total \in Nat /\ ideJob.id \in Nat
         /\ (ideJob.cmd \in Ide!Packets => ideJob.total > 1)
    BY <2>0 DEF IdeTyped
  <2>2. \A i \in 1 .. ideJob.total : Ide!Word(ideJob, i - 1) \in Int
    BY <2>1, Parameters DEF Ide!Word
  <2> DEFINE n == IF ideJob.cmd \in Ide!Packets THEN ideJob.total - 1 ELSE ideJob.total
  <2>3. n \in Nat
    BY <2>1
  <2> HIDE DEF n
  <2>4. p \in {<<n>>, <<n + 1>>, <<n, 1>>} \/ (n > 1 /\ p = <<1, n - 1>>)
    BY DEF Ide!Descriptors, n
  <2>5. p \in Seq(Nat)
    <3>1. n + 1 \in Nat /\ 1 \in Nat /\ (n > 1 => n - 1 \in Nat)
      BY <2>3
    <3>2. <<n>> \in Seq(Nat) /\ <<n + 1>> \in Seq(Nat)
      BY <2>3, <3>1
    <3>3. <<n, 1>> \in Seq(Nat)
      BY <2>3, <3>1
    <3>4. n > 1 => <<1, n - 1>> \in Seq(Nat)
      BY <2>3, <3>1
    <3> QED BY <2>4, <3>2, <3>3, <3>4
  <2>6. CASE ideJob.cmd = "writeDma"
    <3> DEFINE w == [i \in 1 .. ideJob.total |-> Ide!Word(ideJob, i - 1)]
    <3>1. ideMemory' = w
      BY <1>0, <2>6
    <3>2. w \in Seq(Int) /\ Len(w) = ideJob.total
           /\ \A i \in 1 .. ideJob.total : w[i] = Ide!Word(ideJob, i - 1)
      BY <2>1, <2>2
    <3> QED BY <1>1, <2>5, <2>6, <3>1, <3>2
  <2>7. CASE ideJob.cmd # "writeDma"
    BY <1>0, <1>1, <2>5, <2>7
  <2> QED BY <2>6, <2>7
<1>3. (Sizes /\ BufferDma /\ MovedFits)'
  BY SMTT(60), <1>2 DEF At, AtTransfer, BufferDma, Ide!Expected, Ide!Lba, MovedFits, Sizes,
    Transfers
<1>4. (Reading /\ Writing /\ WritingMultiple /\ PacketPhases /\ Aborted)'
  BY <1>1, <1>2, <1>t DEF Aborted, Asked, Asking, Asks, AtAnswer, AtTransfer, Base, Drive, Executed,
    MasterStarts, On, PacketPhases, Present, Reading, Refused, Running, Transfers, Writing,
    WritingMultiple
<1>5. (Fresh /\ InLimits)'
  BY <1>1, <1>2, <1>t DEF Drive, Executed, Fresh, InLimits, On, Present, Refused
<1>6. (BufferWritten /\ DmaOver)'
  BY <1>1, <1>2 DEF Asked, Asking, Base, BufferWritten, DmaOver, Drive, On, Present
<1>IdeTyped. IdeTyped'
  BY SMTT(60), <1>1, <1>2, <1>b DEF AllCommands, DriverSteps, IdeTyped, InDma, Registers, Steps
<1>OneHasCommand. OneHasCommand'
  BY <1>1, <1>2 DEF OneHasCommand
<1>OneHasTransfer. OneHasTransfer'
  BY <1>1, <1>2 DEF AtTransfer, OneHasTransfer
<1>Filled. Filled'
  BY <1>1, <1>2 DEF Asks, Drive, Executed, Filled, On, Present
<1>BufferRead. BufferRead'
  BY SMTT(60), <1>1, <1>2, <1>e DEF Base, BufferRead, Drive, IdeTyped, On, Present
<1>BufferPacket. BufferPacket'
  BY <1>1, <1>2, <1>e DEF Base, BufferPacket, Drive, On, Present
<1>MediumRight. MediumRight'
  <2>1. ideCpu # "idle" => Count' = Count
    BY <1>2 DEF Base, Count, Drive
  <2> QED BY <1>1, <1>2, <2>1, MediumKept
<1>Control. Control'
  BY <1>1, <1>2, <1>a DEF Asks, Control, Drive, Present, Asking, Asked, MasterStarts, Transfers,
    AtTransfer, AtAnswer, AtEnd, Executed
<1>MemoryRead. MemoryRead'
  BY <1>1, <1>2, <1>a, <1>b DEF MemoryRead, AtTransfer
<1>MemoryWritten. MemoryWritten'
  BY <1>1, <1>2, <1>a, <1>b DEF MemoryWritten, Transfers, AtTransfer
<1> QED
  BY <1>3, <1>4, <1>5, <1>6, <1>IdeTyped, <1>OneHasCommand, <1>OneHasTransfer, <1>Filled,
    <1>BufferRead, <1>BufferPacket, <1>MediumRight, <1>Control, <1>MemoryRead, <1>MemoryWritten DEF
    IdeInv

(* The driver writes the registers of a command, when the thread is through *)
(* with the last. *)
LEMMA StepBegin ==
  ASSUME IdeInv,
         IdeDriver = "aligned", ~ideOvertaken', NEW d \in Ide!Drives, NEW cmd \in AllCommands,
         NEW l \in Ide!Lbas, NEW c \in IdeCounts, Ide!Begin(d, cmd, l, c)
  PROVE  IdeInv'
<1>0. /\ ideRegs' = [cmd |-> cmd, count |-> c, cyl |-> l \div IdeSecMax, sec |-> l % IdeSecMax]
      /\ ideJob' = [id |-> ideJob.id + 1, cmd |-> cmd, lba |-> l, total |-> Ide!Transfers(cmd, IF c = 0 /\ cmd \notin Ide!Packets THEN IdeCountMax ELSE c), done |-> 0]
      /\ ideStatus' = [ideStatus EXCEPT ![d] = Ide!With(ideStatus[d], [drq |-> FALSE, inProgress |-> FALSE, cycle |-> 0])]
      /\ cmd \in Ide!Dma => ~Ide!Refused(cmd, ideKind[d])
      /\ cmd = "deviceReset" => ideKind[d] = "cdrom"
      /\ ideKind[d] = "none" => cmd = "identify"
      /\ Ide!Aligned(cmd, l, IF c = 0 /\ cmd \notin Ide!Packets THEN IdeCountMax ELSE c)
      /\ l + (IF c = 0 /\ cmd \notin Ide!Packets THEN IdeCountMax ELSE c) <= IdeSectors
  BY DEF Ide!Begin, Ide!disks, Ide!busMaster, Ide!thread
<1>1. /\ ideCpu = "idle" /\ ideCpu' = "command"
      /\ idePc = "set" \/ (idePc = "wait" /\ ideSem["controller"] = 0)
      /\ ideIrq' = FALSE /\ idePtr' = 0 /\ ideMemory' = <<>> /\ idePrd' = <<>> /\ ideSelected' = d
  BY DEF Ide!Begin, Ide!Resting, Ide!disks, Ide!busMaster, Ide!thread
<1>2. UNCHANGED <<ideActive, ideAfter, ideBmIntr, ideBuffer, ideKind, ideMedium, ideMoved, idePc,
                  idePhase, ideSem, ideSize, ideWants>>
  BY DEF Ide!Begin, Ide!disks, Ide!busMaster, Ide!thread
<1>s. /\ ideStatus' \in [Ide!Drives -> Ide!Status] /\ ~Drive'.drq /\ Drive'.cycle = 0
       /\ ideSelected' \in Ide!Drives
  <2>1. ideStatus[d] \in Ide!Status /\ ideStatus \in [Ide!Drives -> Ide!Status]
    BY DEF IdeTyped
  <2>2. ideStatus' = [ideStatus EXCEPT ![d] = [busy |-> ideStatus[d].busy, drq |-> FALSE, err |-> ideStatus[d].err,
                                               inProgress |-> FALSE, cycle |-> 0]]
    BY <1>0, <2>1, MergedBegin
  <2> QED BY <1>1, <2>1, <2>2 DEF Drive, Ide!Status
<1> DEFINE n == IF c = 0 /\ cmd \notin Ide!Packets THEN IdeCountMax ELSE c
<1>j. /\ ideJob'.cmd = cmd /\ ideJob'.lba = l /\ ideJob'.done = 0
       /\ ideJob'.total = Ide!Transfers(cmd, n)
      /\ ideJob' \in [id : Nat, cmd : AllCommands \cup {"none"}, lba : Nat, total : Nat, done : Nat]
      /\ cmd \in Pio \cup (Ide!Dma \ Ide!Packets) => ideJob'.total = n /\ n \in 1 .. IdeCountMax
      /\ cmd \in Ide!Packets => ideJob'.total - 1 \in 0 .. IdeCountMax
      /\ cmd \in Ide!Writes => l + ideJob'.total <= IdeSectors
      /\ Ide!Aligned(cmd, l, ideJob'.total)
  <2>1. n \in 0 .. IdeCountMax /\ n \in Nat /\ (cmd \notin Ide!Packets => n \in 1 .. IdeCountMax)
    BY Parameters
  <2>2. l \in Nat /\ ideJob.id + 1 \in Nat
    BY DEF Ide!Lbas, IdeTyped
  <2>3. Ide!Aligned(cmd, l, n) /\ l + n <= IdeSectors
    BY <1>0
  <2> DEFINE t == Ide!Transfers(cmd, n)
  <2>4. /\ ideJob' = [id |-> ideJob.id + 1, cmd |-> cmd, lba |-> l, total |-> t, done |-> 0]
    BY <1>0
  <2> HIDE DEF n
  <2>5. /\ t \in Nat /\ (cmd \in Pio \cup (Ide!Dma \ Ide!Packets) => t = n)
        /\ cmd \in Ide!Packets => t = n + 1
    BY <2>1 DEF Ide!Transfers
  <2>6. Ide!Aligned(cmd, l, t)
    BY <2>3, <2>5 DEF Ide!Aligned
  <2> HIDE DEF t
  <2>7. cmd \in Ide!Writes => t = n
    BY <2>5
  <2> QED BY <2>1, <2>2, <2>3, <2>4, <2>5, <2>6, <2>7 DEF t, n
<1>k. /\ ideRegs' \in Registers /\ ideRegs'.cmd = cmd /\ ideRegs'.count = c /\ At' = l
       /\ ideRegs'.sec < IdeSecMax
      /\ cmd \in Pio \cup (Ide!Dma \ Ide!Packets) => ideJob'.total = IF ideRegs'.count = 0 THEN IdeCountMax ELSE ideRegs'.count
  <2>1. l \in Nat /\ IdeSecMax \in Nat \ {0} /\ c \in 0 .. IdeCountMax
    BY Parameters DEF Ide!Lbas
  <2>2. l \div IdeSecMax \in Nat /\ l % IdeSecMax \in 0 .. IdeSecMax - 1
         /\ (l \div IdeSecMax) * IdeSecMax + (l % IdeSecMax) = l
    BY <2>1, Quotient
  <2> DEFINE x == l \div IdeSecMax
             y == l % IdeSecMax
  <2>3. ideRegs' = [cmd |-> cmd, count |-> c, cyl |-> x, sec |-> y]
    BY <1>0
  <2> HIDE DEF x, y
  <2>4. x \in Nat /\ y \in Nat /\ y < IdeSecMax /\ x * IdeSecMax + y = l
    BY <2>1, <2>2 DEF x, y
  <2>5. ideRegs' \in Registers /\ ideRegs'.cmd = cmd /\ ideRegs'.count = c /\ ideRegs'.cyl = x
         /\ ideRegs'.sec = y
    BY <2>1, <2>3, <2>4 DEF Registers
  <2> QED BY <1>j, <2>4, <2>5 DEF At, Ide!Lba
<1>m. MediumRight'
  <2>1. ideMedium = ideWants /\ l \in Nat
    BY <1>1 DEF MediumRight, Ide!Lbas
  <2>2. Count' = 0
    BY <1>1, <1>j DEF Count, Base
  <2>3. \A k \in Ide!Lbas : k \notin l .. l + Count' - 1
    BY <2>1, <2>2 DEF Ide!Lbas
  <2> QED BY <1>1, <1>2, <1>j, <2>1, <2>3 DEF MediumRight
<1>MovedFits. MovedFits'
  BY SMTT(60), <1>2 DEF AtTransfer, MovedFits
<1>3. (OneHasCommand /\ OneHasTransfer /\ Reading /\ Writing /\ WritingMultiple)'
  BY <1>1, <1>2, <1>s DEF Asked, Asking, AtTransfer, Base, Drive, Executed, On, OneHasCommand,
    OneHasTransfer, Present, Reading, Refused, Running, Writing, WritingMultiple
<1>4. (PacketPhases /\ Aborted /\ Filled /\ BufferRead /\ BufferPacket)'
  BY <1>1, <1>2, <1>s DEF Aborted, Asked, Asking, Asks, AtAnswer, AtTransfer, Base, BufferPacket,
    BufferRead, Drive, Executed, Filled, MasterStarts, On, PacketPhases, Present, Refused, Running,
    Transfers
<1>5. (BufferWritten /\ Sizes /\ BufferDma)'
  BY <1>1, <1>2, <1>j DEF AtTransfer, Base, BufferDma, BufferWritten, On, Present, Sizes, Transfers
<1>MemoryWritten. MemoryWritten'
  BY <1>1, <1>2 DEF AllCommands, Asked, Asking, Asks, AtAnswer, AtEnd, AtTransfer, Control, Drive,
    Executed, MasterStarts, MemoryWritten, Present, Transfers
<1>IdeTyped. IdeTyped'
  <2>1. /\ ideRegs' \in Registers /\ ideStatus' \in [Ide!Drives -> Ide!Status]
         /\ idePtr' \in 0 .. IdeCountMax
        /\ ideSelected' \in Ide!Drives /\ ideIrq' \in BOOLEAN /\ ideCpu' \in DriverSteps
        /\ idePrd' \in Seq(Nat) /\ ideMemory' \in Seq(Int)
    <3>1. ideIrq' \in BOOLEAN
      BY <1>1
    <3>2. idePrd' \in Seq(Nat) /\ ideMemory' \in Seq(Int)
      BY <1>1
    <3>3. idePtr' \in 0 .. IdeCountMax /\ ideCpu' \in DriverSteps
      BY <1>1, Parameters DEF DriverSteps
    <3> QED BY <1>s, <1>k, <3>1, <3>2, <3>3
  <2> QED BY <1>2, <1>j, <2>1 DEF IdeTyped
<1>Control. Control'
  BY <1>0, <1>1, <1>2, <1>s, <1>j, <1>k DEF Asks, Control, OneHasCommand, Present, Drive, Asking,
    Asked, MasterStarts, Transfers, AtTransfer, AtAnswer, AtEnd
<1>Fresh. Fresh'
  BY <1>1, <1>2, <1>j, <1>k DEF Fresh
<1>InLimits. InLimits'
  BY <1>0, <1>1, <1>2, <1>j, <1>k DEF InLimits, Refused
<1>MemoryRead. MemoryRead'
  BY <1>1, <1>2 DEF MemoryRead, AtTransfer, Asking, Asked
<1>DmaOver. DmaOver'
  BY <1>1, <1>2, <1>s, <1>j DEF DmaOver, Drive
<1>MediumRight. MediumRight'
  BY <1>m
<1> QED
  BY <1>MovedFits, <1>3, <1>4, <1>5, <1>MemoryWritten, <1>IdeTyped, <1>Control, <1>Fresh,
    <1>InLimits, <1>MemoryRead, <1>DmaOver, <1>MediumRight DEF IdeInv

(* The driver reads the status: a block is to be moved. *)
LEMMA StepStatusData ==
  ASSUME IdeInv,
         Ide!ReadStatus, ideCpu' = "data"
  PROVE  IdeInv'
<1>1. /\ ideCpu = "issued" /\ ideCpu' = "data" /\ Present /\ ~Drive.busy /\ Drive.drq
       /\ ideIrq' = FALSE
      /\ ideActive' \in {FALSE, ideActive} /\ ideBmIntr' \in {FALSE, ideBmIntr}
  BY DEF Ide!ReadStatus, Ide!GetStatus, Ide!NoStatus, Drive, Present, Ide!disks, Ide!busMaster,
    Ide!thread
<1>2. UNCHANGED <<ideAfter, ideBuffer, ideJob, ideKind, ideMedium, ideMemory, ideMoved, idePc,
                  idePhase, idePrd, idePtr, ideRegs, ideSelected, ideSem, ideSize, ideStatus,
                  ideWants>>
  BY DEF Ide!ReadStatus, Ide!GetStatus, Ide!NoStatus, Drive, Present, Ide!disks, Ide!busMaster,
    Ide!thread
<1>p. idePc # "packetLast"
  BY <1>1 DEF Control, PacketPhases, On, Present, Ide!ReadStatus, Ide!Wanted, Ide!Polls
<1>e. \A k \in Int : Ide!Expected(k)' = Ide!Expected(k)
  BY <1>1, <1>2 DEF Ide!Expected
<1>t. At' = At
  BY <1>2 DEF At
<1>3. (Sizes /\ BufferDma /\ MovedFits)'
  BY SMTT(60), <1>2 DEF At, AtTransfer, BufferDma, Ide!Expected, Ide!Lba, MovedFits, Sizes,
    Transfers
<1>4. (OneHasCommand /\ OneHasTransfer /\ Control /\ Fresh /\ InLimits)'
  <2>1. (OneHasCommand /\ OneHasTransfer)'
    BY <1>1, <1>2 DEF AtTransfer, OneHasCommand, OneHasTransfer
  <2>3. Fresh'
    BY <1>1, <1>2, <1>t DEF Drive, Executed, Fresh, On, Present
  <2>4. InLimits'
    BY <1>1, <1>2 DEF Ide!Aligned, InLimits, On, Present, Refused
  <2>2. Control'
    BY <1>1, <1>2, <1>p DEF AllCommands, Asked, Asking, Asks, AtAnswer, AtEnd, AtTransfer, Control,
      Drive, Executed, MasterStarts, Present, Transfers
  <2> QED BY <2>1, <2>2, <2>3, <2>4
<1>5. (MemoryWritten /\ DmaOver)'
  BY <1>1, <1>2 DEF Asked, Asking, AtTransfer, DmaOver, Drive, MemoryWritten, On, Present, Transfers
<1>6. (Reading /\ Writing /\ WritingMultiple)'
  BY <1>1, <1>2, <1>t DEF Asked, Asking, Base, Drive, Executed, On, Present, Reading, Refused,
    Running, Writing, WritingMultiple
<1>7. (PacketPhases /\ Aborted)'
  BY <1>1, <1>2 DEF Aborted, Asked, Asking, Asks, AtAnswer, AtTransfer, Drive, Executed,
    MasterStarts, On, PacketPhases, Present, Refused, Running, Transfers
<1>8. (BufferWritten /\ MemoryRead)'
  BY <1>1, <1>2, <1>e DEF Asked, Asking, AtTransfer, Base, BufferWritten, MemoryRead, On, Present
<1>Filled. Filled'
  BY <1>1, <1>2 DEF Asks, Drive, Executed, Filled, On, Present
<1>BufferRead. BufferRead'
  BY SMTT(60), <1>1, <1>2, <1>e DEF Base, BufferRead, Drive, IdeTyped, On, Present
<1>BufferPacket. BufferPacket'
  BY <1>1, <1>2, <1>e DEF Base, BufferPacket, Drive, On, Present
<1>MediumRight. MediumRight'
  <2>1. ideCpu # "idle" => Count' = Count
    BY <1>2 DEF Base, Count, Drive
  <2> QED BY <1>1, <1>2, <2>1, MediumKept
<1>IdeTyped. IdeTyped'
  <2>1. ideActive' \in BOOLEAN /\ ideBmIntr' \in BOOLEAN /\ ideIrq' \in BOOLEAN
    BY <1>1 DEF IdeTyped
  <2>2. ideCpu' \in DriverSteps
    BY <1>1 DEF DriverSteps
  <2> QED BY <1>2, <2>1, <2>2 DEF IdeTyped
<1> QED
  BY <1>3, <1>4, <1>5, <1>6, <1>7, <1>8, <1>Filled, <1>BufferRead, <1>BufferPacket, <1>MediumRight,
    <1>IdeTyped DEF IdeInv

(* The driver reads the status: the command is over, and what it was to *)
(* write has been written. *)
LEMMA StepStatusOver ==
  ASSUME IdeInv,
         Ide!ReadStatus, ideCpu' = "idle"
  PROVE  IdeInv'
<1>0.
       /\ ideWants' = [ideWants EXCEPT ![ideSelected] = [l \in Ide!Lbas |-> IF ideJob.cmd \in Ide!Writes /\ ~Drive.err /\ l \in ideJob.lba .. ideJob.lba + ideJob.total - 1 THEN Ide!Word(ideJob, l - ideJob.lba) ELSE ideWants[ideSelected][l]]]
  BY DEF Ide!ReadStatus, Ide!St, Drive
<1>1. /\ ideCpu = "issued" /\ ideCpu' = "idle" /\ Ide!Over /\ (Present => ~Drive.busy)
       /\ ideIrq' = FALSE
      /\ ideActive' \in {FALSE, ideActive} /\ ideBmIntr' \in {FALSE, ideBmIntr}
  BY DEF Ide!ReadStatus, Ide!GetStatus, Ide!NoStatus, Drive, Present, Ide!disks, Ide!busMaster,
    Ide!thread
<1>2. UNCHANGED <<ideAfter, ideBuffer, ideJob, ideKind, ideMedium, ideMemory, ideMoved, idePc,
                  idePhase, idePrd, idePtr, ideRegs, ideSelected, ideSem, ideSize, ideStatus>>
  BY DEF Ide!ReadStatus, Ide!GetStatus, Ide!NoStatus, Drive, Present, Ide!disks, Ide!busMaster,
    Ide!thread
<1>t. At' = At
  BY <1>2 DEF At
<1>a. /\ Present => ~Asking /\ ~Drive.busy
      /\ ~Transfers /\ (Drive.drq => ~Present)
      /\ ideJob.cmd = ideRegs.cmd /\ ideJob.cmd \in AllCommands
  BY <1>1 DEF Asks, Control, Present, Ide!Over, Ide!GetStatus, Drive, Transfers, AtTransfer
<1>p. ~Asks /\ idePc # "packetLast"
  BY <1>a, AskIs DEF Control, On, Present
<1>w. /\ ideWants' \in [Ide!Drives -> [Ide!Lbas -> Int]]
      /\ \A d \in Ide!Drives, l \in Ide!Lbas : ideWants'[d][l] =
           IF d = ideSelected /\ ideJob.cmd \in Ide!Writes /\ ~Drive.err
               /\ l \in ideJob.lba .. ideJob.lba + ideJob.total - 1
           THEN Ide!Word(ideJob, l - ideJob.lba) ELSE ideWants[d][l]
      /\ ideJob.cmd \notin Ide!Writes => ideWants' = ideWants
  <2>1. ideWants \in [Ide!Drives -> [Ide!Lbas -> Int]] /\ ideSelected \in Ide!Drives
         /\ ideJob.lba \in Nat /\ ideJob.id \in Nat
        /\ IdeSectors \in Nat
    BY Parameters DEF IdeTyped
  <2>2. \A l \in Ide!Lbas : Ide!Word(ideJob, l - ideJob.lba) \in Int
         /\ ideWants[ideSelected][l] \in Int
    BY SMTT(60), <2>1 DEF Ide!Word, Ide!Lbas
  <2> DEFINE new == [l \in Ide!Lbas |-> IF ideJob.cmd \in Ide!Writes /\ ~Drive.err
         /\ l \in ideJob.lba .. ideJob.lba + ideJob.total - 1
                       THEN Ide!Word(ideJob, l - ideJob.lba) ELSE ideWants[ideSelected][l]]
  <2>3. new \in [Ide!Lbas -> Int]
    BY <2>2
  <2>4. \A l \in Ide!Lbas : new[l] = IF ideJob.cmd \in Ide!Writes /\ ~Drive.err
         /\ l \in ideJob.lba .. ideJob.lba + ideJob.total - 1
                       THEN Ide!Word(ideJob, l - ideJob.lba) ELSE ideWants[ideSelected][l]
    OBVIOUS
  <2>5. ideWants' = [ideWants EXCEPT ![ideSelected] = new]
    BY <1>0
  <2>6. ideJob.cmd \notin Ide!Writes => new = ideWants[ideSelected]
    BY <2>1
  <2> HIDE DEF new
  <2>7. ideJob.cmd \notin Ide!Writes => ideWants' = ideWants
    BY <2>1, <2>5, <2>6
  <2> QED BY <2>1, <2>3, <2>4, <2>5, <2>7
<1>m. ideMedium' = ideWants' /\ MediumRight'
  <2>1. ideJob.cmd \notin Ide!Writes => Count = 0
    BY DEF Count
  <2>2. ideJob.cmd \in Ide!Writes => Count = IF Drive.err THEN 0 ELSE ideJob.total
    <3> SUFFICES ASSUME ideJob.cmd \in Ide!Writes PROVE Count = IF Drive.err THEN 0 ELSE ideJob.total
      OBVIOUS
    <3>1. Present /\ On /\ ~Asking /\ ~Drive.drq /\ ~Drive.busy
      BY <1>1, <1>a DEF Asks, Control, On
    <3>2. Executed
      BY <1>1, <1>a, <3>1 DEF Asks, Control
    <3>0. ideJob.done \in Nat /\ ideJob.total \in Nat /\ idePtr \in Nat /\ (Drive.err \in BOOLEAN)
      BY Parameters DEF IdeTyped, Drive, Ide!Status
    <3>3. CASE ideJob.cmd = "writeDma"
      <4>1. ~Drive.err
        BY <1>1, <3>1, <3>3 DEF DmaOver
      <4> QED BY <1>1, <3>1, <3>3, <4>1 DEF Count
    <3>4. CASE ideJob.cmd # "writeDma" /\ Refused
      <4>1. ideJob.done = 0 /\ idePtr = 0
        BY <3>1, <3>2, <3>4 DEF Aborted, Asks
      <4>2. ideJob.total \in 1 .. IdeCountMax
        BY <3>1, <3>4 DEF InLimits
      <4>3. Drive.err
        BY <1>1, <3>1, <3>4, <4>1, <4>2 DEF Ide!Over, Ide!St, Drive, Present
      <4> QED BY <3>4, <4>1, <4>3 DEF Count, Base
    <3>5. CASE ideJob.cmd # "writeDma" /\ ~Refused
      <4>1. ~Drive.err /\ Base = ideJob.total
        BY <3>0, <3>1, <3>2, <3>5 DEF Running, Writing, WritingMultiple, Base
      <4> QED BY <3>5, <4>1 DEF Count
    <3> QED BY <3>3, <3>4, <3>5
  <2>3. /\ ideMedium \in [Ide!Drives -> [Ide!Lbas -> Int]]
         /\ ideWants \in [Ide!Drives -> [Ide!Lbas -> Int]]
        /\ ideJob.lba \in Nat /\ \A l \in Ide!Lbas : l \in Nat
    BY DEF IdeTyped, Ide!Lbas
  <2>4. ASSUME NEW d \in Ide!Drives, NEW l \in Ide!Lbas PROVE ideMedium[d][l] = ideWants'[d][l]
    <3>1. ideMedium[d][l] = IF d = ideSelected /\ l \in ideJob.lba .. ideJob.lba + Count - 1
                            THEN Ide!Word(ideJob, l - ideJob.lba) ELSE ideWants[d][l]
      BY <1>1 DEF MediumRight
    <3>2. Count = 0 => l \notin ideJob.lba .. ideJob.lba + Count - 1
      BY <2>3
    <3> QED BY <1>w, <2>1, <2>2, <3>1, <3>2
  <2>5. ideMedium = ideWants'
    <3>1. \A d \in Ide!Drives : ideMedium[d] = ideWants'[d]
      <4>1. ASSUME NEW d \in Ide!Drives PROVE ideMedium[d] = ideWants'[d]
        <5>1. ideMedium[d] \in [Ide!Lbas -> Int] /\ ideWants'[d] \in [Ide!Lbas -> Int]
          BY <1>w, <2>3
        <5> QED BY <2>4, <5>1
      <4> QED BY <4>1
    <3> QED BY <1>w, <2>3, <3>1
  <2> QED BY <1>1, <1>2, <2>5 DEF MediumRight
<1>3. (Sizes /\ MovedFits)'
  BY SMTT(60), <1>2 DEF At, AtTransfer, Ide!Lba, MovedFits, Sizes, Transfers
<1>4. (Reading /\ Writing /\ WritingMultiple /\ PacketPhases /\ Aborted)'
  BY <1>2 DEF Aborted, Asked, Asking, Asks, AtAnswer, AtTransfer, Base, Drive, Executed,
    MasterStarts, On, PacketPhases, Present, Reading, Refused, Running, Transfers, Writing,
    WritingMultiple
<1>5. (Filled /\ BufferWritten /\ MemoryWritten /\ DmaOver)'
  BY <1>2 DEF Asked, Asking, Asks, AtTransfer, Base, BufferWritten, DmaOver, Drive, Executed,
    Filled, MemoryWritten, On, Present, Transfers
<1>6. (Fresh /\ InLimits)'
  BY <1>2 DEF Drive, Executed, Fresh, InLimits, On, Present, Refused
<1>7. (OneHasCommand /\ OneHasTransfer)'
  BY <1>2 DEF AtTransfer, OneHasCommand, OneHasTransfer
<1>Control. Control'
  BY <1>1, <1>2, <1>p DEF AllCommands, Asked, Asking, Asks, AtAnswer, AtEnd, AtTransfer, Control,
    Drive, Executed, MasterStarts, Present, Transfers
<1>IdeTyped. IdeTyped'
  BY ZenonT(60), <1>1, <1>2, <1>w DEF IdeTyped, DriverSteps
<1>BufferRead. BufferRead'
  BY <1>1 DEF BufferRead, On
<1>BufferPacket. BufferPacket'
  BY <1>1 DEF BufferPacket, On
<1>BufferDma. BufferDma'
  BY <1>1, <1>2, <1>a DEF BufferDma, Transfers, AtTransfer
<1>MemoryRead. MemoryRead'
  <2>1. ideJob.cmd \in {"readDma", "packetDma"} => ideWants' = ideWants
    BY <1>w
  <2>2. ideJob.cmd \in {"readDma", "packetDma"} => \A k \in Int : Ide!Expected(k)' = Ide!Expected(k)
    BY <1>2, <2>1 DEF Ide!Expected
  <2> QED BY <1>1, <1>2, <1>a, <2>2 DEF MemoryRead, AtTransfer, Asking, Asked, Transfers
<1>MediumRight. MediumRight'
  BY <1>m DEF MediumRight
<1> QED
  BY <1>3, <1>4, <1>5, <1>6, <1>7, <1>Control, <1>IdeTyped, <1>BufferRead, <1>BufferPacket,
    <1>BufferDma, <1>MemoryRead, <1>MediumRight DEF IdeInv

(* The data register is read, within a block. *)
LEMMA StepReadMore ==
  ASSUME IdeInv,
         Ide!ReadWord, ~Ide!Moved
  PROVE  IdeInv'
<1>0. /\ ideJob' = [ideJob EXCEPT !.done = ideJob.done + 1]
  BY DEF Ide!Moved, IdeTyped, Ide!ReadWord, Ide!WakesThread, Ide!St, Drive, Ide!disks,
    Ide!busMaster, Ide!thread
<1>1. /\ ideCpu = "data" /\ Ide!Incoming /\ Drive.drq /\ idePtr' = idePtr + 1
      /\ ideCpu' = "data" /\ idePtr + 1 < ideSize
  BY DEF Ide!Moved, IdeTyped, Ide!ReadWord, Ide!WakesThread, Ide!St, Drive, Ide!disks,
    Ide!busMaster, Ide!thread
<1>2. UNCHANGED <<ideActive, ideAfter, ideBmIntr, ideBuffer, ideIrq, ideKind, ideMedium, ideMemory,
                  ideMoved, idePc, idePhase, idePrd, ideRegs, ideSelected, ideSem, ideSize,
                  ideWants>>
  BY DEF Ide!Moved, IdeTyped, Ide!ReadWord, Ide!WakesThread, Ide!St, Drive, Ide!disks,
    Ide!busMaster, Ide!thread
<1>t. At' = At
  BY <1>2 DEF At
<1>s.
       /\ Drive' = [busy |-> FALSE, drq |-> TRUE, err |-> Drive.err, inProgress |-> Drive.inProgress, cycle |-> Drive.cycle]
      /\ ideStatus' \in [Ide!Drives -> Ide!Status]
  <2>1. ideStatus' = [ideStatus EXCEPT ![ideSelected] = Ide!With(Drive, [drq |-> ~Ide!Moved, busy |-> Ide!Moved /\ Ide!WakesThread])]
    BY DEF Ide!ReadWord, Ide!Set, Ide!St, Drive
  <2>2. (~Ide!Moved) = TRUE /\ (Ide!Moved /\ Ide!WakesThread) = FALSE
    BY DEF Ide!WakesThread
  <2>3. Ide!With(Drive, [drq |-> TRUE, busy |-> FALSE])
          = [busy |-> FALSE, drq |-> TRUE, err |-> Drive.err, inProgress |-> Drive.inProgress, cycle |-> Drive.cycle]
    BY DriveIs, Merged
  <2>4. ideStatus' = [ideStatus EXCEPT ![ideSelected] =
           [busy |-> FALSE, drq |-> TRUE, err |-> Drive.err, inProgress |-> Drive.inProgress, cycle |-> Drive.cycle]]
    BY <2>1, <2>2, <2>3
  <2> QED BY <2>4, <1>2, DriveIs DEF IdeTyped, Drive, Ide!Status
<1>a. /\ On /\ Drive.drq /\ ~Drive.busy /\ ideJob.cmd = ideRegs.cmd /\ ~Asking /\ ~Transfers
       /\ Executed /\ ~Refused
      /\ ideJob.cmd \in Ide!Reads /\ ideJob.cmd # "packetDma" /\ ideJob.cmd # "readDma"
      /\ ideJob.cmd = "packet" => ideJob.done # 0 /\ (idePhase = "idle" \/ AtAnswer)
  <2>1. On /\ Drive.drq /\ ~Drive.busy /\ ideJob.cmd = ideRegs.cmd /\ ~Asking /\ ~Transfers
    BY <1>1 DEF Asks, Control, On, Present
  <2>2. Executed /\ ~Refused
    BY <1>1, ReadsIs
  <2>3. ideJob.cmd \in Ide!Reads /\ (ideJob.cmd \in Ide!Packets => ideJob.done # 0)
    BY <1>1 DEF Ide!Incoming
  <2>4. ideJob.cmd # "packetDma"
    BY <1>1, ReadsIs
  <2>5. ideJob.cmd # "readDma"
    BY <1>1, <2>1 DEF DmaOver
  <2>6. ideJob.cmd = "packet" => (idePhase = "idle" \/ AtAnswer)
    BY <1>1, <2>1, <2>3 DEF Asks, PacketPhases
  <2> QED BY <2>1, <2>2, <2>3, <2>4, <2>5, <2>6
<1>j. /\ ideJob' \in [id : Nat, cmd : AllCommands \cup {"none"}, lba : Nat, total : Nat, done : Nat]
      /\ ideJob'.id = ideJob.id /\ ideJob'.cmd = ideJob.cmd /\ ideJob'.lba = ideJob.lba
          /\ ideJob'.total = ideJob.total
      /\ ideJob'.done = ideJob.done + 1 /\ ideJob'.done \in Nat /\ Base' = Base
      /\ \A i \in Int : Ide!Word(ideJob', i) = Ide!Word(ideJob, i)
  <2>1. ideJob \in [id : Nat, cmd : AllCommands \cup {"none"}, lba : Nat, total : Nat, done : Nat] /\ idePtr \in Nat
    BY Parameters DEF IdeTyped
  <2> QED BY <1>0, <1>1, <2>1 DEF Base, Ide!Word
<1>e. \A k \in Int : Ide!Expected(k)' = Ide!Expected(k)
  BY <1>1, <1>2, <1>j DEF Ide!Expected
<1>q. /\ idePtr \in Nat /\ ideSize \in Nat /\ ideJob.done \in Nat /\ ideSize <= IdeCountMax
       /\ IdeCountMax \in Nat /\ idePtr < ideSize
      /\ idePtr' \in 0 .. IdeCountMax /\ idePtr' = idePtr + 1 /\ Base \in Int
      /\ ideSize = idePtr + 1 \/ ideSize > idePtr + 1
  <2>1. /\ idePtr \in Nat /\ ideSize \in Nat /\ ideSize <= IdeCountMax /\ IdeCountMax \in Nat
         /\ ideJob.done \in Nat
    BY Parameters DEF IdeTyped
  <2>2. idePtr < ideSize
    BY <1>1, ReadsIs
  <2> QED BY <1>1, <2>1, <2>2 DEF Base
<1>MovedFits. MovedFits'
  BY SMTT(60), <1>2 DEF AtTransfer, MovedFits
<1>3. (OneHasCommand /\ OneHasTransfer /\ Control /\ Fresh /\ InLimits)'
  BY <1>1, <1>2, <1>s, <1>a, <1>j DEF AllCommands, Asked, Asking, Asks, AtAnswer, AtEnd, AtTransfer,
    Control, Drive, Executed, Fresh, InLimits, MasterStarts, On, OneHasCommand, OneHasTransfer,
    Present, Refused, Transfers
<1>4. (BufferDma /\ MemoryRead /\ MemoryWritten /\ DmaOver)'
  BY <1>1, <1>2, <1>a, <1>j DEF Asked, Asking, AtTransfer, BufferDma, DmaOver, Drive, MemoryRead,
    MemoryWritten, On, Present, Transfers
<1>5. (Writing /\ WritingMultiple /\ Aborted)'
  BY SMTT(60), <1>1, <1>2, <1>s, <1>t, <1>j DEF Aborted, Asked, Asking, Asks, Base, Drive, Executed,
    On, Present, Refused, Running, Writing, WritingMultiple
<1>6. (Filled /\ Sizes)'
  BY SMTT(60), <1>1, <1>2, <1>s, <1>a, <1>j DEF Asks, AtTransfer, Drive, Executed, Filled, On,
    Present, Sizes, Transfers
<1>PacketPhases. PacketPhases'
  BY <1>1, <1>2, <1>a, <1>j, <1>q DEF AllCommands, Asked, Asking, Asks, AtAnswer, AtEnd, AtTransfer,
    Control, Drive, Executed, MasterStarts, On, PacketPhases, Present, Refused, Running, Transfers
<1>IdeTyped. IdeTyped'
  <2>1. ideCpu' \in DriverSteps
    BY <1>1 DEF DriverSteps
  <2> QED BY <1>1, <1>2, <1>s, <1>j, <1>q, <2>1 DEF IdeTyped
<1>Reading. Reading'
  BY <1>1, <1>2, <1>s, <1>t, <1>a, <1>j, <1>q DEF Reading, Running, On, Present, Executed, Drive,
    Refused
<1>BufferRead. BufferRead'
  <2>1. ideJob.cmd \notin Ide!Packets => \A i \in 1 .. ideSize : ideBuffer[i] = Ide!Expected(Base + i - 1)
    BY <1>1, <1>a DEF BufferRead
  <2>2. ASSUME NEW i \in 1 .. ideSize PROVE Ide!Expected(Base + i - 1)' = Ide!Expected(Base + i - 1)
    BY <1>e, <1>j, <1>q
  <2> QED BY <1>2, <1>j, <2>1, <2>2 DEF BufferRead
<1>BufferPacket. BufferPacket'
  <2>1. ideJob.cmd \in Ide!Packets => Base = 1
         /\ \A i \in 1 .. ideSize : ideBuffer[i] = Ide!Expected(i - 1)
    BY <1>1, <1>a DEF BufferPacket
  <2>2. ASSUME NEW i \in 1 .. ideSize PROVE Ide!Expected(i - 1)' = Ide!Expected(i - 1)
    BY <1>e
  <2> QED BY <1>2, <1>j, <2>1, <2>2 DEF BufferPacket
<1>BufferWritten. BufferWritten'
  BY <1>2, <1>a, <1>j DEF BufferWritten
<1>MediumRight. MediumRight'
  <2>1. Count = 0 /\ Count' = 0
    BY <1>1, <1>2, <1>a, <1>j DEF Count
  <2>2. ideMedium = ideWants
    BY <2>1, MediumIs
  <2>3. \A l \in Ide!Lbas : l \notin ideJob.lba .. ideJob.lba + Count' - 1
    BY <2>1 DEF IdeTyped, Ide!Lbas
  <2> QED BY <1>2, <1>j, <2>1, <2>2, <2>3 DEF MediumRight
<1> QED
  BY <1>MovedFits, <1>3, <1>4, <1>5, <1>6, <1>PacketPhases, <1>IdeTyped, <1>Reading, <1>BufferRead,
    <1>BufferPacket, <1>BufferWritten, <1>MediumRight DEF IdeInv

(* The last word of a block is read, and the thread is to bring the next. *)
LEMMA StepReadLast ==
  ASSUME IdeInv,
         Ide!ReadWord, Ide!Moved, Ide!WakesThread
  PROVE  IdeInv'
<1>0. /\ ideJob' = [ideJob EXCEPT !.done = ideJob.done + 1]
  BY DEF Ide!Moved, IdeTyped, Ide!ReadWord, Ide!WakesThread, Ide!St, Drive, Ide!disks,
    Ide!busMaster, Ide!thread
<1>1. /\ ideCpu = "data" /\ Ide!Incoming /\ Drive.drq /\ idePtr' = idePtr + 1
      /\ ideCpu' = "readyWait" /\ idePtr + 1 >= ideSize /\ Drive.inProgress
  BY DEF Ide!Moved, IdeTyped, Ide!ReadWord, Ide!WakesThread, Ide!St, Drive, Ide!disks,
    Ide!busMaster, Ide!thread
<1>2. UNCHANGED <<ideActive, ideAfter, ideBmIntr, ideBuffer, ideIrq, ideKind, ideMedium, ideMemory,
                  ideMoved, idePc, idePhase, idePrd, ideRegs, ideSelected, ideSem, ideSize,
                  ideWants>>
  BY DEF Ide!Moved, IdeTyped, Ide!ReadWord, Ide!WakesThread, Ide!St, Drive, Ide!disks,
    Ide!busMaster, Ide!thread
<1>t. At' = At
  BY <1>2 DEF At
<1>s.
       /\ Drive' = [busy |-> TRUE, drq |-> FALSE, err |-> Drive.err, inProgress |-> Drive.inProgress, cycle |-> Drive.cycle]
      /\ ideStatus' \in [Ide!Drives -> Ide!Status]
  <2>1. ideStatus' = [ideStatus EXCEPT ![ideSelected] = Ide!With(Drive, [drq |-> ~Ide!Moved, busy |-> Ide!Moved /\ Ide!WakesThread])]
    BY DEF Ide!ReadWord, Ide!Set, Ide!St, Drive
  <2>2. (~Ide!Moved) = FALSE /\ (Ide!Moved /\ Ide!WakesThread) = TRUE
    BY DEF Ide!WakesThread
  <2>3. Ide!With(Drive, [drq |-> FALSE, busy |-> TRUE])
          = [busy |-> TRUE, drq |-> FALSE, err |-> Drive.err, inProgress |-> Drive.inProgress, cycle |-> Drive.cycle]
    BY DriveIs, Merged
  <2>4. ideStatus' = [ideStatus EXCEPT ![ideSelected] =
           [busy |-> TRUE, drq |-> FALSE, err |-> Drive.err, inProgress |-> Drive.inProgress, cycle |-> Drive.cycle]]
    BY <2>1, <2>2, <2>3
  <2> QED BY <2>4, <1>2, DriveIs DEF IdeTyped, Drive, Ide!Status
<1>a. /\ On /\ Drive.drq /\ ~Drive.busy /\ ideJob.cmd = ideRegs.cmd /\ ~Asking /\ ~Transfers
       /\ Executed /\ ~Refused
      /\ ideJob.cmd \in Ide!Reads /\ ideJob.cmd # "packetDma" /\ ideJob.cmd # "readDma"
      /\ ideJob.cmd = "packet" => ideJob.done # 0 /\ (idePhase = "idle" \/ AtAnswer)
  <2>1. On /\ Drive.drq /\ ~Drive.busy /\ ideJob.cmd = ideRegs.cmd /\ ~Asking /\ ~Transfers
    BY <1>1 DEF Asks, Control, On, Present
  <2>2. Executed /\ ~Refused
    BY <1>1, ReadsIs
  <2>3. ideJob.cmd \in Ide!Reads /\ (ideJob.cmd \in Ide!Packets => ideJob.done # 0)
    BY <1>1 DEF Ide!Incoming
  <2>4. ideJob.cmd # "packetDma"
    BY <1>1, ReadsIs
  <2>5. ideJob.cmd # "readDma"
    BY <1>1, <2>1 DEF DmaOver
  <2>6. ideJob.cmd = "packet" => (idePhase = "idle" \/ AtAnswer)
    BY <1>1, <2>1, <2>3 DEF Asks, PacketPhases
  <2> QED BY <2>1, <2>2, <2>3, <2>4, <2>5, <2>6
<1>j. /\ ideJob' \in [id : Nat, cmd : AllCommands \cup {"none"}, lba : Nat, total : Nat, done : Nat]
      /\ ideJob'.id = ideJob.id /\ ideJob'.cmd = ideJob.cmd /\ ideJob'.lba = ideJob.lba
          /\ ideJob'.total = ideJob.total
      /\ ideJob'.done = ideJob.done + 1 /\ ideJob'.done \in Nat /\ Base' = Base
      /\ \A i \in Int : Ide!Word(ideJob', i) = Ide!Word(ideJob, i)
  <2>1. ideJob \in [id : Nat, cmd : AllCommands \cup {"none"}, lba : Nat, total : Nat, done : Nat] /\ idePtr \in Nat
    BY Parameters DEF IdeTyped
  <2> QED BY <1>0, <1>1, <2>1 DEF Base, Ide!Word
<1>e. \A k \in Int : Ide!Expected(k)' = Ide!Expected(k)
  BY <1>1, <1>2, <1>j DEF Ide!Expected
<1>q. /\ idePtr \in Nat /\ ideSize \in Nat /\ ideJob.done \in Nat /\ ideSize <= IdeCountMax
       /\ IdeCountMax \in Nat /\ idePtr < ideSize
      /\ idePtr' \in 0 .. IdeCountMax /\ idePtr' = idePtr + 1 /\ Base \in Int
      /\ ideSize = idePtr + 1 \/ ideSize > idePtr + 1
  <2>1. /\ idePtr \in Nat /\ ideSize \in Nat /\ ideSize <= IdeCountMax /\ IdeCountMax \in Nat
         /\ ideJob.done \in Nat
    BY Parameters DEF IdeTyped
  <2>2. idePtr < ideSize
    BY <1>1, ReadsIs
  <2> QED BY <1>1, <2>1, <2>2 DEF Base
<1>MovedFits. MovedFits'
  BY SMTT(60), <1>2 DEF AtTransfer, MovedFits
<1>3. (OneHasCommand /\ OneHasTransfer /\ Control /\ Fresh /\ InLimits)'
  BY <1>1, <1>2, <1>s, <1>a, <1>j DEF AllCommands, Asked, Asking, Asks, AtAnswer, AtEnd, AtTransfer,
    Control, Drive, Executed, Fresh, InLimits, MasterStarts, On, OneHasCommand, OneHasTransfer,
    Present, Refused, Transfers
<1>4. (BufferDma /\ MemoryRead /\ MemoryWritten /\ DmaOver)'
  BY SMTT(60), <1>1, <1>2, <1>a, <1>j DEF Asked, Asking, AtTransfer, BufferDma, DmaOver, Drive,
    MemoryRead, MemoryWritten, On, Present, Transfers
<1>5. (Writing /\ WritingMultiple /\ Aborted)'
  BY <1>1, <1>2, <1>s, <1>t, <1>j, <1>q DEF Aborted, Asked, Asking, Asks, Base, Drive, Executed, On,
    Present, Refused, Running, Writing, WritingMultiple
<1>6. (Filled /\ Sizes)'
  BY SMTT(60), <1>2, <1>s, <1>a DEF Asks, AtTransfer, Drive, Executed, Filled, On, Present, Sizes,
    Transfers
<1>PacketPhases. PacketPhases'
  BY <1>1, <1>2, <1>a, <1>j, <1>q DEF AllCommands, Asked, Asking, Asks, AtAnswer, AtEnd, AtTransfer,
    Control, Drive, Executed, MasterStarts, On, PacketPhases, Present, Refused, Running, Transfers
<1>IdeTyped. IdeTyped'
  <2>1. ideCpu' \in DriverSteps
    BY <1>1 DEF DriverSteps
  <2> QED BY <1>1, <1>2, <1>s, <1>j, <1>q, <2>1 DEF IdeTyped
<1>Reading. Reading'
  BY <1>1, <1>2, <1>s, <1>t, <1>a, <1>j, <1>q DEF Reading, Running, On, Present, Executed, Drive,
    Refused
<1>BufferRead. BufferRead'
  <2>1. ideJob.cmd \notin Ide!Packets => \A i \in 1 .. ideSize : ideBuffer[i] = Ide!Expected(Base + i - 1)
    BY <1>1, <1>a DEF BufferRead
  <2>2. ASSUME NEW i \in 1 .. ideSize PROVE Ide!Expected(Base + i - 1)' = Ide!Expected(Base + i - 1)
    BY <1>e, <1>j, <1>q
  <2> QED BY <1>2, <1>j, <2>1, <2>2 DEF BufferRead
<1>BufferPacket. BufferPacket'
  <2>1. ideJob.cmd \in Ide!Packets => Base = 1
         /\ \A i \in 1 .. ideSize : ideBuffer[i] = Ide!Expected(i - 1)
    BY <1>1, <1>a DEF BufferPacket
  <2>2. ASSUME NEW i \in 1 .. ideSize PROVE Ide!Expected(i - 1)' = Ide!Expected(i - 1)
    BY <1>e
  <2> QED BY <1>2, <1>j, <2>1, <2>2 DEF BufferPacket
<1>BufferWritten. BufferWritten'
  BY <1>2, <1>a, <1>j DEF BufferWritten
<1>MediumRight. MediumRight'
  <2>1. Count = 0 /\ Count' = 0
    BY <1>1, <1>2, <1>a, <1>j DEF Count
  <2>2. ideMedium = ideWants
    BY <2>1, MediumIs
  <2>3. \A l \in Ide!Lbas : l \notin ideJob.lba .. ideJob.lba + Count' - 1
    BY <2>1 DEF IdeTyped, Ide!Lbas
  <2> QED BY <1>2, <1>j, <2>1, <2>2, <2>3 DEF MediumRight
<1> QED
  BY <1>MovedFits, <1>3, <1>4, <1>5, <1>6, <1>PacketPhases, <1>IdeTyped, <1>Reading, <1>BufferRead,
    <1>BufferPacket, <1>BufferWritten, <1>MediumRight DEF IdeInv

(* The last word of the last block is read. *)
LEMMA StepReadEnd ==
  ASSUME IdeInv,
         Ide!ReadWord, Ide!Moved, ~Ide!WakesThread
  PROVE  IdeInv'
<1>0. /\ ideJob' = [ideJob EXCEPT !.done = ideJob.done + 1]
  BY DEF Ide!Moved, IdeTyped, Ide!ReadWord, Ide!WakesThread, Ide!St, Drive, Ide!disks,
    Ide!busMaster, Ide!thread
<1>1. /\ ideCpu = "data" /\ Ide!Incoming /\ Drive.drq /\ idePtr' = idePtr + 1
      /\ ideCpu' = (IF ideJob.done + 1 >= ideJob.total THEN "idle" ELSE "issued")
          /\ idePtr + 1 >= ideSize /\ ~Drive.inProgress
  BY DEF Ide!Moved, IdeTyped, Ide!ReadWord, Ide!WakesThread, Ide!St, Drive, Ide!disks,
    Ide!busMaster, Ide!thread
<1>2. UNCHANGED <<ideActive, ideAfter, ideBmIntr, ideBuffer, ideIrq, ideKind, ideMedium, ideMemory,
                  ideMoved, idePc, idePhase, idePrd, ideRegs, ideSelected, ideSem, ideSize,
                  ideWants>>
  BY DEF Ide!Moved, IdeTyped, Ide!ReadWord, Ide!WakesThread, Ide!St, Drive, Ide!disks,
    Ide!busMaster, Ide!thread
<1>t. At' = At
  BY <1>2 DEF At
<1>s.
       /\ Drive' = [busy |-> FALSE, drq |-> FALSE, err |-> Drive.err, inProgress |-> Drive.inProgress, cycle |-> Drive.cycle]
      /\ ideStatus' \in [Ide!Drives -> Ide!Status]
  <2>1. ideStatus' = [ideStatus EXCEPT ![ideSelected] = Ide!With(Drive, [drq |-> ~Ide!Moved, busy |-> Ide!Moved /\ Ide!WakesThread])]
    BY DEF Ide!ReadWord, Ide!Set, Ide!St, Drive
  <2>2. (~Ide!Moved) = FALSE /\ (Ide!Moved /\ Ide!WakesThread) = FALSE
    BY DEF Ide!WakesThread
  <2>3. Ide!With(Drive, [drq |-> FALSE, busy |-> FALSE])
          = [busy |-> FALSE, drq |-> FALSE, err |-> Drive.err, inProgress |-> Drive.inProgress, cycle |-> Drive.cycle]
    BY DriveIs, Merged
  <2>4. ideStatus' = [ideStatus EXCEPT ![ideSelected] =
           [busy |-> FALSE, drq |-> FALSE, err |-> Drive.err, inProgress |-> Drive.inProgress, cycle |-> Drive.cycle]]
    BY <2>1, <2>2, <2>3
  <2> QED BY <2>4, <1>2, DriveIs DEF IdeTyped, Drive, Ide!Status
<1>a. /\ On /\ Drive.drq /\ ~Drive.busy /\ ideJob.cmd = ideRegs.cmd /\ ~Asking /\ ~Transfers
       /\ Executed /\ ~Refused
      /\ ideJob.cmd \in Ide!Reads /\ ideJob.cmd # "packetDma" /\ ideJob.cmd # "readDma"
      /\ ideJob.cmd = "packet" => ideJob.done # 0 /\ (idePhase = "idle" \/ AtAnswer)
  <2>1. On /\ Drive.drq /\ ~Drive.busy /\ ideJob.cmd = ideRegs.cmd /\ ~Asking /\ ~Transfers
    BY <1>1 DEF Asks, Control, On, Present
  <2>2. Executed /\ ~Refused
    BY <1>1, ReadsIs
  <2>3. ideJob.cmd \in Ide!Reads /\ (ideJob.cmd \in Ide!Packets => ideJob.done # 0)
    BY <1>1 DEF Ide!Incoming
  <2>4. ideJob.cmd # "packetDma"
    BY <1>1, ReadsIs
  <2>5. ideJob.cmd # "readDma"
    BY <1>1, <2>1 DEF DmaOver
  <2>6. ideJob.cmd = "packet" => (idePhase = "idle" \/ AtAnswer)
    BY <1>1, <2>1, <2>3 DEF Asks, PacketPhases
  <2> QED BY <2>1, <2>2, <2>3, <2>4, <2>5, <2>6
<1>j. /\ ideJob' \in [id : Nat, cmd : AllCommands \cup {"none"}, lba : Nat, total : Nat, done : Nat]
      /\ ideJob'.id = ideJob.id /\ ideJob'.cmd = ideJob.cmd /\ ideJob'.lba = ideJob.lba
          /\ ideJob'.total = ideJob.total
      /\ ideJob'.done = ideJob.done + 1 /\ ideJob'.done \in Nat /\ Base' = Base
      /\ \A i \in Int : Ide!Word(ideJob', i) = Ide!Word(ideJob, i)
  <2>1. ideJob \in [id : Nat, cmd : AllCommands \cup {"none"}, lba : Nat, total : Nat, done : Nat] /\ idePtr \in Nat
    BY Parameters DEF IdeTyped
  <2> QED BY <1>0, <1>1, <2>1 DEF Base, Ide!Word
<1>e. \A k \in Int : Ide!Expected(k)' = Ide!Expected(k)
  BY <1>1, <1>2, <1>j DEF Ide!Expected
<1>q. /\ idePtr \in Nat /\ ideSize \in Nat /\ ideJob.done \in Nat /\ ideSize <= IdeCountMax
       /\ IdeCountMax \in Nat /\ idePtr < ideSize
      /\ idePtr' \in 0 .. IdeCountMax /\ idePtr' = idePtr + 1 /\ Base \in Int
      /\ ideSize = idePtr + 1 \/ ideSize > idePtr + 1
  <2>1. /\ idePtr \in Nat /\ ideSize \in Nat /\ ideSize <= IdeCountMax /\ IdeCountMax \in Nat
         /\ ideJob.done \in Nat
    BY Parameters DEF IdeTyped
  <2>2. idePtr < ideSize
    BY <1>1, ReadsIs
  <2> QED BY <1>1, <2>1, <2>2 DEF Base
<1>MovedFits. MovedFits'
  BY SMTT(60), <1>2 DEF AtTransfer, MovedFits
<1>3. (BufferDma /\ MemoryRead /\ MemoryWritten /\ DmaOver)'
  BY <1>1, <1>2, <1>a, <1>j DEF Asked, Asking, AtTransfer, BufferDma, DmaOver, Drive, MemoryRead,
    MemoryWritten, On, Present, Transfers
<1>4. (Fresh /\ InLimits)'
  BY <1>2, <1>s, <1>a, <1>j DEF Drive, Executed, Fresh, InLimits, On, Present, Refused
<1>5. (Writing /\ WritingMultiple)'
  BY <1>a, <1>j DEF Writing, WritingMultiple, Running
<1>Aborted. Aborted'
  BY <1>1, <1>2, <1>a, <1>j DEF Aborted, Asks, Refused
<1>6. (Filled /\ Sizes)'
  BY <1>2, <1>s, <1>a DEF Asks, AtTransfer, Drive, Executed, Filled, On, Present, Sizes, Transfers
<1>7. (OneHasCommand /\ OneHasTransfer)'
  BY SMTT(60), <1>1, <1>2 DEF AtTransfer, OneHasCommand, OneHasTransfer
<1>Control. Control'
  BY SMTT(60), <1>1, <1>2, <1>s, <1>a, <1>j DEF AllCommands, Asked, Asking, Asks, AtAnswer, AtEnd,
    AtTransfer, Control, Drive, Executed, MasterStarts, Present, Transfers
<1>PacketPhases. PacketPhases'
  BY <1>1, <1>2, <1>a, <1>j, <1>q DEF AllCommands, Asked, Asking, Asks, AtAnswer, AtEnd, AtTransfer,
    Control, Drive, Executed, MasterStarts, On, PacketPhases, Present, Refused, Running, Transfers
<1>IdeTyped. IdeTyped'
  <2>1. ideCpu' \in DriverSteps
    BY <1>1 DEF DriverSteps
  <2> QED BY <1>1, <1>2, <1>s, <1>j, <1>q, <2>1 DEF IdeTyped
<1>Reading. Reading'
  BY <1>1, <1>2, <1>s, <1>t, <1>a, <1>j, <1>q DEF Reading, Running, On, Present, Executed, Drive,
    Refused
<1>BufferRead. BufferRead'
  <2>1. ideJob.cmd \notin Ide!Packets => \A i \in 1 .. ideSize : ideBuffer[i] = Ide!Expected(Base + i - 1)
    BY <1>1, <1>a DEF BufferRead
  <2>2. ASSUME NEW i \in 1 .. ideSize PROVE Ide!Expected(Base + i - 1)' = Ide!Expected(Base + i - 1)
    BY <1>e, <1>j, <1>q
  <2> QED BY <1>2, <1>j, <2>1, <2>2 DEF BufferRead
<1>BufferPacket. BufferPacket'
  <2>1. ideJob.cmd \in Ide!Packets => Base = 1
         /\ \A i \in 1 .. ideSize : ideBuffer[i] = Ide!Expected(i - 1)
    BY <1>1, <1>a DEF BufferPacket
  <2>2. ASSUME NEW i \in 1 .. ideSize PROVE Ide!Expected(i - 1)' = Ide!Expected(i - 1)
    BY <1>e
  <2> QED BY <1>2, <1>j, <2>1, <2>2 DEF BufferPacket
<1>BufferWritten. BufferWritten'
  BY <1>2, <1>a, <1>j DEF BufferWritten
<1>MediumRight. MediumRight'
  <2>1. Count = 0 /\ Count' = 0
    BY <1>1, <1>2, <1>a, <1>j DEF Count
  <2>2. ideMedium = ideWants
    BY <2>1, MediumIs
  <2>3. \A l \in Ide!Lbas : l \notin ideJob.lba .. ideJob.lba + Count' - 1
    BY <2>1 DEF IdeTyped, Ide!Lbas
  <2> QED BY <1>2, <1>j, <2>1, <2>2, <2>3 DEF MediumRight
<1> QED
  BY <1>MovedFits, <1>3, <1>4, <1>5, <1>Aborted, <1>6, <1>7, <1>Control, <1>PacketPhases,
    <1>IdeTyped, <1>Reading, <1>BufferRead, <1>BufferPacket, <1>BufferWritten, <1>MediumRight DEF
    IdeInv

(* The data register is written, within a block. *)
LEMMA StepWriteMore ==
  ASSUME IdeInv,
         Ide!WriteWord, ~Asks, ~Ide!Moved
  PROVE  IdeInv'
<1>0. /\ ideJob' = [ideJob EXCEPT !.done = ideJob.done + 1]
      /\ ideBuffer' = [ideBuffer EXCEPT ![idePtr + 1] = IF ideJob.cmd \in Ide!Packets THEN ideJob.total - 1 ELSE Ide!Word(ideJob, ideJob.done)]
  BY DEF Ide!Moved, IdeTyped, Ide!WriteWord, Ide!St, Drive, Ide!disks, Ide!busMaster, Ide!thread
<1>1. /\ ideCpu = "data" /\ ~Ide!Incoming /\ Drive.drq /\ idePtr' = idePtr + 1
      /\ ideCpu' = "data" /\ idePtr + 1 < ideSize
  BY DEF Ide!Moved, IdeTyped, Ide!WriteWord, Ide!St, Drive, Ide!disks, Ide!busMaster, Ide!thread
<1>2. UNCHANGED <<ideActive, ideAfter, ideBmIntr, ideIrq, ideKind, ideMedium, ideMemory, ideMoved,
                  idePc, idePhase, idePrd, ideRegs, ideSelected, ideSem, ideSize, ideWants>>
  BY DEF Ide!Moved, IdeTyped, Ide!WriteWord, Ide!St, Drive, Ide!disks, Ide!busMaster, Ide!thread
<1>t. At' = At
  BY <1>2 DEF At
<1>s.
       /\ Drive' = [busy |-> FALSE, drq |-> TRUE, err |-> Drive.err, inProgress |-> Drive.inProgress, cycle |-> Drive.cycle]
      /\ ideStatus' \in [Ide!Drives -> Ide!Status]
  <2>1. ideStatus' = [ideStatus EXCEPT ![ideSelected] = Ide!With(Drive, [drq |-> ~Ide!Moved, busy |-> Ide!Moved])]
    BY DEF Ide!WriteWord, Ide!Set, Ide!St, Drive
  <2>2. (~Ide!Moved) = TRUE /\ (Ide!Moved) = FALSE
    OBVIOUS
  <2>3. Ide!With(Drive, [drq |-> TRUE, busy |-> FALSE])
          = [busy |-> FALSE, drq |-> TRUE, err |-> Drive.err, inProgress |-> Drive.inProgress, cycle |-> Drive.cycle]
    BY DriveIs, Merged
  <2>4. ideStatus' = [ideStatus EXCEPT ![ideSelected] =
           [busy |-> FALSE, drq |-> TRUE, err |-> Drive.err, inProgress |-> Drive.inProgress, cycle |-> Drive.cycle]]
    BY <2>1, <2>2, <2>3
  <2> QED BY <2>4, <1>2, DriveIs DEF IdeTyped, Drive, Ide!Status
<1>a. /\ On /\ Drive.drq /\ ~Drive.busy /\ ideJob.cmd = ideRegs.cmd /\ ~Asking /\ ~Transfers
       /\ Executed /\ ~Refused /\ Drive.inProgress
      /\ ideJob.cmd \in {"write", "writeMultiple"} \/ (ideJob.cmd \in Ide!Packets
          /\ ideJob.done = 0)
      /\ ideJob.cmd \in Ide!Packets => idePhase = "packet" /\ idePtr = 0 /\ ideSize = 1
          /\ ideJob.total - 1 \in 0 .. IdeCountMax
  <2>1. On /\ Drive.drq /\ ~Drive.busy /\ ideJob.cmd = ideRegs.cmd /\ ~Asking /\ ~Transfers
    BY <1>1 DEF Asks, Control, On, Present
  <2>2. /\ Executed /\ ~Refused /\ ideJob.cmd \in Ide!Reads \cup Ide!Writes
        /\ ideJob.cmd \in Ide!Writes \cup Ide!Packets => Drive.inProgress
    <3>1. idePc # "packetLast"
      BY <1>1 DEF Control
    <3> QED BY <2>1, <3>1 DEF Filled, Aborted
  <2>3. ideJob.cmd # "writeDma"
    BY <1>1, <2>1 DEF DmaOver
  <2>4. ideJob.cmd \in {"write", "writeMultiple"} \/ (ideJob.cmd \in Ide!Packets /\ ideJob.done = 0)
    BY <1>1, <2>2, <2>3 DEF Ide!Incoming
  <2>5. ideJob.cmd \in Ide!Packets => idePhase = "packet" /\ idePtr = 0 /\ ideSize = 1
         /\ ideJob.total - 1 \in 0 .. IdeCountMax
    <3>1. ideJob.cmd \in Ide!Packets => ideJob.done = 0
      BY <2>4
    <3>2. ideJob.cmd \in Ide!Packets => ideJob.total - 1 \in 0 .. IdeCountMax
      BY <2>1 DEF InLimits
    <3> QED BY <1>1, <2>1, <2>2, <3>1, <3>2 DEF Asks, PacketPhases, Running
  <2>6. Drive.inProgress
    BY <2>2, <2>4
  <2> QED BY <2>1, <2>2, <2>4, <2>5, <2>6
<1>j. /\ ideJob' \in [id : Nat, cmd : AllCommands \cup {"none"}, lba : Nat, total : Nat, done : Nat]
      /\ ideJob'.id = ideJob.id /\ ideJob'.cmd = ideJob.cmd /\ ideJob'.lba = ideJob.lba
          /\ ideJob'.total = ideJob.total
      /\ ideJob'.done = ideJob.done + 1 /\ ideJob'.done \in Nat /\ Base' = Base
      /\ \A i \in Int : Ide!Word(ideJob', i) = Ide!Word(ideJob, i)
  <2>1. ideJob \in [id : Nat, cmd : AllCommands \cup {"none"}, lba : Nat, total : Nat, done : Nat] /\ idePtr \in Nat
    BY Parameters DEF IdeTyped
  <2> QED BY <1>0, <1>1, <2>1 DEF Base, Ide!Word
<1>e. \A k \in Int : Ide!Expected(k)' = Ide!Expected(k)
  BY <1>1, <1>2, <1>j DEF Ide!Expected
<1>q. /\ idePtr \in Nat /\ ideSize \in Nat /\ ideJob.done \in Nat /\ ideSize <= IdeCountMax
       /\ IdeCountMax \in Nat /\ idePtr < ideSize
      /\ idePtr' \in 0 .. IdeCountMax /\ idePtr' = idePtr + 1 /\ Base \in Int
      /\ ideSize = idePtr + 1 \/ ideSize > idePtr + 1
  <2>1. /\ idePtr \in Nat /\ ideSize \in Nat /\ ideSize <= IdeCountMax /\ IdeCountMax \in Nat
         /\ ideJob.done \in Nat
    BY Parameters DEF IdeTyped
  <2>2. idePtr < ideSize
    <3>1. idePc # "packetLast"
      BY <1>1 DEF Control
    <3> QED BY <1>a, <3>1 DEF Filled
  <2> QED BY <1>1, <2>1, <2>2 DEF Base
<1>b. /\ ideBuffer' \in [1 .. IdeCountMax -> Int]
      /\ ideJob.cmd \in {"write", "writeMultiple"} => Base >= 0
          /\ \A i \in 1 .. idePtr' : ideBuffer'[i] = Ide!Word(ideJob, Base + i - 1)
      /\ ideJob.cmd \in Ide!Packets => ideBuffer'[1] = ideJob.total - 1 /\ ideJob'.done = 1
          /\ idePtr' = 1
  <2> DEFINE v == IF ideJob.cmd \in Ide!Packets THEN ideJob.total - 1
                  ELSE Ide!Word(ideJob, ideJob.done)
  <2>1. ideBuffer \in [1 .. IdeCountMax -> Int] /\ ideJob.id \in Nat
    BY DEF IdeTyped
  <2>2. v \in Int
    <3>1. ideJob.cmd \in Ide!Packets => ideJob.total - 1 \in Int
      BY <1>a, Parameters
    <3>2. ideJob.id * IdeSectors + ideJob.done \in Int
      BY <1>q, <2>1, Parameters
    <3> QED BY <3>1, <3>2 DEF Ide!Word
  <2>3. ideBuffer' = [ideBuffer EXCEPT ![idePtr + 1] = v]
    BY <1>0
  <2>4. (ideJob.cmd \notin Ide!Packets => v = Ide!Word(ideJob, ideJob.done))
         /\ (ideJob.cmd \in Ide!Packets => v = ideJob.total - 1)
    OBVIOUS
  <2> HIDE DEF v
  <2>5. idePtr + 1 \in 1 .. IdeCountMax
    BY <1>q
  <2>6. ideBuffer' \in [1 .. IdeCountMax -> Int] /\ ideBuffer'[idePtr + 1] = v
         /\ \A i \in 1 .. idePtr : ideBuffer'[i] = ideBuffer[i]
    <3>1. \A i \in 1 .. idePtr : i \in 1 .. IdeCountMax /\ i # idePtr + 1
      BY <1>q
    <3> QED BY <2>1, <2>2, <2>3, <2>5, <3>1
  <2>7. ASSUME ideJob.cmd \in {"write", "writeMultiple"}
        PROVE  Base >= 0 /\ \A i \in 1 .. idePtr' : ideBuffer'[i] = Ide!Word(ideJob, Base + i - 1)
    <3>1. Base >= 0 /\ \A i \in 1 .. idePtr : ideBuffer[i] = Ide!Word(ideJob, Base + i - 1)
      BY <1>a, <2>7 DEF BufferWritten
    <3>2. Base + (idePtr + 1) - 1 = ideJob.done
      BY <1>q DEF Base
    <3>3. v = Ide!Word(ideJob, Base + (idePtr + 1) - 1)
      BY <2>4, <2>7, <3>2
    <3>4. \A i \in 1 .. idePtr' : i \in 1 .. idePtr \/ i = idePtr + 1
      BY <1>q
    <3> QED BY <2>6, <3>1, <3>3, <3>4
  <2>8. ideJob.cmd \in Ide!Packets => ideBuffer'[1] = ideJob.total - 1 /\ ideJob'.done = 1
         /\ idePtr' = 1
    <3>1. ideJob.cmd \in Ide!Packets => ideJob.done = 0
      BY <1>a
    <3> QED BY <1>a, <1>j, <1>q, <2>4, <2>6, <3>1
  <2> QED BY <2>6, <2>7, <2>8
<1>MovedFits. MovedFits'
  BY SMTT(60), <1>2 DEF AtTransfer, MovedFits
<1>3. (OneHasCommand /\ OneHasTransfer /\ Control /\ Fresh /\ InLimits)'
  BY <1>1, <1>2, <1>s, <1>a, <1>j DEF AllCommands, Asked, Asking, Asks, AtAnswer, AtEnd, AtTransfer,
    Control, Drive, Executed, Fresh, InLimits, MasterStarts, On, OneHasCommand, OneHasTransfer,
    Present, Refused, Transfers
<1>4. (PacketPhases /\ Aborted)'
  BY <1>1, <1>2, <1>a, <1>j DEF Aborted, Asked, Asking, Asks, AtAnswer, AtTransfer, Drive, Executed,
    MasterStarts, On, PacketPhases, Present, Refused, Running, Transfers
<1>5. (MemoryWritten /\ DmaOver)'
  BY <1>2, <1>a, <1>j DEF Asked, Asking, AtTransfer, DmaOver, Drive, MemoryWritten, On, Present,
    Transfers
<1>6. (Filled /\ Sizes)'
  BY <1>1, <1>2, <1>s, <1>a, <1>j DEF Asks, AtTransfer, Drive, Executed, Filled, On, Present, Sizes,
    Transfers
<1>Writing. Writing'
  BY <1>1, <1>2, <1>a, <1>j DEF Asked, Asking, Base, Drive, Executed, On, Present, Refused, Running,
    Writing
<1>WritingMultiple. WritingMultiple'
  BY <1>1, <1>2, <1>s, <1>t, <1>j DEF Asked, Asking, Base, Drive, Executed, On, Present, Refused,
    Running, WritingMultiple
<1>MemoryRead. MemoryRead'
  BY <1>1, <1>2, <1>a, <1>j DEF Asked, Asking, AtTransfer, MemoryRead
<1>IdeTyped. IdeTyped'
  <2>1. ideCpu' \in DriverSteps
    BY <1>1 DEF DriverSteps
  <2> QED BY <1>1, <1>2, <1>s, <1>b, <1>j, <1>q, <2>1 DEF IdeTyped
<1>Reading. Reading'
  BY <1>2, <1>a, <1>j DEF Reading
<1>BufferRead. BufferRead'
  BY <1>2, <1>a, <1>j DEF BufferRead
<1>BufferPacket. BufferPacket'
  BY <1>1, <1>2, <1>a, <1>j, <1>q, <1>s DEF BufferPacket, Drive
<1>BufferWritten. BufferWritten'
  <2>1. ASSUME ideJob.cmd \in {"write", "writeMultiple"}, NEW i \in 1 .. idePtr' PROVE ideBuffer'[i] = Ide!Word(ideJob, Base + i - 1)'
    BY <1>b, <1>j, <1>q, <2>1
  <2> QED BY <1>b, <1>j, <2>1 DEF BufferWritten
<1>BufferDma. BufferDma'
  BY <1>2, <1>a, <1>j, <1>1 DEF BufferDma, Transfers, AtTransfer
<1>MediumRight. MediumRight'
  <2>1. Count' = Count
    BY <1>1, <1>2, <1>a, <1>j DEF Count
  <2> QED BY <1>1, <1>2, <1>j, <2>1, MediumKept
<1> QED
  BY <1>MovedFits, <1>3, <1>4, <1>5, <1>6, <1>Writing, <1>WritingMultiple, <1>MemoryRead,
    <1>IdeTyped, <1>Reading, <1>BufferRead, <1>BufferPacket, <1>BufferWritten, <1>BufferDma,
    <1>MediumRight DEF IdeInv

(* The last word of a block is written, and the thread is to take it. *)
LEMMA StepWriteLast ==
  ASSUME IdeInv,
         Ide!WriteWord, ~Asks, Ide!Moved
  PROVE  IdeInv'
<1>0. /\ ideJob' = [ideJob EXCEPT !.done = ideJob.done + 1]
      /\ ideBuffer' = [ideBuffer EXCEPT ![idePtr + 1] = IF ideJob.cmd \in Ide!Packets THEN ideJob.total - 1 ELSE Ide!Word(ideJob, ideJob.done)]
  BY DEF Ide!Moved, IdeTyped, Ide!WriteWord, Ide!St, Drive, Ide!disks, Ide!busMaster, Ide!thread
<1>1. /\ ideCpu = "data" /\ ~Ide!Incoming /\ Drive.drq /\ idePtr' = idePtr + 1
      /\ ideCpu' = "readyWait" /\ idePtr + 1 >= ideSize
  BY DEF Ide!Moved, IdeTyped, Ide!WriteWord, Ide!St, Drive, Ide!disks, Ide!busMaster, Ide!thread
<1>2. UNCHANGED <<ideActive, ideAfter, ideBmIntr, ideIrq, ideKind, ideMedium, ideMemory, ideMoved,
                  idePc, idePhase, idePrd, ideRegs, ideSelected, ideSem, ideSize, ideWants>>
  BY DEF Ide!Moved, IdeTyped, Ide!WriteWord, Ide!St, Drive, Ide!disks, Ide!busMaster, Ide!thread
<1>t. At' = At
  BY <1>2 DEF At
<1>s.
       /\ Drive' = [busy |-> TRUE, drq |-> FALSE, err |-> Drive.err, inProgress |-> Drive.inProgress, cycle |-> Drive.cycle]
      /\ ideStatus' \in [Ide!Drives -> Ide!Status]
  <2>1. ideStatus' = [ideStatus EXCEPT ![ideSelected] = Ide!With(Drive, [drq |-> ~Ide!Moved, busy |-> Ide!Moved])]
    BY DEF Ide!WriteWord, Ide!Set, Ide!St, Drive
  <2>2. (~Ide!Moved) = FALSE /\ (Ide!Moved) = TRUE
    OBVIOUS
  <2>3. Ide!With(Drive, [drq |-> FALSE, busy |-> TRUE])
          = [busy |-> TRUE, drq |-> FALSE, err |-> Drive.err, inProgress |-> Drive.inProgress, cycle |-> Drive.cycle]
    BY DriveIs, Merged
  <2>4. ideStatus' = [ideStatus EXCEPT ![ideSelected] =
           [busy |-> TRUE, drq |-> FALSE, err |-> Drive.err, inProgress |-> Drive.inProgress, cycle |-> Drive.cycle]]
    BY <2>1, <2>2, <2>3
  <2> QED BY <2>4, <1>2, DriveIs DEF IdeTyped, Drive, Ide!Status
<1>a. /\ On /\ Drive.drq /\ ~Drive.busy /\ ideJob.cmd = ideRegs.cmd /\ ~Asking /\ ~Transfers
       /\ Executed /\ ~Refused /\ Drive.inProgress
      /\ ideJob.cmd \in {"write", "writeMultiple"} \/ (ideJob.cmd \in Ide!Packets
          /\ ideJob.done = 0)
      /\ ideJob.cmd \in Ide!Packets => idePhase = "packet" /\ idePtr = 0 /\ ideSize = 1
          /\ ideJob.total - 1 \in 0 .. IdeCountMax
  <2>1. On /\ Drive.drq /\ ~Drive.busy /\ ideJob.cmd = ideRegs.cmd /\ ~Asking /\ ~Transfers
    BY <1>1 DEF Asks, Control, On, Present
  <2>2. /\ Executed /\ ~Refused /\ ideJob.cmd \in Ide!Reads \cup Ide!Writes
        /\ ideJob.cmd \in Ide!Writes \cup Ide!Packets => Drive.inProgress
    <3>1. idePc # "packetLast"
      BY <1>1 DEF Control
    <3> QED BY <2>1, <3>1 DEF Filled, Aborted
  <2>3. ideJob.cmd # "writeDma"
    BY <1>1, <2>1 DEF DmaOver
  <2>4. ideJob.cmd \in {"write", "writeMultiple"} \/ (ideJob.cmd \in Ide!Packets /\ ideJob.done = 0)
    BY <1>1, <2>2, <2>3 DEF Ide!Incoming
  <2>5. ideJob.cmd \in Ide!Packets => idePhase = "packet" /\ idePtr = 0 /\ ideSize = 1
         /\ ideJob.total - 1 \in 0 .. IdeCountMax
    <3>1. ideJob.cmd \in Ide!Packets => ideJob.done = 0
      BY <2>4
    <3>2. ideJob.cmd \in Ide!Packets => ideJob.total - 1 \in 0 .. IdeCountMax
      BY <2>1 DEF InLimits
    <3> QED BY <1>1, <2>1, <2>2, <3>1, <3>2 DEF Asks, PacketPhases, Running
  <2>6. Drive.inProgress
    BY <2>2, <2>4
  <2> QED BY <2>1, <2>2, <2>4, <2>5, <2>6
<1>j. /\ ideJob' \in [id : Nat, cmd : AllCommands \cup {"none"}, lba : Nat, total : Nat, done : Nat]
      /\ ideJob'.id = ideJob.id /\ ideJob'.cmd = ideJob.cmd /\ ideJob'.lba = ideJob.lba
          /\ ideJob'.total = ideJob.total
      /\ ideJob'.done = ideJob.done + 1 /\ ideJob'.done \in Nat /\ Base' = Base
      /\ \A i \in Int : Ide!Word(ideJob', i) = Ide!Word(ideJob, i)
  <2>1. ideJob \in [id : Nat, cmd : AllCommands \cup {"none"}, lba : Nat, total : Nat, done : Nat] /\ idePtr \in Nat
    BY Parameters DEF IdeTyped
  <2> QED BY <1>0, <1>1, <2>1 DEF Base, Ide!Word
<1>e. \A k \in Int : Ide!Expected(k)' = Ide!Expected(k)
  BY <1>1, <1>2, <1>j DEF Ide!Expected
<1>q. /\ idePtr \in Nat /\ ideSize \in Nat /\ ideJob.done \in Nat /\ ideSize <= IdeCountMax
       /\ IdeCountMax \in Nat /\ idePtr < ideSize
      /\ idePtr' \in 0 .. IdeCountMax /\ idePtr' = idePtr + 1 /\ Base \in Int
      /\ ideSize = idePtr + 1 \/ ideSize > idePtr + 1
  <2>1. /\ idePtr \in Nat /\ ideSize \in Nat /\ ideSize <= IdeCountMax /\ IdeCountMax \in Nat
         /\ ideJob.done \in Nat
    BY Parameters DEF IdeTyped
  <2>2. idePtr < ideSize
    <3>1. idePc # "packetLast"
      BY <1>1 DEF Control
    <3> QED BY <1>a, <3>1 DEF Filled
  <2> QED BY <1>1, <2>1, <2>2 DEF Base
<1>b. /\ ideBuffer' \in [1 .. IdeCountMax -> Int]
      /\ ideJob.cmd \in {"write", "writeMultiple"} => Base >= 0
          /\ \A i \in 1 .. idePtr' : ideBuffer'[i] = Ide!Word(ideJob, Base + i - 1)
      /\ ideJob.cmd \in Ide!Packets => ideBuffer'[1] = ideJob.total - 1 /\ ideJob'.done = 1
          /\ idePtr' = 1
  <2> DEFINE v == IF ideJob.cmd \in Ide!Packets THEN ideJob.total - 1
                  ELSE Ide!Word(ideJob, ideJob.done)
  <2>1. ideBuffer \in [1 .. IdeCountMax -> Int] /\ ideJob.id \in Nat
    BY DEF IdeTyped
  <2>2. v \in Int
    <3>1. ideJob.cmd \in Ide!Packets => ideJob.total - 1 \in Int
      BY <1>a, Parameters
    <3>2. ideJob.id * IdeSectors + ideJob.done \in Int
      BY <1>q, <2>1, Parameters
    <3> QED BY <3>1, <3>2 DEF Ide!Word
  <2>3. ideBuffer' = [ideBuffer EXCEPT ![idePtr + 1] = v]
    BY <1>0
  <2>4. (ideJob.cmd \notin Ide!Packets => v = Ide!Word(ideJob, ideJob.done))
         /\ (ideJob.cmd \in Ide!Packets => v = ideJob.total - 1)
    OBVIOUS
  <2> HIDE DEF v
  <2>5. idePtr + 1 \in 1 .. IdeCountMax
    BY <1>q
  <2>6. ideBuffer' \in [1 .. IdeCountMax -> Int] /\ ideBuffer'[idePtr + 1] = v
         /\ \A i \in 1 .. idePtr : ideBuffer'[i] = ideBuffer[i]
    <3>1. \A i \in 1 .. idePtr : i \in 1 .. IdeCountMax /\ i # idePtr + 1
      BY <1>q
    <3> QED BY <2>1, <2>2, <2>3, <2>5, <3>1
  <2>7. ASSUME ideJob.cmd \in {"write", "writeMultiple"}
        PROVE  Base >= 0 /\ \A i \in 1 .. idePtr' : ideBuffer'[i] = Ide!Word(ideJob, Base + i - 1)
    <3>1. Base >= 0 /\ \A i \in 1 .. idePtr : ideBuffer[i] = Ide!Word(ideJob, Base + i - 1)
      BY <1>a, <2>7 DEF BufferWritten
    <3>2. Base + (idePtr + 1) - 1 = ideJob.done
      BY <1>q DEF Base
    <3>3. v = Ide!Word(ideJob, Base + (idePtr + 1) - 1)
      BY <2>4, <2>7, <3>2
    <3>4. \A i \in 1 .. idePtr' : i \in 1 .. idePtr \/ i = idePtr + 1
      BY <1>q
    <3> QED BY <2>6, <3>1, <3>3, <3>4
  <2>8. ideJob.cmd \in Ide!Packets => ideBuffer'[1] = ideJob.total - 1 /\ ideJob'.done = 1
         /\ idePtr' = 1
    <3>1. ideJob.cmd \in Ide!Packets => ideJob.done = 0
      BY <1>a
    <3> QED BY <1>a, <1>j, <1>q, <2>4, <2>6, <3>1
  <2> QED BY <2>6, <2>7, <2>8
<1>MovedFits. MovedFits'
  BY SMTT(60), <1>2 DEF AtTransfer, MovedFits
<1>3. (OneHasCommand /\ OneHasTransfer /\ Control /\ Fresh /\ InLimits)'
  BY SMTT(60), <1>1, <1>2, <1>s, <1>a, <1>j DEF AllCommands, Asked, Asking, Asks, AtAnswer, AtEnd,
    AtTransfer, Control, Drive, Executed, Fresh, InLimits, MasterStarts, On, OneHasCommand,
    OneHasTransfer, Present, Refused, Transfers
<1>4. (Sizes /\ MemoryWritten /\ DmaOver)'
  BY <1>2, <1>a, <1>j DEF Asked, Asking, AtTransfer, DmaOver, Drive, MemoryWritten, On, Present,
    Sizes, Transfers
<1>5. (Aborted /\ Filled)'
  BY <1>1, <1>2, <1>s, <1>j DEF Aborted, Asked, Asking, Asks, Drive, Executed, Filled, On, Present,
    Refused
<1>Writing. Writing'
  BY SMTT(60), <1>1, <1>2, <1>s, <1>t, <1>j DEF Asked, Asking, Base, Drive, Executed, On, Present,
    Refused, Running, Writing
<1>WritingMultiple. WritingMultiple'
  BY SMTT(60), <1>1, <1>2, <1>s, <1>t, <1>j, <1>q DEF Asked, Asking, Base, Drive, Executed, On,
    Present, Refused, Running, WritingMultiple
<1>PacketPhases. PacketPhases'
  BY <1>1, <1>2, <1>s, <1>a, <1>j, <1>b DEF AllCommands, Asked, Asking, Asks, AtAnswer, AtEnd,
    AtTransfer, Control, Drive, Executed, MasterStarts, On, PacketPhases, Present, Refused, Running,
    Transfers
<1>MemoryRead. MemoryRead'
  BY <1>2, <1>a, <1>j DEF AllCommands, Asked, Asking, Asks, AtAnswer, AtEnd, AtTransfer, Control,
    Drive, Executed, MasterStarts, MemoryRead, Present, Transfers
<1>IdeTyped. IdeTyped'
  <2>1. ideCpu' \in DriverSteps
    BY <1>1 DEF DriverSteps
  <2> QED BY <1>1, <1>2, <1>s, <1>b, <1>j, <1>q, <2>1 DEF IdeTyped
<1>Reading. Reading'
  BY <1>2, <1>a, <1>j DEF Reading
<1>BufferRead. BufferRead'
  BY <1>2, <1>a, <1>j DEF BufferRead
<1>BufferPacket. BufferPacket'
  BY <1>1, <1>2, <1>a, <1>j, <1>q, <1>s DEF BufferPacket, Drive
<1>BufferWritten. BufferWritten'
  <2>1. ASSUME ideJob.cmd \in {"write", "writeMultiple"}, NEW i \in 1 .. idePtr' PROVE ideBuffer'[i] = Ide!Word(ideJob, Base + i - 1)'
    BY <1>b, <1>j, <1>q, <2>1
  <2> QED BY <1>b, <1>j, <2>1 DEF BufferWritten
<1>BufferDma. BufferDma'
  BY <1>2, <1>a, <1>j, <1>1 DEF BufferDma, Transfers, AtTransfer
<1>MediumRight. MediumRight'
  <2>1. Count' = Count
    BY <1>1, <1>2, <1>a, <1>j DEF Count
  <2> QED BY <1>1, <1>2, <1>j, <2>1, MediumKept
<1> QED
  BY <1>MovedFits, <1>3, <1>4, <1>5, <1>Writing, <1>WritingMultiple, <1>PacketPhases, <1>MemoryRead,
    <1>IdeTyped, <1>Reading, <1>BufferRead, <1>BufferPacket, <1>BufferWritten, <1>BufferDma,
    <1>MediumRight DEF IdeInv

(* A software reset, when the thread waits for the driver. *)
LEMMA StepSoftReset ==
  ASSUME IdeInv,
         Ide!SoftReset
  PROVE  IdeInv'
<1>1. /\ ideCpu \in {"issued", "data"} /\ idePc = "wait" /\ ideSem["ready"] = 1
       /\ ideCpu' = "idle" /\ ideWants' = ideMedium
  BY DEF Ide!SoftReset, Ide!disks, Ide!busMaster, Ide!thread
<1>2. UNCHANGED <<ideActive, ideAfter, ideBmIntr, ideBuffer, ideIrq, ideKind, ideMedium, ideMemory,
                  ideMoved, idePc, idePhase, idePrd, idePtr, ideSem, ideSize>>
  BY DEF Ide!SoftReset, Ide!disks, Ide!busMaster, Ide!thread
<1>a. ideSem["controller"] = 0 /\ ideSem["master"] = 0
  BY SMTT(60), <1>1 DEF Asks, IdeTyped, Control, OneHasCommand, Asked
<1>y. /\ ideStatus' \in [Ide!Drives -> Ide!Status] /\ ideRegs' \in Registers
       /\ ideRegs'.cmd = "none" /\ ideSelected' \in Ide!Drives
      /\ ideJob' \in [id : Nat, cmd : AllCommands \cup {"none"}, lba : Nat, total : Nat, done : Nat] /\ ideJob'.cmd = "none"
      /\ ideWants' \in [Ide!Drives -> [Ide!Lbas -> Int]]
  <2>1.
         /\ ideJob \in [id : Nat, cmd : AllCommands \cup {"none"}, lba : Nat, total : Nat, done : Nat] /\ ideRegs \in Registers
        /\ ideStatus \in [Ide!Drives -> Ide!Status] /\ ideSelected \in Ide!Drives
            /\ ideMedium \in [Ide!Drives -> [Ide!Lbas -> Int]]
    BY DEF IdeTyped
  <2>2. ideJob' = [ideJob EXCEPT !.cmd = "none"]
         /\ ideRegs' = [ideRegs EXCEPT !.cmd = "none", !.count = 1, !.cyl = 0, !.sec = 1]
    BY DEF Ide!SoftReset
  <2>3. 1 \in 0 .. IdeCountMax /\ 1 \in Nat /\ 0 \in Nat
    BY Parameters
  <2>4. ideRegs' = [cmd |-> "none", count |-> 1, cyl |-> 0, sec |-> 1]
    BY <2>1, <2>2 DEF Registers
  <2>5. ideSelected' \in Ide!Drives
    BY <2>1 DEF Ide!SoftReset, Ide!Signature, Ide!Drives
  <2>6. ideStatus' = [d \in Ide!Drives |-> [ideStatus[d] EXCEPT !.busy = FALSE, !.drq = FALSE, !.err = FALSE, !.inProgress = FALSE]]
    BY DEF Ide!SoftReset
  <2>7. \A d \in Ide!Drives : ideStatus'[d] \in Ide!Status
    BY ZenonT(60), <2>1, <2>6 DEF Ide!Status
  <2> QED BY <1>1, <2>1, <2>2, <2>3, <2>4, <2>5, <2>6, <2>7 DEF Registers
<1>MovedFits. MovedFits'
  BY SMTT(60), <1>2 DEF AtTransfer, MovedFits
<1>IdeTyped. IdeTyped'
  BY <1>1, <1>2, <1>y DEF IdeTyped, Steps, DriverSteps
<1>OneHasCommand. OneHasCommand'
  BY <1>1, <1>2 DEF OneHasCommand
<1>OneHasTransfer. OneHasTransfer'
  BY <1>1, <1>2 DEF OneHasTransfer, AtTransfer
<1>Control. Control'
  BY <1>1, <1>2, <1>a, <1>y DEF Asks, Control, Asked, Asking, Present, MasterStarts, Transfers,
    AtTransfer, AtAnswer, AtEnd
<1>Fresh. Fresh'
  BY <1>1 DEF Fresh, On
<1>InLimits. InLimits'
  BY <1>1 DEF InLimits, On
<1>Reading. Reading'
  BY <1>1 DEF Reading, On, Running
<1>Writing. Writing'
  BY <1>1 DEF Writing, On, Running
<1>WritingMultiple. WritingMultiple'
  BY <1>1 DEF WritingMultiple, On, Running
<1>PacketPhases. PacketPhases'
  BY <1>1 DEF Asks, PacketPhases, On
<1>Aborted. Aborted'
  BY <1>1 DEF Aborted, Asks, On
<1>Filled. Filled'
  BY <1>1 DEF Asks, Filled, On
<1>BufferRead. BufferRead'
  BY <1>1 DEF BufferRead, On
<1>BufferPacket. BufferPacket'
  BY <1>1 DEF BufferPacket, On
<1>BufferWritten. BufferWritten'
  BY <1>1 DEF BufferWritten, On
<1>Sizes. Sizes'
  BY <1>y DEF Sizes
<1>BufferDma. BufferDma'
  BY <1>y DEF BufferDma
<1>MemoryRead. MemoryRead'
  BY <1>y DEF MemoryRead
<1>MemoryWritten. MemoryWritten'
  BY <1>1 DEF MemoryWritten, On
<1>DmaOver. DmaOver'
  BY <1>1 DEF DmaOver, On
<1>MediumRight. MediumRight'
  BY <1>1, <1>2 DEF MediumRight
<1> QED
  BY <1>MovedFits, <1>IdeTyped, <1>OneHasCommand, <1>OneHasTransfer, <1>Control, <1>Fresh,
    <1>InLimits, <1>Reading, <1>Writing, <1>WritingMultiple, <1>PacketPhases, <1>Aborted, <1>Filled,
    <1>BufferRead, <1>BufferPacket, <1>BufferWritten, <1>Sizes, <1>BufferDma, <1>MemoryRead,
    <1>MemoryWritten, <1>DmaOver, <1>MediumRight DEF IdeInv

(* Whatever READ SECTORS or READ MULTIPLE asks for goes into the buffer. *)
LEMMA StepRead ==
  ASSUME AlignedDriver, IdeInv, Ide!ExecuteRead \/ Ide!ExecuteReadMultiple
  PROVE  IdeInv'
<1> DEFINE n == IF ideRegs.cmd = "read" THEN 1 ELSE Ide!Least(Ide!Remaining, IdeMultiple)
<1>1. /\ idePc = "run" /\ Drive.inProgress /\ Present /\ ideRegs.cmd \in {"read", "readMultiple"}
      /\ ~Ide!Refused(ideRegs.cmd, ideKind[ideSelected]) /\ Ide!ReadBlock(n)
  BY AbortsIs DEF Ide!ExecuteRead, Ide!ExecuteReadMultiple, Ide!Executes, Ide!Running, Ide!St,
    Drive, Present
<1>2. n = IF ideRegs.cmd = "read" THEN 1 ELSE Ide!Least(Ide!Remaining, IdeMultiple)
  OBVIOUS
<1> HIDE DEF n
<1> QED BY <1>1, <1>2, StepReadBlock

(* WRITE SECTORS and WRITE MULTIPLE ask for a block or write the one they have. *)
LEMMA StepWrite ==
  ASSUME IdeInv, Ide!ExecuteWrite \/ Ide!ExecuteWriteMultiple
  PROVE  IdeInv'
<1>1. /\ idePc = "run" /\ Drive.inProgress /\ Present /\ ideRegs.cmd \in {"write", "writeMultiple"}
      /\ ~Ide!Refused(ideRegs.cmd, ideKind[ideSelected])
  BY AbortsIs DEF Ide!ExecuteWrite, Ide!ExecuteWriteMultiple, Ide!Executes, Ide!Running, Ide!St,
    Drive,
    Present
<1>2. CASE Ide!ExecuteWrite
  <2>1. ideRegs.cmd = "write"
    BY <1>2 DEF Ide!ExecuteWrite, Ide!Executes
  <2>2. ASSUME Ide!AskFirst("askWrite") PROVE IdeInv'
    BY <1>1, <2>1, <2>2, StepAskFirst
  <2> DEFINE then == [IF ideRegs.count - 1 = 0 THEN ideRegs ELSE Ide!Advance(ideRegs, 1) EXCEPT !.count = ideRegs.count - 1]
  <2>3. ASSUME Ide!WriteBlock(1, ideRegs.count - 1 # 0, ideSize, then)
        PROVE  IdeInv'
    <3>1. ~Ide!FirstTime(Ide!St.cycle)
      BY <2>3 DEF Ide!WriteBlock
    <3>2. ideRegs.cmd \in {"write"}
      BY <2>1
    <3>3. then = [IF ideRegs.count - 1 = 0 THEN ideRegs ELSE Ide!Advance(ideRegs, 1) EXCEPT !.count = ideRegs.count - 1]
      OBVIOUS
    <3> HIDE DEF then
    <3> QED BY <1>1, <2>3, <3>1, <3>2, <3>3, StepWriteOne
  <2> QED BY <1>2, <2>2, <2>3 DEF Ide!ExecuteWrite
<1>3. CASE Ide!ExecuteWriteMultiple
  <2>1. ideRegs.cmd = "writeMultiple"
    BY <1>3 DEF Ide!ExecuteWriteMultiple, Ide!Executes
  <2>2. ASSUME Ide!AskFirst("askMultiple") PROVE IdeInv'
    BY <1>1, <2>1, <2>2, StepAskFirst
  <2>3. ASSUME Ide!WriteBlock(ideSize, FALSE, ideSize, ideRegs) PROVE IdeInv'
    <3>1. ~Ide!FirstTime(Ide!St.cycle)
      BY <2>3 DEF Ide!WriteBlock
    <3>2. ideRegs.cmd \in {"writeMultiple"}
      BY <2>1
    <3> QED BY <1>1, <2>3, <3>1, <3>2, StepWriteAll
  <2>4. ASSUME ideRegs.count # 0, ~Ide!FirstTime(Ide!St.cycle) PROVE FALSE
    <3>1. Drive.cycle # 0
      BY <2>4 DEF Ide!FirstTime, Ide!St, Drive
    <3>2. Running /\ ideJob.cmd = "writeMultiple"
      BY <1>1, <2>1, <3>1 DEF Control, Running, On, Executed, Asked, Asking, Refused
    <3> QED BY <2>4, <3>2 DEF WritingMultiple
  <2> QED BY <1>3, <2>2, <2>3, <2>4 DEF Ide!ExecuteWriteMultiple, Ide!WriteBlock
<1> QED BY <1>2, <1>3

(* A pass that finds the data register in use cannot be: the driver wakes the *)
(* thread when it is through with it. *)
LEMMA StepNothingYet ==
  ASSUME IdeInv, Ide!NothingYet
  PROVE  IdeInv'
<1>1. idePc = "run" /\ Drive.drq
  BY DEF Ide!NothingYet, Ide!Executes, Ide!Running, Ide!St, Drive
<1> QED BY <1>1 DEF Control, Asking, Asked

(* The commands that only set the status. *)
LEMMA StepStatus ==
  ASSUME IdeInv, Ide!ExecuteRecalibrate \/ Ide!ExecuteSeek \/ Ide!ExecuteFlush \/ Ide!ExecuteParameters
  PROVE  IdeInv'
<1>1. PICK err \in BOOLEAN : Ide!SetStatusOnly(err)
  BY DEF Ide!ExecuteRecalibrate, Ide!ExecuteSeek, Ide!ExecuteFlush, Ide!ExecuteParameters
<1>2. /\ idePc = "run" /\ Drive.inProgress /\ Present
      /\ ideRegs.cmd \in {"recalibrate", "seek", "flush", "parameters"}
      /\ ~Ide!Refused(ideRegs.cmd, ideKind[ideSelected])
  BY AbortsIs DEF Ide!ExecuteRecalibrate, Ide!ExecuteSeek, Ide!ExecuteFlush, Ide!ExecuteParameters,
    Ide!Executes, Ide!Running, Ide!St, Drive, Present
<1> QED BY <1>1, <1>2, StepStatusOnly

(* A packet that has arrived is empty, or answered through the data register or *)
(* by the bus master. *)
LEMMA StepPacket ==
  ASSUME IdeInv, Ide!ExecutePacket
  PROVE  IdeInv'
<1> DEFINE n == ideBuffer[1]
<1>0. n \in 0 .. IdeCountMax /\ 0 \in 0 .. IdeCountMax
  <2>1. /\ idePc = "run" /\ Present /\ ideRegs.cmd \in Ide!Packets /\ idePhase = "packet"
    BY DEF Ide!ExecutePacket, Ide!Executes, Ide!Running, Present
  <2>2. On /\ ideJob.cmd = ideRegs.cmd /\ ideCpu # "command"
    BY <2>1 DEF Control, Asked, On
  <2>3. n = ideJob.total - 1 /\ ideJob.total - 1 \in 0 .. IdeCountMax
    BY <2>1, <2>2 DEF PacketPhases, InLimits, Asked
  <2> QED BY <2>3, Parameters
<1>1. n = 0 \/ (n # 0 /\ ideRegs.cmd = "packet") \/ (n # 0 /\ ideRegs.cmd = "packetDma")
  BY <1>0 DEF Ide!ExecutePacket
<1>2. CASE n = 0
  BY <1>0, <1>2, StepPacketEmpty
<1>3. CASE n # 0 /\ ideRegs.cmd = "packet"
  <2>1. n = ideBuffer[1]
    OBVIOUS
  <2> HIDE DEF n
  <2> QED BY <1>0, <1>3, <2>1, StepPacketData
<1>4. CASE n # 0 /\ ideRegs.cmd = "packetDma"
  <2>1. n = ideBuffer[1]
    OBVIOUS
  <2> HIDE DEF n
  <2> QED BY <1>0, <1>4, <2>1, StepPacketDma
<1> QED BY <1>1, <1>2, <1>3, <1>4

(* A step of the controller's thread. *)
LEMMA StepThread ==
  ASSUME AlignedDriver, IdeInv, Ide!Thread
  PROVE  IdeInv'
<1>1. CASE Ide!Execute
  BY <1>1, StepNothing, StepAbort, StepStatus, StepExecuteReset, StepRead, StepWrite,
    StepExecuteIdentify,
    StepExecuteDma, StepExecutePacketFirst, StepPacket, StepExecutePacketLast, StepNothingYet
    DEF Ide!Execute
<1>2. CASE Ide!ReadDescriptor
  <2> DEFINE n == Ide!Fits(Head(idePrd))
  <2>1. n = Ide!Fits(Head(idePrd))
    OBVIOUS
  <2> HIDE DEF n
  <2> QED BY <1>2, <2>1, StepReadDescriptor
<1>3. CASE Ide!DmaDone
  <2>1. CASE ideRegs.cmd \in Ide!Packets
    BY <1>3, <2>1, StepDmaDonePacket
  <2>2. CASE ideRegs.cmd \notin Ide!Packets
    BY <1>3, <2>2, StepDmaDone
  <2> QED BY <2>1, <2>2
<1> QED BY <1>1, <1>2, <1>3, StepAwake, StepRaise, StepAfterPacket, StepMasterWait, StepTransferred,
      StepMasterReady, StepFinish, StepReady, StepAskWrite, StepAskWriteMultiple, StepAskPacket
      DEF Ide!Thread, Ide!Ask

(* A step of the driver on the CPU within a command. *)
LEMMA StepCpu ==
  ASSUME IdeInv, Ide!Cpu, ~ideOvertaken'
  PROVE  IdeInv'
<1>1. CASE Ide!Start
  <2>1. PICK p \in Ide!Descriptors(IF ideJob.cmd \in Ide!Packets THEN ideJob.total - 1 ELSE ideJob.total) :
          Ide!StartMaster(p)
    BY <1>1 DEF Ide!Start
  <2> QED BY <2>1, StepStartMaster
<1>2. CASE Ide!ReadStatus
  <2>1. ideCpu' = "data" \/ ideCpu' = "idle"
    BY <1>2 DEF Ide!ReadStatus
  <2> QED BY <1>2, <2>1, StepStatusData, StepStatusOver
<1>3. CASE Ide!ReadWord
  BY <1>3, StepReadMore, StepReadLast, StepReadEnd
<1>4. CASE Ide!WriteWord
  <2>1. ~Asks
    BY <1>4 DEF Ide!WriteWord, Asks
  <2> QED BY <1>4, <2>1, StepWriteMore, StepWriteLast
<1> QED BY <1>1, <1>2, <1>3, <1>4, StepCommand, StepNop, StepReadyWait, StepWake,
    StepMasterReadyWait,
      StepMasterSet DEF Ide!Cpu

(* Every step of the channel keeps the invariant. *)
LEMMA IdeStep ==
  ASSUME AlignedDriver, IdeInv, Ide!Next, ~ideOvertaken'
  PROVE  IdeInv'
<1>1. CASE Ide!Issue
  <2>1. PICK d \in Ide!Drives, cmd \in IdeCommands, l \in Ide!Lbas, c \in IdeCounts : Ide!Begin(d, cmd, l, c)
    BY <1>1 DEF Ide!Issue
  <2>2. cmd \in AllCommands
    BY Parameters
  <2> QED BY <2>1, <2>2, StepBegin DEF AlignedDriver
<1> QED BY <1>1, StepThread, StepCpu, StepSoftReset DEF Ide!Next

(* What the channel is in when the machine starts. *)
LEMMA IdeInit ==
  ASSUME Ide!Init
  PROVE  IdeInv
<1>1. /\ ideKind \in [Ide!Drives -> {"disk", "ro", "cdrom", "none"}] /\ ideKind[0] # "none"
  BY DEF Ide!Init, IdeKinds, DrivePairs, Ide!Drives
<1>2. /\ ideStatus \in [Ide!Drives -> Ide!Status] /\ \A d \in Ide!Drives : ideStatus[d] = Ide!NoStatus
      /\ ideSelected = 0 /\ 0 \in Ide!Drives
  BY DEF Ide!Init, Ide!NoStatus, Ide!Status, Ide!Drives
<1>3. ideMedium \in [Ide!Drives -> [Ide!Lbas -> Int]] /\ ideWants = ideMedium
  BY DEF Ide!Init, Ide!Lbas, Ide!Drives
<1>4. /\ ideRegs = [cmd |-> "none", count |-> 0, cyl |-> 0, sec |-> 0] /\ ideRegs.cmd = "none"
      /\ ideJob = [id |-> 0, cmd |-> "none", lba |-> 0, total |-> 0, done |-> 0] /\ ideJob.cmd = "none"
  BY DEF Ide!Init, Ide!NoJob
<1>5. ~Drive.busy /\ ~Drive.drq /\ ~Drive.err /\ ~Drive.inProgress /\ Drive.cycle = 0
  BY <1>2 DEF Drive, Ide!NoStatus
<1>6. /\ ideSem = [controller |-> 0, ready |-> 1, master |-> 0, masterReady |-> 1]
      /\ ideSem["controller"] = 0 /\ ideSem["ready"] = 1 /\ ideSem["master"] = 0 /\ ideSem["masterReady"] = 1
      /\ ideSem \in [{"controller", "ready", "master", "masterReady"} -> {0, 1}]
  BY DEF Ide!Init
<1>7. idePc = "wait" /\ ideCpu = "idle" /\ ideAfter = "finish" /\ idePrd = <<>> /\ ideMemory = <<>>
  BY DEF Ide!Init
<1>8. Present /\ ~On
  BY <1>1, <1>2, <1>7 DEF Present, On
<1>9. IdeTyped
  <2>1. /\ ideRegs \in Registers
        /\ ideJob \in [id : Nat, cmd : AllCommands \cup {"none"}, lba : Nat, total : Nat, done : Nat]
    BY <1>4, Parameters DEF Registers
  <2>2. /\ ideBuffer \in [1 .. IdeCountMax -> Int] /\ idePhase \in {"none", "packet", "idle"}
        /\ idePtr \in 0 .. IdeCountMax /\ ideSize \in 0 .. IdeCountMax /\ ideMoved \in 0 .. IdeCountMax
    BY Parameters DEF Ide!Init
  <2>4. ideActive \in BOOLEAN /\ ideBmIntr \in BOOLEAN /\ ideIrq \in BOOLEAN
    BY DEF Ide!Init
  <2>3. idePrd \in Seq(Nat) /\ ideMemory \in Seq(Int)
    BY <1>7
  <2> QED BY <1>1, <1>2, <1>3, <1>6, <1>7, <2>1, <2>2, <2>3, <2>4 DEF IdeTyped, Steps,
  DriverSteps
<1>10. OneHasCommand /\ OneHasTransfer /\ MovedFits
  BY <1>6, <1>7 DEF OneHasCommand, OneHasTransfer, MovedFits, AtTransfer
<1>11. Control
  BY <1>4, <1>5, <1>6, <1>7, <1>8 DEF Asks, Control, Transfers, AtTransfer, Asking, Asked,
    MasterStarts, AtAnswer, AtEnd
<1>12. /\ Fresh /\ InLimits /\ Reading /\ Writing /\ WritingMultiple /\ PacketPhases /\ Aborted
       /\ Filled /\ BufferRead /\ BufferPacket /\ BufferWritten /\ DmaOver
  BY <1>8 DEF Asks, Fresh, InLimits, Reading, Writing, WritingMultiple, PacketPhases, Aborted,
    Filled, BufferRead, BufferPacket, BufferWritten, DmaOver, Running
<1>13. Sizes /\ BufferDma /\ MemoryRead /\ MemoryWritten
  BY <1>4, <1>7 DEF Sizes, BufferDma, MemoryRead, MemoryWritten, Transfers
<1>14. MediumRight
  BY <1>3, <1>7 DEF MediumRight
<1> QED BY <1>9, <1>10, <1>11, <1>12, <1>13, <1>14

(* A step that leaves the channel alone keeps the invariant. *)
LEMMA IdeStutter ==
  ASSUME IdeInv, UNCHANGED ideVars
  PROVE  IdeInv'
<1>0. UNCHANGED <<ideActive, ideAfter, ideBmIntr, ideBuffer, ideCpu, ideIrq, ideJob, ideKind,
                  ideMedium, ideMemory, ideMoved, idePc, idePhase, idePrd, idePtr, ideRegs,
                  ideSelected, ideSem, ideSize, ideStatus, ideWants>>
  BY SMTT(60) DEF ideVars
<1>1. (IdeTyped /\ OneHasCommand /\ OneHasTransfer /\ Control /\ Fresh)'
  BY SMTT(60), <1>0 DEF AllCommands, Asked, Asking, Asks, At, AtAnswer, AtEnd, AtTransfer, Control,
    Drive, DriverSteps, Executed, Fresh, Ide!Drives, Ide!Lba, Ide!Lbas, Ide!Status, IdeTyped, InDma,
    MasterStarts, On, OneHasCommand, OneHasTransfer, Present, Registers, Steps, Transfers
<1>2. (InLimits /\ Reading /\ Writing /\ WritingMultiple /\ PacketPhases)'
  BY <1>0 DEF Asked, Asking, Asks, At, AtAnswer, AtTransfer, Base, Drive, Executed, Ide!Aligned,
    Ide!Lba, Ide!Refused, InLimits, MasterStarts, On, PacketPhases, Present, Reading, Refused,
    Running, Transfers, Writing, WritingMultiple
<1>3. (Aborted /\ Filled /\ BufferRead /\ BufferPacket /\ BufferWritten)'
  BY <1>0 DEF Aborted, Asked, Asking, Asks, Base, BufferPacket, BufferRead, BufferWritten, Drive,
    Executed, Filled, Ide!Expected, Ide!Refused, Ide!Word, On, Present, Refused
<1>4. (Sizes /\ BufferDma /\ MemoryRead /\ MemoryWritten /\ MovedFits)'
  BY <1>0 DEF Asked, Asking, At, AtTransfer, BufferDma, Ide!Expected, Ide!Lba, Ide!Word, MemoryRead,
    MemoryWritten, MovedFits, Sizes, Transfers
<1>5. (DmaOver /\ MediumRight)'
  BY <1>0 DEF Asked, Asking, Base, Count, DmaOver, Drive, Ide!Drives, Ide!Lbas, Ide!Word,
    MediumRight, On, Present
<1> QED BY <1>1, <1>2, <1>3, <1>4, <1>5

(* A driver that has gone on too early stays one that has. *)
LEMMA OvertakenKept ==
  ASSUME Ide!Next \/ UNCHANGED ideVars, ideOvertaken
  PROVE  ideOvertaken'
<1>1. CASE UNCHANGED ideOvertaken
  BY <1>1
<1>2. CASE Ide!WriteWord
  BY <1>2 DEF Ide!WriteWord
<1>3. CASE Ide!Issue
  <2>1. PICK d \in Ide!Drives, cmd \in IdeCommands, l \in Ide!Lbas, c \in IdeCounts : Ide!Begin(d, cmd, l, c)
    BY <1>3 DEF Ide!Issue
  <2>2. ideOvertaken' = (ideOvertaken \/ ~Ide!Resting)
    BY <2>1 DEF Ide!Begin
  <2> QED BY <2>2
<1> QED BY <1>1, <1>2, <1>3 DEF Ide!Next, Ide!Thread, Ide!Cpu, Ide!SoftReset, ideVars

(* The invariant of the channel: the thread of the controller and the driver *)
(* hand each command, each block and each transfer to one another, and both *)
(* know how far it has come (run() and execute(), do_dma_transfer()), until the *)
(* driver gives a command or a first word before the thread is through with *)
(* the pass before. *)
THEOREM IdeInductive ==
  ASSUME AlignedDriver
  PROVE  StorageSpec => [](~ideOvertaken => IdeInv)
<1>1. StorageInit => (~ideOvertaken => IdeInv)
  BY IdeInit DEF StorageInit
<1>2. (~ideOvertaken => IdeInv) /\ [StorageNext]_<<part, ideVars, symVars>> => (~ideOvertaken => IdeInv)'
  <2> SUFFICES ASSUME ~ideOvertaken => IdeInv, [StorageNext]_<<part, ideVars, symVars>>, ~ideOvertaken'
               PROVE  IdeInv'
    OBVIOUS
  <2>1. Ide!Next \/ UNCHANGED ideVars
    BY DEF StorageNext, Controllers
  <2>2. IdeInv
    BY <2>1, OvertakenKept
  <2> QED BY <2>1, <2>2, IdeStep, IdeStutter
<1> QED BY <1>1, <1>2, PTL DEF StorageSpec

HIDE DEF IdeInv, Ide!Packets, Ide!Dma, Ide!Reads, Ide!Writes, Ide!NoData, AskSteps, Pio

(* What holds however soon the driver goes on: the registers of the channel *)
(* hold what they can, and one of the two has the command and the transfer. *)
MediumShape ==
  /\ ideMedium = [d \in Ide!Drives |-> ideMedium[d]]
  /\ \A d \in Ide!Drives : DOMAIN ideMedium[d] = Ide!Lbas
StatusTyped == ideStatus \in [Ide!Drives -> Ide!Status]
IdeShape ==
  /\ StatusTyped
  /\ ideSem \in [{"controller", "ready", "master", "masterReady"} -> {0, 1}]
  /\ idePhase \in {"none", "packet", "idle"} /\ ideSelected \in Ide!Drives
  /\ ideActive \in BOOLEAN /\ ideBmIntr \in BOOLEAN /\ ideIrq \in BOOLEAN
  /\ ideOvertaken \in BOOLEAN
  /\ idePc = "raise" => ideAfter \in {"finish", "masterReady", "packetData", "packetDone"}
  /\ MediumShape
  /\ OneHasCommand /\ OneHasTransfer

(* Setting fields of a status to values that they can have leaves a status. *)
LEMMA MergedTyped ==
  ASSUME NEW s \in Ide!Status, NEW a \in BOOLEAN, NEW b \in BOOLEAN, NEW c \in BOOLEAN,
         NEW d \in BOOLEAN, NEW n \in {0, 1, 2}
  PROVE  /\ Ide!With(s, [busy |-> a, drq |-> b, err |-> c, inProgress |-> d]) \in Ide!Status
         /\ Ide!With(s, [busy |-> a, drq |-> b]) \in Ide!Status
         /\ Ide!With(s, [drq |-> b, busy |-> a]) \in Ide!Status
         /\ Ide!With(s, [inProgress |-> d]) \in Ide!Status
         /\ Ide!With(s, [busy |-> a, inProgress |-> d]) \in Ide!Status
         /\ Ide!With(s, [busy |-> a, err |-> c]) \in Ide!Status
         /\ Ide!With(s, [cycle |-> n]) \in Ide!Status
<1>1. Ide!With(s, [busy |-> a, drq |-> b, err |-> c, inProgress |-> d]) \in Ide!Status
  BY DEF Ide!With, Ide!Status
<1>2. Ide!With(s, [busy |-> a, drq |-> b]) \in Ide!Status
  BY DEF Ide!With, Ide!Status
<1>3. Ide!With(s, [drq |-> b, busy |-> a]) \in Ide!Status
  BY DEF Ide!With, Ide!Status
<1>4. Ide!With(s, [inProgress |-> d]) \in Ide!Status
  BY DEF Ide!With, Ide!Status
<1>5. Ide!With(s, [busy |-> a, inProgress |-> d]) \in Ide!Status
  BY DEF Ide!With, Ide!Status
<1>6. Ide!With(s, [busy |-> a, err |-> c]) \in Ide!Status
  BY DEF Ide!With, Ide!Status
<1>7. Ide!With(s, [cycle |-> n]) \in Ide!Status
  BY DEF Ide!With, Ide!Status
<1> QED BY <1>1, <1>2, <1>3, <1>4, <1>5, <1>6, <1>7

(* Setting fields of a status to values that they can have. *)
LEMMA SetIs ==
  ASSUME IdeShape
  PROVE  /\ \A a, b, c, d \in BOOLEAN :
              Ide!Set([busy |-> a, drq |-> b, err |-> c, inProgress |-> d]) => StatusTyped'
         /\ \A a, b \in BOOLEAN : Ide!Set([busy |-> a, drq |-> b]) => StatusTyped'
         /\ \A a, b \in BOOLEAN : Ide!Set([drq |-> b, busy |-> a]) => StatusTyped'
         /\ \A d \in BOOLEAN : Ide!Set([inProgress |-> d]) => StatusTyped'
         /\ \A a, d \in BOOLEAN : Ide!Set([busy |-> a, inProgress |-> d]) => StatusTyped'
         /\ \A a, c \in BOOLEAN : Ide!Set([busy |-> a, err |-> c]) => StatusTyped'
         /\ \A n \in {0, 1, 2} : Ide!Set([cycle |-> n]) => StatusTyped'
<1>1. Drive \in Ide!Status /\ Ide!St = Drive
  BY DEF IdeShape, StatusTyped, Drive, Ide!St
<1>2. ASSUME NEW c, Ide!Set(c), Ide!With(Drive, c) \in Ide!Status PROVE StatusTyped'
  <2>1. ideStatus' = [ideStatus EXCEPT ![ideSelected] = Ide!With(Drive, c)]
    BY <1>1, <1>2 DEF Ide!Set
  <2> QED BY <1>2, <2>1 DEF IdeShape, StatusTyped
<1> QED BY <1>1, <1>2, MergedTyped

(* Writing sectors leaves as many. *)
LEMMA WrittenShape ==
  ASSUME IdeShape, NEW a, NEW n, ideMedium' = Ide!Written(ideSelected, a, n)
  PROVE  MediumShape'
<1> DEFINE new == [l \in Ide!Lbas |-> IF l \in a .. a + n - 1 THEN ideBuffer[l - a + 1]
                                      ELSE ideMedium[ideSelected][l]]
<1>1. ideMedium' = [ideMedium EXCEPT ![ideSelected] = new]
  BY DEF Ide!Written
<1>2. DOMAIN new = Ide!Lbas
  OBVIOUS
<1> HIDE DEF new
<1> QED BY <1>1, <1>2 DEF IdeShape, StatusTyped, MediumShape

(* A step of the thread within a pass. *)
LEMMA ShapeWithin ==
  ASSUME IdeShape, Ide!ThreadOnly, UNCHANGED <<ideActive, ideOvertaken>>, MediumShape',
         StatusTyped', idePhase' \in {"none", "packet", "idle"},
         idePc # "wait", idePc' \notin {"wait", "prd", "masterReady"},
         idePc' = "raise" => ideAfter' \in {"finish", "packetData", "packetDone"}
  PROVE  IdeShape'
<1>1. UNCHANGED <<ideSem, ideCpu, ideBmIntr, ideIrq, ideSelected>>
  BY DEF Ide!ThreadOnly
<1>2. OneHasCommand'
  BY <1>1 DEF IdeShape, StatusTyped, OneHasCommand
<1>3. ~AtTransfer'
  BY DEF AtTransfer
<1>4. OneHasTransfer'
  BY <1>1, <1>3 DEF IdeShape, StatusTyped, OneHasTransfer
<1> QED BY <1>1, <1>2, <1>4 DEF IdeShape, StatusTyped

LEMMA ShapeSet ==
  ASSUME IdeShape, Ide!ThreadOnly, UNCHANGED <<ideActive, ideOvertaken, ideMedium>>,
         StatusTyped', idePhase' \in {"none", "packet", "idle"},
         idePc # "wait", idePc' \notin {"wait", "prd", "masterReady"},
         idePc' = "raise" => ideAfter' \in {"finish", "packetData", "packetDone"}
  PROVE  IdeShape'
<1>1. MediumShape'
  BY DEF IdeShape, StatusTyped, MediumShape
<1> QED BY <1>1, ShapeWithin

(* execute() up to the first block, and after it. *)
LEMMA ShapeExecute ==
  ASSUME IdeShape, Ide!Execute, UNCHANGED ideOvertaken
  PROVE  IdeShape'
<1> USE DEF Ide!busMaster
<1>0. idePhase \in {"none", "packet", "idle"} /\ MediumShape
  BY DEF IdeShape, StatusTyped
<1>1. CASE Ide!Nothing
  <2>1. /\ Ide!ThreadOnly /\ UNCHANGED <<ideActive, ideMedium, idePhase>> /\ idePc = "run"
        /\ idePc' \in {"finish", "set"} /\ Ide!Set([inProgress |-> FALSE])
    BY <1>1 DEF Ide!Nothing, Ide!Goto
  <2>s. StatusTyped'
    BY <2>1, SetIs
  <2> QED BY <1>0, <2>1, <2>s, ShapeSet
<1>2. CASE Ide!Abort
  <2>1. /\ Ide!ThreadOnly /\ UNCHANGED <<ideActive, ideMedium, idePhase>> /\ idePc = "run"
        /\ idePc' = "raise" /\ ideAfter' = "finish"
        /\ Ide!Set([busy |-> FALSE, drq |-> FALSE, err |-> TRUE, inProgress |-> FALSE])
    BY <1>2 DEF Ide!Abort, Ide!RaiseThen, Ide!Running
  <2>s. StatusTyped'
    BY <2>1, SetIs
  <2> QED BY <1>0, <2>1, <2>s, ShapeSet
<1>3. ASSUME NEW e \in BOOLEAN, Ide!SetStatusOnly(e), idePc = "run"
      PROVE  IdeShape'
  <2>1. /\ Ide!ThreadOnly /\ UNCHANGED <<ideActive, ideMedium, idePhase>>
        /\ idePc' = "raise" /\ ideAfter' = "finish"
        /\ Ide!Set([busy |-> FALSE, drq |-> FALSE, err |-> e, inProgress |-> FALSE])
    BY <1>3 DEF Ide!SetStatusOnly, Ide!RaiseThen
  <2>s. StatusTyped'
    BY <1>3, <2>1, SetIs
  <2> QED BY <1>0, <1>3, <2>1, <2>s, ShapeSet
<1>4. CASE Ide!ExecuteRecalibrate \/ Ide!ExecuteSeek \/ Ide!ExecuteFlush \/ Ide!ExecuteParameters
  <2>1. idePc = "run" /\ \E e \in BOOLEAN : Ide!SetStatusOnly(e)
    BY <1>4 DEF Ide!ExecuteRecalibrate, Ide!ExecuteSeek, Ide!ExecuteFlush, Ide!ExecuteParameters,
      Ide!Executes, Ide!Running
  <2> QED BY <1>3, <2>1
<1>5. CASE Ide!ExecuteReset
  <2>1. /\ idePc = "run" /\ idePc' = "finish"
        /\ UNCHANGED <<ideSem, ideCpu, ideBmIntr, ideIrq, ideMedium, idePhase, ideActive>>
        /\ ideSelected' \in Ide!Drives
    BY <1>5 DEF IdeShape, StatusTyped, Ide!ExecuteReset, Ide!Executes, Ide!Running, Ide!Goto, Ide!Signature, Ide!Drives
  <2>2. StatusTyped'
    <3>1. /\ \A d \in Ide!Drives : ideStatus[d] \in
                [busy : BOOLEAN, drq : BOOLEAN, err : BOOLEAN, inProgress : BOOLEAN, cycle : {0, 1, 2}]
          /\ ideStatus' = [d \in Ide!Drives |->
                [ideStatus[d] EXCEPT !.inProgress = @ /\ d # ideSelected, !.busy = @ /\ d # ideSelected',
                                     !.drq = @ /\ d # ideSelected', !.err = @ /\ d # ideSelected']]
      BY <1>5 DEF IdeShape, StatusTyped, Ide!Status, Ide!ExecuteReset
    <3>2. \A d \in Ide!Drives : ideStatus'[d] \in Ide!Status
      BY ZenonT(60), <3>1 DEF Ide!Status
    <3>3. ideStatus' = [d \in Ide!Drives |-> ideStatus'[d]]
      BY <1>5 DEF Ide!ExecuteReset
    <3> QED BY <3>2, <3>3 DEF StatusTyped
  <2>3. ~AtTransfer' /\ MediumShape'
    BY <1>0, <2>1 DEF AtTransfer, MediumShape
  <2>4. OneHasCommand' /\ OneHasTransfer'
    BY <2>1, <2>3 DEF IdeShape, StatusTyped, OneHasCommand, OneHasTransfer
  <2> QED BY <2>1, <2>2, <2>3, <2>4 DEF IdeShape, StatusTyped
<1>6. ASSUME NEW n, Ide!ReadBlock(n), idePc = "run" PROVE IdeShape'
  <2> DEFINE more == (Ide!Remaining - n) # 0
  <2>1. /\ Ide!ThreadOnly /\ UNCHANGED <<ideActive, ideMedium, idePhase>>
        /\ idePc' = "raise" /\ ideAfter' = "finish"
        /\ Ide!Set([busy |-> FALSE, drq |-> TRUE, err |-> FALSE, inProgress |-> more])
    BY <1>6 DEF Ide!ReadBlock, Ide!RaiseThen
  <2>2. more \in BOOLEAN
    OBVIOUS
  <2> HIDE DEF more
  <2>s. StatusTyped'
    BY <1>6, <2>1, <2>2, SetIs
  <2> QED BY <1>0, <1>6, <2>1, <2>2, <2>s, ShapeSet
<1>7. CASE Ide!ExecuteRead \/ Ide!ExecuteReadMultiple
  <2>1. idePc = "run" /\ \E n \in {1, Ide!Least(Ide!Remaining, IdeMultiple)} : Ide!ReadBlock(n)
    BY <1>7 DEF Ide!ExecuteRead, Ide!ExecuteReadMultiple, Ide!Executes, Ide!Running
  <2> QED BY <1>6, <2>1
<1>8. ASSUME NEW p \in AskSteps, Ide!AskFirst(p), idePc = "run" PROVE IdeShape'
  <2>1. /\ Ide!ThreadOnly /\ UNCHANGED <<ideActive, ideMedium, idePhase>> /\ idePc' = p
        /\ Ide!Set([busy |-> FALSE, drq |-> TRUE])
    BY <1>8 DEF Ide!AskFirst, Ide!Goto
  <2>s. StatusTyped'
    BY <1>8, <2>1, SetIs
  <2> QED BY <1>0, <1>8, <2>1, <2>s, ShapeSet DEF AskSteps
<1>9. ASSUME NEW m, NEW more \in BOOLEAN, NEW n, NEW then, Ide!WriteBlock(m, more, n, then), idePc = "run"
      PROVE  IdeShape'
  <2>1. /\ Ide!ThreadOnly /\ UNCHANGED <<ideActive, idePhase>>
        /\ idePc' = "raise" /\ ideAfter' = "finish"
        /\ ideMedium' = Ide!Written(ideSelected, Ide!Lba(ideRegs), m)
        /\ Ide!Set([busy |-> FALSE, drq |-> more, err |-> FALSE, inProgress |-> more])
    BY <1>9 DEF Ide!WriteBlock, Ide!RaiseThen
  <2>2. MediumShape'
    BY <2>1, WrittenShape
  <2>3. StatusTyped'
    BY <2>1, SetIs
  <2> QED BY <1>0, <1>9, <2>1, <2>2, <2>3, ShapeWithin
<1>10. CASE Ide!ExecuteWrite
  <2> DEFINE left == ideRegs.count - 1
             more == left # 0
             then == [IF left = 0 THEN ideRegs ELSE Ide!Advance(ideRegs, 1) EXCEPT !.count = left]
  <2>1. /\ idePc = "run"
        /\ Ide!AskFirst("askWrite") \/ Ide!WriteBlock(1, more, ideSize, then)
    BY <1>10 DEF Ide!ExecuteWrite, Ide!Executes, Ide!Running
  <2>2. more \in BOOLEAN
    OBVIOUS
  <2> HIDE DEF left, more, then
  <2> QED BY <1>8, <1>9, <2>1, <2>2 DEF AskSteps
<1>11. CASE Ide!ExecuteWriteMultiple
  <2> DEFINE n == Ide!Least(ideRegs.count, IdeMultiple)
             then == [Ide!AdvanceWrite(ideRegs, ideSize) EXCEPT !.count = @ - n]
  <2>1. /\ idePc = "run"
        /\ \/ Ide!AskFirst("askMultiple")
           \/ Ide!WriteBlock(ideSize, FALSE, ideSize, ideRegs)
           \/ Ide!WriteBlock(ideSize, TRUE, n, then)
    BY <1>11 DEF Ide!ExecuteWriteMultiple, Ide!Executes, Ide!Running
  <2> HIDE DEF n, then
  <2> QED BY <1>8, <1>9, <2>1 DEF AskSteps
<1>12. CASE Ide!ExecuteIdentify
  <2>1. /\ Ide!ThreadOnly /\ UNCHANGED <<ideActive, ideMedium, idePhase>> /\ idePc = "run"
        /\ idePc' = "raise" /\ ideAfter' = "finish"
        /\ Ide!Set([busy |-> FALSE, drq |-> TRUE, err |-> FALSE, inProgress |-> FALSE])
    BY <1>12 DEF Ide!ExecuteIdentify, Ide!RaiseThen, Ide!Executes, Ide!Running
  <2>s. StatusTyped'
    BY <2>1, SetIs
  <2> QED BY <1>0, <2>1, <2>s, ShapeSet
<1>13. CASE Ide!ExecuteDma \/ Ide!NothingYet
  <2>1. /\ Ide!ThreadOnly /\ UNCHANGED <<ideActive, ideMedium, idePhase, ideStatus>> /\ idePc = "run"
        /\ idePc' \in {"masterWait", "finish"}
    BY <1>13 DEF Ide!ExecuteDma, Ide!NothingYet, Ide!Goto, Ide!Executes, Ide!Running
  <2>2. MediumShape' /\ StatusTyped'
    BY <1>0, <2>1 DEF IdeShape, StatusTyped, MediumShape
  <2> QED BY <1>0, <2>1, <2>2, ShapeWithin
<1>14. CASE Ide!ExecutePacketFirst
  <2>1. /\ Ide!ThreadOnly /\ UNCHANGED <<ideActive, ideMedium, idePhase>> /\ idePc = "run"
        /\ idePc' = "askPacket" /\ Ide!Set([busy |-> FALSE, drq |-> TRUE])
    BY <1>14 DEF Ide!ExecutePacketFirst, Ide!Goto, Ide!Executes, Ide!Running
  <2>s. StatusTyped'
    BY <2>1, SetIs
  <2> QED BY <1>0, <2>1, <2>s, ShapeSet
<1>15. CASE Ide!ExecutePacket
  <2>1. /\ Ide!ThreadOnly /\ UNCHANGED <<ideActive, ideMedium>> /\ idePc = "run"
        /\ idePhase' \in {idePhase, "idle"}
        /\ idePc' \in {"raise", "masterWait"} /\ (idePc' = "raise" => ideAfter' \in {"packetDone", "packetData"})
        /\ \E b \in BOOLEAN, q \in BOOLEAN : Ide!Set([busy |-> b, drq |-> q])
    BY <1>15 DEF Ide!ExecutePacket, Ide!RaiseThen, Ide!Goto, Ide!Executes, Ide!Running
  <2>2. PICK b \in BOOLEAN, q \in BOOLEAN : Ide!Set([busy |-> b, drq |-> q])
    BY <2>1
  <2>s. StatusTyped'
    BY <2>1, <2>2, SetIs
  <2> QED BY <1>0, <2>1, <2>2, <2>s, ShapeSet
<1>16. CASE Ide!ExecutePacketLast
  <2>1. /\ Ide!ThreadOnly /\ UNCHANGED <<ideActive, ideMedium, idePhase>> /\ idePc \in {"run", "packetLast"}
        /\ idePc' = "raise" /\ ideAfter' = "packetDone"
        /\ Ide!Set([busy |-> FALSE, drq |-> FALSE])
    BY <1>16 DEF Ide!ExecutePacketLast, Ide!RaiseThen, Ide!Executes, Ide!Running
  <2>s. StatusTyped'
    BY <2>1, SetIs
  <2> QED BY <1>0, <2>1, <2>s, ShapeSet
<1> QED BY <1>1, <1>2, <1>4, <1>5, <1>7, <1>10, <1>11, <1>12, <1>13, <1>14, <1>15, <1>16
    DEF Ide!Execute

(* The rest of the thread: its semaphores, its interrupts and the bus master. *)
LEMMA ShapeThread ==
  ASSUME IdeShape, Ide!Thread
  PROVE  IdeShape'
<1> USE DEF Ide!busMaster, Ide!disks
<1>0. idePhase \in {"none", "packet", "idle"} /\ MediumShape /\ UNCHANGED ideOvertaken
  BY DEF IdeShape, StatusTyped, Ide!Thread
<1>1. CASE Ide!Awake \/ Ide!Ready \/ Ide!MasterWait \/ Ide!MasterReady
  <2>1. /\ UNCHANGED <<ideStatus, ideMedium, idePhase, ideSelected, ideActive, ideBmIntr, ideIrq, ideCpu, ideAfter>>
        /\ \/ /\ idePc = "wait" /\ ideSem["controller"] = 1 /\ idePc' = "run"
              /\ ideSem' = [ideSem EXCEPT !["controller"] = 0]
           \/ /\ idePc = "set" /\ idePc' = "wait" /\ ideSem' = [ideSem EXCEPT !["ready"] = 1]
           \/ /\ idePc = "masterWait" /\ ideSem["master"] = 1 /\ idePc' = "prd"
              /\ ideSem' = [ideSem EXCEPT !["master"] = 0]
           \/ /\ idePc = "masterReady" /\ idePc' = "dmaDone"
              /\ ideSem' = [ideSem EXCEPT !["masterReady"] = 1]
    BY <1>1 DEF Ide!Awake, Ide!Ready, Ide!MasterWait, Ide!MasterReady, Ide!Wait, Ide!Post, Ide!Available,
      Ide!Goto
  <2>2. OneHasCommand'
    BY <2>1 DEF IdeShape, StatusTyped, OneHasCommand
  <2>3. OneHasTransfer'
    BY <2>1 DEF IdeShape, StatusTyped, OneHasTransfer, AtTransfer
  <2>4. ideSem' \in [{"controller", "ready", "master", "masterReady"} -> {0, 1}]
    BY <2>1 DEF IdeShape, StatusTyped
  <2>5. MediumShape'
    BY <1>0, <2>1 DEF MediumShape
  <2> QED BY <1>0, <2>1, <2>2, <2>3, <2>4, <2>5 DEF IdeShape, StatusTyped
<1>2. CASE Ide!Raise \/ Ide!ReadDescriptor \/ Ide!Transferred
  <2>1. /\ UNCHANGED <<ideStatus, ideMedium, idePhase, ideSelected, ideSem, ideCpu>>
        /\ ideActive' \in BOOLEAN /\ ideBmIntr' \in BOOLEAN /\ ideIrq' \in BOOLEAN
        /\ \/ idePc = "raise" /\ idePc' = ideAfter /\ ideAfter' = ideAfter
           \/ idePc = "prd" /\ idePc' = "prd"
           \/ idePc = "prd" /\ idePc' = "raise" /\ ideAfter' = "masterReady"
    BY <1>2 DEF IdeShape, StatusTyped, Ide!Raise, Ide!ReadDescriptor, Ide!Transferred, Ide!Goto, Ide!RaiseThen
  <2>2. idePc # "wait" /\ (AtTransfer' => AtTransfer)
    BY <2>1 DEF IdeShape, AtTransfer
  <2>3. OneHasCommand' /\ OneHasTransfer'
    BY <2>1, <2>2 DEF IdeShape, OneHasCommand, OneHasTransfer
  <2>4. MediumShape' /\ StatusTyped'
    BY <1>0, <2>1 DEF IdeShape, StatusTyped, MediumShape
  <2> QED BY <1>0, <2>1, <2>3, <2>4 DEF IdeShape
<1>3. CASE Ide!AskWrite \/ Ide!AskWriteMultiple \/ Ide!AskPacket
  <2>1. /\ Ide!ThreadOnly /\ UNCHANGED <<ideActive, ideMedium, ideStatus>>
        /\ idePhase' \in {idePhase, "packet"} /\ idePc \in AskSteps /\ idePc' = "finish"
    BY <1>3 DEF Ide!AskWrite, Ide!AskWriteMultiple, Ide!AskPacket, Ide!AskSize, Ide!Goto, AskSteps
  <2>2. MediumShape' /\ StatusTyped'
    BY <1>0, <2>1 DEF IdeShape, StatusTyped, MediumShape
  <2> QED BY <1>0, <2>1, <2>2, ShapeWithin DEF AskSteps
<1>4. CASE Ide!AfterPacket
  <2>1. /\ Ide!ThreadOnly /\ UNCHANGED <<ideActive, ideMedium>>
        /\ idePhase' \in {idePhase, "idle"} /\ idePc \in {"packetData", "packetDone"} /\ idePc' = "finish"
        /\ ideStatus' = ideStatus \/ Ide!Set([inProgress |-> FALSE])
    BY <1>4 DEF Ide!AfterPacket, Ide!Goto
  <2>2. MediumShape'
    BY <1>0, <2>1 DEF MediumShape
  <2>3. StatusTyped'
    <3>1. CASE ideStatus' = ideStatus
      BY <3>1 DEF IdeShape, StatusTyped
    <3>2. CASE Ide!Set([inProgress |-> FALSE])
      BY <3>2, SetIs
    <3> QED BY <2>1, <3>1, <3>2
  <2> QED BY <1>0, <2>1, <2>2, <2>3, ShapeWithin
<1>5. CASE Ide!DmaDone
  <2>1. /\ Ide!ThreadOnly /\ UNCHANGED ideActive
        /\ idePhase' \in {idePhase, "idle"} /\ idePc = "dmaDone" /\ idePc' \in {"finish", "packetLast"}
        /\ \/ ideMedium' = ideMedium \/ ideMedium' = Ide!Written(ideSelected, Ide!Lba(ideRegs), ideSize)
    BY <1>5 DEF Ide!DmaDone, Ide!Goto
  <2>2. MediumShape'
    <3>1. CASE ideMedium' = ideMedium
      BY <1>0, <3>1 DEF MediumShape
    <3> QED BY <2>1, <3>1, WrittenShape
  <2>3. StatusTyped'
    <3>1. CASE Ide!Set([busy |-> FALSE, drq |-> FALSE, err |-> FALSE, inProgress |-> FALSE])
      BY <3>1, SetIs
    <3>2. CASE Ide!Set([busy |-> FALSE, drq |-> TRUE])
      BY <3>2, SetIs
    <3> QED BY <1>5, <3>1, <3>2 DEF Ide!DmaDone
  <2> QED BY <1>0, <2>1, <2>2, <2>3, ShapeWithin
<1>6. CASE Ide!Finish
  <2> DEFINE c == Ide!Least(Drive.cycle + 1, 2)
  <2>1. /\ Ide!ThreadOnly /\ UNCHANGED <<ideActive, ideMedium, idePhase>>
        /\ idePc = "finish" /\ idePc' = "set" /\ Ide!Set([cycle |-> c])
    BY <1>6 DEF Ide!Finish, Ide!Goto, Ide!St, Drive
  <2>2. Drive.cycle \in {0, 1, 2}
    BY DEF IdeShape, StatusTyped, Drive, Ide!Status
  <2>3. c \in {0, 1, 2}
    BY <2>2 DEF Ide!Least
  <2> HIDE DEF c
  <2>s. StatusTyped'
    BY <2>1, <2>3, SetIs
  <2> QED BY <1>0, <2>1, <2>3, <2>s, ShapeSet
<1> QED BY <1>0, <1>1, <1>2, <1>3, <1>4, <1>5, <1>6, ShapeExecute DEF Ide!Thread, Ide!Ask

(* The driver on the CPU. *)
LEMMA ShapeDriver ==
  ASSUME IdeShape, Ide!Cpu \/ Ide!Issue \/ Ide!SoftReset
  PROVE  IdeShape'
<1> USE DEF Ide!busMaster, Ide!disks, Ide!thread
<1>0. idePhase \in {"none", "packet", "idle"} /\ MediumShape /\ ideOvertaken' \in BOOLEAN
  <2>1. idePhase \in {"none", "packet", "idle"} /\ MediumShape /\ ideOvertaken \in BOOLEAN
    BY DEF IdeShape
  <2>2. CASE ideOvertaken' = ideOvertaken
    BY <2>1, <2>2
  <2>3. CASE Ide!WriteWord
    BY <2>1, <2>3 DEF Ide!WriteWord
  <2>4. CASE Ide!Issue
    BY <2>1, <2>4 DEF Ide!Issue, Ide!Begin
  <2> QED BY <2>1, <2>2, <2>3, <2>4 DEF Ide!Cpu, Ide!SoftReset
<1>1. ASSUME UNCHANGED <<ideMedium, ideSem, idePc, ideAfter>>,
             StatusTyped', idePhase' \in {"none", "packet", "idle"},
             ideSelected' \in Ide!Drives, ideCpu' \notin {"wake", "masterSet"},
             ideActive' \in BOOLEAN, ideBmIntr' \in BOOLEAN, ideIrq' \in BOOLEAN
      PROVE  IdeShape'
  <2>1. MediumShape'
    BY <1>0, <1>1 DEF MediumShape
  <2>2. OneHasCommand' /\ OneHasTransfer'
    BY <1>1 DEF IdeShape, StatusTyped, OneHasCommand, OneHasTransfer, AtTransfer
  <2> QED BY <1>0, <1>1, <2>1, <2>2 DEF IdeShape, StatusTyped
<1>2. CASE Ide!ReadyWait \/ Ide!Wake \/ Ide!MasterReadyWait \/ Ide!MasterSet
  <2>1. /\ UNCHANGED <<ideStatus, ideMedium, idePhase, ideSelected, ideActive, ideBmIntr, ideIrq, idePc, ideAfter>>
        /\ \/ /\ ideCpu = "readyWait" /\ ideSem["ready"] = 1 /\ ideCpu' = "wake"
              /\ ideSem' = [ideSem EXCEPT !["ready"] = 0]
           \/ /\ ideCpu = "wake" /\ ideCpu' \in {"startMaster", "issued"}
              /\ ideSem' = [ideSem EXCEPT !["controller"] = 1]
           \/ /\ ideCpu = "masterReadyWait" /\ ideSem["masterReady"] = 1 /\ ideCpu' = "masterSet"
              /\ ideSem' = [ideSem EXCEPT !["masterReady"] = 0]
           \/ /\ ideCpu = "masterSet" /\ ideCpu' = "issued"
              /\ ideSem' = [ideSem EXCEPT !["master"] = 1]
    BY <1>2 DEF Ide!ReadyWait, Ide!Wake, Ide!MasterReadyWait, Ide!MasterSet, Ide!Wait, Ide!Post,
      Ide!Available
  <2>2. OneHasCommand'
    BY <2>1 DEF IdeShape, StatusTyped, OneHasCommand
  <2>3. OneHasTransfer'
    BY <2>1 DEF IdeShape, StatusTyped, OneHasTransfer, AtTransfer
  <2>4. ideSem' \in [{"controller", "ready", "master", "masterReady"} -> {0, 1}]
    BY <2>1 DEF IdeShape, StatusTyped
  <2>5. MediumShape'
    BY <1>0, <2>1 DEF MediumShape
  <2> QED BY <1>0, <2>1, <2>2, <2>3, <2>4, <2>5 DEF IdeShape, StatusTyped
<1>3. CASE Ide!Command \/ Ide!Nop
  <2>1. StatusTyped'
    <3>1. CASE Ide!Set([busy |-> TRUE, inProgress |-> TRUE])
      BY <3>1, SetIs
    <3>2. CASE Ide!Set([busy |-> FALSE, err |-> TRUE])
      BY <3>2, SetIs
    <3> QED BY <1>3, <3>1, <3>2 DEF Ide!Command, Ide!Nop
  <2> QED BY <1>0, <1>1, <1>3, <2>1 DEF IdeShape, StatusTyped, Ide!Command, Ide!Nop
<1>4. CASE Ide!Start \/ Ide!ReadStatus
  BY <1>0, <1>1, <1>4 DEF IdeShape, StatusTyped, Ide!Start, Ide!StartMaster, Ide!ReadStatus
<1>5. CASE Ide!ReadWord \/ Ide!WriteWord
  <2> DEFINE more == ~Ide!Moved
  <2>1. PICK b \in BOOLEAN, q \in BOOLEAN : Ide!Set([drq |-> q, busy |-> b])
    <3>1. (~Ide!Moved) \in BOOLEAN /\ (Ide!Moved /\ Ide!WakesThread) \in BOOLEAN /\ (Ide!Moved) \in BOOLEAN
      BY DEF Ide!Moved, Ide!WakesThread
    <3> QED BY <1>5, <3>1 DEF Ide!ReadWord, Ide!WriteWord
  <2>2. StatusTyped'
    BY <2>1, SetIs
  <2> QED BY <1>0, <1>1, <1>5, <2>2 DEF IdeShape, StatusTyped, Ide!ReadWord, Ide!WriteWord
<1>6. CASE Ide!Issue
  <2>1. PICK d \in Ide!Drives, cmd \in IdeCommands, l \in Ide!Lbas, c \in IdeCounts : Ide!Begin(d, cmd, l, c)
    BY <1>6 DEF Ide!Issue
  <2>2. /\ ideStatus' = [ideStatus EXCEPT ![d] =
                           Ide!With(ideStatus[d], [drq |-> FALSE, inProgress |-> FALSE, cycle |-> 0])]
        /\ UNCHANGED <<ideMedium, ideSem, idePc, ideAfter, idePhase, ideBmIntr, ideActive>>
        /\ ideSelected' = d /\ ideCpu' = "command" /\ ideIrq' = FALSE
    BY <2>1 DEF Ide!Begin
  <2>3. StatusTyped'
    <3>1. ideStatus[d] \in Ide!Status
      BY DEF IdeShape, StatusTyped
    <3>2. Ide!With(ideStatus[d], [drq |-> FALSE, inProgress |-> FALSE, cycle |-> 0]) \in Ide!Status
      BY <3>1 DEF Ide!With, Ide!Status
    <3> QED BY <2>2, <3>2 DEF IdeShape, StatusTyped
  <2> QED BY <1>0, <1>1, <2>2, <2>3 DEF IdeShape, StatusTyped
<1>7. CASE Ide!SoftReset
  <2>1. StatusTyped'
    <3>1. \A d \in Ide!Drives : ideStatus[d] \in Ide!Status
      BY DEF IdeShape, StatusTyped
    <3>2. ideStatus' = [d \in Ide!Drives |-> [ideStatus[d] EXCEPT !.busy = FALSE, !.drq = FALSE,
                                  !.err = FALSE, !.inProgress = FALSE]]
      BY <1>7 DEF Ide!SoftReset
    <3>3. \A d \in Ide!Drives : [ideStatus[d] EXCEPT !.busy = FALSE, !.drq = FALSE,
                                  !.err = FALSE, !.inProgress = FALSE] \in Ide!Status
      BY <3>1 DEF Ide!Status
    <3> QED BY <3>2, <3>3 DEF StatusTyped
  <2>2. ideSelected' \in Ide!Drives
    BY <1>7 DEF IdeShape, StatusTyped, Ide!SoftReset, Ide!Signature, Ide!Drives
  <2> QED BY <1>0, <1>1, <1>7, <2>1, <2>2 DEF IdeShape, StatusTyped, Ide!SoftReset
<1> QED BY <1>2, <1>3, <1>4, <1>5, <1>6, <1>7 DEF Ide!Cpu

(* However soon the driver goes on, the command and the transfer are with one of *)
(* the four, and the registers hold what they can (run(), do_dma_transfer(), *)
(* bus_master_write()). *)
THEOREM IdeSound == StorageSpec => []IdeShape
<1>1. StorageInit => IdeShape
  <2> SUFFICES ASSUME StorageInit PROVE IdeShape
    OBVIOUS
  <2>1. Ide!Init
    BY DEF StorageInit
  <2>2. IdeInv /\ ideOvertaken = FALSE /\ idePc = "wait"
    BY <2>1, IdeInit DEF Ide!Init
  <2>3. MediumShape
    BY <2>2 DEF IdeInv, IdeTyped, MediumShape
  <2> QED BY <2>2, <2>3 DEF IdeInv, IdeTyped, IdeShape, StatusTyped
<1>2. IdeShape /\ [StorageNext]_<<part, ideVars, symVars>> => IdeShape'
  <2> SUFFICES ASSUME IdeShape, [StorageNext]_<<part, ideVars, symVars>> PROVE IdeShape'
    OBVIOUS
  <2>1. Ide!Next \/ UNCHANGED ideVars
    BY DEF StorageNext, Controllers
  <2>2. CASE UNCHANGED ideVars
    BY <2>2 DEF ideVars, IdeShape, StatusTyped, MediumShape, OneHasCommand, OneHasTransfer, AtTransfer
  <2> QED BY <2>1, <2>2, ShapeThread, ShapeDriver DEF Ide!Next
<1> QED BY <1>1, <1>2, PTL DEF StorageSpec

(* No semaphore of the channel is set twice, however soon the driver goes on: *)
(* set() of one that is set throws, and would end the thread of the controller *)
(* or of the CPU. Counts and pointers keep their range as long as the driver *)
(* never goes on before the thread is through. *)
THEOREM IdeHandsOver ==
  ASSUME AlignedDriver
  PROVE  StorageSpec => [](Ide!TypeOK /\ Ide!SemaphoresHold)
<1>1. IdeShape /\ (~ideOvertaken => IdeInv) => Ide!TypeOK
  <2> SUFFICES ASSUME IdeShape, ~ideOvertaken => IdeInv PROVE Ide!TypeOK
    OBVIOUS
  <2>1. /\ ideStatus \in [Ide!Drives -> Ide!Status]
        /\ ideSem \in [{"controller", "ready", "master", "masterReady"} -> {0, 1}]
        /\ idePhase \in {"none", "packet", "idle"} /\ ideSelected \in Ide!Drives
        /\ {ideActive, ideBmIntr, ideIrq, ideOvertaken} \subseteq BOOLEAN
        /\ \A d \in Ide!Drives : DOMAIN ideMedium[d] = Ide!Lbas
    BY DEF IdeShape, StatusTyped, MediumShape
  <2>2. ~ideOvertaken => {ideRegs.count, idePtr, ideSize, ideMoved} \subseteq 0 .. IdeCountMax
    BY DEF IdeInv, IdeTyped, Registers
  <2> QED BY <2>1, <2>2 DEF Ide!TypeOK
<1>2. IdeShape => Ide!SemaphoresHold
  BY DEF IdeShape, OneHasCommand, OneHasTransfer, AtTransfer, Ide!SemaphoresHold
<1> QED BY <1>1, <1>2, IdeInductive, IdeSound, PTL

(* The driver reads what the drive holds at the sectors it asked for, through *)
(* the data register or by the bus master, and when a command is over the *)
(* sectors it wrote hold what it wrote and no other has changed (execute(), *)
(* do_dma_transfer()): as long as the driver never goes on before the thread is *)
(* through. *)
THEOREM IdeDataIntact ==
  ASSUME AlignedDriver
  PROVE  StorageSpec => []Ide!DataIntact
<1>1. (~ideOvertaken => IdeInv) => Ide!DataIntact
  <2> SUFFICES ASSUME IdeInv, ~ideOvertaken PROVE Ide!DataIntact
    BY DEF Ide!DataIntact
  <2>1. ASSUME ideCpu = "data", Ide!Incoming, Drive.drq
        PROVE  ideBuffer[idePtr + 1] =
                 Ide!Expected(IF ideJob.cmd \in Ide!Packets THEN ideJob.done - 1 ELSE ideJob.done)
    <3>1. On /\ idePtr < ideSize /\ ideJob.cmd # "packetDma"
      BY <2>1, ReadsIs
    <3>2. /\ idePtr + 1 \in 1 .. ideSize /\ ideJob.done \in Nat /\ idePtr \in Nat
      BY <3>1, Parameters DEF IdeInv, IdeTyped
    <3>3. CASE ideJob.cmd \in Ide!Packets
      <4>1. Base = 1 /\ ideBuffer[idePtr + 1] = Ide!Expected((idePtr + 1) - 1)
        BY <2>1, <3>1, <3>2, <3>3 DEF IdeInv, BufferPacket, Ide!Incoming, Ide!Packets
      <4>2. (idePtr + 1) - 1 = ideJob.done - 1
        BY <3>2, <4>1 DEF Base
      <4> QED BY <3>3, <4>1, <4>2
    <3>4. CASE ideJob.cmd \notin Ide!Packets
      <4>1. ideBuffer[idePtr + 1] = Ide!Expected(Base + (idePtr + 1) - 1)
        BY <2>1, <3>1, <3>2, <3>4 DEF IdeInv, BufferRead, Ide!Incoming
      <4>2. Base + (idePtr + 1) - 1 = ideJob.done
        BY <3>2 DEF Base
      <4> QED BY <3>4, <4>1, <4>2
    <3> QED BY <3>3, <3>4
  <2>2. ideCpu = "idle" /\ ideJob.cmd \in {"readDma", "packetDma"} =>
          ideMemory = [i \in 1 .. Len(ideMemory) |-> Ide!Expected(i - 1)]
    <3>1. ideMemory \in Seq(Int)
      BY DEF IdeInv, IdeTyped
    <3>2. ideMemory = [i \in 1 .. Len(ideMemory) |-> ideMemory[i]]
      BY <3>1
    <3>3. ideJob.cmd \in {"readDma", "packetDma"} =>
            \A i \in 1 .. Len(ideMemory) : ideMemory[i] = Ide!Expected(i - 1)
      BY DEF IdeInv, MemoryRead
    <3> QED BY <3>2, <3>3
  <2>3. ideCpu = "idle" => ideMedium = ideWants
    BY DEF IdeInv, MediumRight
  <2> QED BY <2>1, <2>2, <2>3 DEF Ide!DataIntact, Ide!St, Drive
<1> QED BY <1>1, IdeInductive, PTL

-----------------------------------------------------------------------------
(* The SCSI controllers. *)

(* The instructions of the driver's program. *)
Instruction(i) ==
  LET s == DriverScript[i] IN
  /\ s.op = "reselect" => i = 1 /\ s.to = 2
  /\ s.op = "register" => i \in 2 .. 23 /\ (s.reg = "ctest2" => i = 2)
  /\ s.op = "int" => IF s.fly THEN i = 26 ELSE i = 28
  /\ s.op = "jump" => i \notin {1, 2}
  /\ s.op = "jump" /\ i \notin {25, 27, 29} => {s.to, i + 1} \subseteq 3 .. 28 \ {25, 27}
  /\ s.op = "jump" /\ s.phase # "none" => i \in 3 .. 23
  /\ s.op = "move" => /\ i \in 3 .. 23
                      /\ s.phase \in {"msgOut", "msgIn", "command", "dataIn", "dataOut", "status"}
                      /\ s.phase = "status" <=> i = 18
  /\ s.op \in {"select", "disconnect"} => i \in 3 .. 23
  /\ s.op = "carry" => i = 24 /\ s.value = TRUE
  /\ i = 25 => s = JumpIf("none", "none", TRUE, FALSE, 27)
  /\ i \in {27, 29} => s = Always(1)
  /\ i = 18 => s.op = "move"
  /\ i = 2 => s = Reg("ctest2")
  /\ i = 1 => s.op = "reselect"

(* The program ends at the instruction after the halting interrupt. *)
LEMMA ScriptLength == Len(DriverScript) = 29
  BY DEF DriverScript

(* What each place of the program holds, and where its jumps lead. *)
LEMMA ScriptFacts ==
  ASSUME NEW i \in 1 .. 29
  PROVE  Instruction(i)
<1>1. CASE i \in 1 .. 7  BY SMTT(60), <1>1 DEF Instruction, DriverScript, Op, Move, Move1, JumpIf, When, Unless, Always, Reg
<1>2. CASE i \in 8 .. 15  BY SMTT(60), <1>2 DEF Instruction, DriverScript, Op, Move, Move1, JumpIf, When, Unless, Always, Reg
<1>3. CASE i \in 16 .. 22  BY <1>3 DEF Instruction, DriverScript, Op, Move, Move1, JumpIf, When, Unless, Always, Reg
<1>4. CASE i = 23  BY <1>4 DEF Instruction, DriverScript, Op, Move, Move1, JumpIf, When, Unless, Always, Reg
<1>5. CASE i = 24  BY <1>5 DEF Instruction, DriverScript, Op, Move, Move1, JumpIf, When, Unless, Always, Reg
<1>6. CASE i = 25  BY <1>6 DEF Instruction, DriverScript, Op, Move, Move1, JumpIf, When, Unless, Always, Reg
<1>7. CASE i = 26  BY <1>7 DEF Instruction, DriverScript, Op, Move, Move1, JumpIf, When, Unless, Always, Reg
<1>8. CASE i = 27  BY <1>8 DEF Instruction, DriverScript, Op, Move, Move1, JumpIf, When, Unless, Always, Reg
<1>9. CASE i = 28  BY <1>9 DEF Instruction, DriverScript, Op, Move, Move1, JumpIf, When, Unless, Always, Reg
<1>10. CASE i = 29  BY <1>10 DEF Instruction, DriverScript, Op, Move, Move1, JumpIf, When, Unless, Always, Reg
<1> QED  BY SMTT(60), <1>1, <1>2, <1>3, <1>4, <1>5, <1>6, <1>7, <1>8, <1>9, <1>10

(* What eval_interrupts() makes of DSTAT, SIST and ISTAT while DFE is set, so *)
(* that nothing is moved down. *)
EvalsTo(d, s, i, run) ==
  /\ symDstat' = d /\ symSist' = s
  /\ symIstat' \in SUBSET {"INTF", "SIP", "DIP"}
  /\ "INTF" \in symIstat' <=> "INTF" \in i
  /\ "SIP" \in symIstat' <=> s # {}
  /\ "DIP" \in symIstat' <=> d # {"DFE"}
  /\ symExecuting' \in BOOLEAN /\ (symExecuting' <=> run /\ d = {"DFE"} /\ s = {})
  /\ symIrq' \in BOOLEAN /\ (symIrq' <=> symIstat' # {})

(* eval_interrupts() drives the line and halts SCRIPTS. *)
LEMMA EvalEffect ==
  ASSUME NEW d \in SUBSET {"DFE", "SIR", "IID"}, "DFE" \in d,
         NEW s \in SUBSET {"MA", "STO", "GEN"}, NEW i \in SUBSET {"INTF", "SIP", "DIP"},
         NEW k, NEW run \in BOOLEAN, Sym895!Eval(d, s, i, k, run)
  PROVE  EvalsTo(d, s, i, run)
<1>1. ~Sym895!Empties(d, s)  BY DEF Sym895!Empties
<1>2. symDstat' = d /\ symSist' = s  BY <1>1 DEF Sym895!Eval
<1>3. d \cap Sym895!DstatFatal # {} <=> d # {"DFE"}  BY DEF Sym895!DstatFatal
<1>4. symIstat' = (i \cap {"INTF"}) \cup (IF d # {"DFE"} THEN {"DIP"} ELSE {})
                  \cup (IF s # {} THEN {"SIP"} ELSE {})
  BY <1>1, <1>3 DEF Sym895!Eval
<1>5. symExecuting' = (run /\ d \cap Sym895!DstatFatal = {} /\ s \cap Sym895!Halting = {})
  BY <1>1 DEF Sym895!Eval
<1>6. s \cap Sym895!Halting = {} <=> s = {}  BY DEF Sym895!Halting, Sym895!SistFatal
<1>7. symIrq' = (d \cap Sym895!DstatFatal \cap {"SIR", "IID", "MA", "STO", "GEN"} # {}
                 \/ s \cap {"SIR", "IID", "MA", "STO", "GEN"} # {} \/ "INTF" \in symIstat')
  BY <1>1 DEF Sym895!Eval, Sym895!Drives
<1>8. d \cap Sym895!DstatFatal \cap {"SIR", "IID", "MA", "STO", "GEN"} # {} <=> d # {"DFE"}
  BY DEF Sym895!DstatFatal
<1>9. s \cap {"SIR", "IID", "MA", "STO", "GEN"} # {} <=> s # {}  OBVIOUS
<1>10. symExecuting' \in BOOLEAN /\ symIrq' \in BOOLEAN  BY <1>5, <1>7
<1>11. symExecuting' <=> run /\ d = {"DFE"} /\ s = {}  BY <1>3, <1>5, <1>6
<1>12. symIrq' <=> d # {"DFE"} \/ s # {} \/ "INTF" \in symIstat'  BY <1>7, <1>8, <1>9
<1>13. symIstat' \in SUBSET {"INTF", "SIP", "DIP"} /\ ("INTF" \in symIstat' <=> "INTF" \in i)
       /\ ("SIP" \in symIstat' <=> s # {}) /\ ("DIP" \in symIstat' <=> d # {"DFE"})
  BY <1>4
<1>14. symIrq' <=> symIstat' # {}  BY <1>12, <1>13
<1> QED  BY <1>2, <1>10, <1>11, <1>13, <1>14 DEF EvalsTo

(* What set_interrupt() does: an interrupt on the fly goes by the side; any *)
(* other one stops SCRIPTS and is in the first level, or waits in the second *)
(* for what is there. *)
RaisesTo(bit) ==
  /\ symDstat' \subseteq {"DFE", "SIR", "IID"} /\ "DFE" \in symDstat'
  /\ symSist' \subseteq {"MA", "STO", "GEN"} /\ symIstat' \subseteq {"INTF", "SIP", "DIP"}
  /\ symExecuting' \in BOOLEAN /\ symIrq' \in BOOLEAN
  /\ "SIP" \in symIstat' <=> symSist' # {}
  /\ "DIP" \in symIstat' <=> symDstat' # {"DFE"}
  /\ symIrq' <=> symIstat' # {}
  /\ bit = "INTF" => /\ UNCHANGED <<symDstat, symSist, symExecuting>>
                     /\ "INTF" \in symIstat'
  /\ bit # "INTF" => /\ ~symExecuting' /\ symSist' \cup (symDstat' \ {"DFE"}) # {}
                     /\ symSist \cup symDstat \subseteq symSist' \cup symDstat'
                     /\ symSist' \cup symDstat' \subseteq symSist \cup symDstat \cup {bit}
                     /\ "INTF" \in symIstat' <=> "INTF" \in symIstat
                     /\ symExecuting => bit \in symSist' \cup symDstat'

(* set_interrupt() raises what is there: it halts SCRIPTS but for the *)
(* stacking of a second cause. *)
LEMMA RaiseEffect ==
  ASSUME SymTyped, Levels, RunsFree,
         NEW bit \in {"INTF", "SIR", "IID", "MA", "STO", "GEN"}, Sym895!RaiseBit(bit)
  PROVE  RaisesTo(bit)
<1> USE DEF SymTyped
<1>0. Sym895!RaiseWhile(bit, symExecuting)  BY DEF Sym895!RaiseBit
<1>1. CASE bit = "INTF"
  <2>1. Sym895!Eval(symDstat, symSist, symIstat \cup {"INTF"}, symStacked, symExecuting)
    BY <1>0, <1>1 DEF Sym895!RaiseWhile
  <2>2. symIstat \cup {"INTF"} \in SUBSET {"INTF", "SIP", "DIP"}  OBVIOUS
  <2>3. symExecuting => symDstat = {"DFE"} /\ symSist = {}  BY DEF RunsFree, Raised
  <2>4. EvalsTo(symDstat, symSist, symIstat \cup {"INTF"}, symExecuting)  BY <2>1, <2>2, EvalEffect
  <2> QED  BY <1>1, <2>3, <2>4 DEF EvalsTo, Levels, RaisesTo
<1>2. CASE bit # "INTF" /\ symIstat \cap {"SIP", "DIP"} # {}
  <2>1. Sym895!Eval(symDstat, symSist, symIstat, symStacked \cup {bit}, symExecuting)
    BY <1>0, <1>2 DEF Sym895!RaiseWhile
  <2>2. symSist # {} \/ symDstat # {"DFE"}  BY <1>2 DEF Levels
  <2>3. EvalsTo(symDstat, symSist, symIstat, symExecuting)  BY <2>1, EvalEffect
  <2>4. ~symExecuting  BY <2>2 DEF RunsFree, Raised
  <2> QED  BY <1>2, <2>2, <2>3, <2>4 DEF EvalsTo, Levels, RaisesTo
<1>3. CASE bit \in {"SIR", "IID"} /\ symIstat \cap {"SIP", "DIP"} = {}
  <2>1. Sym895!Eval(symDstat \cup {bit}, symSist, symIstat, symStacked, symExecuting)
    BY <1>0, <1>3 DEF Sym895!RaiseWhile, Sym895!DstatFatal
  <2>2. symDstat \cup {bit} \in SUBSET {"DFE", "SIR", "IID"}  BY <1>3
  <2>3. EvalsTo((symDstat \cup {bit}), symSist, symIstat, symExecuting)  BY <2>1, <2>2, EvalEffect
  <2> QED  BY <1>3, <2>2, <2>3 DEF EvalsTo, Levels, RaisesTo
<1>4. CASE bit \in {"MA", "STO", "GEN"} /\ symIstat \cap {"SIP", "DIP"} = {}
  <2>1. Sym895!Eval(symDstat, symSist \cup {bit}, symIstat, symStacked, symExecuting)
    BY <1>0, <1>4 DEF Sym895!RaiseWhile, Sym895!DstatFatal
  <2>2. symSist \cup {bit} \in SUBSET {"MA", "STO", "GEN"}  BY <1>4
  <2>3. EvalsTo(symDstat, (symSist \cup {bit}), symIstat, symExecuting)  BY <2>1, <2>2, EvalEffect
  <2> QED  BY <1>4, <2>2, <2>3 DEF EvalsTo, Levels, RaisesTo
<1> QED  BY <1>1, <1>2, <1>3, <1>4

(* The instruction at DSP. *)
LEMMA AtInstruction == ASSUME SymTyped PROVE Instruction(symDsp)
  BY ScriptFacts DEF SymTyped

(* An instruction that has not run after a halt has run before one. *)
LEMMA Runs == ASSUME Sym895!Rest, ~symOverran' PROVE symExecuting
  BY DEF Sym895!Rest

(* An instruction that raises nothing. *)
LEMMA QuietStep ==
  ASSUME ScriptsInv, symExecuting, symDsp \notin {1, 27}, symPc' = "run",
         UNCHANGED <<symDstat, symSist, symIstat, symIrq, symExecuting, symWaitReselect, symSem,
                     symCpu, symSeen>>,
         symSigp' \in BOOLEAN, symSigp' => symSigp, symDsp = 2 => ~symSigp',
         symDsp' \in 3 .. 28 \ {27}, symDsp' # 25 \/ symCarry' = TRUE, symBus' \in Sym895!Phases
  PROVE  ScriptsInv'
<1> USE DEF ScriptsInv
<1>1. SymTyped'  BY DEF SymTyped
<1>2. UNCHANGED <<Raised, Flown>>  BY DEF Raised, Flown
<1>3. ~Flown /\ symCpu = "issued" /\ ~symSigp'
  BY DEF FlyOnly, Stopped, Waiting, SignalHeld, SymTyped
<1> QED
  BY <1>1, <1>2, <1>3 DEF Levels, RunsFree, FlyOnly, Stopped, Waiting, SignalHeld, ComesBack

(* An instruction that stops SCRIPTS with an interrupt. *)
LEMMA StoppingStep ==
  ASSUME ScriptsInv, symExecuting, symDsp \notin {1, 2, 27},
         NEW bit \in {"SIR", "IID", "MA", "STO"}, Sym895!RaiseBit(bit),
         symPc' = "run", UNCHANGED <<symWaitReselect, symSem, symCpu, symSeen, symSigp>>,
         symDsp' \in 3 .. 29 \ {25, 27}, symDsp' = 29 => bit = "SIR", symBus' \in Sym895!Phases
  PROVE  ScriptsInv'
<1> USE DEF ScriptsInv
<1>1. RaisesTo(bit)  BY RaiseEffect
<1>2. SymTyped'  BY <1>1 DEF SymTyped, RaisesTo
<1>3. ~Flown /\ symCpu = "issued" /\ ~symSigp /\ ~symWaitReselect
  BY DEF FlyOnly, Stopped, Waiting, SignalHeld, SymTyped
<1>4. ~symExecuting' /\ Raised' # {} /\ bit \in Raised'  BY <1>1 DEF RaisesTo, Raised
<1>5. ~Flown'  BY <1>1, <1>3 DEF RaisesTo, Flown
<1>6. Levels'  BY <1>1 DEF RaisesTo, Levels
<1> QED
  BY <1>2, <1>3, <1>4, <1>5, <1>6 DEF RunsFree, FlyOnly, Stopped, Waiting, SignalHeld, ComesBack

(* Most instructions go on to the next one. *)
LEMMA NextStep ==
  ASSUME ScriptsInv, symExecuting, symDsp \in 2 .. 23, Sym895!Next1, Sym895!Rest,
         UNCHANGED symWaitReselect, symSigp' \in BOOLEAN, symSigp' => symSigp, symDsp = 2 => ~symSigp',
         symBus' \in Sym895!Phases
  PROVE  /\ Sym895!Quiet => ScriptsInv'
         /\ \A bit \in {"IID", "MA", "STO"} :
              symDsp # 2 /\ Sym895!RaiseBit(bit) /\ symSigp' = symSigp => ScriptsInv'
<1>1. symDsp' = symDsp + 1  BY DEF Sym895!Next1, Sym895!Go
<1>2. symDsp' \in 3 .. 24  BY <1>1
<1>3. symPc' = "run" /\ UNCHANGED <<symWaitReselect, symSem, symCpu, symSeen>>
  BY DEF Sym895!Rest, Sym895!driver
<1>4. ASSUME Sym895!Quiet PROVE ScriptsInv'
  <2>1. UNCHANGED <<symDstat, symSist, symIstat, symIrq, symExecuting>>
    BY <1>4 DEF Sym895!Quiet, Sym895!interrupts
  <2>2. symDsp \notin {1, 27} /\ symDsp' \in 3 .. 28 \ {27} /\ symDsp' # 25  BY <1>2
  <2> QED  BY <1>3, <2>1, <2>2, QuietStep
<1>5. ASSUME NEW bit \in {"IID", "MA", "STO"}, symDsp # 2, Sym895!RaiseBit(bit), symSigp' = symSigp
      PROVE  ScriptsInv'
  <2>1. symDsp \notin {1, 2, 27} /\ symDsp' \in 3 .. 29 \ {25, 27} /\ symDsp' # 29  BY <1>2, <1>5
  <2> QED  BY <1>3, <1>5, <2>1, StoppingStep
<1> QED  BY <1>4, <1>5

(* What the initiator moves leaves the bus in a phase. *)
LEMMA MovePhase ==
  ASSUME NEW n, Sym895!MoveUnits(n),
         symBus \in {"msgOut", "msgIn", "command", "dataIn", "dataOut", "status"}
  PROVE  symBus' \in Sym895!Phases
  BY DEF Sym895!MoveUnits, Sym895!XferDone, Sym895!AfterCommand, Sym895!Phases

(* SELECT leaves the bus to the target, or to nobody when the identity is not *)
(* there. *)
LEMMA Select895 == ASSUME ScriptsInv, ~symOverran', Sym895!SelectOp PROVE ScriptsInv'
<1>1. symExecuting /\ symDsp \in 3 .. 23
  BY AtInstruction, Runs DEF Instruction, Sym895!SelectOp, Sym895!At, Sym895!Instr, ScriptsInv
<1>2. symBus' \in Sym895!Phases  BY DEF Sym895!SelectOp, Sym895!Selected, Sym895!Phases
<1>3. Sym895!Next1 /\ Sym895!Quiet /\ Sym895!Rest /\ UNCHANGED <<symWaitReselect, symSigp>>
  BY DEF Sym895!SelectOp
<1> QED  BY <1>1, <1>2, <1>3, NextStep DEF ScriptsInv, SymTyped

(* A selection that nobody answers stops SCRIPTS with STO. *)
LEMMA Timeout895 == ASSUME ScriptsInv, ~symOverran', Sym895!Timeout PROVE ScriptsInv'
<1>1. symExecuting /\ symDsp \in 3 .. 23
  BY AtInstruction, Runs DEF Instruction, Sym895!Timeout, Sym895!Instr, ScriptsInv
<1>2. symBus' \in Sym895!Phases  BY DEF Sym895!Timeout, Sym895!Phases
<1>3. /\ Sym895!Next1 /\ Sym895!RaiseBit("STO") /\ Sym895!Rest
      /\ UNCHANGED <<symWaitReselect, symSigp>>
  BY DEF Sym895!Timeout
<1> QED  BY <1>1, <1>2, <1>3, NextStep DEF ScriptsInv, SymTyped

(* A block move of the 895 goes on, or stops SCRIPTS with a phase mismatch. *)
LEMMA Move895 == ASSUME ScriptsInv, ~symOverran', Sym895!BlockMove895 PROVE ScriptsInv'
<1>1. /\ symExecuting /\ symDsp \in 3 .. 23
      /\ Sym895!Instr.phase \in {"msgOut", "msgIn", "command", "dataIn", "dataOut", "status"}
  BY AtInstruction, Runs DEF Instruction, Sym895!BlockMove895, Sym895!At, Sym895!Instr, ScriptsInv
<1>2. Sym895!Next1 /\ Sym895!Rest /\ UNCHANGED <<symWaitReselect, symSigp>>
  BY DEF Sym895!BlockMove895
<1>3. symBus' \in Sym895!Phases
  BY <1>1, MovePhase DEF Sym895!BlockMove895, Sym895!scsi, ScriptsInv, SymTyped
<1>4. Sym895!Quiet \/ Sym895!RaiseBit("IID")  BY SMTT(60) DEF Sym895!BlockMove895
<1> QED  BY <1>1, <1>2, <1>3, <1>4, NextStep DEF ScriptsInv, SymTyped

(* The two controllers raise a cause alike. *)
LEMMA Raise810 == ASSUME NEW bit, Sym810!RaiseBit(bit) PROVE Sym895!RaiseBit(bit)
  BY DEF Sym810!RaiseBit, Sym810!RaiseWhile, Sym810!Eval, Sym810!Empties, Sym810!Drives, Sym810!DstatFatal,
    Sym810!SistFatal, Sym810!Halting, Sym895!RaiseBit, Sym895!RaiseWhile, Sym895!Eval, Sym895!Empties,
    Sym895!Drives, Sym895!DstatFatal, Sym895!SistFatal, Sym895!Halting

(* A block move of the 810 goes on, or stops SCRIPTS with a phase mismatch or *)
(* an illegal instruction. *)
LEMMA Move810 == ASSUME ScriptsInv, ~symOverran', Sym810!BlockMove810 PROVE ScriptsInv'
<1>1. /\ symExecuting /\ symDsp \in 3 .. 23
      /\ Sym810!Instr.phase \in {"msgOut", "msgIn", "command", "dataIn", "dataOut", "status"}
  BY AtInstruction DEF Instruction, Sym810!BlockMove810, Sym810!At, Sym810!Instr, Sym810!Rest, ScriptsInv
<1>2. Sym895!Next1 /\ Sym895!Rest /\ UNCHANGED <<symWaitReselect, symSigp>>
  BY DEF Sym810!BlockMove810, Sym810!Next1, Sym810!Go, Sym810!Rest, Sym810!driver, Sym895!Next1, Sym895!Go,
    Sym895!Rest, Sym895!driver
<1>3. symBus' \in Sym895!Phases
  <2>1. ASSUME NEW n, Sym810!MoveUnits(n), symBus = Sym810!Instr.phase PROVE symBus' \in Sym895!Phases
    BY <1>1, <2>1 DEF Sym810!MoveUnits, Sym810!XferDone, Sym810!AfterCommand, Sym895!Phases
  <2> QED  BY <2>1 DEF Sym810!BlockMove810, Sym810!scsi, ScriptsInv, SymTyped
<1>4. Sym810!Quiet \/ Sym810!RaiseBit("IID") \/ Sym810!RaiseBit("MA")  BY DEF Sym810!BlockMove810
<1>5. Sym895!Quiet \/ Sym895!RaiseBit("IID") \/ Sym895!RaiseBit("MA")
  BY <1>4, Raise810 DEF Sym810!Quiet, Sym810!interrupts, Sym895!Quiet, Sym895!interrupts
<1> QED  BY <1>1, <1>2, <1>3, <1>5, NextStep DEF ScriptsInv, SymTyped

(* WAIT DISCONNECT goes on. *)
LEMMA Disconnect895 == ASSUME ScriptsInv, ~symOverran', Sym895!WaitDisconnect PROVE ScriptsInv'
<1>1. symExecuting /\ symDsp \in 3 .. 23
  BY AtInstruction, Runs DEF Instruction, Sym895!WaitDisconnect, Sym895!At, Sym895!Instr, ScriptsInv
<1>2. /\ Sym895!Next1 /\ Sym895!Quiet /\ Sym895!Rest
      /\ UNCHANGED <<symWaitReselect, symSigp, symBus>>
  BY DEF Sym895!WaitDisconnect, Sym895!scsi
<1> QED  BY <1>1, <1>2, NextStep DEF ScriptsInv, SymTyped

(* WAIT RESELECT takes the signal that is there, or waits for one. *)
LEMMA Reselect895 == ASSUME ScriptsInv, ~symOverran', Sym895!WaitReselect PROVE ScriptsInv'
<1> USE DEF ScriptsInv
<1>0. symExecuting /\ symDsp = 1 /\ Sym895!Instr.to = 2
  BY AtInstruction, Runs DEF Instruction, Sym895!WaitReselect, Sym895!At, Sym895!Instr, SymTyped
<1>1. symExecuting /\ symDsp = 1 /\ symDsp' = 2
  <2>1. IF symSigp THEN symDsp' = 2 ELSE symDsp' = 1 + 1
    BY <1>0 DEF Sym895!WaitReselect, Sym895!Signalled, Sym895!Next1, Sym895!Go
  <2> QED  BY <1>0, <2>1
<1>2. symPc' = "run" /\ UNCHANGED <<symDstat, symSist, symIstat, symIrq, symSem, symCpu, symSeen, symSigp, symBus>>
  BY DEF Sym895!WaitReselect, Sym895!Rest, Sym895!driver, Sym895!scsi
<1>3. IF symSigp THEN UNCHANGED <<symExecuting, symWaitReselect>> ELSE ~symExecuting' /\ symWaitReselect'
  BY DEF Sym895!WaitReselect, Sym895!Signalled
<1>4. symExecuting' \in BOOLEAN /\ symWaitReselect' \in BOOLEAN
  BY DEF Sym895!WaitReselect, SymTyped
<1>5. SymTyped'  BY <1>1, <1>2, <1>4 DEF SymTyped
<1>6. UNCHANGED <<Raised, Flown>>  BY <1>2 DEF Raised, Flown
<1>7. Raised = {} /\ symCpu # "start"  BY <1>1 DEF RunsFree, Stopped
<1>8. symSigp => symCpu = "issued" /\ ~symWaitReselect /\ ~Flown  BY DEF SignalHeld, FlyOnly
<1>9. Levels' /\ RunsFree'  BY <1>1, <1>2, <1>3, <1>6, <1>7 DEF Levels, RunsFree
<1>10. FlyOnly'  BY <1>1, <1>2, <1>3, <1>6, <1>7, <1>8 DEF FlyOnly
<1>12. ComesBack'  BY <1>1, <1>2, <1>6 DEF ComesBack
<1>11. Stopped' /\ Waiting' /\ SignalHeld'
  BY <1>1, <1>2, <1>3, <1>6, <1>7, <1>8 DEF Stopped, Waiting, SignalHeld, SymTyped
<1> QED  BY <1>5, <1>9, <1>10, <1>11, <1>12

(* The carry is set on the way to the interrupt on the fly. *)
LEMMA Carry895 == ASSUME ScriptsInv, ~symOverran', Sym895!SetCarry PROVE ScriptsInv'
<1>1. symExecuting /\ symDsp = 24 /\ Sym895!Instr.value = TRUE
  BY AtInstruction, Runs DEF Instruction, Sym895!SetCarry, Sym895!At, Sym895!Instr, ScriptsInv
<1>2. symDsp' = 25 /\ symCarry' = TRUE
  BY <1>1 DEF Sym895!SetCarry, Sym895!Next1, Sym895!Go
<1>3. symPc' = "run" /\ UNCHANGED <<symDstat, symSist, symIstat, symIrq, symExecuting, symWaitReselect,
                                   symSem, symCpu, symSeen, symSigp, symBus>>
  BY DEF Sym895!SetCarry, Sym895!Quiet, Sym895!Rest, Sym895!interrupts, Sym895!driver, Sym895!scsi
<1>4. symSigp' \in BOOLEAN /\ symBus' \in Sym895!Phases  BY <1>3 DEF ScriptsInv, SymTyped
<1> QED  BY <1>1, <1>2, <1>3, <1>4, QuietStep

(* A register move goes on; the read of CTEST2 takes the signal. *)
LEMMA Register895 == ASSUME ScriptsInv, ~symOverran', Sym895!Register PROVE ScriptsInv'
<1>1. symExecuting /\ symDsp \in 2 .. 23
  BY AtInstruction, Runs DEF Instruction, Sym895!Register, Sym895!At, Sym895!Instr, ScriptsInv
<1>2. symDsp = 2 => Sym895!Instr.reg = "ctest2"
  BY AtInstruction DEF Instruction, ScriptsInv, Reg, Sym895!Instr
<1>3. symSigp' \in BOOLEAN /\ (symSigp' => symSigp) /\ (symDsp = 2 => ~symSigp')
  BY <1>2 DEF Sym895!Register
<1>4. Sym895!Next1 /\ Sym895!Quiet /\ Sym895!Rest /\ UNCHANGED <<symWaitReselect, symBus>>
  BY DEF Sym895!Register, Sym895!scsi
<1> QED  BY <1>1, <1>3, <1>4, NextStep DEF ScriptsInv, SymTyped

(* A jump stays in the program, and passes the place of the interrupts only *)
(* with the carry or a phase. *)
LEMMA Jump895 == ASSUME ScriptsInv, ~symOverran', Sym895!Jump PROVE ScriptsInv'
<1> USE DEF ScriptsInv
<1>1. symExecuting /\ symDsp \notin {1, 2, 29} /\ DriverScript[symDsp].op = "jump"
  BY AtInstruction, Runs DEF Instruction, Sym895!Jump, Sym895!At, Sym895!Instr, ComesBack, RunsFree, Stopped
<1>2. symPc' = "run" /\ UNCHANGED <<symDstat, symSist, symIstat, symIrq, symExecuting, symWaitReselect,
                                   symSem, symCpu, symSeen, symSigp, symBus, symCarry>>
  BY DEF Sym895!Jump, Sym895!Quiet, Sym895!Rest, Sym895!interrupts, Sym895!driver, Sym895!scsi
<1>3. symDsp' = IF Sym895!Holds THEN DriverScript[symDsp].to ELSE symDsp + 1
  BY DEF Sym895!Jump, Sym895!Instr, Sym895!Go
<1>4. CASE symDsp \notin {25, 27}
  <2>1. symDsp' \in 3 .. 28 \ {25, 27}  BY <1>1, <1>3, <1>4, AtInstruction DEF Instruction
  <2> QED  BY <1>1, <1>2, <1>4, <2>1, QuietStep DEF SymTyped
<1>5. CASE symDsp = 25
  <2>1. DriverScript[symDsp] = JumpIf("none", "none", TRUE, FALSE, 27)
    BY <1>5, AtInstruction DEF Instruction
  <2>2. symCarry = TRUE  BY <1>5 DEF ComesBack
  <2>3. ~Sym895!Holds  BY <2>1, <2>2 DEF JumpIf, Sym895!Holds, Sym895!Instr
  <2> QED  BY <1>1, <1>2, <1>3, <1>5, <2>3, QuietStep DEF SymTyped
<1>6. CASE symDsp = 27
  <2>1. Sym895!Holds /\ DriverScript[symDsp].to = 1
    BY <1>6, AtInstruction DEF Instruction, Always, JumpIf, Sym895!Holds, Sym895!Instr
  <2>2. symDsp' = 1  BY <1>3, <2>1
  <2>3. SymTyped'  BY <1>2, <2>2 DEF SymTyped
  <2>4. UNCHANGED <<Raised, Flown>>  BY <1>2 DEF Raised, Flown
  <2> QED
    BY <1>1, <1>2, <1>6, <2>2, <2>3, <2>4 DEF Levels, RunsFree, FlyOnly, Stopped, Waiting, SignalHeld, ComesBack
<1> QED  BY <1>4, <1>5, <1>6

(* INT and INTFLY raise what they say. *)
LEMMA Interrupt895 == ASSUME ScriptsInv, ~symOverran', Sym895!Interrupt PROVE ScriptsInv'
<1> USE DEF ScriptsInv
<1>0. symExecuting /\ symDsp \in {26, 28}
  BY AtInstruction, Runs DEF Instruction, Sym895!Interrupt, Sym895!At, Sym895!Instr
<1>1. symExecuting /\ symDsp \in {26, 28} /\ symDsp' = symDsp + 1
  BY <1>0 DEF Sym895!Interrupt, Sym895!Next1, Sym895!Go
<1>2. symPc' = "run" /\ UNCHANGED <<symWaitReselect, symSem, symCpu, symSeen, symSigp, symBus>>
  BY DEF Sym895!Interrupt, Sym895!Rest, Sym895!driver, Sym895!scsi
<1>3. IF symDsp = 26 THEN Sym895!RaiseBit("INTF") ELSE Sym895!RaiseBit("SIR")
  BY <1>1, AtInstruction DEF Instruction, Sym895!Interrupt, Sym895!At, Sym895!Instr
<1>4. CASE symDsp = 28
  BY <1>1, <1>2, <1>3, <1>4, StoppingStep DEF SymTyped
<1>5. CASE symDsp = 26
  <2>1. RaisesTo("INTF")  BY <1>3, <1>5, RaiseEffect
  <2>2. SymTyped'  BY <1>1, <1>2, <2>1 DEF SymTyped, RaisesTo
  <2>3. Raised' = {} /\ symExecuting'  BY <1>1, <1>2, <2>1 DEF RaisesTo, Raised, RunsFree
  <2>4. symCpu = "issued" /\ ~symSigp /\ ~symWaitReselect  BY <1>1, <1>5 DEF Stopped, Waiting, SignalHeld, SymTyped
  <2>5. Levels' /\ Flown'  BY <2>1 DEF RaisesTo, Levels, Flown
  <2> QED
    BY <1>1, <1>2, <1>5, <2>2, <2>3, <2>4, <2>5 DEF RunsFree, FlyOnly, Stopped, Waiting, SignalHeld, ComesBack
<1> QED  BY <1>1, <1>4, <1>5

(* The thread that sleeps, or is told to, changes nothing that counts here. *)
LEMMA ThreadWait895 ==
  ASSUME ScriptsInv, Sym895!ThreadWait \/ Sym895!ThreadTest
  PROVE  ScriptsInv'
<1>1. UNCHANGED <<symBus, symCarry, symDsp, symDstat, symSist, symIstat, symIrq, symExecuting,
                  symWaitReselect, symSigp, symCpu, symSeen>>
  BY DEF Sym895!ThreadWait, Sym895!ThreadTest, Sym895!interrupts, Sym895!driver, Sym895!scsi, Sym895!registers
<1>2. symSem' \in {0, 1} /\ symPc' \in {"wait", "run", "step"}
  BY DEF Sym895!ThreadWait, Sym895!ThreadTest, ScriptsInv, SymTyped
<1>3. UNCHANGED <<Raised, Flown>>  BY <1>1 DEF Raised, Flown
<1> QED
  BY <1>1, <1>2, <1>3 DEF ScriptsInv, SymTyped, Levels, RunsFree, FlyOnly, Stopped, Waiting, SignalHeld, ComesBack

(* The driver's write of DSP starts SCRIPTS at the first instruction. *)
LEMMA Start895 == ASSUME ScriptsInv, symCpu' # "dead", Sym895!Start PROVE ScriptsInv'
<1> USE DEF ScriptsInv
<1>1. symCpu = "start" /\ symCpu' = "idle" /\ symDsp' = 1 /\ symExecuting' = TRUE /\ symSem' = 1
  BY DEF Sym895!Start, Sym895!WriteDsp, Sym895!Run, Sym895!Go, Sym895!Awaken
<1>2. UNCHANGED <<symBus, symDstat, symSist, symIstat, symIrq, symWaitReselect, symSigp, symSeen, symPc>>
  BY DEF Sym895!Start, Sym895!CpuOnly, Sym895!scsi
<1>3. SymTyped'  BY <1>1, <1>2 DEF SymTyped
<1>4. UNCHANGED <<Raised, Flown>>  BY <1>2 DEF Raised, Flown
<1>5. Raised = {} /\ ~Flown  BY <1>1 DEF Raised, Flown, Stopped, Levels, SymTyped
<1> QED
  BY <1>1, <1>2, <1>3, <1>4, <1>5 DEF Levels, RunsFree, FlyOnly, Stopped, Waiting, SignalHeld, ComesBack

(* SIGP finds SCRIPTS waiting, and sends them on, or on the way to where they *)
(* wait. *)
LEMMA Signal895 ==
  ASSUME ScriptsInv, symCpu' # "dead", NEW j \in DriverJobs, Sym895!Signal(j)
  PROVE  ScriptsInv'
<1> USE DEF ScriptsInv
<1>1. symCpu = "idle" /\ symCpu' = "issued" /\ symSeen' = {} /\ symSigp' = TRUE
  BY DEF Sym895!Signal, Sym895!Awaken
<1>2. UNCHANGED <<symBus, symPc, symCarry>>  BY DEF Sym895!Signal, Sym895!CpuOnly, Sym895!scsi
<1>3. symIstat = {} /\ symSeen = {} /\ Raised = {} /\ symSist = {} /\ symDstat = {"DFE"}
  BY <1>1 DEF Stopped, Levels, Raised, SymTyped
<1>4. CASE symWaitReselect
  <2>1. Sym895!Eval(symDstat, symSist, symIstat, symStacked, TRUE)
    BY <1>4 DEF Sym895!Signal, Sym895!Awaken
  <2>2. EvalsTo(symDstat, symSist, symIstat, TRUE)  BY <2>1, EvalEffect DEF SymTyped
  <2>3. symDsp' = 2 /\ ~symWaitReselect' /\ symWaitReselect' \in BOOLEAN /\ symSem' = 1
    BY <1>4 DEF Sym895!Signal, Sym895!Awaken
  <2>4. SymTyped' /\ Levels'  BY <1>1, <1>2, <1>3, <2>2, <2>3 DEF SymTyped, Levels, EvalsTo
  <2>5. Raised' = {} /\ ~Flown' /\ symExecuting'
    BY <1>1, <1>3, <2>2 DEF EvalsTo, Raised, Flown
  <2> QED
    BY <1>1, <2>3, <2>4, <2>5 DEF RunsFree, FlyOnly, Stopped, Waiting, SignalHeld, ComesBack
<1>5. CASE ~symWaitReselect
  <2>1. Sym895!Eval(symDstat, symSist, symIstat, symStacked, symExecuting)
    BY <1>5 DEF Sym895!Signal
  <2>2. EvalsTo(symDstat, symSist, symIstat, symExecuting)  BY <2>1, EvalEffect DEF SymTyped
  <2>3. UNCHANGED <<symDsp, symWaitReselect, symSem>>  BY <1>5 DEF Sym895!Signal
  <2>4. SymTyped' /\ Levels'  BY <1>1, <1>2, <1>3, <2>2, <2>3 DEF SymTyped, Levels, EvalsTo
  <2>5. symExecuting /\ symDsp \in {1, 27}  BY <1>1, <1>5 DEF Stopped
  <2>6. Raised' = {} /\ ~Flown' /\ symExecuting'
    BY <1>1, <1>3, <2>2, <2>5 DEF EvalsTo, Raised, Flown
  <2> QED
    BY <1>1, <1>5, <2>3, <2>4, <2>5, <2>6 DEF RunsFree, FlyOnly, Stopped, Waiting, SignalHeld, ComesBack
<1> QED  BY <1>4, <1>5

(* The driver takes an interrupt: what has been raised moves to what it has *)
(* seen. *)
LEMMA TakingStep ==
  ASSUME ScriptsInv, symCpu = "issued", NEW d \in SUBSET symDstat, "DFE" \in d, NEW s \in SUBSET symSist,
         NEW i \in SUBSET symIstat, Sym895!Eval(d, s, i, symStacked, symExecuting),
         symSeen' = symSeen \cup (symDstat \ d) \cup (symSist \ s) \cup ((symIstat \ i) \cap {"INTF"}),
         UNCHANGED <<symDsp, symWaitReselect, symSigp, symSem, symCpu, symBus, symPc, symCarry>>
  PROVE  ScriptsInv' /\ Raised' = Raised /\ (Flown' <=> Flown)
<1> USE DEF ScriptsInv
<1>1. EvalsTo(d, s, i, symExecuting)
  <2>1. d \in SUBSET {"DFE", "SIR", "IID"} /\ s \in SUBSET {"MA", "STO", "GEN"} /\ i \in SUBSET {"INTF", "SIP", "DIP"}
        /\ symExecuting \in BOOLEAN
    BY DEF SymTyped
  <2> QED  BY <2>1, EvalEffect
<1>2. SymTyped'  BY <1>1 DEF SymTyped, EvalsTo
<1>3. Raised' = Raised  BY <1>1 DEF Raised, EvalsTo, SymTyped
<1>4. Flown' <=> Flown  BY <1>1 DEF Flown, EvalsTo, SymTyped
<1>5. Levels'  BY <1>1 DEF Levels, EvalsTo
<1>6. symExecuting' = symExecuting
  <2>1. symExecuting => symDstat = {"DFE"} /\ symSist = {}  BY DEF RunsFree, Raised, SymTyped
  <2>2. symExecuting' \in BOOLEAN /\ symExecuting \in BOOLEAN  BY <1>1 DEF EvalsTo, SymTyped
  <2>3. symExecuting' <=> symExecuting /\ d = {"DFE"} /\ s = {}  BY <1>1 DEF EvalsTo
  <2>4. symExecuting => d = {"DFE"} /\ s = {}  BY <2>1
  <2> QED  BY <2>2, <2>3, <2>4
<1> QED
  BY <1>2, <1>3, <1>4, <1>5, <1>6 DEF RunsFree, FlyOnly, Stopped, Waiting, SignalHeld, ComesBack

(* The driver takes what has been raised, one register at a time, and still *)
(* knows it. *)
LEMMA Take895 ==
  ASSUME ScriptsInv, Sym895!ClearFly \/ Sym895!ReadSist \/ Sym895!ReadDstat
  PROVE  ScriptsInv' /\ Raised' = Raised /\ (Flown' <=> Flown)
<1> USE DEF ScriptsInv
<1>1. UNCHANGED <<symDsp, symWaitReselect, symSigp, symSem, symCpu, symBus, symPc, symCarry>> /\ symCpu = "issued"
  BY DEF Sym895!ClearFly, Sym895!ReadSist, Sym895!ReadDstat, Sym895!CpuOnly, Sym895!scsi
<1>2. CASE Sym895!ClearFly
  <2>1. /\ Sym895!Eval(symDstat, symSist, symIstat \ {"INTF"}, symStacked, symExecuting)
        /\ symSeen' = symSeen \cup {"INTF"} /\ "INTF" \in symIstat
    BY <1>2 DEF Sym895!ClearFly
  <2>2. symSeen' = symSeen \cup (symDstat \ symDstat) \cup (symSist \ symSist)
                   \cup ((symIstat \ (symIstat \ {"INTF"})) \cap {"INTF"})
    BY <2>1
  <2> QED  BY <1>1, <2>1, <2>2, TakingStep DEF SymTyped
<1>3. CASE Sym895!ReadSist
  <2>1. /\ Sym895!Eval(symDstat, {}, symIstat, symStacked, symExecuting)
        /\ symSeen' = symSeen \cup symSist
    BY <1>3 DEF Sym895!ReadSist
  <2>2. symSeen' = symSeen \cup (symDstat \ symDstat) \cup (symSist \ {})
                   \cup ((symIstat \ symIstat) \cap {"INTF"})
    BY <2>1
  <2> QED  BY <1>1, <2>1, <2>2, TakingStep DEF SymTyped
<1>4. CASE Sym895!ReadDstat
  <2>1. /\ Sym895!Eval(symDstat \cap {"DFE"}, symSist, symIstat, symStacked, symExecuting)
        /\ symSeen' = symSeen \cup (symDstat \ {"DFE"})
    BY <1>4 DEF Sym895!ReadDstat
  <2>2. symSeen' = symSeen \cup (symDstat \ (symDstat \cap {"DFE"})) \cup (symSist \ symSist)
                   \cup ((symIstat \ symIstat) \cap {"INTF"})
    BY <2>1
  <2> QED  BY <1>1, <2>1, <2>2, TakingStep DEF SymTyped
<1> QED  BY <1>2, <1>3, <1>4

(* The driver finds the move of the status in its program. *)
LEMMA ScriptStatus == Sym895!Status = 18
<1>1. \A i \in 1 .. 29 : DriverScript[i].op = "move" /\ DriverScript[i].phase = "status" <=> i = 18
  BY ScriptFacts DEF Instruction
<1>2. DOMAIN DriverScript = 1 .. 29  BY DEF DriverScript
<1> QED  BY SMTT(60), <1>1, <1>2 DEF Sym895!Status

(* When nothing is left to take the driver acts: the command has ended, or *)
(* SCRIPTS are started again. *)
LEMMA Act895 == ASSUME ScriptsInv, symCpu' # "dead", Sym895!Act PROVE ScriptsInv'
<1> USE DEF ScriptsInv
<1>1. /\ symCpu = "issued" /\ ~symIrq /\ symSeen # {} /\ symSeen' = {}
      /\ UNCHANGED <<symBus, symPc, symCarry, symSigp, symDstat, symSist, symIstat, symIrq, symWaitReselect>>
  BY DEF Sym895!Act, Sym895!CpuOnly, Sym895!scsi
<1>2. symIstat = {} /\ symSist = {} /\ symDstat = {"DFE"}  BY <1>1 DEF Levels, SymTyped
<1>3. Raised' = {} /\ ~Flown'  BY <1>1, <1>2 DEF Raised, Flown
<1>4. Raised = symSeen \ {"INTF"} /\ (Flown <=> "INTF" \in symSeen)  BY <1>2 DEF Raised, Flown
<1>5. Levels'  BY <1>1 DEF Levels
<1>6. CASE "INTF" \in symSeen
  <2>1. symSeen = {"INTF"}  BY <1>4, <1>6 DEF FlyOnly
  <2>2. symCpu' = "idle" /\ UNCHANGED <<symDsp, symExecuting, symSem, symWaitReselect>>
    BY <2>1 DEF Sym895!Act, Sym895!Ends
  <2>3. SymTyped'  BY <1>1, <2>2 DEF SymTyped
  <2> QED
    BY <1>1, <1>2, <1>3, <1>4, <1>5, <1>6, <2>2, <2>3 DEF RunsFree, FlyOnly, Stopped, Waiting, SignalHeld, ComesBack
<1>7. CASE "INTF" \notin symSeen
  <2>1. Raised # {} /\ ~symExecuting /\ ~symWaitReselect
    BY <1>1, <1>4, <1>7 DEF RunsFree, Waiting, SymTyped
  <2>2. CASE symCpu' = "start" /\ UNCHANGED <<symDsp, symExecuting, symSem, symWaitReselect>> /\ Sym895!Ends
    <3>1. SymTyped'  BY <1>1, <2>2 DEF SymTyped
    <3>2. ~symSigp  BY <1>4, <1>7, <2>2 DEF SignalHeld, Sym895!Ends, SymTyped
    <3> QED
      BY <1>1, <1>2, <1>3, <1>5, <2>1, <2>2, <3>1, <3>2 DEF RunsFree, FlyOnly, Stopped, Waiting, SignalHeld, ComesBack
  <2>3. CASE symDsp' = 18 /\ symExecuting' = TRUE /\ symSem' = 1 /\ UNCHANGED <<symCpu, symWaitReselect>>
             /\ "MA" \in symSeen
    <3>1. SymTyped'  BY <1>1, <2>3 DEF SymTyped
    <3>2. ~symSigp  BY <1>4, <1>7, <2>3 DEF SignalHeld, SymTyped
    <3> QED
      BY <1>1, <1>2, <1>3, <1>5, <2>1, <2>3, <3>1, <3>2 DEF RunsFree, FlyOnly, Stopped, Waiting, SignalHeld, ComesBack
  <2>4. CASE symExecuting' = TRUE /\ symSem' = 1 /\ UNCHANGED <<symDsp, symCpu, symWaitReselect>>
             /\ symSeen \subseteq {"GEN"}
    <3>1. SymTyped'  BY <1>1, <2>4 DEF SymTyped
    <3> QED
      <4>1. symDsp = 29 => "SIR" \in symSeen  BY <1>1, <1>4 DEF ComesBack
      <4>2. "SIR" \notin symSeen  BY <2>4
      <4> QED
        BY <1>1, <1>2, <1>3, <1>5, <2>1, <2>4, <3>1, <4>1, <4>2 DEF RunsFree, FlyOnly, Stopped, Waiting, SignalHeld, ComesBack
  <2>5. Sym895!Status = 18  BY ScriptStatus
  <2> QED
    BY <1>1, <1>7, <2>1, <2>2, <2>3, <2>4, <2>5 DEF Sym895!Act, Sym895!WriteDsp, Sym895!Run, Sym895!Go,
      Sym895!Awaken
<1> QED  BY <1>6, <1>7

(* The general timer raises GEN whatever SCRIPTS do. *)
LEMMA Expire895 == ASSUME ScriptsInv, Sym895!Expire PROVE ScriptsInv'
<1> USE DEF ScriptsInv
<1>1. /\ symCpu = "issued" /\ "INTF" \notin symIstat /\ symSeen = {} /\ Sym895!RaiseBit("GEN")
      /\ UNCHANGED <<symBus, symPc, symCarry, symDsp, symWaitReselect, symSigp, symSem, symCpu, symSeen>>
  BY DEF Sym895!Expire, Sym895!CpuOnly, Sym895!scsi, Sym895!driver
<1>2. RaisesTo("GEN")  BY <1>1, RaiseEffect
<1>3. SymTyped'  BY <1>1, <1>2 DEF SymTyped, RaisesTo
<1>4. Levels'  BY <1>2 DEF RaisesTo, Levels
<1>5. ~symExecuting' /\ Raised' # {} /\ ~Flown' /\ ~Flown  BY <1>1, <1>2 DEF RaisesTo, Raised, Flown, SymTyped
<1>6. ~symWaitReselect  BY <1>1, <1>5 DEF Waiting, SignalHeld, ComesBack
<1>7. Raised \subseteq Raised' /\ Raised' \subseteq Raised \cup {"GEN"}
  BY <1>1, <1>2 DEF RaisesTo, Raised, SymTyped
<1>8. RunsFree' /\ FlyOnly' /\ Waiting'  BY <1>1, <1>5, <1>6 DEF RunsFree, FlyOnly, Waiting
<1>9. Stopped' /\ SignalHeld' /\ ComesBack'
  BY <1>1, <1>5, <1>7 DEF Stopped, SignalHeld, ComesBack
<1> QED  BY <1>3, <1>4, <1>8, <1>9

(* The two controllers differ in the block move only. *)
LEMMA ThreadOf810 ==
  ASSUME Sym810!Thread PROVE Sym895!Thread \/ Sym810!BlockMove810
<1>1. Sym810!SelectOp => Sym895!SelectOp
  BY DEF Sym810!SelectOp, Sym895!SelectOp, Sym810!At, Sym895!At, Sym810!HasLock, Sym895!HasLock, Sym810!Instr, Sym895!Instr, Sym810!Selected,
    Sym895!Selected, Sym810!Select, Sym895!Select, Sym810!Cleared, Sym895!Cleared, Sym810!NoCommand,
    Sym895!NoCommand, Sym810!Disk, Sym895!Disk, Sym810!Next1, Sym895!Next1, Sym810!Go, Sym895!Go, Sym810!Quiet,
    Sym895!Quiet, Sym810!Rest, Sym895!Rest, Sym810!interrupts, Sym895!interrupts, Sym810!driver, Sym895!driver,
    Sym810!buffers, Sym895!buffers
<1>2. Sym810!Timeout => Sym895!Timeout
  BY Raise810 DEF Sym810!Timeout, Sym895!Timeout, Sym810!TimedOut, Sym895!TimedOut, Sym810!HasLock, Sym895!HasLock, Sym810!Instr, Sym895!Instr,
    Sym810!Next1, Sym895!Next1, Sym810!Go, Sym895!Go, Sym810!Rest, Sym895!Rest, Sym810!driver, Sym895!driver,
    Sym810!buffers, Sym895!buffers
<1>3. ~Sym810!BlockMove895  BY DEF Sym810!BlockMove895
<1>4. Sym810!WaitDisconnect => Sym895!WaitDisconnect
  BY DEF Sym810!WaitDisconnect, Sym895!WaitDisconnect, Sym810!At, Sym895!At, Sym810!HasLock, Sym895!HasLock, Sym810!Instr, Sym895!Instr,
    Sym810!Next1, Sym895!Next1, Sym810!Go, Sym895!Go, Sym810!Quiet, Sym895!Quiet, Sym810!Rest, Sym895!Rest,
    Sym810!interrupts, Sym895!interrupts, Sym810!driver, Sym895!driver, Sym810!buffers, Sym895!buffers,
    Sym810!scsi, Sym895!scsi
<1>5. Sym810!WaitReselect => Sym895!WaitReselect
  BY DEF Sym810!WaitReselect, Sym895!WaitReselect, Sym810!Signalled, Sym895!Signalled, Sym810!At, Sym895!At, Sym810!HasLock, Sym895!HasLock,
    Sym810!Instr, Sym895!Instr, Sym810!Next1, Sym895!Next1, Sym810!Go, Sym895!Go, Sym810!Rest, Sym895!Rest,
    Sym810!driver, Sym895!driver, Sym810!buffers, Sym895!buffers, Sym810!scsi, Sym895!scsi
<1>6. Sym810!SetCarry => Sym895!SetCarry
  BY DEF Sym810!SetCarry, Sym895!SetCarry, Sym810!At, Sym895!At, Sym810!HasLock, Sym895!HasLock, Sym810!Instr, Sym895!Instr, Sym810!Next1,
    Sym895!Next1, Sym810!Go, Sym895!Go, Sym810!Quiet, Sym895!Quiet, Sym810!Rest, Sym895!Rest, Sym810!interrupts,
    Sym895!interrupts, Sym810!driver, Sym895!driver, Sym810!buffers, Sym895!buffers, Sym810!scsi, Sym895!scsi
<1>7. Sym810!Register => Sym895!Register
  BY DEF Sym810!Register, Sym895!Register, Sym810!At, Sym895!At, Sym810!HasLock, Sym895!HasLock, Sym810!Instr, Sym895!Instr, Sym810!Next1,
    Sym895!Next1, Sym810!Go, Sym895!Go, Sym810!Quiet, Sym895!Quiet, Sym810!Rest, Sym895!Rest, Sym810!interrupts,
    Sym895!interrupts, Sym810!driver, Sym895!driver, Sym810!buffers, Sym895!buffers, Sym810!scsi, Sym895!scsi
<1>8. Sym810!Jump => Sym895!Jump
  <2>1. (Sym810!Rest => Sym895!Rest) /\ (Sym810!At("jump") => Sym895!At("jump"))
        /\ (Sym810!Quiet => Sym895!Quiet) /\ Sym810!Instr = Sym895!Instr
        /\ (Sym810!TimedOut <=> Sym895!TimedOut)
    BY DEF Sym810!At, Sym895!At, Sym810!HasLock, Sym895!HasLock, Sym810!Instr, Sym895!Instr, Sym810!TimedOut,
      Sym895!TimedOut, Sym810!Quiet, Sym895!Quiet, Sym810!Rest, Sym895!Rest, Sym810!interrupts,
      Sym895!interrupts, Sym810!driver, Sym895!driver
  <2>2. Sym810!Holds = Sym895!Holds  BY DEF Sym810!Holds, Sym895!Holds, Sym810!Instr, Sym895!Instr
  <2> QED
    BY <2>1, <2>2 DEF Sym810!Jump, Sym895!Jump, Sym810!Go, Sym895!Go, Sym810!buffers, Sym895!buffers, Sym810!scsi,
      Sym895!scsi
<1>9. Sym810!Interrupt => Sym895!Interrupt
  BY Raise810 DEF Sym810!Interrupt, Sym895!Interrupt, Sym810!At, Sym895!At, Sym810!HasLock, Sym895!HasLock, Sym810!Instr, Sym895!Instr,
    Sym810!Next1, Sym895!Next1, Sym810!Go, Sym895!Go, Sym810!Rest, Sym895!Rest, Sym810!driver, Sym895!driver,
    Sym810!buffers, Sym895!buffers, Sym810!scsi, Sym895!scsi
<1>10. (Sym810!ThreadWait => Sym895!ThreadWait) /\ (Sym810!ThreadTest => Sym895!ThreadTest)
  BY DEF Sym810!ThreadWait, Sym895!ThreadWait, Sym810!ThreadTest, Sym895!ThreadTest, Sym810!registers,
    Sym895!registers, Sym810!interrupts, Sym895!interrupts, Sym810!driver, Sym895!driver, Sym810!buffers,
    Sym895!buffers, Sym810!scsi, Sym895!scsi
<1> QED
  BY <1>1, <1>2, <1>3, <1>4, <1>5, <1>6, <1>7, <1>8, <1>9, <1>10 DEF Sym810!Thread, Sym895!Thread

(* The two controllers evaluate interrupts alike. *)
LEMMA Eval810 ==
  ASSUME NEW d, NEW s, NEW i, NEW k, NEW run, Sym810!Eval(d, s, i, k, run) PROVE Sym895!Eval(d, s, i, k, run)
  BY DEF Sym810!Eval, Sym810!Empties, Sym810!Drives, Sym810!DstatFatal, Sym810!SistFatal, Sym810!Halting,
    Sym895!Eval, Sym895!Empties, Sym895!Drives, Sym895!DstatFatal, Sym895!SistFatal, Sym895!Halting

(* What the CPU and the timer do with the 810 they do with the 895. *)
LEMMA CpuOf810 ==
  /\ Sym810!Cpu => Sym895!Cpu
  /\ Sym810!Issue => Sym895!Issue
  /\ Sym810!Expire => Sym895!Expire
<1>1. Sym810!CpuOnly => Sym895!CpuOnly
  BY DEF Sym810!CpuOnly, Sym895!CpuOnly, Sym810!scsi, Sym895!scsi
<1>2. ASSUME NEW then PROVE Sym810!Run(then) <=> Sym895!Run(then)
  BY DEF Sym810!Run, Sym895!Run, Sym810!Awaken, Sym895!Awaken
<1>3. ASSUME NEW a, NEW then, Sym810!WriteDsp(a, then) PROVE Sym895!WriteDsp(a, then)
  BY <1>2, <1>3 DEF Sym810!WriteDsp, Sym895!WriteDsp, Sym810!Go, Sym895!Go
<1>4. Sym810!Start => Sym895!Start
  BY <1>1, <1>3 DEF Sym810!Start, Sym895!Start, Sym810!buffers, Sym895!buffers
<1>5. Sym810!Awaken("issued") <=> Sym895!Awaken("issued")  BY DEF Sym810!Awaken, Sym895!Awaken
<1>6. ASSUME NEW j, Sym810!Signal(j) PROVE Sym895!Signal(j)
  BY <1>1, <1>5, <1>6, Eval810 DEF Sym810!Signal, Sym895!Signal
<1>7. (Sym810!ClearFly => Sym895!ClearFly) /\ (Sym810!ReadSist => Sym895!ReadSist)
      /\ (Sym810!ReadDstat => Sym895!ReadDstat)
  BY <1>1, Eval810 DEF Sym810!ClearFly, Sym895!ClearFly, Sym810!ReadSist, Sym895!ReadSist, Sym810!ReadDstat,
    Sym895!ReadDstat, Sym810!buffers, Sym895!buffers
<1>8. Sym810!Status = Sym895!Status  BY DEF Sym810!Status, Sym895!Status
<1>9. Sym810!Ends <=> Sym895!Ends  BY DEF Sym810!Ends, Sym895!Ends
<1>10. Sym810!Act => Sym895!Act
  BY <1>1, <1>2, <1>3, <1>5, <1>8, <1>9 DEF Sym810!Act, Sym895!Act, Sym810!buffers, Sym895!buffers, Sym810!Word,
    Sym895!Word
<1>11. Sym810!Expire => Sym895!Expire
  BY <1>1, Raise810 DEF Sym810!Expire, Sym895!Expire, Sym810!driver, Sym895!driver, Sym810!buffers, Sym895!buffers
<1> QED
  BY <1>4, <1>6, <1>7, <1>10, <1>11 DEF Sym810!Cpu, Sym895!Cpu, Sym810!Issue, Sym895!Issue

(* Each step of the 895 keeps the invariant. *)
LEMMA Scripts895 == ASSUME ScriptsInv, Settled', Sym895!Next PROVE ScriptsInv'
<1> USE DEF Settled
<1>1. ~Sym895!BlockMove810  BY DEF Sym895!BlockMove810
<1>2. CASE Sym895!Thread
  BY <1>1, <1>2, Select895, Timeout895, Move895, Disconnect895, Reselect895, Carry895, Register895, Jump895,
    Interrupt895, ThreadWait895 DEF Sym895!Thread
<1>3. CASE Sym895!Cpu  BY <1>3, Start895, Take895, Act895 DEF Sym895!Cpu
<1>4. CASE Sym895!Issue  BY <1>4, Signal895 DEF Sym895!Issue
<1>5. CASE Sym895!Expire  BY <1>5, Expire895
<1> QED  BY <1>2, <1>3, <1>4, <1>5 DEF Sym895!Next

(* Each step of the 810 keeps the invariant. *)
LEMMA Scripts810 == ASSUME ScriptsInv, Settled', Sym810!Next PROVE ScriptsInv'
<1>1. CASE Sym810!BlockMove810  BY <1>1, Move810 DEF Settled
<1>2. CASE Sym810!Thread /\ ~Sym810!BlockMove810  BY <1>2, ThreadOf810, Scripts895 DEF Sym895!Next
<1>3. CASE Sym810!Cpu \/ Sym810!Issue \/ Sym810!Expire  BY <1>3, CpuOf810, Scripts895 DEF Sym895!Next
<1> QED  BY <1>1, <1>2, <1>3 DEF Sym810!Next

(* The invariant holds of a controller out of reset. *)
LEMMA ScriptsStart == ASSUME StorageInit PROVE ScriptsInv
<1>1. SymTyped  BY SMTT(60) DEF StorageInit, Sym895!Init, SymTyped, Sym895!Phases
<1>2. Raised = {} /\ ~Flown  BY DEF StorageInit, Sym895!Init, Raised, Flown
<1>3. symDsp = 1 /\ symCpu = "start" /\ ~symExecuting /\ ~symWaitReselect /\ ~symSigp /\ symIstat = {} /\ symSeen = {}
      /\ symSist = {} /\ symDstat = {"DFE"} /\ ~symIrq
  BY DEF StorageInit, Sym895!Init
<1> QED
  BY <1>1, <1>2, <1>3 DEF ScriptsInv, Levels, RunsFree, FlyOnly, Stopped, Waiting, SignalHeld, ComesBack

(* The steps of the other controllers keep the invariant. *)
LEMMA ScriptsUnchanged == ASSUME ScriptsInv, UNCHANGED symVars PROVE ScriptsInv'
<1>1. UNCHANGED <<symBus, symCarry, symDsp, symDstat, symSist, symIstat, symIrq, symExecuting,
                  symWaitReselect, symSigp, symSem, symPc, symCpu, symSeen>>
  BY DEF symVars
<1>2. UNCHANGED <<Raised, Flown>>  BY <1>1 DEF Raised, Flown
<1> QED
  BY <1>1, <1>2 DEF ScriptsInv, SymTyped, Levels, RunsFree, FlyOnly, Stopped, Waiting, SignalHeld, ComesBack

(* A thread of the CPU that has ended stays so, and so does a halt overrun. *)
LEMMA SettledBefore ==
  ASSUME Settled', Sym895!Next \/ Sym810!BlockMove810 PROVE Settled
<1>1. ASSUME Sym895!Rest PROVE Settled  BY <1>1 DEF Sym895!Rest, Sym895!driver, Settled
<1>2. CASE Sym895!Thread
  <2>1. CASE Sym895!ThreadWait \/ Sym895!ThreadTest
    BY <2>1 DEF Sym895!ThreadWait, Sym895!ThreadTest, Sym895!driver, Settled
  <2> QED
    BY <1>1, <1>2, <2>1 DEF Sym895!Thread, Sym895!SelectOp, Sym895!Timeout, Sym895!BlockMove895, Sym895!BlockMove810,
      Sym895!WaitDisconnect, Sym895!WaitReselect, Sym895!SetCarry, Sym895!Register, Sym895!Jump, Sym895!Interrupt
<1>3. CASE Sym895!Cpu \/ Sym895!Issue \/ Sym895!Expire
  <2>1. symCpu \in {"start", "idle", "issued"}
    BY <1>3 DEF Sym895!Cpu, Sym895!Issue, Sym895!Start, Sym895!Signal, Sym895!ClearFly, Sym895!ReadSist,
      Sym895!ReadDstat, Sym895!Act, Sym895!Expire
  <2>2. Sym895!CpuOnly
    BY <1>3 DEF Sym895!Cpu, Sym895!Issue, Sym895!Start, Sym895!Signal, Sym895!ClearFly, Sym895!ReadSist,
      Sym895!ReadDstat, Sym895!Act, Sym895!Expire
  <2> QED  BY <2>1, <2>2 DEF Sym895!CpuOnly, Settled
<1>4. CASE Sym810!BlockMove810
  BY <1>1, <1>4 DEF Sym810!BlockMove810, Sym810!Rest, Sym810!driver, Sym895!Rest, Sym895!driver
<1> QED  BY <1>2, <1>3, <1>4 DEF Sym895!Next

(* SCRIPTS and the driver hand the controller to each other in every part of *)
(* the system: whatever the order of execute(), eval_interrupts(), *)
(* write_b_istat(), the reads that take interrupts and the timer, the line *)
(* says what the registers hold, SCRIPTS run only when all that stopped them *)
(* has been acted on, and a SIGP is found on the way to WAIT RESELECT - until *)
(* a halt is overrun, or set() ends the thread of the CPU. *)
THEOREM ScriptsInductive == StorageSpec => [](Settled => ScriptsInv)
<1>1. StorageInit => ScriptsInv  BY ScriptsStart
<1>2. (Settled => ScriptsInv) /\ [StorageNext]_<<part, ideVars, symVars>> => (Settled => ScriptsInv)'
  <2> SUFFICES ASSUME Settled => ScriptsInv, [StorageNext]_<<part, ideVars, symVars>>, Settled'
               PROVE  ScriptsInv'
    OBVIOUS
  <2>1. UNCHANGED symVars \/ Sym895!Next \/ Sym810!Next  BY DEF StorageNext, Controllers
  <2>2. CASE UNCHANGED symVars  BY <2>2, ScriptsUnchanged DEF Settled, symVars
  <2>3. CASE Sym895!Next  BY <2>3, SettledBefore, Scripts895
  <2>4. CASE Sym810!Next
    <3>1. Sym895!Next \/ Sym810!BlockMove810
      BY <2>4, ThreadOf810, CpuOf810 DEF Sym810!Next, Sym895!Next
    <3> QED  BY <2>4, <3>1, SettledBefore, Scripts810
  <2> QED  BY <2>1, <2>2, <2>3, <2>4
<1> QED  BY <1>1, <1>2, PTL DEF StorageSpec

(* What holds always: the registers hold what they can, and SCRIPTS that are *)
(* to run have a thread that will. *)
Causes == {"SIR", "IID", "ABRT", "SSI", "MA", "STO", "RST", "GEN"}
Sound == Sym895!TypeOK /\ symStacked \subseteq Causes /\ Sym895!StartsAreTaken

(* eval_interrupts() starts nothing, and sets bits that there are. *)
LEMMA EvalSound ==
  ASSUME NEW d \in SUBSET (Sym895!DstatFatal \cup {"DFE"}), NEW s \in SUBSET (Sym895!SistFatal \cup {"GEN"}),
         NEW i, NEW k \in SUBSET Causes, NEW run, Sym895!Eval(d, s, i, k, run)
  PROVE  /\ symDstat' \subseteq Sym895!DstatFatal \cup {"DFE"} /\ symSist' \subseteq Sym895!SistFatal \cup {"GEN"}
         /\ symIstat' \subseteq {"INTF", "SIP", "DIP"} /\ symStacked' \subseteq Causes
         /\ symExecuting' => run
<1>1. k \ Sym895!DstatFatal \subseteq Sym895!SistFatal \cup {"GEN"}
  BY DEF Causes, Sym895!DstatFatal, Sym895!SistFatal
<1> QED  BY <1>1 DEF Sym895!Eval

(* Nor does set_interrupt(). *)
LEMMA RaiseSound ==
  ASSUME Sound, NEW bit \in {"INTF", "SIR", "IID", "MA", "STO", "GEN"}, Sym895!RaiseBit(bit)
  PROVE  /\ symDstat' \subseteq Sym895!DstatFatal \cup {"DFE"} /\ symSist' \subseteq Sym895!SistFatal \cup {"GEN"}
         /\ symIstat' \subseteq {"INTF", "SIP", "DIP"} /\ symStacked' \subseteq Causes
         /\ symExecuting' => symExecuting
<1> DEFINE D == symDstat \cup {bit}
           S == symSist \cup {bit}
           K == symStacked \cup {bit}
<1>1. symDstat \in SUBSET (Sym895!DstatFatal \cup {"DFE"}) /\ symSist \in SUBSET (Sym895!SistFatal \cup {"GEN"})
      /\ symStacked \in SUBSET Causes
  BY DEF Sound, Sym895!TypeOK
<1>2. bit # "INTF" => K \in SUBSET Causes  BY <1>1 DEF Causes
<1>3. bit # "INTF" /\ bit \in Sym895!DstatFatal => D \in SUBSET (Sym895!DstatFatal \cup {"DFE"})  BY <1>1
<1>4. bit # "INTF" /\ bit \notin Sym895!DstatFatal => S \in SUBSET (Sym895!SistFatal \cup {"GEN"})
  BY <1>1 DEF Sym895!DstatFatal, Sym895!SistFatal
<1>5. CASE bit = "INTF"
  <2>1. Sym895!Eval(symDstat, symSist, symIstat \cup {bit}, symStacked, symExecuting)
    BY <1>5 DEF Sym895!RaiseBit, Sym895!RaiseWhile
  <2> QED  BY <1>1, <2>1, EvalSound
<1>6. CASE bit # "INTF" /\ symIstat \cap {"SIP", "DIP"} # {}
  <2>1. Sym895!Eval(symDstat, symSist, symIstat, K, symExecuting)
    BY <1>6 DEF Sym895!RaiseBit, Sym895!RaiseWhile
  <2> HIDE DEF K
  <2> QED  BY <1>1, <1>2, <1>6, <2>1, EvalSound
<1>7. CASE bit # "INTF" /\ symIstat \cap {"SIP", "DIP"} = {} /\ bit \in Sym895!DstatFatal
  <2>1. Sym895!Eval(D, symSist, symIstat, symStacked, symExecuting)
    BY <1>7 DEF Sym895!RaiseBit, Sym895!RaiseWhile
  <2>2. D \in SUBSET (Sym895!DstatFatal \cup {"DFE"})  BY <1>3, <1>7
  <2> HIDE DEF D
  <2> QED  BY <1>1, <2>1, <2>2, EvalSound
<1>8. CASE bit # "INTF" /\ symIstat \cap {"SIP", "DIP"} = {} /\ bit \notin Sym895!DstatFatal
  <2>1. Sym895!Eval(symDstat, S, symIstat, symStacked, symExecuting)
    BY <1>8 DEF Sym895!RaiseBit, Sym895!RaiseWhile
  <2> HIDE DEF S
  <2> QED  BY <1>1, <1>4, <1>8, <2>1, EvalSound
<1> QED  BY <1>5, <1>6, <1>7, <1>8

(* An instruction, whatever it raises, when it leads into the program and the *)
(* bus stays in a phase. *)
LEMMA SoundStep ==
  ASSUME Sound, Sym895!Rest, symDsp' \in 1 .. 29, symBus' \in Sym895!Phases,
         \/ Sym895!Quiet
         \/ UNCHANGED <<symDstat, symSist, symIstat, symStacked>>
         \/ \E bit \in {"INTF", "SIR", "IID", "MA", "STO"} : Sym895!RaiseBit(bit)
  PROVE  Sound'
<1>1. symPc' = "run" /\ symSem' = symSem  BY DEF Sym895!Rest
<1>2. /\ symDstat' \subseteq Sym895!DstatFatal \cup {"DFE"} /\ symSist' \subseteq Sym895!SistFatal \cup {"GEN"}
      /\ symIstat' \subseteq {"INTF", "SIP", "DIP"} /\ symStacked' \subseteq Causes
  BY RaiseSound DEF Sound, Sym895!TypeOK, Sym895!Quiet, Sym895!interrupts
<1> QED  BY <1>1, <1>2, ScriptLength DEF Sound, Sym895!TypeOK, Sym895!StartsAreTaken

(* The instructions of either chip. *)
LEMMA SoundInstructions ==
  ASSUME Sound,
         \/ Sym895!SelectOp \/ Sym895!Timeout \/ Sym895!BlockMove895 \/ Sym810!BlockMove810
         \/ Sym895!WaitDisconnect \/ Sym895!WaitReselect \/ Sym895!SetCarry \/ Sym895!Register
         \/ Sym895!Jump \/ Sym895!Interrupt
  PROVE  Sound'
<1>0. Instruction(symDsp) /\ symDsp \in 1 .. 29 /\ symBus \in Sym895!Phases
  BY ScriptFacts, ScriptLength DEF Sound, Sym895!TypeOK
<1> USE DEF Sym895!At, Sym895!Instr, Sym895!Next1, Sym895!Go
<1>1. CASE Sym895!SelectOp
  BY <1>0, <1>1, SoundStep DEF Instruction, Sym895!SelectOp, Sym895!Selected, Sym895!Phases
<1>2. CASE Sym895!Timeout
  <2>1. symDsp' \in 1 .. 29  BY <1>0, <1>2 DEF Instruction, Sym895!Timeout
  <2> QED  BY <1>2, <2>1, SoundStep DEF Sym895!Timeout, Sym895!Phases
<1>3. CASE Sym895!BlockMove895
  <2>1. /\ symDsp' \in 1 .. 29 /\ Sym895!Rest
        /\ Sym895!Instr.phase \in {"msgOut", "msgIn", "command", "dataIn", "dataOut", "status"}
    BY <1>0, <1>3 DEF Instruction, Sym895!BlockMove895
  <2>2. symBus' \in Sym895!Phases
    BY <1>0, <1>3, <2>1, MovePhase DEF Sym895!BlockMove895, Sym895!scsi
  <2>3. Sym895!Quiet \/ Sym895!RaiseBit("IID")  BY <1>3, SMTT(60) DEF Sym895!BlockMove895
  <2> QED  BY <2>1, <2>2, <2>3, SoundStep
<1>4. CASE Sym810!BlockMove810
  <2>1. /\ symDsp' \in 1 .. 29 /\ Sym895!Rest
        /\ Sym810!Instr.phase \in {"msgOut", "msgIn", "command", "dataIn", "dataOut", "status"}
    BY <1>0, <1>4 DEF Instruction, Sym810!BlockMove810, Sym810!At, Sym810!Instr, Sym810!Next1, Sym810!Go,
      Sym810!Rest, Sym810!driver, Sym895!Rest, Sym895!driver
  <2>2. symBus' \in Sym895!Phases
    <3>1. ASSUME NEW n, Sym810!MoveUnits(n), symBus = Sym810!Instr.phase PROVE symBus' \in Sym895!Phases
      BY <2>1, <3>1 DEF Sym810!MoveUnits, Sym810!XferDone, Sym810!AfterCommand, Sym895!Phases
    <3> QED  BY <1>0, <1>4, <3>1 DEF Sym810!BlockMove810, Sym810!scsi
  <2>3. Sym810!Quiet \/ Sym810!RaiseBit("IID") \/ Sym810!RaiseBit("MA")  BY <1>4 DEF Sym810!BlockMove810
  <2>4. Sym895!Quiet \/ Sym895!RaiseBit("IID") \/ Sym895!RaiseBit("MA")
    BY <2>3, Raise810 DEF Sym810!Quiet, Sym810!interrupts, Sym895!Quiet, Sym895!interrupts
  <2> QED  BY <2>1, <2>2, <2>4, SoundStep
<1>5. CASE Sym895!WaitDisconnect
  BY <1>0, <1>5, SoundStep DEF Instruction, Sym895!WaitDisconnect, Sym895!scsi
<1>6. CASE Sym895!WaitReselect
  <2>1. symDsp' \in 1 .. 29  BY <1>0, <1>6 DEF Instruction, Sym895!WaitReselect
  <2>2. Sym895!Rest /\ UNCHANGED <<symBus, symDstat, symSist, symIstat, symStacked>>
    BY <1>6 DEF Sym895!WaitReselect, Sym895!scsi
  <2> QED  BY <1>0, <2>1, <2>2, SoundStep
<1>7. CASE Sym895!SetCarry
  BY <1>0, <1>7, SoundStep DEF Instruction, Sym895!SetCarry, Sym895!scsi
<1>8. CASE Sym895!Register
  BY <1>0, <1>8, SoundStep DEF Instruction, Sym895!Register, Sym895!scsi
<1>9. CASE Sym895!Jump
  <2>1. symDsp' = IF Sym895!Holds THEN DriverScript[symDsp].to ELSE symDsp + 1  BY <1>9 DEF Sym895!Jump
  <2>2. DriverScript[symDsp].op = "jump"  BY <1>9 DEF Sym895!Jump
  <2>3. CASE symDsp \notin {25, 27, 29}
    <3>1. {DriverScript[symDsp].to, symDsp + 1} \subseteq 3 .. 28 \ {25, 27}
      BY <1>0, <2>2, <2>3 DEF Instruction
    <3> QED  BY <1>9, <1>0, <2>1, <3>1, SoundStep DEF Sym895!Jump, Sym895!scsi
  <2>4. CASE symDsp = 25
    <3>1. DriverScript[symDsp].to = 27  BY <1>0, <2>4 DEF Instruction, JumpIf
    <3> QED  BY <1>9, <1>0, <2>1, <2>4, <3>1, SoundStep DEF Sym895!Jump, Sym895!scsi
  <2>5. CASE symDsp \in {27, 29}
    <3>1. Sym895!Holds /\ DriverScript[symDsp].to = 1
      BY <1>0, <2>5 DEF Instruction, Always, JumpIf, Sym895!Holds
    <3> QED  BY <1>9, <1>0, <2>1, <3>1, SoundStep DEF Sym895!Jump, Sym895!scsi
  <2> QED  BY <2>3, <2>4, <2>5
<1>10. CASE Sym895!Interrupt
  <2>1. symDsp' \in 1 .. 29  BY <1>0, <1>10 DEF Instruction, Sym895!Interrupt
  <2>2. Sym895!Rest /\ UNCHANGED symBus /\ (Sym895!RaiseBit("INTF") \/ Sym895!RaiseBit("SIR"))
    BY <1>10 DEF Sym895!Interrupt, Sym895!scsi
  <2> QED  BY <1>0, <2>1, <2>2, SoundStep
<1> QED  BY <1>1, <1>2, <1>3, <1>4, <1>5, <1>6, <1>7, <1>8, <1>9, <1>10

(* The CPU, its driver and the timer. *)
LEMMA SoundCpu ==
  ASSUME Sound, Sym895!Cpu \/ Sym895!Issue \/ Sym895!Expire PROVE Sound'
<1>0. /\ symDsp \in 1 .. 29 /\ symBus \in Sym895!Phases /\ symSem \in {0, 1}
      /\ symDstat \in SUBSET (Sym895!DstatFatal \cup {"DFE"}) /\ symSist \in SUBSET (Sym895!SistFatal \cup {"GEN"})
      /\ symStacked \in SUBSET Causes /\ symIstat \subseteq {"INTF", "SIP", "DIP"}
  BY ScriptLength DEF Sound, Sym895!TypeOK
<1>1. UNCHANGED <<symBus, symPc>>
  BY DEF Sym895!Cpu, Sym895!Issue, Sym895!Start, Sym895!ClearFly, Sym895!ReadSist, Sym895!ReadDstat, Sym895!Act,
    Sym895!Signal, Sym895!Expire, Sym895!CpuOnly, Sym895!scsi
<1>2. ASSUME NEW then, Sym895!Awaken(then) PROVE symSem' = 1
  BY <1>0, <1>2 DEF Sym895!Awaken
<1>3. ASSUME symDsp' \in 1 .. 29,
             symSem' = 1 \/ (symSem' = symSem /\ (symExecuting' => symExecuting)),
             symDstat' \subseteq Sym895!DstatFatal \cup {"DFE"}, symSist' \subseteq Sym895!SistFatal \cup {"GEN"},
             symIstat' \subseteq {"INTF", "SIP", "DIP"}, symStacked' \subseteq Causes
      PROVE  Sound'
  BY <1>0, <1>1, <1>3, ScriptLength DEF Sound, Sym895!TypeOK, Sym895!StartsAreTaken
<1>4. CASE Sym895!Start
  BY <1>0, <1>2, <1>3, <1>4 DEF Sym895!Start, Sym895!WriteDsp, Sym895!Run, Sym895!Go
<1>5. CASE Sym895!ClearFly \/ Sym895!ReadSist \/ Sym895!ReadDstat
  <2>1. UNCHANGED <<symDsp, symSem>>
    BY <1>5 DEF Sym895!ClearFly, Sym895!ReadSist, Sym895!ReadDstat
  <2>2. {} \in SUBSET (Sym895!SistFatal \cup {"GEN"}) /\ symDstat \cap {"DFE"} \in SUBSET (Sym895!DstatFatal \cup {"DFE"})
    OBVIOUS
  <2>3. CASE Sym895!ClearFly
    <3>1. PICK i : Sym895!Eval(symDstat, symSist, i, symStacked, symExecuting)
      BY <2>3 DEF Sym895!ClearFly
    <3>2. /\ symDstat' \subseteq Sym895!DstatFatal \cup {"DFE"} /\ symSist' \subseteq Sym895!SistFatal \cup {"GEN"}
          /\ symIstat' \subseteq {"INTF", "SIP", "DIP"} /\ symStacked' \subseteq Causes
          /\ symExecuting' => symExecuting
      <4>1. /\ symDstat \in SUBSET (Sym895!DstatFatal \cup {"DFE"})
            /\ symSist \in SUBSET (Sym895!SistFatal \cup {"GEN"}) /\ symStacked \in SUBSET Causes
        BY <1>0
      <4> QED  BY <3>1, <4>1, EvalSound
    <3> QED  BY <1>0, <1>3, <2>1, <3>2
  <2>4. CASE Sym895!ReadSist
    BY <1>0, <1>3, <2>1, <2>2, <2>4, EvalSound DEF Sym895!ReadSist
  <2>5. CASE Sym895!ReadDstat
    BY <1>0, <1>3, <2>1, <2>2, <2>5, EvalSound DEF Sym895!ReadDstat
  <2> QED  BY <1>5, <2>3, <2>4, <2>5
<1>6. CASE Sym895!Act
  <2>1. UNCHANGED <<symDstat, symSist, symIstat, symStacked>>  BY <1>6 DEF Sym895!Act
  <2>2. symDsp' \in 1 .. 29
    BY <1>0, <1>6, ScriptStatus DEF Sym895!Act, Sym895!WriteDsp, Sym895!Go
  <2>3. symSem' = 1 \/ (symSem' = symSem /\ (symExecuting' => symExecuting))
    BY <1>2, <1>6 DEF Sym895!Act, Sym895!WriteDsp, Sym895!Run
  <2> QED  BY <1>0, <1>3, <2>1, <2>2, <2>3
<1>7. CASE Sym895!Issue
  <2> PICK j \in DriverJobs : Sym895!Signal(j)  BY <1>7 DEF Sym895!Issue
  <2>1. CASE symWaitReselect
    <3>1. symDsp' = 2 /\ symSem' = 1  BY <1>2, <2>1 DEF Sym895!Signal
    <3>2. CASE symSem = 0
      <4>1. Sym895!Eval(symDstat, symSist, symIstat, symStacked, TRUE)  BY <2>1, <3>2 DEF Sym895!Signal
      <4>2. /\ symDstat' \subseteq Sym895!DstatFatal \cup {"DFE"} /\ symSist' \subseteq Sym895!SistFatal \cup {"GEN"}
            /\ symIstat' \subseteq {"INTF", "SIP", "DIP"} /\ symStacked' \subseteq Causes
        BY <1>0, <4>1, EvalSound
      <4> QED  BY <1>3, <3>1, <4>2
    <3>3. CASE symSem # 0  BY <1>0, <1>3, <2>1, <3>1, <3>3 DEF Sym895!Signal
    <3> QED  BY <3>2, <3>3
  <2>2. CASE ~symWaitReselect
    <3>1. UNCHANGED <<symDsp, symSem>> /\ Sym895!Eval(symDstat, symSist, symIstat, symStacked, symExecuting)
      BY <2>2 DEF Sym895!Signal
    <3>2. /\ symDstat' \subseteq Sym895!DstatFatal \cup {"DFE"} /\ symSist' \subseteq Sym895!SistFatal \cup {"GEN"}
          /\ symIstat' \subseteq {"INTF", "SIP", "DIP"} /\ symStacked' \subseteq Causes
          /\ symExecuting' => symExecuting
      BY <1>0, <3>1, EvalSound
    <3> QED  BY <1>0, <1>3, <3>1, <3>2
  <2> QED  BY <2>1, <2>2
<1>8. CASE Sym895!Expire
  <2>1. UNCHANGED <<symDsp, symSem>> /\ Sym895!RaiseBit("GEN")  BY <1>8 DEF Sym895!Expire
  <2> QED  BY <1>0, <1>3, <2>1, RaiseSound
<1> QED  BY <1>4, <1>5, <1>6, <1>7, <1>8 DEF Sym895!Cpu

(* The registers hold what they can, whatever the driver and the timer do, *)
(* and a start of SCRIPTS is not lost, whenever it comes (run(), *)
(* post_dsp_write(), write_b_istat(), write_b_dcntl()). *)
THEOREM ScriptsSound == StorageSpec => []Sound
<1>1. StorageInit => Sound
  <2> SUFFICES ASSUME StorageInit PROVE Sound  OBVIOUS
  <2>1. symBus = "free" /\ symDsp = 1 /\ symDstat = {"DFE"} /\ symSist = {} /\ symIstat = {} /\ symStacked = {}
        /\ symSem = 0 /\ symExecuting = FALSE
    BY DEF StorageInit, Sym895!Init
  <2> QED  BY <2>1, ScriptLength DEF Sound, Sym895!TypeOK, Sym895!Phases, Sym895!StartsAreTaken
<1>2. Sound /\ [StorageNext]_<<part, ideVars, symVars>> => Sound'
  <2> SUFFICES ASSUME Sound, [StorageNext]_<<part, ideVars, symVars>> PROVE Sound'  OBVIOUS
  <2>1. UNCHANGED symVars \/ Sym895!Next \/ Sym810!Next  BY DEF StorageNext, Controllers
  <2>2. CASE UNCHANGED symVars
    BY <2>2 DEF symVars, Sound, Sym895!TypeOK, Sym895!StartsAreTaken
  <2>3. CASE Sym895!Next \/ Sym810!BlockMove810
    <3>1. ~Sym895!BlockMove810  BY DEF Sym895!BlockMove810
    <3>2. CASE Sym895!ThreadWait \/ Sym895!ThreadTest
      <4>1. /\ UNCHANGED <<symBus, symDsp, symDstat, symSist, symIstat, symStacked, symExecuting>>
            /\ symSem' \in {0, 1} /\ (symExecuting => symPc' # "wait")
        BY <3>2 DEF Sym895!ThreadWait, Sym895!ThreadTest, Sym895!interrupts, Sym895!scsi, Sym895!registers, Sound,
          Sym895!TypeOK
      <4> QED  BY <4>1 DEF Sound, Sym895!TypeOK, Sym895!StartsAreTaken
    <3> QED  BY <2>3, <3>1, <3>2, SoundInstructions, SoundCpu DEF Sym895!Next, Sym895!Thread
  <2>4. CASE Sym810!Next /\ ~Sym810!BlockMove810
    BY <2>3, <2>4, ThreadOf810, CpuOf810 DEF Sym810!Next, Sym895!Next
  <2> QED  BY <2>1, <2>2, <2>3, <2>4
<1> QED  BY <1>1, <1>2, PTL DEF StorageSpec

(* When SCRIPTS do not run in the middle of a command the driver has an *)
(* interrupt to take or has one in hand, until a halt is overrun; no start is *)
(* lost, and SCRIPTS stay inside the program (execute(), set_interrupt()). *)
THEOREM ScriptsHandOver ==
  StorageSpec => [](Sym895!TypeOK /\ Sym895!StartsAreTaken /\ Sym895!StopsAreReported)
<1>1. (Settled => ScriptsInv) => Sym895!StopsAreReported
  <2> SUFFICES ASSUME Settled => ScriptsInv PROVE Sym895!StopsAreReported  OBVIOUS
  <2>1. symSeen = {} => Raised = symSist \cup (symDstat \ {"DFE"})  BY DEF Raised
  <2>2. ScriptsInv /\ symSist \cup (symDstat \ {"DFE"}) # {} => symIrq  BY DEF ScriptsInv, Levels, SymTyped
  <2> QED  BY <2>1, <2>2 DEF ScriptsInv, Stopped, Settled, Sym895!StopsAreReported
<1>2. Sound => Sym895!TypeOK /\ Sym895!StartsAreTaken  BY DEF Sound
<1> QED  BY <1>1, <1>2, ScriptsInductive, ScriptsSound, PTL

(* Both disk controllers keep their registers and semaphores, and hand what *)
(* they do over to their drivers: no semaphore of a channel is set twice and *)
(* no start of SCRIPTS is lost, however soon the driver goes on, and SCRIPTS *)
(* that have stopped in a command have raised an interrupt for it, until a *)
(* halt is overrun. *)
THEOREM HandsOver ==
  ASSUME AlignedDriver
  PROVE  StorageSpec => []HandedOver
  BY IdeHandsOver, ScriptsHandOver, PTL DEF HandedOver

-----------------------------------------------------------------------------
(* The command between the driver and the disk. *)
TransferPhases == {"msgOut", "msgIn", "command", "dataIn", "dataOut", "status"}
Operations == {"read", "write", "modeSelect", "sense", "inquiry", "capacity", "illegal", "test"}
Targets ==
  [msgOut : Seq({"identify", "negotiate"}), msgIn : {0, 1},
   cmd : [op : Operations \cup {"none"}, lba : Nat, n : Nat], in : Seq(Int), read : Nat,
   out : Seq(Int), expected : Nat, stat : {0, 2}, statLeft : {0, 1}, sense : Nat]
Jobs53 ==
  [id : {0, 1}, cmd : [op : Operations \cup {"none"}, lba : Nat, n : Nat], segs : Seq(Nat),
   messages : Seq({"identify", "negotiate"}), no : Nat]
DataTyped ==
  /\ symTarget \in Targets /\ symJob \in Jobs53
  /\ symMedium \in [0 .. 3 -> Int] /\ symWants \in [0 .. 3 -> Int]
  /\ symMemory \in Seq(Int) /\ symMoved \in Nat /\ symResult \in {-1, 0, 2}
  /\ symCpu = "issued" => /\ symJob.cmd.op # "none" /\ Len(symJob.segs) = 2
                          /\ symJob.cmd.op \in {"read", "write"} => symJob.cmd.n > 0

(* The disk has been selected for the command, and has taken it or not. *)
Chosen == symCpu = "issued" /\ symDsp \notin {1, 2, 3, 27}
NotChosen == symCpu = "issued" /\ ~Chosen /\ ~Flown
Taken53 == symTarget.cmd = symJob.cmd
Untouched == symMoved = 0 /\ symMemory = <<>> /\ symResult = -1

(* The phases of the bus. *)
BeforeCommand ==
  /\ NotChosen \/ (Chosen /\ symBus = "arbitration") => Untouched
  /\ Chosen /\ (symBus \in {"msgOut", "command"} \/ (symBus = "msgIn" /\ ~Taken53)) =>
       /\ Untouched /\ symTarget.cmd = Sym895!NoCommand
       /\ symTarget.in = <<>> /\ symTarget.out = <<>> /\ symTarget.read = 0
  /\ Chosen /\ symBus \in {"dataIn", "dataOut", "status"} => Taken53 /\ symResult = -1
  /\ Chosen /\ symBus = "msgIn" => symTarget.msgIn = 1
AtEnds ==
  /\ symBus = "status" => symCpu = "issued" /\ symTarget.statLeft = 1 /\ symTarget.msgIn = 1
  /\ symCpu = "issued" /\ symDsp \in 22 .. 29 \ {27} => symBus = "free"
  /\ Raised \cap {"SIR", "STO", "IID"} # {} \/ Flown \/ NotChosen => symBus # "status"
  /\ "MA" \in Raised => symDsp \in 5 .. 21

(* What has been read is at the front of what the disk gives, and what the *)
(* disk gives are the blocks of the command. *)
Asked53 == [i \in 1 .. symJob.cmd.n |-> symWants[symJob.cmd.lba + i - 1]]
DiskGives ==
  Chosen /\ symBus = "dataIn" =>
    /\ symJob.cmd.op \notin {"write", "modeSelect"}
    /\ symTarget.statLeft = 1 /\ symTarget.msgIn = 1
    /\ symTarget.read = Len(symMemory) /\ symTarget.read < Len(symTarget.in)
    /\ symMemory = SubSeq(symTarget.in, 1, symTarget.read)
    /\ symJob.cmd.op = "read" => symTarget.in = Asked53
MemoryIsAsked ==
  symJob.cmd.op = "read" /\ (symResult = 0 \/ (symBus = "status" /\ symTarget.stat = 0)) =>
    symMemory = Asked53

(* What the disk has been given is at the front of the data of the command; *)
(* it is on the medium when the disk says so. *)
DiskTakes ==
  Chosen /\ symBus = "dataOut" =>
    /\ symJob.cmd.op \in {"write", "modeSelect"} /\ symTarget.in = <<>>
    /\ symMoved = Len(symTarget.out) /\ symMoved < symTarget.expected
    /\ symJob.cmd.op = "write" =>
         /\ symTarget.expected = symJob.cmd.n /\ Sym895!InRange(symJob.cmd) /\ symJob.cmd.n <= 3
         /\ \A i \in 1 .. symMoved : symTarget.out[i] = Sym895!Word(i)
Written53 ==
  /\ symCpu = "issued" /\ symJob.cmd.op = "write"
  /\ symResult = 0 \/ (symBus = "status" /\ symTarget.stat = 0)
MediumIsWanted ==
  symMedium = IF Written53
              THEN [l \in 0 .. 3 |->
                      IF l \in symJob.cmd.lba .. symJob.cmd.lba + symJob.cmd.n - 1
                      THEN Sym895!Word(l - symJob.cmd.lba + 1) ELSE symWants[l]]
              ELSE symWants

DataInv ==
  DataTyped /\ BeforeCommand /\ AtEnds /\ DiskGives /\ MemoryIsAsked /\ DiskTakes /\ MediumIsWanted

(* The disk: do_scsi_error() ends a command with its status ... *)
Ended(u, t, stat) ==
  /\ u \in Targets
  /\ u.cmd = t.cmd /\ u.in = t.in /\ u.out = t.out /\ u.read = t.read /\ u.expected = t.expected
  /\ u.statLeft = 1 /\ u.msgIn = 1 /\ u.stat = stat

(* It says how the command ended, and keeps what it was. *)
LEMMA FinishTyped ==
  ASSUME NEW t \in Targets, NEW e \in Nat
  PROVE  Ended(Sym895!Finish(t, e), t, IF e = 0 THEN 0 ELSE 2)
  BY DEF Sym895!Finish, Sym895!Sense, Targets, Ended

Answered(u, t, s) ==
  /\ u \in Targets
  /\ u.cmd = t.cmd /\ u.in = s /\ u.out = t.out /\ u.read = 0
  /\ u.statLeft = 1 /\ u.msgIn = 1 /\ u.stat = 0

(* A command that returns data ends well. *)
LEMMA AnswerTyped ==
  ASSUME NEW t \in Targets, NEW s \in Seq(Int)
  PROVE  Answered(Sym895!Answer(t, s), t, s)
<1> DEFINE v == [t EXCEPT !.in = s, !.read = 0]
<1>1. v \in Targets /\ v.cmd = t.cmd /\ v.in = s /\ v.out = t.out /\ v.read = 0  BY DEF Targets
<1>2. Sym895!Answer(t, s) = Sym895!Finish(v, 0)  BY DEF Sym895!Answer, Sym895!Sense
<1> HIDE DEF v
<1>3. Ended(Sym895!Finish(v, 0), v, 0)  BY <1>1, FinishTyped
<1> QED  BY <1>1, <1>2, <1>3 DEF Ended, Answered

(* ... and what READ and WRITE make of a command that has just come in. *)
LEMMA ReadDone ==
  ASSUME NEW t \in Targets, t.in = <<>>, t.cmd.n > 0, NEW m \in [0 .. 3 -> Int]
  PROVE  \/ Ended(Sym895!Read(t, m), t, 2)
         \/ Answered(Sym895!Read(t, m), t, [i \in 1 .. t.cmd.n |-> m[t.cmd.lba + i - 1]])
<1> DEFINE lba == t.cmd.lba
           n == t.cmd.n
           s == [i \in 1 .. n |-> m[lba + i - 1]]
<1>0. lba \in Nat /\ n \in Nat  BY DEF Targets
<1>1. CASE ~Sym895!InRange(t.cmd)
  <2>1. Sym895!Read(t, m) = Sym895!Finish(t, 33)  BY <1>1 DEF Sym895!Read, Sym895!Sense
  <2>2. Ended(Sym895!Finish(t, 33), t, 2)  BY FinishTyped
  <2> QED  BY <2>1, <2>2
<1>2. CASE Sym895!InRange(t.cmd) /\ n > 3
  <2>1. Sym895!Read(t, m) = Sym895!Finish(t, 85)  BY <1>2 DEF Sym895!Read, Sym895!Sense
  <2>2. Ended(Sym895!Finish(t, 85), t, 2)  BY FinishTyped
  <2> QED  BY <2>1, <2>2
<1>3. CASE Sym895!InRange(t.cmd) /\ ~(n > 3)
  <2>1. Sym895!Read(t, m) = Sym895!Answer(t, s)  BY <1>3 DEF Sym895!Read
  <2>2. lba + n <= 4  BY <1>3 DEF Sym895!InRange
  <2> HIDE DEF lba, n
  <2>3. s \in Seq(Int)
    <3>1. ASSUME NEW i \in 1 .. n PROVE lba + i - 1 \in 0 .. 3  BY <1>0, <2>2
    <3>2. s \in [1 .. n -> Int]  BY <3>1
    <3> HIDE DEF s
    <3> QED  BY <1>0, <3>2
  <2> HIDE DEF s
  <2>4. Answered(Sym895!Answer(t, s), t, s)  BY <2>3, AnswerTyped
  <2> QED  BY <2>1, <2>4 DEF s, n, lba
<1> QED  BY <1>1, <1>2, <1>3

(* WRITE refuses the command, or asks for its blocks. *)
LEMMA WriteStarts ==
  ASSUME NEW t \in Targets, t.out = <<>>, t.cmd.n > 0, NEW m
  PROVE  /\ Sym895!Write(t, m).medium = m
         /\ \/ ~Sym895!Write(t, m).more /\ Ended(Sym895!Write(t, m).t, t, 2)
            \/ /\ Sym895!Write(t, m).more /\ Sym895!InRange(t.cmd) /\ t.cmd.n <= 3
               /\ Sym895!Write(t, m).t = [t EXCEPT !.expected = t.cmd.n]
<1> DEFINE u == [t EXCEPT !.expected = t.cmd.n]
<1>0. t.cmd.n \in Nat  BY DEF Targets
<1>2. CASE ~Sym895!InRange(t.cmd)
  <2>1. Sym895!Write(t, m) = Sym895!Result(Sym895!Finish(t, 33), m, FALSE)  BY <1>2 DEF Sym895!Write, Sym895!Sense
  <2>2. Ended(Sym895!Finish(t, 33), t, 2)  BY FinishTyped
  <2> QED  BY <2>1, <2>2 DEF Sym895!Result
<1>3. CASE Sym895!InRange(t.cmd) /\ t.cmd.n > 3
  <2>1. Sym895!Write(t, m) = Sym895!Result(Sym895!Finish(t, 85), m, FALSE)  BY <1>3 DEF Sym895!Write, Sym895!Sense
  <2>2. Ended(Sym895!Finish(t, 85), t, 2)  BY FinishTyped
  <2> QED  BY <2>1, <2>2 DEF Sym895!Result
<1>4. CASE Sym895!InRange(t.cmd) /\ ~(t.cmd.n > 3)
  <2>0. ~Sym895!Complete(t, t.cmd.n)
    <3>1. Len(t.out) = 0  OBVIOUS
    <3> QED  BY <1>0, <3>1 DEF Sym895!Complete
  <2>1. Sym895!Write(t, m) = Sym895!Result(u, m, TRUE)
    BY <1>4, <2>0 DEF Sym895!Write
  <2> QED  BY <1>0, <1>4, <2>1 DEF Sym895!Result
<1> QED  BY <1>2, <1>3, <1>4

(* The call of WRITE when the data is in. *)
LEMMA WriteEnds ==
  ASSUME NEW t \in Targets, Sym895!InRange(t.cmd), t.cmd.n <= 3, Len(t.out) = t.cmd.n,
         NEW m \in [0 .. 3 -> Int]
  PROVE  /\ ~Sym895!Write(t, m).more
         /\ Ended(Sym895!Write(t, m).t, [t EXCEPT !.expected = t.cmd.n], 0)
         /\ Sym895!Write(t, m).medium
              = [l \in 0 .. 3 |-> IF l \in t.cmd.lba .. t.cmd.lba + t.cmd.n - 1
                                  THEN t.out[l - t.cmd.lba + 1] ELSE m[l]]
<1> DEFINE u == [t EXCEPT !.expected = t.cmd.n]
           lba == t.cmd.lba
           n == t.cmd.n
           o == t.out
           w == [l \in 0 .. 3 |-> IF l \in lba .. lba + n - 1 /\ l - lba < Len(o) THEN o[l - lba + 1] ELSE m[l]]
           x == [l \in 0 .. 3 |-> IF l \in lba .. lba + n - 1 THEN o[l - lba + 1] ELSE m[l]]
<1>0. n \in Nat /\ lba \in Nat /\ Len(o) = n  BY DEF Targets
<1>1. u \in Targets  BY <1>0 DEF Targets
<1>2. Sym895!Complete(t, n) /\ ~(n > 3)  BY SMTT(60), <1>0 DEF Sym895!Complete
<1>3. Sym895!Write(t, m) = Sym895!Result(Sym895!Finish(u, 0),
        [l \in 0 .. 4 - 1 |-> IF l \in lba .. lba + n - 1 /\ l - lba < Len(o) THEN o[l - lba + 1] ELSE m[l]], FALSE)
  BY <1>2 DEF Sym895!Write, Sym895!Sense
<1>4. w = x
  <2> HIDE DEF lba, n, o
  <2> QED  BY SMTT(60), <1>0
<1>5. Sym895!Write(t, m) = Sym895!Result(Sym895!Finish(u, 0), x, FALSE)
  <2>1. 4 - 1 = 3  OBVIOUS
  <2> QED  BY <1>3, <1>4, <2>1
<1> HIDE DEF u, x
<1>6. Ended(Sym895!Finish(u, 0), u, 0)  BY <1>1, FinishTyped
<1> QED  BY <1>5, <1>6 DEF Sym895!Result, x, u

(* MODE SELECT is called twice too. *)
LEMMA ModeSelectDone ==
  ASSUME NEW t \in Targets, NEW m
  PROVE  /\ Sym895!ModeSelect(t, m).medium = m
         /\ IF t.out = <<>> THEN /\ Sym895!ModeSelect(t, m).more
                                 /\ Sym895!ModeSelect(t, m).t = [t EXCEPT !.expected = 1]
            ELSE /\ ~Sym895!ModeSelect(t, m).more
                 /\ Ended(Sym895!ModeSelect(t, m).t, [t EXCEPT !.expected = 1], 0)
<1> DEFINE u == [t EXCEPT !.expected = 1]
<1>1. u \in Targets /\ t.out \in Seq(Int)  BY DEF Targets
<1>2. Sym895!Complete(t, 1) <=> t.out # <<>>  BY <1>1 DEF Sym895!Complete
<1>3. CASE t.out = <<>>
  BY <1>2, <1>3 DEF Sym895!ModeSelect, Sym895!Result
<1>4. CASE t.out # <<>>
  <2>1. Sym895!ModeSelect(t, m) = Sym895!Result(Sym895!Finish(u, 0), m, FALSE)
    BY <1>2, <1>4 DEF Sym895!ModeSelect, Sym895!Sense
  <2> HIDE DEF u
  <2>2. Ended(Sym895!Finish(u, 0), u, 0)  BY <1>1, FinishTyped
  <2> QED  BY <1>4, <2>1, <2>2 DEF Sym895!Result, u
<1> QED  BY <1>3, <1>4

(* The disk has the command: it gives data, asks for it, or is done. *)
GivesData(u, t, m) ==
  /\ u.in # <<>> /\ u.read = 0 /\ u.statLeft = 1 /\ u.msgIn = 1
  /\ t.cmd.op \notin {"write", "modeSelect"}
  /\ t.cmd.op = "read" => u.in = [i \in 1 .. t.cmd.n |-> m[t.cmd.lba + i - 1]]
AsksForData(u, t) ==
  /\ u.in = <<>> /\ u.out = <<>> /\ u.expected > 0 /\ t.cmd.op \in {"write", "modeSelect"}
  /\ t.cmd.op = "write" => u.expected = t.cmd.n /\ Sym895!InRange(t.cmd) /\ t.cmd.n <= 3
IsDone(u, t) ==
  /\ u.in = <<>> /\ u.statLeft = 1 /\ u.msgIn = 1
  /\ t.cmd.op \in {"read", "write"} => u.stat = 2
CommandTaken(r, t, m) ==
  /\ r.t \in Targets /\ r.t.cmd = t.cmd /\ r.medium = m
  /\ \/ ~r.more /\ GivesData(r.t, t, m)
     \/ r.more /\ AsksForData(r.t, t)
     \/ ~r.more /\ IsDone(r.t, t)

(* A command that has ended without data goes on with its status. *)
LEMMA EndedIsDone ==
  ASSUME NEW t \in Targets, t.in = <<>>, NEW u, NEW e, Ended(u, t, e), NEW m,
         t.cmd.op \in {"read", "write"} => e = 2
  PROVE  CommandTaken(Sym895!Result(u, m, FALSE), t, m)
  BY DEF Ended, CommandTaken, IsDone, Sym895!Result

(* A command that returns data goes on with the data. *)
LEMMA AnsweredGives ==
  ASSUME NEW t \in Targets, NEW s \in Seq(Int), s # <<>>, NEW u, Answered(u, t, s), NEW m,
         t.cmd.op \notin {"write", "modeSelect"},
         t.cmd.op = "read" => s = [i \in 1 .. t.cmd.n |-> m[t.cmd.lba + i - 1]]
  PROVE  CommandTaken(Sym895!Result(u, m, FALSE), t, m)
  BY DEF Answered, CommandTaken, GivesData, Sym895!Result

(* So does each command of do_scsi_command(). *)
LEMMA CommandDone ==
  ASSUME NEW t \in Targets, t.in = <<>>, t.out = <<>>, t.cmd.op \in Operations,
         t.cmd.op \in {"read", "write"} => t.cmd.n > 0, NEW m \in [0 .. 3 -> Int]
  PROVE  CommandTaken(Sym895!DoCommand(t, m), t, m)
<1> DEFINE r == Sym895!DoCommand(t, m)
<1>0. t.cmd.n \in Nat /\ t.sense \in Nat  BY DEF Targets
<1>1. CASE t.cmd.op = "write"
  <2>1. r = Sym895!Write(t, m)  BY <1>1 DEF Sym895!DoCommand
  <2>2. t.cmd.n > 0  BY <1>1
  <2>20. Sym895!Write(t, m).medium = m  BY <2>2, WriteStarts
  <2>21. \/ ~Sym895!Write(t, m).more /\ Ended(Sym895!Write(t, m).t, t, 2)
         \/ /\ Sym895!Write(t, m).more /\ Sym895!InRange(t.cmd) /\ t.cmd.n <= 3
            /\ Sym895!Write(t, m).t = [t EXCEPT !.expected = t.cmd.n]
    BY <2>2, WriteStarts
  <2>3. r.medium = m  BY <2>1, <2>20
  <2>22. \/ ~r.more /\ Ended(r.t, t, 2)
         \/ r.more /\ Sym895!InRange(t.cmd) /\ t.cmd.n <= 3 /\ r.t = [t EXCEPT !.expected = t.cmd.n]
    BY <2>1, <2>21
  <2> HIDE DEF r
  <2>4. ASSUME ~r.more, Ended(r.t, t, 2) PROVE CommandTaken(r, t, m)
    BY <1>1, <2>3, <2>4 DEF Ended, CommandTaken, IsDone
  <2>5. ASSUME r.more, Sym895!InRange(t.cmd), t.cmd.n <= 3, r.t = [t EXCEPT !.expected = t.cmd.n]
        PROVE  CommandTaken(r, t, m)
    <3>1. r.t \in Targets /\ r.t.cmd = t.cmd /\ r.t.in = <<>> /\ r.t.out = <<>> /\ r.t.expected = t.cmd.n
      <4> DEFINE v == [t EXCEPT !.expected = t.cmd.n]
      <4>1. v \in Targets /\ v.cmd = t.cmd /\ v.in = <<>> /\ v.out = <<>> /\ v.expected = t.cmd.n
        BY <1>0 DEF Targets
      <4> QED  BY <2>5, <4>1
    <3> QED  BY <1>0, <1>1, <2>2, <2>3, <2>5, <3>1 DEF CommandTaken, AsksForData
  <2>6. CommandTaken(r, t, m)  BY <2>22, <2>4, <2>5
  <2> QED  BY <2>6 DEF r
<1>2. CASE t.cmd.op = "modeSelect"
  <2>1. r = Sym895!ModeSelect(t, m)  BY <1>2 DEF Sym895!DoCommand
  <2>2. r.medium = m /\ r.more /\ r.t = [t EXCEPT !.expected = 1]  BY <2>1, ModeSelectDone
  <2> HIDE DEF r
  <2>3. r.t \in Targets /\ r.t.cmd = t.cmd /\ r.t.in = <<>> /\ r.t.out = <<>> /\ r.t.expected = 1
    <3> DEFINE v == [t EXCEPT !.expected = 1]
    <3>1. v \in Targets /\ v.cmd = t.cmd /\ v.in = <<>> /\ v.out = <<>> /\ v.expected = 1  BY DEF Targets
    <3> QED  BY <2>2, <3>1
  <2>4. CommandTaken(r, t, m)  BY <1>2, <2>2, <2>3 DEF CommandTaken, AsksForData
  <2> QED  BY <2>4 DEF r
<1>3. CASE t.cmd.op = "read"
  <2>1. r = Sym895!Result(Sym895!Read(t, m), m, FALSE)  BY <1>3 DEF Sym895!DoCommand
  <2>2. t.cmd.n > 0  BY <1>3
  <2>3. CASE Ended(Sym895!Read(t, m), t, 2)  BY <2>1, <2>3, EndedIsDone
  <2> DEFINE s == [i \in 1 .. t.cmd.n |-> m[t.cmd.lba + i - 1]]
  <2>4. CASE Answered(Sym895!Read(t, m), t, s)
    <3>1. s \in Seq(Int)  BY <2>4 DEF Answered, Targets
    <3>2. s # <<>>
      <4>1. 1 \in DOMAIN s  BY <1>0, <2>2
      <4> QED  BY <4>1
    <3>3. t.cmd.op = "read" => s = [i \in 1 .. t.cmd.n |-> m[t.cmd.lba + i - 1]]  BY DEF s
    <3>4. Answered(Sym895!Read(t, m), t, s)  BY <2>4
    <3> HIDE DEF s, r
    <3>5. t.cmd.op \notin {"write", "modeSelect"}  BY <1>3
    <3>6. CommandTaken(Sym895!Result(Sym895!Read(t, m), m, FALSE), t, m)
      BY <3>1, <3>2, <3>3, <3>4, <3>5, AnsweredGives
    <3> QED  BY <2>1, <3>6 DEF r
  <2> QED  BY <2>2, <2>3, <2>4, ReadDone
<1>4. CASE t.cmd.op = "sense"
  <2>1. r = Sym895!Result(Sym895!Answer(t, <<t.sense>>), m, FALSE)
    BY <1>4 DEF Sym895!DoCommand, Sym895!RequestSense
  <2>2. <<t.sense>> \in Seq(Int) /\ <<t.sense>> # <<>>  BY <1>0
  <2>3. Answered(Sym895!Answer(t, <<t.sense>>), t, <<t.sense>>)  BY <2>2, AnswerTyped
  <2> QED  BY <1>4, <2>1, <2>2, <2>3, AnsweredGives
<1>5. CASE t.cmd.op = "inquiry"
  <2>1. r = Sym895!Result(Sym895!Answer(t, <<1>>), m, FALSE)
    BY <1>5 DEF Sym895!DoCommand, Sym895!Inquiry
  <2>2. <<1>> \in Seq(Int) /\ <<1>> # <<>>  OBVIOUS
  <2>3. Answered(Sym895!Answer(t, <<1>>), t, <<1>>)  BY <2>2, AnswerTyped
  <2> QED  BY <1>5, <2>1, <2>2, <2>3, AnsweredGives
<1>6. CASE t.cmd.op = "capacity"
  <2>1. r = Sym895!Result(Sym895!Answer(t, <<4 - 1>>), m, FALSE)
    BY <1>6 DEF Sym895!DoCommand, Sym895!ReadCapacity
  <2>2. <<4 - 1>> \in Seq(Int) /\ <<4 - 1>> # <<>>  OBVIOUS
  <2>3. Answered(Sym895!Answer(t, <<4 - 1>>), t, <<4 - 1>>)  BY <2>2, AnswerTyped
  <2> QED  BY <1>6, <2>1, <2>2, <2>3, AnsweredGives
<1>7. CASE t.cmd.op = "illegal"
  <2>1. r = Sym895!Result(Sym895!Finish(t, 32), m, FALSE)
    BY <1>7 DEF Sym895!DoCommand, Sym895!Illegal, Sym895!Sense
  <2>2. Ended(Sym895!Finish(t, 32), t, 2)  BY FinishTyped
  <2> QED  BY <2>1, <2>2, EndedIsDone
<1>8. CASE t.cmd.op = "test"
  <2>1. r = Sym895!Result(Sym895!Finish(t, 0), m, FALSE)
    BY <1>8 DEF Sym895!DoCommand, Sym895!Sense
  <2>2. Ended(Sym895!Finish(t, 0), t, 0)  BY FinishTyped
  <2> QED  BY <1>8, <2>1, <2>2, EndedIsDone
<1> QED  BY <1>1, <1>2, <1>3, <1>4, <1>5, <1>6, <1>7, <1>8 DEF Operations

(* The disk has all of the data. *)
DataDoneFor(r, t, m) ==
  /\ ~r.more /\ r.t \in Targets
  /\ r.t.cmd = t.cmd /\ r.t.in = <<>> /\ r.t.statLeft = 1 /\ r.t.msgIn = 1 /\ r.t.stat = 0
  /\ r.medium = IF t.cmd.op = "write"
                THEN [l \in 0 .. 3 |-> IF l \in t.cmd.lba .. t.cmd.lba + t.cmd.n - 1
                                       THEN t.out[l - t.cmd.lba + 1] ELSE m[l]]
                ELSE m

(* do_scsi_command() called with the data ends the command well. *)
LEMMA DataDone ==
  ASSUME NEW t \in Targets, t.in = <<>>, Len(t.out) = t.expected, t.expected > 0,
         t.cmd.op \in {"write", "modeSelect"},
         t.cmd.op = "write" => t.expected = t.cmd.n /\ Sym895!InRange(t.cmd) /\ t.cmd.n <= 3,
         NEW m \in [0 .. 3 -> Int]
  PROVE  DataDoneFor(Sym895!DoCommand(t, m), t, m)
<1> DEFINE r == Sym895!DoCommand(t, m)
<1>1. CASE t.cmd.op = "write"
  <2>1. r = Sym895!Write(t, m)  BY <1>1 DEF Sym895!DoCommand
  <2>2. Len(t.out) = t.cmd.n /\ Sym895!InRange(t.cmd) /\ t.cmd.n <= 3  BY <1>1
  <2> DEFINE v == [t EXCEPT !.expected = t.cmd.n]
  <2>3. v.in = <<>> /\ v.cmd = t.cmd  BY DEF Targets
  <2>4. /\ ~r.more /\ Ended(r.t, v, 0)
        /\ r.medium = [l \in 0 .. 3 |-> IF l \in t.cmd.lba .. t.cmd.lba + t.cmd.n - 1
                                        THEN t.out[l - t.cmd.lba + 1] ELSE m[l]]
    BY <2>1, <2>2, WriteEnds
  <2> HIDE DEF v, r
  <2>5. /\ r.t \in Targets /\ r.t.cmd = t.cmd /\ r.t.in = <<>> /\ r.t.statLeft = 1 /\ r.t.msgIn = 1
        /\ r.t.stat = 0
    BY <2>3, <2>4 DEF Ended
  <2>6. DataDoneFor(r, t, m)  BY <1>1, <2>4, <2>5 DEF DataDoneFor
  <2> QED  BY <2>6 DEF r
<1>2. CASE t.cmd.op = "modeSelect"
  <2>1. r = Sym895!ModeSelect(t, m)  BY <1>2 DEF Sym895!DoCommand
  <2> DEFINE v == [t EXCEPT !.expected = 1]
  <2>2. v.in = <<>> /\ v.cmd = t.cmd  BY DEF Targets
  <2>3. t.out # <<>>
    <3>1. t.out = <<>> => Len(t.out) = 0  OBVIOUS
    <3> QED  BY <3>1
  <2>4. r.medium = m /\ ~r.more /\ Ended(r.t, v, 0)  BY <2>1, <2>3, ModeSelectDone
  <2> HIDE DEF v, r
  <2>5. /\ r.t \in Targets /\ r.t.cmd = t.cmd /\ r.t.in = <<>> /\ r.t.statLeft = 1 /\ r.t.msgIn = 1
        /\ r.t.stat = 0
    BY <2>2, <2>4 DEF Ended
  <2>6. DataDoneFor(r, t, m)  BY <1>2, <2>4, <2>5 DEF DataDoneFor
  <2> QED  BY <2>6 DEF r
<1> QED  BY <1>1, <1>2

(* The places of the instructions in the program. *)
Place(i) ==
  LET s == DriverScript[i] IN
  /\ s.op = "move" => /\ i \in 4 .. 20 /\ s.phase \in TransferPhases
                      /\ s.phase \in {"dataIn", "dataOut"} => s.seg \in {1, 2}
  /\ s.op = "select" => i = 3
  /\ s.op = "disconnect" => i = 21
  /\ s.op = "register" => i \in {2, 19, 22}
  /\ s.op = "reselect" => i = 1 /\ s.to = 2
  /\ s.op = "carry" => i = 24
  /\ s.op = "int" => (IF s.fly THEN i = 26 ELSE i = 28)
  /\ s.op = "jump" => \/ i \in 5 .. 17 /\ {s.to, i + 1} \subseteq 6 .. 18
                      \/ i = 23 /\ {s.to, i + 1} \subseteq {24, 28} /\ s.phase = "none"
                      \/ i = 25 /\ {s.to, i + 1} \subseteq {26, 27} /\ s.phase = "none"
                      \/ i \in {27, 29} /\ s = Always(1)

(* What each place of the program holds as the data goes. *)
LEMMA Places ==
  ASSUME NEW i \in 1 .. 29
  PROVE  Place(i)
<1> USE DEF Place, TransferPhases, DriverScript, Op, Move, Move1, JumpIf, When, Unless, Always, Reg
<1>1. CASE i \in 1 .. 4  BY SMTT(60), <1>1
<1>2. CASE i \in 5 .. 8  BY SMTT(60), <1>2
<1>3. CASE i \in 9 .. 12  BY SMTT(60), <1>3
<1>4. CASE i \in 13 .. 17  BY SMTT(60), <1>4
<1>5. CASE i \in 18 .. 22  BY <1>5
<1>6. CASE i = 23  BY <1>6
<1>7. CASE i = 24  BY <1>7
<1>8. CASE i = 25  BY <1>8
<1>9. CASE i = 26  BY <1>9
<1>10. CASE i = 27  BY <1>10
<1>11. CASE i = 28  BY <1>11
<1>12. CASE i = 29  BY <1>12
<1> HIDE DEF Place, DriverScript
<1> QED  BY <1>1, <1>2, <1>3, <1>4, <1>5, <1>6, <1>7, <1>8, <1>9, <1>10, <1>11, <1>12

(* A step that leaves the disk and the buffers alone. *)
Untransferred == UNCHANGED <<symTarget, symMedium, symBus, symMemory, symResult, symMoved, symJob, symWants>>

(* Such a step keeps what is known of the data, unless it makes a command *)
(* appear elsewhere in the program. *)
LEMMA DataSame ==
  ASSUME DataInv, Untransferred, symCpu' = "issued" => symCpu = "issued",
         symCpu' # symCpu => Written53' = Written53,
         Chosen' => Chosen, NotChosen' => NotChosen,
         symCpu' = "issued" /\ symDsp' \in 22 .. 29 \ {27} => symBus = "free",
         (Raised \cap {"SIR", "STO", "IID"} # {})' \/ Flown' => symBus # "status",
         "MA" \in Raised' => symDsp' \in 5 .. 21,
         symCpu' # "issued" => symBus # "status"
  PROVE  DataInv'
<1> USE DEF Untransferred
<1>1. DataTyped'  BY DEF DataInv, DataTyped
<1>2. UNCHANGED <<Taken53, Untouched, Asked53>>  BY DEF Taken53, Untouched, Asked53
<1>3. BeforeCommand'  BY <1>2 DEF DataInv, BeforeCommand, Sym895!NoCommand
<1>4. AtEnds'  BY DEF DataInv, AtEnds
<1>5. DiskGives'  BY <1>2 DEF DataInv, DiskGives
<1>6. MemoryIsAsked'  BY <1>2 DEF DataInv, MemoryIsAsked
<1>7. DiskTakes'
  <2>1. UNCHANGED <<Sym895!InRange(symJob.cmd), Sym895!Word(1)>>  BY DEF Sym895!InRange, Sym895!Word
  <2> QED  BY <2>1 DEF DataInv, DiskTakes, Sym895!InRange, Sym895!Word
<1>8. Written53' = Written53  BY DEF Written53
<1>9. MediumIsWanted'  BY <1>8 DEF DataInv, MediumIsWanted, Sym895!Word
<1> QED  BY <1>1, <1>3, <1>4, <1>5, <1>6, <1>7, <1>9 DEF DataInv

(* Between WAIT RESELECT and the interrupt on the fly SCRIPTS have a command, *)
(* and nothing has been raised. *)
LEMMA Executes ==
  ASSUME ScriptsInv, symExecuting
  PROVE  /\ Raised = {} /\ symDsp \in 1 .. 29 /\ symDsp # 29
         /\ symDsp \notin {1, 27} => symCpu = "issued" /\ ~Flown
  BY DEF ScriptsInv, SymTyped, RunsFree, FlyOnly, Stopped, Waiting, ComesBack

(* An instruction that transfers nothing. *)
LEMMA SameOnward ==
  ASSUME ScriptsInv, DataInv, Untransferred, symExecuting, UNCHANGED <<symCpu, Raised, Flown>>,
         \/ symDsp \in 4 .. 20 /\ symDsp' \in 5 .. 21
         \/ symDsp = 21 /\ symBus = "free" /\ symDsp' = 22
         \/ symDsp \in 22 .. 26 /\ symDsp' \in 23 .. 29 \ {27}
         \/ symDsp \in {1, 27} /\ symDsp' \in {1, 2}
         \/ symDsp = 2 /\ symDsp' = 3
  PROVE  DataInv'
<1>1. AtEnds /\ Raised' = {}  BY Executes DEF DataInv
<1>2. (Chosen' => Chosen) /\ (NotChosen' => NotChosen)  BY Executes DEF Chosen, NotChosen
<1>3. symCpu' = "issued" /\ symDsp' \in 22 .. 29 \ {27} => symBus = "free"  BY <1>1 DEF AtEnds
<1>4. (Flown' => symBus # "status") /\ (symCpu' # "issued" => symBus # "status")  BY <1>1 DEF AtEnds
<1> QED  BY <1>1, <1>2, <1>3, <1>4, DataSame

(* The instructions that only go on keep what is known of the data. *)
LEMMA QuietData ==
  ASSUME ScriptsInv, DataInv, ~symOverran',
         Sym895!WaitDisconnect \/ Sym895!WaitReselect \/ Sym895!SetCarry \/ Sym895!Register \/ Sym895!Jump
  PROVE  DataInv'
<1>1. Place(symDsp) /\ symDsp \in 1 .. 29  BY Places DEF ScriptsInv, SymTyped
<1>2. symExecuting
  BY Runs DEF Sym895!WaitDisconnect, Sym895!WaitReselect, Sym895!SetCarry, Sym895!Register, Sym895!Jump
<1>3. Untransferred /\ UNCHANGED <<symCpu, symSeen, symDstat, symSist, symIstat>>
  BY DEF Sym895!WaitDisconnect, Sym895!WaitReselect, Sym895!SetCarry, Sym895!Register, Sym895!Jump, Sym895!Rest,
    Sym895!driver, Sym895!scsi, Sym895!buffers, Sym895!Quiet, Sym895!interrupts, Untransferred
<1>4. UNCHANGED <<Raised, Flown>>  BY <1>3 DEF Raised, Flown
<1>5. CASE Sym895!WaitDisconnect
  <2>1. symDsp = 21 /\ symBus = "free"  BY <1>1, <1>5 DEF Sym895!WaitDisconnect, Sym895!At, Sym895!Instr, Place
  <2>2. symDsp' = symDsp + 1  BY <1>5 DEF Sym895!WaitDisconnect, Sym895!Next1, Sym895!Go
  <2> QED  BY <1>2, <1>3, <1>4, <2>1, <2>2, SameOnward
<1>6. CASE Sym895!WaitReselect
  <2>1. symDsp = 1 /\ DriverScript[symDsp].to = 2
    BY <1>1, <1>6 DEF Sym895!WaitReselect, Sym895!At, Sym895!Instr, Place
  <2>2. symDsp' = 2 \/ symDsp' = symDsp + 1
    BY <1>6, <2>1 DEF Sym895!WaitReselect, Sym895!Instr, Sym895!Next1, Sym895!Go
  <2>3. symDsp' = 2  BY <2>1, <2>2
  <2> QED  BY <1>2, <1>3, <1>4, <2>1, <2>3, SameOnward
<1>7. CASE Sym895!SetCarry
  <2>1. symDsp = 24  BY <1>1, <1>7 DEF Sym895!SetCarry, Sym895!At, Sym895!Instr, Place
  <2>2. symDsp' = symDsp + 1  BY <1>7 DEF Sym895!SetCarry, Sym895!Next1, Sym895!Go
  <2> QED  BY <1>2, <1>3, <1>4, <2>1, <2>2, SameOnward
<1>8. CASE Sym895!Register
  <2>1. symDsp \in {2, 19, 22}  BY <1>1, <1>8 DEF Sym895!Register, Sym895!At, Sym895!Instr, Place
  <2>2. symDsp' = symDsp + 1  BY <1>8 DEF Sym895!Register, Sym895!Next1, Sym895!Go
  <2> QED  BY <1>2, <1>3, <1>4, <2>1, <2>2, SameOnward
<1>9. CASE Sym895!Jump
  <2>1. DriverScript[symDsp].op = "jump"  BY <1>9 DEF Sym895!Jump, Sym895!At, Sym895!Instr
  <2>2. symDsp' = (IF Sym895!Holds THEN DriverScript[symDsp].to ELSE symDsp + 1)
    BY <1>9 DEF Sym895!Jump, Sym895!Instr, Sym895!Go
  <2>3. \/ symDsp \in 5 .. 17 /\ symDsp' \in 6 .. 18
        \/ symDsp = 23 /\ symDsp' \in {24, 28}
        \/ symDsp = 25 /\ symDsp' \in {26, 27}
        \/ symDsp \in {27, 29} /\ DriverScript[symDsp] = Always(1)
    BY <1>1, <2>1, <2>2 DEF Place
  <2>4. symDsp = 25 => symDsp' = 26
    <3> SUFFICES ASSUME symDsp = 25 PROVE symDsp' = 26  OBVIOUS
    <3>1. DriverScript[symDsp] = JumpIf("none", "none", TRUE, FALSE, 27)
      BY AtInstruction DEF Instruction, ScriptsInv
    <3>2. symCarry = TRUE  BY DEF ComesBack, ScriptsInv
    <3>3. ~Sym895!Holds  BY <3>1, <3>2 DEF JumpIf, Sym895!Holds, Sym895!Instr
    <3> QED  BY <2>2, <3>3
  <2>5. symDsp = 27 => symDsp' = 1
    <3> SUFFICES ASSUME symDsp = 27 PROVE symDsp' = 1  OBVIOUS
    <3>1. Sym895!Holds /\ DriverScript[symDsp].to = 1
      BY <2>3 DEF Always, JumpIf, Sym895!Holds, Sym895!Instr
    <3> QED  BY <2>2, <3>1
  <2>6. symDsp # 29  BY <1>2, Executes
  <2> QED  BY <1>2, <1>3, <1>4, <2>3, <2>4, <2>5, <2>6, SameOnward
<1> QED  BY <1>5, <1>6, <1>7, <1>8, <1>9

(* INT and INTFLY are reached with the bus free. *)
LEMMA InterruptData == ASSUME ScriptsInv, DataInv, ~symOverran', Sym895!Interrupt PROVE DataInv'
<1>1. symExecuting /\ symDsp \in {26, 28} /\ symDsp' = symDsp + 1
  <2>1. Place(symDsp) /\ symDsp \in 1 .. 29  BY Places DEF ScriptsInv, SymTyped
  <2>2. symExecuting /\ symDsp \in {26, 28}
    BY <2>1, Runs DEF Place, Sym895!Interrupt, Sym895!At, Sym895!Instr
  <2> QED  BY <2>2 DEF Sym895!Interrupt, Sym895!Next1, Sym895!Go
<1>2. Untransferred /\ UNCHANGED <<symCpu, symSeen>>
  BY DEF Sym895!Interrupt, Sym895!Rest, Sym895!driver, Sym895!scsi, Sym895!buffers, Untransferred
<1>3. symCpu = "issued" /\ ~Flown /\ Raised = {}  BY <1>1, Executes
<1>4. symBus = "free"  BY <1>1, <1>3 DEF DataInv, AtEnds
<1>5. Sym895!RaiseBit(IF symDsp = 26 THEN "INTF" ELSE "SIR")
  BY <1>1, AtInstruction DEF Instruction, Sym895!Interrupt, Sym895!At, Sym895!Instr, ScriptsInv
<1>6. IF symDsp = 26 THEN RaisesTo("INTF") ELSE RaisesTo("SIR")  BY <1>1, <1>5, RaiseEffect DEF ScriptsInv
<1>7. symDsp = 26 => Flown' /\ Raised' = Raised  BY <1>2, <1>6 DEF RaisesTo, Flown, Raised
<1>8. symDsp = 28 => Raised' \subseteq {"SIR"}
  BY ZenonT(60), <1>1, <1>2, <1>3, <1>6 DEF RaisesTo, Raised, ScriptsInv, SymTyped
<1>9. "MA" \notin Raised'  BY <1>1, <1>3, <1>7, <1>8
<1>10. (Chosen' => Chosen) /\ (NotChosen' => NotChosen)
  BY <1>1, <1>2, <1>7 DEF Chosen, NotChosen
<1> QED  BY <1>1, <1>2, <1>3, <1>4, <1>9, <1>10, DataSame

(* What the thread waits for, what the driver takes and the timer leave the *)
(* data alone. *)
LEMMA WaitData ==
  ASSUME ScriptsInv, DataInv,
         \/ Sym895!ThreadWait \/ Sym895!ThreadTest
         \/ Sym895!ClearFly \/ Sym895!ReadSist \/ Sym895!ReadDstat \/ Sym895!Expire
  PROVE  DataInv'
<1>1. Untransferred /\ UNCHANGED <<symCpu, symDsp>>
  BY DEF Sym895!ThreadWait, Sym895!ThreadTest, Sym895!ClearFly, Sym895!ReadSist, Sym895!ReadDstat, Sym895!Expire,
    Sym895!CpuOnly, Sym895!registers, Sym895!driver, Sym895!scsi, Sym895!buffers, Untransferred
<1>2. /\ Raised \subseteq Raised' /\ Raised' \subseteq Raised \cup {"GEN"}
      /\ Flown' <=> Flown
  <2>1. CASE Sym895!ThreadWait \/ Sym895!ThreadTest
    <3>1. UNCHANGED <<symDstat, symSist, symIstat, symSeen>>
      BY <2>1 DEF Sym895!ThreadWait, Sym895!ThreadTest, Sym895!interrupts, Sym895!driver
    <3> QED  BY <3>1 DEF Raised, Flown
  <2>2. CASE Sym895!ClearFly \/ Sym895!ReadSist \/ Sym895!ReadDstat
    BY <2>2, Take895
  <2>3. CASE Sym895!Expire
    <3>1. Sym895!RaiseBit("GEN") /\ symSeen' = symSeen  BY <2>3 DEF Sym895!Expire, Sym895!driver
    <3>2. RaisesTo("GEN")  BY <3>1, RaiseEffect DEF ScriptsInv
    <3> QED  BY <3>1, <3>2 DEF RaisesTo, Raised, Flown, ScriptsInv, SymTyped
  <2> QED  BY <2>1, <2>2, <2>3
<1>3. (Chosen' => Chosen) /\ (NotChosen' => NotChosen)  BY <1>1, <1>2 DEF Chosen, NotChosen
<1>4. (Raised \cap {"SIR", "STO", "IID"} # {})' => Raised \cap {"SIR", "STO", "IID"} # {}  BY <1>2
<1>5. "MA" \in Raised' => "MA" \in Raised  BY <1>2
<1>6. AtEnds  BY DEF DataInv
<1>7. symCpu' = "issued" /\ symDsp' \in 22 .. 29 \ {27} => symBus = "free"  BY <1>1, <1>6 DEF AtEnds
<1>8. (Raised \cap {"SIR", "STO", "IID"} # {})' \/ Flown' => symBus # "status"  BY <1>2, <1>4, <1>6 DEF AtEnds
<1>9. "MA" \in Raised' => symDsp' \in 5 .. 21  BY <1>1, <1>5, <1>6 DEF AtEnds
<1>10. symCpu' # "issued" => symBus # "status"  BY <1>1, <1>6 DEF AtEnds
<1> QED  BY <1>1, <1>3, <1>7, <1>8, <1>9, <1>10, DataSame

(* So does the driver when it starts SCRIPTS. *)
LEMMA StartData == ASSUME ScriptsInv, DataInv, symCpu' # "dead", Sym895!Start PROVE DataInv'
<1>1. symCpu = "start" /\ symCpu' = "idle"
  BY DEF Sym895!Start, Sym895!WriteDsp, Sym895!Run, Sym895!Awaken
<1>2. Untransferred /\ UNCHANGED <<symDstat, symSist, symIstat, symSeen>>
  BY DEF Sym895!Start, Sym895!CpuOnly, Sym895!scsi, Sym895!buffers, Untransferred
<1>3. UNCHANGED <<Raised, Flown>>  BY <1>2 DEF Raised, Flown
<1>4. Raised = {} /\ ~Flown  BY <1>1 DEF Raised, Flown, Stopped, Levels, ScriptsInv, SymTyped
<1>5. ~Chosen' /\ ~NotChosen'  BY <1>1 DEF Chosen, NotChosen
<1>6. symBus # "status"  BY <1>1 DEF DataInv, AtEnds
<1>7. Written53' = Written53  BY <1>1 DEF Written53
<1> QED  BY <1>1, <1>2, <1>3, <1>4, <1>5, <1>6, <1>7, DataSame

(* SELECT empties the buffers of the disk and leaves it the bus. *)
LEMMA SelectData == ASSUME ScriptsInv, DataInv, ~symOverran', Sym895!SelectOp PROVE DataInv'
<1>1. symExecuting /\ symDsp = 3 /\ symDsp' = 4
  <2>1. Place(symDsp) /\ symDsp \in 1 .. 29  BY Places DEF ScriptsInv, SymTyped
  <2>2. symExecuting /\ symDsp = 3  BY <2>1, Runs DEF Place, Sym895!SelectOp, Sym895!At, Sym895!Instr
  <2> QED  BY <2>2 DEF Sym895!SelectOp, Sym895!Next1, Sym895!Go
<1>2. /\ UNCHANGED <<symMedium, symMemory, symResult, symMoved, symJob, symWants, symCpu, symSeen>>
      /\ UNCHANGED <<symDstat, symSist, symIstat>>
  BY DEF Sym895!SelectOp, Sym895!Rest, Sym895!Quiet, Sym895!interrupts, Sym895!driver, Sym895!buffers
<1>3. UNCHANGED <<Raised, Flown>>  BY <1>2 DEF Raised, Flown
<1>4. symCpu = "issued" /\ ~Flown /\ Raised = {}  BY <1>1, Executes
<1>5. NotChosen /\ Chosen'  BY <1>1, <1>2, <1>4 DEF Chosen, NotChosen
<1>6. Untouched /\ symBus # "status"  BY <1>5 DEF DataInv, BeforeCommand, AtEnds
<1>7. Untouched'  BY <1>2, <1>6 DEF Untouched
<1>8. \/ symBus' = "msgOut" /\ symTarget' = Sym895!Select(symTarget)
      \/ symBus' = "arbitration" /\ symTarget' = symTarget
  BY DEF Sym895!SelectOp, Sym895!Selected
<1>9. Sym895!Select(symTarget) \in Targets
  <2>1. symTarget.sense \in Nat  BY DEF DataInv, DataTyped, Targets
  <2>2. <<>> \in Seq({"identify", "negotiate"}) /\ <<>> \in Seq(Int)  OBVIOUS
  <2> QED  BY <2>1, <2>2 DEF Sym895!Select, Sym895!Cleared, Sym895!NoCommand, Targets
<1>10. symBus' = "msgOut" =>
         /\ symTarget'.cmd = Sym895!NoCommand
         /\ symTarget'.in = <<>> /\ symTarget'.out = <<>> /\ symTarget'.read = 0
  BY <1>8 DEF Sym895!Select, Sym895!Cleared
<1>11. DataTyped'  BY <1>2, <1>8, <1>9 DEF DataInv, DataTyped
<1>12. BeforeCommand'  BY <1>5, <1>7, <1>8, <1>10 DEF BeforeCommand, Sym895!NoCommand, NotChosen
<1>13. AtEnds'  BY <1>1, <1>3, <1>4, <1>8 DEF AtEnds
<1>14. DiskGives' /\ DiskTakes'  BY <1>8 DEF DiskGives, DiskTakes
<1>15. symResult = -1 /\ symResult' = -1  BY <1>6, <1>7 DEF Untouched
<1>16. MemoryIsAsked'  BY <1>8, <1>15 DEF MemoryIsAsked
<1>17. ~Written53 /\ ~Written53'  BY <1>6, <1>8, <1>15 DEF Written53
<1>18. MediumIsWanted'  BY <1>2, <1>17 DEF DataInv, MediumIsWanted
<1> QED  BY <1>11, <1>12, <1>13, <1>14, <1>16, <1>18 DEF DataInv

(* A selection that nobody answers frees the bus. *)
LEMMA TimeoutData == ASSUME ScriptsInv, DataInv, ~symOverran', Sym895!Timeout PROVE DataInv'
<1>1. symExecuting /\ symDsp \in 4 .. 20 /\ symDsp' = symDsp + 1
  <2>1. Place(symDsp) /\ symDsp \in 1 .. 29  BY Places DEF ScriptsInv, SymTyped
  <2>2. DriverScript[symDsp].op = "move" \/ (DriverScript[symDsp].op = "jump" /\ DriverScript[symDsp].phase # "none")
    BY DEF Sym895!Timeout, Sym895!Instr
  <2>3. symDsp \notin {27, 29}
    <3>1. symDsp \in {27, 29} => DriverScript[symDsp] = Always(1)
      BY AtInstruction DEF Instruction, ScriptsInv
    <3>2. Always(1).op = "jump" /\ Always(1).phase = "none"  BY DEF Always, JumpIf
    <3> QED  BY <2>2, <3>1, <3>2
  <2>4. symDsp \in 4 .. 20  BY <2>1, <2>2, <2>3 DEF Place
  <2> QED  BY <2>4, Runs DEF Sym895!Timeout, Sym895!Next1, Sym895!Go
<1>2. /\ UNCHANGED <<symTarget, symMedium, symMemory, symResult, symMoved, symJob, symWants, symCpu, symSeen>>
      /\ symBus = "arbitration" /\ symBus' = "free" /\ Sym895!RaiseBit("STO")
  BY DEF Sym895!Timeout, Sym895!TimedOut, Sym895!Rest, Sym895!driver, Sym895!buffers
<1>3. symCpu = "issued" /\ ~Flown /\ Raised = {}  BY <1>1, Executes
<1>4. RaisesTo("STO")  BY <1>2, RaiseEffect DEF ScriptsInv
<1>5. Raised' \subseteq {"STO"} /\ ~Flown'
  BY <1>2, <1>3, <1>4 DEF RaisesTo, Raised, Flown, ScriptsInv, SymTyped
<1>6. ~NotChosen'  BY <1>1, <1>2, <1>3 DEF NotChosen, Chosen
<1>7. DataTyped'  BY <1>2 DEF DataInv, DataTyped
<1>8. BeforeCommand' /\ DiskGives' /\ DiskTakes'  BY <1>2, <1>6 DEF BeforeCommand, DiskGives, DiskTakes
<1>9. AtEnds'  BY <1>1, <1>2, <1>5 DEF AtEnds
<1>10. MemoryIsAsked'  BY <1>2 DEF DataInv, MemoryIsAsked, Asked53
<1>11. Written53' = Written53  BY <1>2 DEF Written53
<1>12. MediumIsWanted'  BY <1>2, <1>11 DEF DataInv, MediumIsWanted, Sym895!Word
<1> QED  BY <1>7, <1>8, <1>9, <1>10, <1>12 DEF DataInv

(* The commands of the driver. *)
JobIs(j) ==
  /\ j \in Jobs53 /\ j.cmd.op # "none" /\ Len(j.segs) = 2
  /\ j.cmd.op \in {"read", "write"} => j.cmd.n > 0

(* A question of the driver is a job. *)
LEMMA JobAsked ==
  ASSUME NEW id \in {0, 1}, NEW op \in Operations, NEW lba \in Nat, NEW n \in Nat, NEW a \in Nat, NEW b \in Nat,
         NEW m \in {Identify, Negotiate}, op \in {"read", "write"} => n > 0
  PROVE  JobIs(Ask(id, op, lba, n, <<a, b>>, m))
<1> DEFINE s == <<a, b>>
<1>1. s \in Seq(Nat) /\ Len(s) = 2  OBVIOUS
<1>2. m \in Seq({"identify", "negotiate"})
  <2>1. Identify \in Seq({"identify", "negotiate"})
    <3>1. Identify = << "identify" >>  BY DEF Identify
    <3> QED  BY <3>1
  <2>2. Negotiate \in Seq({"identify", "negotiate"})
    <3>1. Negotiate = << "identify", "negotiate" >>  BY DEF Negotiate
    <3> QED  BY <3>1
  <2> QED  BY <2>1, <2>2
<1>3. op # "none"  BY DEF Operations
<1> HIDE DEF s
<1>4. JobIs(Ask(id, op, lba, n, s, m))  BY <1>1, <1>2, <1>3 DEF Ask, Jobs53, JobIs
<1> QED  BY <1>4 DEF s

(* Those of the driver are. *)
LEMMA JobFacts ==
  ASSUME NEW j \in DriverJobs
  PROVE  JobIs(j)
<1> USE DEF Operations
<1>1. JobIs(Ask(0, "read", 1, 2, <<1, 1>>, Identify))  BY JobAsked
<1>2. JobIs(Ask(0, "read", 0, 3, <<1, 3>>, Negotiate))  BY JobAsked
<1>3. JobIs(Ask(0, "write", 1, 2, <<1, 1>>, Identify))  BY JobAsked
<1>4. JobIs(Ask(0, "write", 2, 1, <<2, 1>>, Negotiate))  BY JobAsked
<1>5. JobIs(Ask(0, "modeSelect", 0, 1, <<1, 1>>, Identify))  BY JobAsked
<1>6. JobIs(Ask(1, "test", 0, 0, <<1, 1>>, Identify))  BY JobAsked
<1>7. JobIs(Ask(0, "read", 0, 1, <<0, 1>>, Identify))  BY JobAsked
<1>8. \A op \in {"read", "write"} : JobIs(Ask(0, op, 3, 2, <<1, 1>>, Identify))  BY JobAsked
<1>9. \A op \in {"read", "write"} : JobIs(Ask(0, op, 0, 4, <<1, 1>>, Identify))  BY JobAsked
<1>10. \A op \in {"sense", "inquiry", "capacity", "illegal", "test"} : JobIs(Ask(0, op, 0, 0, <<1, 1>>, Identify))
  BY JobAsked
<1> QED  BY <1>1, <1>2, <1>3, <1>4, <1>5, <1>6, <1>7, <1>8, <1>9, <1>10 DEF DriverJobs

(* The driver asks for a command. *)
LEMMA SignalData ==
  ASSUME ScriptsInv, DataInv, symCpu' # "dead", NEW j \in DriverJobs, Sym895!Signal(j), ScriptsInv'
  PROVE  DataInv'
<1>1. symCpu = "idle" /\ symCpu' = "issued" /\ symSeen' = {}
      /\ symMoved' = 0 /\ symMemory' = <<>> /\ symResult' = -1
      /\ UNCHANGED <<symTarget, symMedium, symBus, symWants>>
  BY DEF Sym895!Signal, Sym895!Awaken, Sym895!CpuOnly, Sym895!scsi
<1>2. symJob' \in Jobs53 /\ symJob'.cmd.op # "none" /\ Len(symJob'.segs) = 2
      /\ (symJob'.cmd.op \in {"read", "write"} => symJob'.cmd.n > 0)
  <2>1. symJob.no + 1 \in Nat  BY SMTT(60) DEF DataInv, DataTyped, Jobs53
  <2> DEFINE v == [j EXCEPT !.no = symJob.no + 1]
  <2>2. symJob' = v  BY DEF Sym895!Signal
  <2>3. v \in Jobs53 /\ v.cmd = j.cmd /\ v.segs = j.segs  BY <2>1, JobFacts DEF Jobs53, JobIs
  <2> HIDE DEF v
  <2> QED  BY <2>2, <2>3, JobFacts DEF JobIs
<1>3. symDsp' \in {1, 2, 27} /\ Raised' = {} /\ ~Flown'
  <2>1. symDsp' \in {1, 2, 27}
    BY <1>1 DEF ScriptsInv, Stopped, Waiting, Sym895!Signal
  <2>2. ~Flown'
    <3>1. symIstat = {}  BY <1>1 DEF ScriptsInv, Stopped
    <3>2. PICK r \in BOOLEAN : Sym895!Eval(symDstat, symSist, symIstat, symStacked, r)
      BY DEF Sym895!Signal, Sym895!Awaken, ScriptsInv, SymTyped
    <3>3. EvalsTo(symDstat, symSist, symIstat, r)  BY <3>2, EvalEffect DEF ScriptsInv, SymTyped
    <3> QED  BY <1>1, <3>1, <3>3 DEF EvalsTo, Flown
  <2>3. symSigp'  BY DEF Sym895!Signal
  <2>4. symIstat = {} /\ symSist = {} /\ symDstat = {"DFE"}
    BY <1>1 DEF ScriptsInv, Stopped, Levels, SymTyped
  <2>5. Raised' = {}
    <3>2. PICK r \in BOOLEAN : Sym895!Eval(symDstat, symSist, symIstat, symStacked, r)
      BY DEF Sym895!Signal, Sym895!Awaken, ScriptsInv, SymTyped
    <3>3. EvalsTo(symDstat, symSist, symIstat, r)  BY <3>2, EvalEffect DEF ScriptsInv, SymTyped
    <3> QED  BY <1>1, <2>4, <3>3 DEF EvalsTo, Raised
  <2> QED  BY <2>1, <2>2, <2>5
<1>4. ~Chosen' /\ symBus # "status"  BY <1>1, <1>3 DEF Chosen, DataInv, AtEnds
<1>5. DataTyped'
  <2>1. <<>> \in Seq(Int)  OBVIOUS
  <2> QED  BY <1>1, <1>2, <2>1 DEF DataInv, DataTyped
<1>6. BeforeCommand' /\ DiskGives' /\ DiskTakes'
  BY <1>1, <1>4 DEF BeforeCommand, DiskGives, DiskTakes, Untouched
<1>7. AtEnds'  BY <1>1, <1>3, <1>4 DEF AtEnds
<1>8. MemoryIsAsked'  BY <1>1, <1>4 DEF MemoryIsAsked
<1>9. ~Written53 /\ ~Written53'  BY <1>1, <1>4 DEF Written53
<1>10. MediumIsWanted'  BY <1>1, <1>9 DEF DataInv, MediumIsWanted
<1> QED  BY <1>5, <1>6, <1>7, <1>8, <1>10 DEF DataInv

(* The driver acts: the command has ended, and the driver wants on the medium *)
(* what it has written, or SCRIPTS go on. *)
LEMMA ActData == ASSUME ScriptsInv, DataInv, symCpu' # "dead", Sym895!Act PROVE DataInv'
<1>1. /\ symCpu = "issued" /\ ~symIrq /\ symSeen # {} /\ symSeen' = {}
      /\ UNCHANGED <<symTarget, symMedium, symBus, symMemory, symResult, symMoved, symJob>>
      /\ UNCHANGED <<symDstat, symSist, symIstat>>
  BY DEF Sym895!Act, Sym895!CpuOnly, Sym895!scsi, Sym895!buffers
<1>2. symIstat = {} /\ symSist = {} /\ symDstat = {"DFE"}  BY <1>1 DEF ScriptsInv, Levels, SymTyped
<1>3. Raised' = {} /\ ~Flown'  BY <1>1, <1>2 DEF Raised, Flown
<1>4. Raised = symSeen \ {"INTF"} /\ (Flown <=> "INTF" \in symSeen)  BY <1>2 DEF Raised, Flown
<1>5. Sym895!Ends <=> symSeen \cap {"INTF", "SIR", "STO", "IID"} # {}  BY DEF Sym895!Ends
<1>6. CASE Sym895!Ends
  <2>1. symBus # "status"  BY <1>4, <1>5, <1>6 DEF DataInv, AtEnds
  <2>2. symCpu' # "issued"
    BY <1>4, <1>5, <1>6 DEF Sym895!Act, Sym895!Run, Sym895!Awaken, ScriptsInv, FlyOnly
  <2>3. symWants' = IF symJob.cmd.op = "write" /\ symResult = 0
                    THEN [l \in DOMAIN symWants |->
                            IF l \in symJob.cmd.lba .. symJob.cmd.lba + symJob.cmd.n - 1
                            THEN Sym895!Word(l - symJob.cmd.lba + 1) ELSE symWants[l]]
                    ELSE symWants
    BY <1>6 DEF Sym895!Act
  <2>4. DOMAIN symWants = 0 .. 3  BY DEF DataInv, DataTyped
  <2>5. Written53 <=> symJob.cmd.op = "write" /\ symResult = 0  BY <1>1, <2>1 DEF Written53
  <2>6. symWants' = symMedium
    BY <2>3, <2>4, <2>5 DEF DataInv, MediumIsWanted
  <2>7. DataTyped'  BY <1>1, <2>2, <2>6 DEF DataInv, DataTyped
  <2>8. ~Chosen' /\ ~NotChosen'  BY <2>2 DEF Chosen, NotChosen
  <2>9. BeforeCommand' /\ DiskGives' /\ DiskTakes'  BY <2>8 DEF BeforeCommand, DiskGives, DiskTakes
  <2>10. AtEnds'  BY <1>1, <1>3, <2>1, <2>2 DEF AtEnds
  <2>11. MemoryIsAsked'
    <3>1. symJob.cmd.op = "read" => symWants' = symWants  BY <2>3
    <3> QED  BY <1>1, <2>1, <3>1 DEF DataInv, MemoryIsAsked, Asked53
  <2>12. MediumIsWanted'  BY <1>1, <2>2, <2>6 DEF MediumIsWanted, Written53
  <2> QED  BY <2>7, <2>9, <2>10, <2>11, <2>12 DEF DataInv
<1>7. CASE ~Sym895!Ends
  <2>1. "INTF" \notin symSeen /\ ~Flown  BY <1>4, <1>5, <1>7
  <2>2. Untransferred  BY <1>1, <1>7 DEF Sym895!Act, Untransferred
  <2>3. symCpu' = "issued"
    BY <1>1, <1>7, <2>1 DEF Sym895!Act, Sym895!WriteDsp, Sym895!Run, Sym895!Awaken
  <2>4. symDsp' = symDsp \/ ("MA" \in symSeen /\ symDsp' = 18)
    BY <1>7, <2>1, ScriptStatus DEF Sym895!Act, Sym895!WriteDsp, Sym895!Run, Sym895!Go
  <2>5. "MA" \in symSeen => symDsp \in 5 .. 21  BY <1>4 DEF DataInv, AtEnds
  <2>6. (Chosen' => Chosen) /\ (NotChosen' => NotChosen)
    BY <1>1, <1>3, <2>1, <2>3, <2>4, <2>5 DEF Chosen, NotChosen
  <2>7. symDsp' \in 22 .. 29 \ {27} => symBus = "free"  BY <1>1, <2>4 DEF DataInv, AtEnds
  <2> QED  BY <1>1, <1>3, <2>2, <2>3, <2>6, <2>7, DataSame
<1> QED  BY <1>6, <1>7

(* A block move that moves something, as far as the data is not concerned. *)
Moving ==
  /\ DataInv /\ Chosen /\ UNCHANGED <<symCpu, symJob, symWants>>
  /\ symDsp' \in 5 .. 21 /\ ~Flown' /\ Raised' \cap {"SIR", "STO", "IID"} = {}

(* What is left to show of it. *)
LEMMA Moved53 ==
  ASSUME Moving, symTarget' \in Targets, symMedium' \in [0 .. 3 -> Int], symMemory' \in Seq(Int),
         symMoved' \in Nat, symResult' \in {-1, 0, 2},
         symBus' \in {"msgOut", "command"} \/ (symBus' = "msgIn" /\ ~Taken53') =>
           /\ Untouched' /\ symTarget'.cmd = Sym895!NoCommand
           /\ symTarget'.in = <<>> /\ symTarget'.out = <<>> /\ symTarget'.read = 0,
         symBus' \in {"dataIn", "dataOut", "status"} => Taken53' /\ symResult' = -1,
         symBus' = "msgIn" => symTarget'.msgIn = 1,
         symBus' = "status" => symTarget'.statLeft = 1 /\ symTarget'.msgIn = 1,
         symBus' # "arbitration",
         DiskGives', MemoryIsAsked', DiskTakes', MediumIsWanted'
  PROVE  DataInv'
<1> USE DEF Moving
<1>1. DataTyped'  BY DEF DataInv, DataTyped
<1>2. Chosen' /\ ~NotChosen'  BY DEF Chosen, NotChosen
<1>3. BeforeCommand'  BY <1>2 DEF BeforeCommand, Sym895!NoCommand
<1>4. AtEnds'  BY <1>2 DEF AtEnds, Chosen
<1> QED  BY <1>1, <1>3, <1>4 DEF DataInv

(* The buffers stay while nothing but messages and commands moves. *)
LEMMA BuffersKept ==
  ASSUME NEW n, Sym895!MoveUnits(n), symBus \in {"msgOut", "command", "msgIn"}
  PROVE  UNCHANGED <<symMemory, symResult, symMoved>>
  BY DEF Sym895!MoveUnits

(* MESSAGE OUT: the disk answers a negotiation, or wants the command. *)
LEMMA MsgOutMoves ==
  ASSUME Moving, symBus = "msgOut", NEW n, Sym895!MoveUnits(n)
  PROVE  DataInv'
<1> DEFINE u == [symTarget EXCEPT !.msgOut = @ \o symJob.messages]
           v == [u EXCEPT !.msgIn = IF "negotiate" \in {u.msgOut[i] : i \in DOMAIN u.msgOut} THEN 1 ELSE @]
<1>1. UNCHANGED <<symMemory, symResult, symMoved>>  BY BuffersKept
<1>2. Sym895!Taken(symTarget, symBus, Sym895!Source(n)) = u
  BY DEF Sym895!Taken, Sym895!Source
<1>3. Sym895!XferDone(u, symMedium, symBus)
        = [t |-> v, medium |-> symMedium, phase |-> IF v.msgIn > 0 THEN "msgIn" ELSE "command"]
  BY DEF Sym895!XferDone, Sym895!DoMessage
<1>4. /\ symTarget' = Sym895!XferDone(u, symMedium, symBus).t
      /\ symMedium' = Sym895!XferDone(u, symMedium, symBus).medium
      /\ symBus' = Sym895!XferDone(u, symMedium, symBus).phase
  BY <1>2 DEF Sym895!MoveUnits
<1> HIDE DEF v
<1>5. symTarget' = v /\ symMedium' = symMedium /\ symBus' = IF v.msgIn > 0 THEN "msgIn" ELSE "command"
  BY <1>3, <1>4
<1>6. DataTyped /\ BeforeCommand /\ Chosen  BY DEF Moving, DataInv
<1>7. u \in Targets /\ u.cmd = symTarget.cmd /\ u.in = symTarget.in /\ u.out = symTarget.out /\ u.read = symTarget.read
  <2>1. symTarget.msgOut \o symJob.messages \in Seq({"identify", "negotiate"})
    BY <1>6 DEF DataTyped, Targets, Jobs53
  <2> QED  BY <1>6, <2>1 DEF DataTyped, Targets
<1> HIDE DEF u
<1>8. v \in Targets /\ v.cmd = u.cmd /\ v.in = u.in /\ v.out = u.out /\ v.read = u.read
  BY <1>7 DEF v, Targets
<1>9. v.msgIn \in {0, 1}  BY <1>8 DEF Targets
<1>10. /\ Untouched /\ symTarget.cmd = Sym895!NoCommand
       /\ symTarget.in = <<>> /\ symTarget.out = <<>> /\ symTarget.read = 0
  BY <1>6 DEF BeforeCommand
<1>11. symBus' \in {"msgIn", "command"} /\ (symBus' = "msgIn" => v.msgIn = 1)  BY <1>5, <1>9
<1>12. Untouched'  BY <1>1, <1>10 DEF Untouched
<1>13. DiskGives' /\ DiskTakes'  BY <1>11 DEF DiskGives, DiskTakes
<1>14. MemoryIsAsked'  BY <1>11, <1>12 DEF MemoryIsAsked, Untouched
<1>15. ~Written53 /\ ~Written53'  BY <1>10, <1>11, <1>12 DEF Written53, Untouched
<1>16. MediumIsWanted'  BY <1>5, <1>15 DEF MediumIsWanted, Moving, DataInv
<1> QED
  BY <1>1, <1>5, <1>6, <1>7, <1>8, <1>10, <1>11, <1>12, <1>13, <1>14, <1>16, Moved53 DEF DataTyped

(* MESSAGE IN: the disk goes on to the command, or frees the bus. *)
LEMMA MsgInMoves ==
  ASSUME Moving, symBus = "msgIn", Sym895!MoveUnits(1)
  PROVE  DataInv'
<1> DEFINE u == [symTarget EXCEPT !.msgIn = 0]
<1>0. symTarget.msgIn - 1 = 0  BY DEF Moving, DataInv, BeforeCommand
<1>1. UNCHANGED <<symMemory, symResult, symMoved>>  BY BuffersKept
<1>2. Sym895!Given(symTarget, symBus, 1) = u  BY <1>0 DEF Sym895!Given
<1>3. Sym895!XferDone(u, symMedium, symBus)
        = [t |-> u, medium |-> symMedium, phase |-> IF u.cmd = Sym895!NoCommand THEN "command" ELSE "free"]
  BY DEF Sym895!XferDone
<1>4. /\ symTarget' = Sym895!XferDone(u, symMedium, symBus).t
      /\ symMedium' = Sym895!XferDone(u, symMedium, symBus).medium
      /\ symBus' = Sym895!XferDone(u, symMedium, symBus).phase
  BY <1>2 DEF Sym895!MoveUnits
<1>5. symTarget' = u /\ symMedium' = symMedium /\ symBus' = IF u.cmd = Sym895!NoCommand THEN "command" ELSE "free"
  BY <1>3, <1>4
<1>6. DataTyped /\ BeforeCommand /\ Chosen  BY DEF Moving, DataInv
<1>7. symTarget.msgIn = 1  BY <1>6 DEF BeforeCommand
<1>8. u \in Targets /\ u.cmd = symTarget.cmd /\ u.in = symTarget.in /\ u.out = symTarget.out /\ u.read = symTarget.read
  BY <1>6, <1>7 DEF DataTyped, Targets
<1> HIDE DEF u
<1>9. symBus' \in {"free", "command"} /\ (symBus' = "command" => u.cmd = Sym895!NoCommand)  BY <1>5
<1>10. symBus' = "command" =>
         /\ Untouched' /\ symTarget'.cmd = Sym895!NoCommand
         /\ symTarget'.in = <<>> /\ symTarget'.out = <<>> /\ symTarget'.read = 0
  <2> SUFFICES ASSUME symBus' = "command"
               PROVE  /\ Untouched' /\ symTarget'.cmd = Sym895!NoCommand
                      /\ symTarget'.in = <<>> /\ symTarget'.out = <<>> /\ symTarget'.read = 0
    OBVIOUS
  <2>1. symTarget.cmd = Sym895!NoCommand  BY <1>8, <1>9
  <2>2. symJob.cmd.op # "none"  BY <1>6 DEF Chosen, DataTyped
  <2>3. ~Taken53  BY <2>1, <2>2 DEF Taken53, Sym895!NoCommand
  <2>4. Untouched /\ symTarget.in = <<>> /\ symTarget.out = <<>> /\ symTarget.read = 0
    BY <1>6, <2>3 DEF BeforeCommand
  <2> QED  BY <1>1, <1>5, <1>8, <2>1, <2>4 DEF Untouched
<1>11. DiskGives' /\ DiskTakes'  BY <1>9 DEF DiskGives, DiskTakes
<1>12. MemoryIsAsked'  BY <1>1, <1>9 DEF MemoryIsAsked, Asked53, Moving, DataInv
<1>13. Written53' = Written53  BY <1>1, <1>9 DEF Written53, Moving
<1>14. MediumIsWanted'  BY <1>5, <1>13 DEF MediumIsWanted, Moving, DataInv, Sym895!Word
<1> QED
  BY <1>1, <1>5, <1>6, <1>8, <1>9, <1>10, <1>11, <1>12, <1>14, Moved53 DEF DataTyped

(* STATUS: the driver has the status of the command. *)
LEMMA StatusMoves ==
  ASSUME Moving, symBus = "status", Sym895!MoveUnits(1)
  PROVE  DataInv'
<1> DEFINE u == [symTarget EXCEPT !.statLeft = 0]
<1>0. symTarget.statLeft - 1 = 0  BY DEF Moving, DataInv, AtEnds
<1>2. Sym895!Given(symTarget, symBus, 1) = u  BY <1>0 DEF Sym895!Given
<1>3. Sym895!XferDone(u, symMedium, symBus) = [t |-> u, medium |-> symMedium, phase |-> "msgIn"]
  BY DEF Sym895!XferDone
<1>4. /\ symTarget' = Sym895!XferDone(u, symMedium, symBus).t
      /\ symMedium' = Sym895!XferDone(u, symMedium, symBus).medium
      /\ symBus' = Sym895!XferDone(u, symMedium, symBus).phase
  BY <1>2 DEF Sym895!MoveUnits
<1>5. symTarget' = u /\ symMedium' = symMedium /\ symBus' = "msgIn"
  BY <1>3, <1>4
<1>1. UNCHANGED <<symMemory, symMoved>> /\ symResult' = symTarget.stat
  <2>1. Sym895!Units(symTarget, symBus, 1) = <<symTarget.stat>>  BY DEF Sym895!Units
  <2> QED  BY <2>1 DEF Sym895!MoveUnits
<1>6. DataTyped /\ BeforeCommand /\ Chosen /\ AtEnds  BY DEF Moving, DataInv
<1>7. symTarget.statLeft = 1 /\ symTarget.msgIn = 1 /\ Taken53 /\ symResult = -1
  BY <1>6 DEF AtEnds, BeforeCommand
<1>8. u \in Targets /\ u.cmd = symTarget.cmd /\ u.msgIn = 1 /\ symTarget.stat \in {0, 2}
  BY <1>6, <1>7 DEF DataTyped, Targets
<1> HIDE DEF u
<1>9. Taken53'  BY <1>5, <1>7, <1>8 DEF Taken53, Moving
<1>11. DiskGives' /\ DiskTakes'  BY <1>5 DEF DiskGives, DiskTakes
<1>12. MemoryIsAsked'  BY <1>1, <1>5 DEF MemoryIsAsked, Asked53, Moving, DataInv
<1>13. Written53' = Written53  BY <1>1, <1>5, <1>7 DEF Written53, Moving
<1>14. MediumIsWanted'  BY <1>5, <1>13 DEF MediumIsWanted, Moving, DataInv, Sym895!Word
<1> QED
  BY <1>1, <1>5, <1>6, <1>8, <1>9, <1>11, <1>12, <1>14, Moved53 DEF DataTyped

(* COMMAND: the disk has the command. *)
LEMMA CommandMoves ==
  ASSUME Moving, symBus = "command", NEW n, Sym895!MoveUnits(n)
  PROVE  DataInv'
<1> DEFINE u == [symTarget EXCEPT !.cmd = symJob.cmd]
           r == Sym895!DoCommand(u, symMedium)
<1>1. UNCHANGED <<symMemory, symResult, symMoved>>  BY BuffersKept
<1>2. Sym895!Taken(symTarget, symBus, Sym895!Source(n)) = u
  <2>1. Sym895!Source(n) = <<symJob.cmd>>  BY DEF Sym895!Source
  <2>2. Sym895!Source(n)[1] = symJob.cmd  BY <2>1
  <2> QED  BY <2>2 DEF Sym895!Taken
<1>3. Sym895!XferDone(u, symMedium, symBus)
        = [t |-> r.t, medium |-> r.medium, phase |-> Sym895!AfterCommand(r)]
  BY DEF Sym895!XferDone
<1>4. /\ symTarget' = Sym895!XferDone(u, symMedium, symBus).t
      /\ symMedium' = Sym895!XferDone(u, symMedium, symBus).medium
      /\ symBus' = Sym895!XferDone(u, symMedium, symBus).phase
  BY <1>2 DEF Sym895!MoveUnits
<1> HIDE DEF r
<1>5. symTarget' = r.t /\ symMedium' = r.medium /\ symBus' = Sym895!AfterCommand(r)  BY <1>3, <1>4
<1>6. DataTyped /\ BeforeCommand /\ Chosen /\ MediumIsWanted  BY DEF Moving, DataInv
<1>7. Untouched /\ symTarget.in = <<>> /\ symTarget.out = <<>>  BY <1>6 DEF BeforeCommand
<1>8. /\ symJob.cmd.op \in Operations
      /\ symJob.cmd.op \in {"read", "write"} => symJob.cmd.n > 0
      /\ symJob.cmd \in [op : Operations \cup {"none"}, lba : Nat, n : Nat]
  BY <1>6 DEF DataTyped, Chosen, Jobs53
<1>9. u \in Targets /\ u.cmd = symJob.cmd /\ u.in = <<>> /\ u.out = <<>>
  BY <1>6, <1>7, <1>8 DEF DataTyped, Targets
<1> HIDE DEF u
<1>10. CommandTaken(r, u, symMedium)
  <2>1. u.cmd.op \in Operations /\ (u.cmd.op \in {"read", "write"} => u.cmd.n > 0)  BY <1>8, <1>9
  <2>2. symMedium \in [0 .. 3 -> Int]  BY <1>6 DEF DataTyped
  <2>3. CommandTaken(Sym895!DoCommand(u, symMedium), u, symMedium)  BY <1>9, <2>1, <2>2, CommandDone
  <2> QED  BY <2>3 DEF r
<1>11. symTarget' \in Targets /\ symTarget'.cmd = symJob.cmd /\ symMedium' = symMedium
  BY <1>5, <1>9, <1>10 DEF CommandTaken
<1>12. Taken53' /\ symMemory' = <<>> /\ symMoved' = 0 /\ symResult' = -1
  BY <1>1, <1>7, <1>11 DEF Taken53, Untouched, Moving
<1>13. ~Written53  BY <1>7 DEF Written53, Untouched
<1>14. symMedium = symWants  BY <1>6, <1>13 DEF MediumIsWanted
<1>15. CASE ~r.more /\ GivesData(r.t, u, symMedium)
  <2>1. symBus' = "dataIn"  BY <1>5, <1>15 DEF Sym895!AfterCommand, GivesData
  <2>2. symTarget'.in \in Seq(Int) /\ symTarget'.in # <<>> /\ symTarget'.read = 0
        /\ symTarget'.statLeft = 1 /\ symTarget'.msgIn = 1
    BY <1>5, <1>11, <1>15 DEF GivesData, Targets
  <2>3. Len(symMemory') = 0 /\ Len(symTarget'.in) > 0 /\ symMemory' = SubSeq(symTarget'.in, 1, 0)
    BY <1>12, <2>2
  <2>4. symJob.cmd.op \notin {"write", "modeSelect"}  BY <1>9, <1>15 DEF GivesData
  <2>5. symJob.cmd.op = "read" => symTarget'.in = Asked53'
    BY <1>5, <1>9, <1>14, <1>15 DEF GivesData, Asked53, Moving
  <2>6. DiskGives'  BY <2>2, <2>3, <2>4, <2>5 DEF DiskGives, Moving
  <2>7. DiskTakes' /\ MemoryIsAsked'  BY <1>12, <2>1 DEF DiskTakes, MemoryIsAsked
  <2>8. MediumIsWanted'  BY <1>11, <1>12, <1>14, <2>1 DEF MediumIsWanted, Written53, Moving
  <2> QED  BY <1>6, <1>1, <1>11, <1>12, <2>1, <2>2, <2>6, <2>7, <2>8, Moved53 DEF DataTyped
<1>16. CASE r.more /\ AsksForData(r.t, u)
  <2>1. symBus' = "dataOut"  BY <1>5, <1>16 DEF Sym895!AfterCommand
  <2>2. symTarget'.in = <<>> /\ Len(symTarget'.out) = 0 /\ symTarget'.expected > 0
    BY <1>5, <1>16 DEF AsksForData
  <2>3. /\ symJob.cmd.op \in {"write", "modeSelect"}
        /\ symJob.cmd.op = "write" => /\ symTarget'.expected = symJob.cmd.n
                                      /\ Sym895!InRange(symJob.cmd) /\ symJob.cmd.n <= 3
    BY <1>5, <1>9, <1>16 DEF AsksForData
  <2>4. DiskTakes'
    BY <1>12, <2>2, <2>3 DEF DiskTakes, Moving, Sym895!InRange
  <2>5. DiskGives' /\ MemoryIsAsked'  BY <1>12, <2>1 DEF DiskGives, MemoryIsAsked
  <2>6. MediumIsWanted'  BY <1>11, <1>12, <1>14, <2>1 DEF MediumIsWanted, Written53, Moving
  <2> QED  BY <1>6, <1>1, <1>11, <1>12, <2>1, <2>4, <2>5, <2>6, Moved53 DEF DataTyped
<1>17. CASE ~r.more /\ IsDone(r.t, u)
  <2>1. symBus' = "status"  BY <1>5, <1>17 DEF Sym895!AfterCommand, IsDone
  <2>2. symTarget'.statLeft = 1 /\ symTarget'.msgIn = 1
        /\ (symJob.cmd.op \in {"read", "write"} => symTarget'.stat = 2)
    BY <1>5, <1>9, <1>17 DEF IsDone
  <2>3. DiskGives' /\ DiskTakes'  BY <2>1 DEF DiskGives, DiskTakes
  <2>4. MemoryIsAsked'  BY <1>12, <2>2 DEF MemoryIsAsked, Moving
  <2>5. MediumIsWanted'  BY <1>11, <1>12, <1>14, <2>2 DEF MediumIsWanted, Written53, Moving
  <2> QED  BY <1>6, <1>1, <1>11, <1>12, <2>1, <2>2, <2>3, <2>4, <2>5, Moved53 DEF DataTyped
<1> QED  BY <1>10, <1>15, <1>16, <1>17 DEF CommandTaken

(* DATA IN: the driver has the next units of what the disk gives. *)
LEMMA DataInMoves ==
  ASSUME Moving, symBus = "dataIn", NEW n \in Nat, n > 0, n <= Len(symTarget.in) - symTarget.read,
         Sym895!MoveUnits(n)
  PROVE  DataInv'
<1> DEFINE k == symTarget.read + n
           u == [symTarget EXCEPT !.read = k]
           s == symTarget.in
<1>1. Sym895!Given(symTarget, symBus, n) = u  BY DEF Sym895!Given
<1>2. Sym895!XferDone(u, symMedium, symBus)
        = [t |-> u, medium |-> symMedium, phase |-> IF u.read < Len(u.in) THEN "dataIn" ELSE "status"]
  BY DEF Sym895!XferDone
<1>3. /\ symTarget' = Sym895!XferDone(u, symMedium, symBus).t
      /\ symMedium' = Sym895!XferDone(u, symMedium, symBus).medium
      /\ symBus' = Sym895!XferDone(u, symMedium, symBus).phase
  BY <1>1 DEF Sym895!MoveUnits
<1>4. /\ symMemory' = symMemory \o SubSeq(s, symTarget.read + 1, k)
      /\ symMoved' = symMoved + n /\ symResult' = symResult
  BY DEF Sym895!MoveUnits, Sym895!Units
<1>5. DataTyped /\ BeforeCommand /\ Chosen /\ DiskGives /\ MediumIsWanted  BY DEF Moving, DataInv
<1>6. /\ symTarget \in Targets /\ s \in Seq(Int) /\ symTarget.read \in Nat /\ symMoved \in Nat
      /\ symMemory \in Seq(Int)
  BY <1>5 DEF DataTyped, Targets
<1>7. Taken53 /\ symResult = -1  BY <1>5 DEF BeforeCommand
<1>8. /\ symJob.cmd.op \notin {"write", "modeSelect"} /\ symTarget.statLeft = 1 /\ symTarget.msgIn = 1
      /\ symTarget.read = Len(symMemory) /\ symTarget.read < Len(s)
      /\ symMemory = SubSeq(s, 1, symTarget.read)
      /\ symJob.cmd.op = "read" => s = Asked53
  BY <1>5 DEF DiskGives
<1>9. u \in Targets /\ u.cmd = symTarget.cmd /\ u.in = s /\ u.read = k /\ u.statLeft = 1 /\ u.msgIn = 1
  <2>1. k \in Nat  BY <1>6
  <2> HIDE DEF k
  <2> QED  BY <1>6, <1>8, <2>1 DEF Targets
<1> HIDE DEF u
<1>10. symTarget' = u /\ symMedium' = symMedium /\ symBus' = IF k < Len(s) THEN "dataIn" ELSE "status"
  BY <1>2, <1>3, <1>9
<1>11. k \in Nat /\ k <= Len(s)  BY SMTT(60), <1>6
<1>12. symMemory' = SubSeq(s, 1, k) /\ Len(symMemory') = k /\ symMemory' \in Seq(Int)
  <2> DEFINE a == symTarget.read
  <2>1. a \in Nat /\ a <= k /\ s \in Seq(Int) /\ k <= Len(s) /\ k \in Nat  BY <1>6, <1>11
  <2>2. symMemory' = SubSeq(s, 1, a) \o SubSeq(s, a + 1, k)  BY <1>4, <1>8
  <2> HIDE DEF k, s, a
  <2> QED  BY SMTT(60), <2>1, <2>2
<1>13. Taken53' /\ symResult' = -1 /\ symMoved' \in Nat
  BY <1>4, <1>6, <1>7, <1>9, <1>10 DEF Taken53, Moving
<1>14. Asked53' = Asked53  BY DEF Asked53, Moving
<1>15. DiskTakes'  BY <1>10 DEF DiskTakes
<1>16. DiskGives'
  <2> SUFFICES ASSUME symBus' = "dataIn" PROVE DiskGives'  BY DEF DiskGives
  <2>1. k < Len(s)  BY <1>10
  <2> QED  BY <1>8, <1>9, <1>10, <1>12, <1>14, <2>1 DEF DiskGives, Moving
<1>17. MemoryIsAsked'
  <2> SUFFICES ASSUME symJob.cmd.op = "read", symBus' = "status" PROVE symMemory' = Asked53
    BY <1>13, <1>14 DEF MemoryIsAsked, Moving
  <2>1. k = Len(s)  BY <1>6, <1>10, <1>11
  <2>2. symMemory' = s  BY <1>6, <1>12, <2>1
  <2> QED  BY <1>8, <2>2
<1>18. ~Written53 /\ ~Written53'  BY <1>8 DEF Written53, Moving
<1>19. MediumIsWanted'  BY <1>5, <1>10, <1>18 DEF MediumIsWanted, Moving
<1>20. symBus' \in {"dataIn", "status"}  BY <1>10
<1> QED  BY <1>5, <1>9, <1>10, <1>12, <1>13, <1>15, <1>16, <1>17, <1>19, <1>20, Moved53 DEF DataTyped

(* What a concatenation holds. *)
LEMMA Joined ==
  ASSUME NEW a \in Seq(Int), NEW b \in Seq(Int)
  PROVE  /\ a \o b \in Seq(Int) /\ Len(a \o b) = Len(a) + Len(b)
         /\ \A i \in 1 .. Len(a) : (a \o b)[i] = a[i]
         /\ \A i \in 1 .. Len(b) : (a \o b)[Len(a) + i] = b[i]
  OBVIOUS

(* DATA OUT: the disk has the next units of what the driver writes, and when *)
(* it has all of them they are on the medium. *)
LEMMA DataOutMoves ==
  ASSUME Moving, symBus = "dataOut", NEW n \in Nat, n > 0, n <= symTarget.expected - Len(symTarget.out),
         Sym895!MoveUnits(n)
  PROVE  DataInv'
<1> DEFINE s == [i \in 1 .. n |-> Sym895!Word(symMoved + i)]
           o == symTarget.out \o s
           u == [symTarget EXCEPT !.out = o]
           r == Sym895!DoCommand(u, symMedium)
<1>1. Sym895!Taken(symTarget, symBus, Sym895!Source(n)) = u  BY DEF Sym895!Taken, Sym895!Source
<1>2. IF Len(u.out) < u.expected
      THEN Sym895!XferDone(u, symMedium, symBus) = [t |-> u, medium |-> symMedium, phase |-> "dataOut"]
      ELSE Sym895!XferDone(u, symMedium, symBus)
             = [t |-> r.t, medium |-> r.medium, phase |-> Sym895!AfterCommand(r)]
  BY DEF Sym895!XferDone
<1>3. /\ symTarget' = Sym895!XferDone(u, symMedium, symBus).t
      /\ symMedium' = Sym895!XferDone(u, symMedium, symBus).medium
      /\ symBus' = Sym895!XferDone(u, symMedium, symBus).phase
  BY <1>1 DEF Sym895!MoveUnits
<1>4. symMemory' = symMemory /\ symMoved' = symMoved + n /\ symResult' = symResult
  BY DEF Sym895!MoveUnits
<1>5. DataTyped /\ BeforeCommand /\ Chosen /\ DiskTakes /\ MediumIsWanted  BY DEF Moving, DataInv
<1>6. /\ symTarget \in Targets /\ symTarget.out \in Seq(Int) /\ symMoved \in Nat /\ symJob.no \in Nat
      /\ symTarget.expected \in Nat
  BY <1>5 DEF DataTyped, Targets, Jobs53
<1>7. Taken53 /\ symResult = -1  BY <1>5 DEF BeforeCommand
<1>8. /\ symJob.cmd.op \in {"write", "modeSelect"} /\ symTarget.in = <<>>
      /\ symMoved = Len(symTarget.out)
      /\ symJob.cmd.op = "write" =>
           /\ symTarget.expected = symJob.cmd.n /\ Sym895!InRange(symJob.cmd) /\ symJob.cmd.n <= 3
           /\ \A i \in 1 .. symMoved : symTarget.out[i] = Sym895!Word(i)
  BY <1>5 DEF DiskTakes
<1>9. s \in Seq(Int) /\ Len(s) = n /\ \A i \in 1 .. n : s[i] = Sym895!Word(symMoved + i)
  <2>1. \A i \in 1 .. n : Sym895!Word(symMoved + i) \in Int  BY <1>6 DEF Sym895!Word
  <2>2. s \in [1 .. n -> Int] /\ \A i \in 1 .. n : s[i] = Sym895!Word(symMoved + i)  BY <2>1
  <2> HIDE DEF s
  <2> QED  BY <2>2
<1> HIDE DEF s
<1>10. /\ o \in Seq(Int) /\ Len(o) = symMoved + n
       /\ symJob.cmd.op = "write" => \A i \in 1 .. symMoved + n : o[i] = Sym895!Word(i)
  <2>0. /\ o \in Seq(Int) /\ Len(o) = symMoved + n
        /\ \A i \in 1 .. symMoved : o[i] = symTarget.out[i]
        /\ \A i \in 1 .. n : o[symMoved + i] = s[i]
    <3>1. symTarget.out \in Seq(Int) /\ s \in Seq(Int) /\ Len(symTarget.out) = symMoved /\ Len(s) = n
      BY <1>6, <1>8, <1>9
    <3> QED  BY <3>1, Joined
  <2> HIDE DEF o
  <2>1. o \in Seq(Int) /\ Len(o) = symMoved + n  BY <2>0
  <2>2. ASSUME symJob.cmd.op = "write", NEW i \in 1 .. symMoved + n PROVE o[i] = Sym895!Word(i)
    <3>1. CASE i <= symMoved
      <4>1. i \in 1 .. symMoved  BY <1>6, <3>1
      <4> QED  BY <1>8, <2>0, <2>2, <4>1
    <3>2. CASE i > symMoved
      <4>1. i - symMoved \in 1 .. n /\ symMoved + (i - symMoved) = i  BY <1>6, <3>2
      <4> QED  BY <1>9, <2>0, <4>1
    <3> QED  BY <1>6, <3>1, <3>2
  <2> QED  BY <2>1, <2>2
<1> HIDE DEF o
<1>11. /\ u \in Targets /\ u.cmd = symJob.cmd /\ u.in = <<>> /\ u.out = o
       /\ u.expected = symTarget.expected
  BY <1>6, <1>7, <1>8, <1>10 DEF Targets, Taken53
<1> HIDE DEF u, r
<1>12. symMoved + n <= symTarget.expected  BY <1>6, <1>8
<1>13. symMemory' \in Seq(Int) /\ symMoved' \in Nat /\ symResult' = -1
  BY <1>4, <1>5, <1>6, <1>7 DEF DataTyped
<1>14. CASE symMoved + n < symTarget.expected
  <2>1. symTarget' = u /\ symMedium' = symMedium /\ symBus' = "dataOut"
    BY <1>2, <1>3, <1>10, <1>11, <1>14
  <2>2. Taken53'  BY <1>11, <2>1 DEF Taken53, Moving
  <2>3. DiskTakes'
    <3>1. \A i : Sym895!Word(i)' = Sym895!Word(i)  BY DEF Sym895!Word, Moving
    <3>2. Sym895!InRange(symJob.cmd)' <=> Sym895!InRange(symJob.cmd)  BY DEF Sym895!InRange, Moving
    <3> QED  BY <1>4, <1>8, <1>10, <1>11, <1>14, <2>1, <3>1, <3>2 DEF DiskTakes, Moving
  <2>4. DiskGives' /\ MemoryIsAsked'  BY <1>13, <2>1 DEF DiskGives, MemoryIsAsked
  <2>5. ~Written53 /\ ~Written53'  BY <1>7, <1>13, <2>1 DEF Written53
  <2>6. MediumIsWanted'  BY <1>5, <2>1, <2>5 DEF MediumIsWanted, Moving
  <2> QED  BY <1>5, <1>11, <1>13, <2>1, <2>2, <2>3, <2>4, <2>6, Moved53 DEF DataTyped
<1>15. CASE symMoved + n = symTarget.expected
  <2>1. symTarget' = r.t /\ symMedium' = r.medium /\ symBus' = Sym895!AfterCommand(r)
    BY <1>2, <1>3, <1>6, <1>10, <1>11, <1>15
  <2>2. symMedium \in [0 .. 3 -> Int]  BY <1>5 DEF DataTyped
  <2>3. DataDoneFor(r, u, symMedium)
    <3>1. Len(u.out) = u.expected /\ u.expected > 0  BY <1>6, <1>10, <1>11, <1>15
    <3>2. /\ u.cmd.op \in {"write", "modeSelect"}
          /\ u.cmd.op = "write" => u.expected = u.cmd.n /\ Sym895!InRange(u.cmd) /\ u.cmd.n <= 3
      BY <1>8, <1>11
    <3>3. DataDoneFor(Sym895!DoCommand(u, symMedium), u, symMedium)
      BY <1>11, <2>2, <3>1, <3>2, DataDone
    <3> QED  BY <3>3 DEF r
  <2>4. symBus' = "status"  BY <2>1, <2>3 DEF DataDoneFor, Sym895!AfterCommand
  <2>5. /\ symTarget' \in Targets /\ symTarget'.cmd = symJob.cmd /\ symTarget'.statLeft = 1
        /\ symTarget'.msgIn = 1 /\ symTarget'.stat = 0
    BY <1>11, <2>1, <2>3 DEF DataDoneFor
  <2>6. Taken53'  BY <2>5 DEF Taken53, Moving
  <2>7. DiskGives' /\ DiskTakes' /\ MemoryIsAsked'
    BY <1>8, <1>13, <2>4 DEF DiskGives, DiskTakes, MemoryIsAsked, Moving
  <2>8. ~Written53 /\ symMedium = symWants  BY <1>5, <1>7 DEF Written53, MediumIsWanted
  <2>9. Written53' <=> symJob.cmd.op = "write"  BY <2>4, <2>5 DEF Written53, Moving, Chosen
  <2> DEFINE lba == symJob.cmd.lba
             c == symJob.cmd.n
             x == [l \in 0 .. 3 |-> IF l \in lba .. lba + c - 1 THEN o[l - lba + 1] ELSE symMedium[l]]
             y == [l \in 0 .. 3 |-> IF l \in lba .. lba + c - 1 THEN Sym895!Word(l - lba + 1) ELSE symWants[l]]
  <2>10. symMedium' = IF symJob.cmd.op = "write" THEN x ELSE symMedium
    BY <1>11, <2>1, <2>3 DEF DataDoneFor
  <2>11. symJob.cmd.op = "write" => x = y
    <3> SUFFICES ASSUME symJob.cmd.op = "write" PROVE x = y  OBVIOUS
    <3>1. lba \in Nat /\ c \in Nat  BY <1>5 DEF DataTyped, Jobs53
    <3>2. symMoved + n = c  BY <1>8, <1>15
    <3> HIDE DEF lba, c
    <3>3. ASSUME NEW l \in 0 .. 3, l \in lba .. lba + c - 1 PROVE o[l - lba + 1] = Sym895!Word(l - lba + 1)
      <4>1. l - lba + 1 \in 1 .. c  BY <3>1, <3>3
      <4> QED  BY <1>10, <3>2, <4>1
    <3> QED  BY <2>8, <3>3
  <2>12. symMedium' \in [0 .. 3 -> Int]
    <3>1. symJob.no \in Nat /\ lba \in Nat  BY <1>5 DEF DataTyped, Jobs53
    <3>2. \A l \in 0 .. 3 : Sym895!Word(l - lba + 1) \in Int  BY SMTT(60), <3>1 DEF Sym895!Word
    <3>3. symWants \in [0 .. 3 -> Int]  BY <1>5 DEF DataTyped
    <3> HIDE DEF lba, c
    <3>4. y \in [0 .. 3 -> Int]  BY <3>2, <3>3
    <3> QED  BY <2>2, <2>10, <2>11, <3>4
  <2>13. MediumIsWanted'
    <3>3. symJob.cmd.op = "write" => symMedium' = y  BY <2>10, <2>11
    <3>4. symJob.cmd.op # "write" => symMedium' = symWants  BY <2>8, <2>10
    <3> QED  BY <2>9, <3>3, <3>4 DEF MediumIsWanted, Moving, Sym895!Word
  <2> QED  BY <1>13, <2>4, <2>5, <2>6, <2>7, <2>12, <2>13, Moved53
<1> QED  BY <1>6, <1>12, <1>14, <1>15

(* A block move of as much as the count says and the disk expects. *)
LEMMA UnitsMove ==
  ASSUME Moving, Place(symDsp), DriverScript[symDsp].op = "move", symBus = DriverScript[symDsp].phase,
         Sym895!Count > 0, Sym895!MoveUnits(Sym895!Lower(Sym895!Count, Sym895!Left(symTarget, symBus)))
  PROVE  DataInv'
<1> DEFINE count == Sym895!Count
           left == Sym895!Left(symTarget, symBus)
           n == Sym895!Lower(count, left)
<1>1. symBus \in TransferPhases /\ (symBus \in {"dataIn", "dataOut"} => DriverScript[symDsp].seg \in {1, 2})
  BY DEF Place
<1>2. DataTyped /\ BeforeCommand /\ AtEnds /\ DiskGives /\ DiskTakes /\ Chosen  BY DEF Moving, DataInv
<1>3. count \in Nat
  <2>1. Sym895!Count = IF symBus \in {"dataIn", "dataOut"} THEN symJob.segs[DriverScript[symDsp].seg] ELSE 1
    BY DEF Sym895!Count, Sym895!Instr
  <2>2. symJob.segs \in Seq(Nat) /\ Len(symJob.segs) = 2  BY <1>2 DEF DataTyped, Chosen, Jobs53
  <2>3. \A i \in {1, 2} : symJob.segs[i] \in Nat  BY <2>2
  <2> QED  BY <1>1, <2>1, <2>3
<1>4. symBus \in {"status", "msgIn"} => count = 1  BY DEF Sym895!Count, Sym895!Instr
<1>5. count > 0 /\ Sym895!MoveUnits(n)  OBVIOUS
<1>6. n = IF count < left THEN count ELSE left  BY DEF Sym895!Lower
<1> HIDE DEF n, count
<1>7. CASE symBus = "msgOut"  BY <1>5, <1>7, MsgOutMoves
<1>8. CASE symBus = "command"  BY <1>5, <1>8, CommandMoves
<1>9. CASE symBus = "msgIn"
  <2>1. left = 1
    <3>1. symTarget.msgIn = 1  BY <1>2, <1>9 DEF BeforeCommand
    <3> QED  BY <1>9, <3>1 DEF Sym895!Left
  <2>2. n = 1  BY <1>4, <1>6, <1>9, <2>1
  <2> QED  BY <1>5, <1>9, <2>2, MsgInMoves
<1>10. CASE symBus = "status"
  <2>1. left = 1
    <3>1. symTarget.statLeft = 1  BY <1>2, <1>10 DEF AtEnds
    <3> QED  BY <1>10, <3>1 DEF Sym895!Left
  <2>2. n = 1  BY <1>4, <1>6, <1>10, <2>1
  <2> QED  BY <1>5, <1>10, <2>2, StatusMoves
<1>11. CASE symBus = "dataIn"
  <2>1. left = Len(symTarget.in) - symTarget.read  BY <1>11 DEF Sym895!Left
  <2>2. symTarget.in \in Seq(Int) /\ symTarget.read \in Nat  BY <1>2 DEF DataTyped, Targets
  <2>3. symTarget.read < Len(symTarget.in)  BY <1>2, <1>11 DEF DiskGives
  <2> HIDE DEF left
  <2>4. n \in Nat /\ n > 0 /\ n <= Len(symTarget.in) - symTarget.read
    BY <1>3, <1>5, <1>6, <2>1, <2>2, <2>3
  <2> QED  BY <1>5, <1>11, <2>4, DataInMoves
<1>12. CASE symBus = "dataOut"
  <2>1. left = symTarget.expected - Len(symTarget.out)  BY <1>12 DEF Sym895!Left
  <2>2. symTarget.out \in Seq(Int) /\ symTarget.expected \in Nat  BY <1>2 DEF DataTyped, Targets
  <2>3. Len(symTarget.out) < symTarget.expected  BY <1>2, <1>12 DEF DiskTakes
  <2> HIDE DEF left
  <2>4. n \in Nat /\ n > 0 /\ n <= symTarget.expected - Len(symTarget.out)
    BY <1>3, <1>5, <1>6, <2>1, <2>2, <2>3
  <2> QED  BY <1>5, <1>12, <2>4, DataOutMoves
<1> QED  BY <1>1, <1>7, <1>8, <1>9, <1>10, <1>11, <1>12 DEF TransferPhases

(* A block move: the two controllers differ in what they raise when it moves *)
(* too little or nothing. *)
MovesUnits ==
  /\ symBus = DriverScript[symDsp].phase /\ Sym895!Count > 0
  /\ Sym895!MoveUnits(Sym895!Lower(Sym895!Count, Sym895!Left(symTarget, symBus)))
  /\ Sym895!Quiet \/ Sym895!RaiseBit("MA")
MovesNothing ==
  /\ UNCHANGED <<symTarget, symMedium, symBus, symMemory, symResult, symMoved>>
  /\ \/ symBus = DriverScript[symDsp].phase /\ Sym895!Count = 0 /\ Sym895!RaiseBit("IID")
     \/ Sym895!Quiet \/ Sym895!RaiseBit("MA")

(* Either keeps what is known of the data. *)
LEMMA BlockMoves ==
  ASSUME ScriptsInv, DataInv, symExecuting, DriverScript[symDsp].op = "move", Sym895!Next1, Sym895!Rest,
         MovesUnits \/ MovesNothing
  PROVE  DataInv'
<1>1. Place(symDsp)  BY Places DEF ScriptsInv, SymTyped
<1>2. symDsp \in 4 .. 20  BY <1>1 DEF Place
<1>3. symDsp' \in 5 .. 21  BY <1>2 DEF Sym895!Next1, Sym895!Go
<1>4. UNCHANGED <<symCpu, symSeen, symJob, symWants>>  BY DEF Sym895!Rest, Sym895!driver
<1>5. symCpu = "issued" /\ ~Flown /\ Raised = {}  BY <1>2, Executes
<1>6. Chosen  BY <1>2, <1>5 DEF Chosen
<1>7. Sym895!Quiet => ~Flown' /\ Raised' = {}
  BY <1>4, <1>5 DEF Sym895!Quiet, Sym895!interrupts, Flown, Raised
<1>8. ASSUME NEW bit \in {"MA", "IID"}, Sym895!RaiseBit(bit) PROVE ~Flown' /\ Raised' \subseteq {bit}
  <2>1. RaisesTo(bit)  BY <1>8, RaiseEffect DEF ScriptsInv
  <2> QED  BY <1>4, <1>5, <1>8, <2>1 DEF RaisesTo, Raised, Flown, ScriptsInv, SymTyped
<1>9. CASE MovesUnits
  <2>1. ~Flown' /\ Raised' \cap {"SIR", "STO", "IID"} = {}  BY <1>7, <1>8, <1>9 DEF MovesUnits
  <2>2. Moving  BY <1>3, <1>4, <1>6, <2>1 DEF Moving
  <2> QED  BY <1>1, <1>9, <2>2, UnitsMove DEF MovesUnits
<1>10. CASE MovesNothing
  <2>1. Untransferred  BY <1>4, <1>10 DEF MovesNothing, Untransferred
  <2>2. symBus = DriverScript[symDsp].phase /\ Sym895!Count = 0 => symBus # "status"
    BY DEF Sym895!Count, Sym895!Instr
  <2>3. ~Flown' /\ ((Raised \cap {"SIR", "STO", "IID"} # {})' => symBus # "status")
    BY <1>7, <1>8, <1>10, <2>2 DEF MovesNothing
  <2>4. Chosen' /\ ~NotChosen'  BY <1>3, <1>4, <1>5 DEF Chosen, NotChosen
  <2> QED  BY <1>3, <1>4, <1>5, <1>6, <2>1, <2>3, <2>4, DataSame
<1> QED  BY <1>9, <1>10

(* A block move of the 895 is one of these. *)
LEMMA Move895Data == ASSUME ScriptsInv, DataInv, ~symOverran', Sym895!BlockMove895 PROVE DataInv'
<1>1. symExecuting /\ DriverScript[symDsp].op = "move" /\ Sym895!Next1 /\ Sym895!Rest
  BY Runs DEF Sym895!BlockMove895, Sym895!At, Sym895!Instr
<1>2. MovesUnits \/ MovesNothing
  BY DEF Sym895!BlockMove895, Sym895!Instr, Sym895!scsi, Sym895!buffers, MovesUnits, MovesNothing
<1> QED  BY <1>1, <1>2, BlockMoves

(* What the 810 moves the 895 moves. *)
LEMMA Units810 ==
  /\ Sym810!Count = Sym895!Count
  /\ Sym810!Lower(Sym810!Count, Sym810!Left(symTarget, symBus))
       = Sym895!Lower(Sym895!Count, Sym895!Left(symTarget, symBus))
  /\ \A n : Sym810!MoveUnits(n) => Sym895!MoveUnits(n)
<1>1. Sym810!Count = Sym895!Count  BY DEF Sym810!Count, Sym895!Count, Sym810!Instr, Sym895!Instr
<1>2. Sym810!Left(symTarget, symBus) = Sym895!Left(symTarget, symBus)
  BY DEF Sym810!Left, Sym895!Left, Sym810!Many, Sym895!Many
<1>3. \A a, b : Sym810!Lower(a, b) = Sym895!Lower(a, b)  BY DEF Sym810!Lower, Sym895!Lower
<1>4. ASSUME NEW n, Sym810!MoveUnits(n) PROVE Sym895!MoveUnits(n)
  <2>1. \A t, m : Sym810!DoCommand(t, m) = Sym895!DoCommand(t, m)
    BY DEF Sym810!DoCommand, Sym895!DoCommand, Sym810!Write, Sym895!Write, Sym810!ModeSelect, Sym895!ModeSelect,
      Sym810!Read, Sym895!Read, Sym810!RequestSense, Sym895!RequestSense, Sym810!Inquiry, Sym895!Inquiry,
      Sym810!ReadCapacity, Sym895!ReadCapacity, Sym810!Illegal, Sym895!Illegal, Sym810!Finish, Sym895!Finish,
      Sym810!Answer, Sym895!Answer, Sym810!Result, Sym895!Result, Sym810!Complete, Sym895!Complete,
      Sym810!InRange, Sym895!InRange, Sym810!Sense, Sym895!Sense
  <2>6. \A r : Sym810!AfterCommand(r) = Sym895!AfterCommand(r)  BY DEF Sym810!AfterCommand, Sym895!AfterCommand
  <2>7. \A t : Sym810!DoMessage(t) = Sym895!DoMessage(t)  BY Zenon DEF Sym810!DoMessage, Sym895!DoMessage
  <2>8. Sym810!NoCommand = Sym895!NoCommand  BY DEF Sym810!NoCommand, Sym895!NoCommand
  <2>2. ASSUME NEW t, NEW m, NEW p PROVE Sym810!XferDone(t, m, p) = Sym895!XferDone(t, m, p)
    <3>1. Sym810!DoCommand(t, m) = Sym895!DoCommand(t, m)  BY <2>1
    <3>2. Sym810!AfterCommand(Sym810!DoCommand(t, m)) = Sym895!AfterCommand(Sym895!DoCommand(t, m))
      BY <2>6, <3>1
    <3>3. Sym810!DoMessage(t) = Sym895!DoMessage(t)  BY <2>7
    <3> QED  BY <2>8, <3>1, <3>2, <3>3 DEF Sym810!XferDone, Sym895!XferDone
  <2>3. Sym810!Source(n) = Sym895!Source(n)
    BY DEF Sym810!Source, Sym895!Source, Sym810!Word, Sym895!Word
  <2>4. \A t, p, u : Sym810!Taken(t, p, u) = Sym895!Taken(t, p, u)  BY DEF Sym810!Taken, Sym895!Taken
  <2>5. /\ Sym810!Given(symTarget, symBus, n) = Sym895!Given(symTarget, symBus, n)
        /\ Sym810!Units(symTarget, symBus, n) = Sym895!Units(symTarget, symBus, n)
    BY DEF Sym810!Given, Sym895!Given, Sym810!Units, Sym895!Units
  <2> QED  BY <1>4, <2>2, <2>3, <2>4, <2>5 DEF Sym810!MoveUnits, Sym895!MoveUnits
<1> QED  BY SMTT(60), <1>1, <1>2, <1>3, <1>4

(* A block move of the 810 is one of these. *)
LEMMA Move810Data == ASSUME ScriptsInv, DataInv, ~symOverran', Sym810!BlockMove810 PROVE DataInv'
<1>1. symExecuting /\ DriverScript[symDsp].op = "move" /\ Sym895!Next1 /\ Sym895!Rest
  BY DEF Sym810!BlockMove810, Sym810!At, Sym810!Instr, Sym810!Next1, Sym810!Go, Sym810!Rest, Sym810!driver,
    Sym895!Next1, Sym895!Go, Sym895!Rest, Sym895!driver
<1>2. (Sym810!RaiseBit("MA") => Sym895!RaiseBit("MA")) /\ (Sym810!RaiseBit("IID") => Sym895!RaiseBit("IID"))
      /\ (Sym810!Quiet => Sym895!Quiet)
  BY Raise810 DEF Sym810!Quiet, Sym895!Quiet, Sym810!interrupts, Sym895!interrupts
<1>3. MovesUnits \/ MovesNothing
  BY <1>2, Units810
    DEF Sym810!BlockMove810, Sym810!Instr, Sym810!scsi, Sym810!buffers, MovesUnits, MovesNothing
<1> QED  BY <1>1, <1>3, BlockMoves

(* Each step of the 895 keeps what is known of the data. *)
LEMMA Data895 == ASSUME ScriptsInv, Settled', ScriptsInv', DataInv, Sym895!Next PROVE DataInv'
<1> USE DEF Settled
<1>1. ~Sym895!BlockMove810  BY DEF Sym895!BlockMove810
<1>2. CASE Sym895!Thread
  BY <1>1, <1>2, SelectData, TimeoutData, Move895Data, QuietData, InterruptData, WaitData DEF Sym895!Thread
<1>3. CASE Sym895!Cpu  BY <1>3, StartData, WaitData, ActData DEF Sym895!Cpu
<1>4. CASE Sym895!Issue  BY <1>4, SignalData DEF Sym895!Issue
<1>5. CASE Sym895!Expire  BY <1>5, WaitData
<1> QED  BY <1>2, <1>3, <1>4, <1>5 DEF Sym895!Next

(* Each step of the 810 does. *)
LEMMA Data810 == ASSUME ScriptsInv, Settled', ScriptsInv', DataInv, Sym810!Next PROVE DataInv'
<1> USE DEF Settled
<1>1. CASE Sym810!BlockMove810  BY <1>1, Move810Data
<1>2. CASE Sym810!Thread /\ ~Sym810!BlockMove810  BY <1>2, ThreadOf810, Data895 DEF Sym895!Next
<1>3. CASE Sym810!Cpu \/ Sym810!Issue \/ Sym810!Expire  BY <1>3, CpuOf810, Data895 DEF Sym895!Next
<1> QED  BY <1>1, <1>2, <1>3 DEF Sym810!Next

(* It holds of a controller out of reset. *)
LEMMA DataStart == ASSUME StorageInit PROVE DataInv
<1>1. /\ symCpu = "start" /\ symBus = "free" /\ symResult = -1 /\ symMoved = 0 /\ symMemory = <<>>
      /\ symJob = Sym895!NoJob /\ symTarget = Sym895!Cleared(0)
      /\ symSist = {} /\ symDstat = {"DFE"} /\ symSeen = {} /\ symIstat = {}
      /\ symMedium = [l \in 0 .. 3 |-> -(l + 1)] /\ symWants = symMedium
  <2>1. 4 - 1 = 3  OBVIOUS
  <2> QED  BY <2>1 DEF StorageInit, Sym895!Init, Sym895!Sense
<1>2. symTarget \in Targets
  <2>1. <<>> \in Seq({"identify", "negotiate"}) /\ <<>> \in Seq(Int)  OBVIOUS
  <2> QED  BY <1>1, <2>1 DEF Sym895!Cleared, Sym895!NoCommand, Targets
<1>3. symJob \in Jobs53
  <2>1. <<>> \in Seq({"identify", "negotiate"}) /\ <<>> \in Seq(Nat)  OBVIOUS
  <2> QED  BY <1>1, <2>1 DEF Sym895!NoJob, Sym895!NoCommand, Jobs53
<1>4. symMemory \in Seq(Int)
  <2>1. <<>> \in Seq(Int)  OBVIOUS
  <2> QED  BY <1>1, <2>1
<1>5. symMedium \in [0 .. 3 -> Int]  BY <1>1
<1>6. DataTyped  BY <1>1, <1>2, <1>3, <1>4, <1>5 DEF DataTyped
<1>7. ~Chosen /\ ~NotChosen /\ Raised = {} /\ ~Flown  BY <1>1 DEF Chosen, NotChosen, Raised, Flown
<1>8. BeforeCommand /\ DiskGives /\ DiskTakes  BY <1>7 DEF BeforeCommand, DiskGives, DiskTakes
<1>9. AtEnds /\ MemoryIsAsked  BY <1>1, <1>7 DEF AtEnds, MemoryIsAsked
<1>10. MediumIsWanted  BY <1>1 DEF MediumIsWanted, Written53
<1> QED  BY <1>6, <1>8, <1>9, <1>10 DEF DataInv

(* The steps of the other controllers keep it. *)
LEMMA DataUnchanged == ASSUME DataInv, UNCHANGED symVars PROVE DataInv'
<1>1. Untransferred /\ UNCHANGED <<symCpu, symDsp, symDstat, symSist, symIstat, symSeen>>
  BY DEF symVars, Untransferred
<1>2. UNCHANGED <<Raised, Flown>>  BY <1>1 DEF Raised, Flown
<1>3. (Chosen' => Chosen) /\ (NotChosen' => NotChosen)  BY <1>1, <1>2 DEF Chosen, NotChosen
<1>4. AtEnds  BY DEF DataInv
<1> QED  BY <1>1, <1>2, <1>3, <1>4, DataSame DEF AtEnds

(* Wherever SCRIPTS, the disk and the driver are in a command, the memory *)
(* holds what the disk has given so far of what it read, the disk holds what *)
(* it has been given so far of what it is to write, and the medium holds what *)
(* the driver wants on it, but for a write that the disk has ended and the *)
(* driver has not (scsi_xfer_ptr_me(), scsi_xfer_done_me(), *)
(* do_scsi_command(), execute_bm_op()). *)
THEOREM ScriptsDataInductive == StorageSpec => [](Settled => DataInv)
<1> DEFINE Both == Settled => ScriptsInv /\ DataInv
<1>1. StorageInit => Both  BY DataStart, ScriptsStart
<1>2. Both /\ (Settled => ScriptsInv)' /\ [StorageNext]_<<part, ideVars, symVars>> => Both'
  <2> SUFFICES ASSUME Both, (Settled => ScriptsInv)', [StorageNext]_<<part, ideVars, symVars>>, Settled'
               PROVE  DataInv'
    OBVIOUS
  <2>1. UNCHANGED symVars \/ Sym895!Next \/ Sym810!Next  BY DEF StorageNext, Controllers
  <2>2. CASE UNCHANGED symVars  BY <2>2, DataUnchanged DEF Settled, symVars
  <2>3. CASE Sym895!Next  BY <2>3, SettledBefore, Data895
  <2>4. CASE Sym810!Next
    <3>1. Sym895!Next \/ Sym810!BlockMove810
      BY <2>4, ThreadOf810, CpuOf810 DEF Sym810!Next, Sym895!Next
    <3> QED  BY <2>4, <3>1, SettledBefore, Data810
  <2> QED  BY <2>1, <2>2, <2>3, <2>4
<1>3. Both => (Settled => DataInv)  OBVIOUS
<1> HIDE DEF Both
<1> QED  BY <1>1, <1>2, <1>3, ScriptsInductive, PTL DEF StorageSpec

(* A SCSI command that ends well has read what the medium held at the blocks *)
(* asked for, or written the blocks given, and none other has changed, for *)
(* both chips and however the two segments of the driver cut the data up *)
(* (scsi_xfer_done_me(), do_scsi_command(), execute_bm_op()), until a halt is *)
(* overrun. *)
THEOREM ScriptsDataIntact == StorageSpec => []Sym895!DataIntact
<1>1. (Settled => DataInv) => Sym895!DataIntact
  <2> SUFFICES ASSUME Settled => DataInv, Settled, symCpu \in {"idle", "start"}
               PROVE  /\ symMedium = symWants
                      /\ symResult = 0 /\ symJob.cmd.op = "read" =>
                           symMemory = [i \in 1 .. symJob.cmd.n |-> symWants[symJob.cmd.lba + i - 1]]
    BY DEF Settled, Sym895!DataIntact
  <2> QED  BY DEF DataInv, MediumIsWanted, Written53, MemoryIsAsked, Asked53
<1> QED  BY <1>1, ScriptsDataInductive, PTL


(* A command that ends well has moved what was asked for between the driver's *)
(* memory and the medium, byte by byte or block by block, and nothing else *)
(* has changed: on the IDE channel, by the data register, the bus master or *)
(* packets, until the driver goes on before the thread is through, and on the *)
(* SCSI bus of either chip, until a halt is overrun. *)
THEOREM SectorsRight ==
  ASSUME AlignedDriver
  PROVE  StorageSpec => []DataIntact
  BY IdeDataIntact, ScriptsDataIntact, PTL DEF DataIntact
=============================================================================

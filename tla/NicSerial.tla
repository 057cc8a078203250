------------------------------ MODULE NicSerial ------------------------------
(***************************************************************************)
(* CSR9 of CDEC21143: two serial protocols on the pins of one register,    *)
(* the SROM's and the MII management interface's.  The driver gives a      *)
(* clock and a bit with each write, and samples the answer before it       *)
(* lowers the clock (lowering it stores the written value over the         *)
(* answer).                                                                *)
(*                                                                         *)
(* The contents of the SROM and of the PHY's registers are symbolic: bit   *)
(* i of the word at a is <<a, i>>.  A constant bit is <<0>> or <<1>>.      *)
(***************************************************************************)
EXTENDS Integers, Sequences

CONSTANTS
  SromAddresses,  \* the words the driver reads, in 0 .. 63
  MiiAddresses,   \* the registers: PHY and register number as one, in 0 .. 1023
  MaxTransfers    \* bound

Zero == <<0>>
One == <<1>>
(* Bit n, counted from the most significant, of an address of that width. *)
BitOf(a, width, n) == (a \div (2 ^ (width - n))) % 2
BitsOf(a, width) == [n \in 1 .. width |-> BitOf(a, width, n)]

VARIABLES
  srom,        \* state.srom: curbit, opcode, opcode_has_started, addr
  mii,         \* state.mii: state, bit, opcode, regaddr (phyaddr included)
  op,          \* the driver's transfer: kind, addr, and the bits yet to send
  got,         \* what it has sampled since the last bit of its command
  transfers
vars == <<srom, mii, op, got, transfers>>

SromReady == [curbit |-> 0, opcode |-> 0, started |-> FALSE, addr |-> 0]
MiiReady == [state |-> "RESET", bit |-> 0, opcode |-> 0, regaddr |-> 0]
NoTransfer == [kind |-> "none", addr |-> 0, send |-> <<>>, dir |-> "out"]

Init ==
  /\ srom = SromReady /\ mii = MiiReady
  /\ op = NoTransfer /\ got = <<>> /\ transfers = 0

-----------------------------------------------------------------------------
(* Mutant: a new selection goes on where the last command was left. *)
Selected_KeepsOn == srom

(* srom_access(): what the rising edge of SR does ... *)
Selected == SromReady

(* ... and a clock with the bit in: the start bit is waited for, three bits  *)
(* of opcode, six of address, and sixteen of data follow.                    *)
SromAnswer(s) ==
  CASE s.curbit < 3 \/ s.opcode # 6 -> Zero
    [] s.opcode = 6 /\ s.curbit >= 3 /\ s.curbit < 8 -> One
    [] s.opcode = 6 /\ s.curbit = 8 -> Zero
    [] OTHER -> <<s.addr, s.curbit - 9>>

Advance(s) == IF s.curbit + 1 >= 3 + 6 + 16 THEN SromReady ELSE [s EXCEPT !.curbit = @ + 1]

SromClock(s, in) ==
  CASE in = 0 /\ ~s.started -> s
    [] s.curbit < 3 /\ (in = 1 \/ s.started) ->
         Advance([s EXCEPT !.started = TRUE, !.opcode = 2 * @ + in])
    [] s.curbit >= 3 /\ s.curbit < 9 /\ s.opcode = 6 -> Advance([s EXCEPT !.addr = 2 * @ + in])
    [] OTHER -> Advance(s)

-----------------------------------------------------------------------------
(* mii_access(): a clock with the bit out and the direction, "in" being      *)
(* MIIDIR set.  A read of a register is the only command with an answer; a   *)
(* write is clocked through, and its data not stored.                        *)
MiiAnswer(s, dir) ==
  IF s.state = "D" /\ s.opcode = 2 /\ dir = "in" THEN <<s.regaddr, s.bit - 13>> ELSE Zero

MiiReset(s, out, dir) ==
  IF out = 0 /\ dir = "out"
  THEN [s EXCEPT !.state = "START_WAIT", !.opcode = 0, !.regaddr = 0] ELSE s
StartWait(s, out, dir) ==
  CASE out = 0 -> s
    [] out = 1 /\ dir = "in" -> [s EXCEPT !.state = "RESET"]
    [] OTHER -> [s EXCEPT !.state = "READ_OP", !.bit = 0]
ReadOp(s, out) ==
  IF s.bit = 0
  THEN [s EXCEPT !.opcode = 2 * out, !.bit = 1]
  ELSE [s EXCEPT !.opcode = @ + out, !.bit = @ + 1, !.state = "READ_ADDR"]
ReadAddr(s, out) ==
  [s EXCEPT !.regaddr = @ + out * 2 ^ (11 - s.bit), !.bit = @ + 1,
            !.state = IF s.bit + 1 >= 12 THEN "A" ELSE @]
TurnAround(s) ==
  [s EXCEPT !.bit = @ + 1,
            !.state = CASE s.opcode = 1 -> IF s.bit >= 13 THEN "D" ELSE "A"
                        [] s.opcode = 2 -> "D"
                        [] OTHER -> "RESET"]
Data(s, dir) ==
  [s EXCEPT !.bit = @ + 1,
            !.state = IF \/ s.opcode = 1 /\ s.bit >= 29
                         \/ s.opcode = 2 /\ s.bit >= 28 /\ dir = "in"
                      THEN "IDLE" ELSE @]
(* Mutant: two clocks more than the command has. *)
MiiIdle_Long(s) == [s EXCEPT !.bit = @ + 1, !.state = IF s.bit + 1 >= 33 THEN "RESET" ELSE @]
MiiIdle(s) == [s EXCEPT !.bit = @ + 1, !.state = IF s.bit + 1 >= 31 THEN "RESET" ELSE @]

MiiClock(s, out, dir) ==
  CASE s.state = "RESET" -> MiiReset(s, out, dir)
    [] s.state = "START_WAIT" -> StartWait(s, out, dir)
    [] s.state = "READ_OP" -> ReadOp(s, out)
    [] s.state = "READ_ADDR" -> ReadAddr(s, out)
    [] s.state = "A" -> TurnAround(s)
    [] s.state = "D" -> Data(s, dir)
    [] OTHER -> MiiIdle(s)

-----------------------------------------------------------------------------
(* The driver.  It reads a word of the SROM, after zero or more leading      *)
(* zeros, or sends a command that is shorter than the 25 clocks (EWEN, nine) *)
(* or longer in address and data (WRITE).                                    *)
SromCommand(kind, addr) ==
  CASE kind = "read" -> <<1, 1, 0>> \o BitsOf(addr, 6) \o [n \in 1 .. 16 |-> 0]
    [] kind = "ewen" -> <<1, 0, 0, 1, 1, 0, 0, 0, 0>>
    [] OTHER -> <<1, 0, 1>> \o BitsOf(addr, 6) \o [n \in 1 .. 16 |-> 1]

(* SR rises before each command, unless the driver goes on after a whole one. *)
StartSrom(kind, addr, zeros, select) ==
  /\ op.send = <<>> /\ transfers < MaxTransfers
  /\ select \/ op.kind \in {"none", "read", "write"}
  /\ srom' = IF select THEN Selected ELSE srom
  /\ op' = [kind |-> kind, addr |-> addr, dir |-> "out",
            send |-> [n \in 1 .. zeros |-> 0] \o SromCommand(kind, addr)]
  /\ got' = <<>> /\ transfers' = transfers + 1
  /\ UNCHANGED mii

ClockSrom ==
  /\ op.kind \in {"read", "write", "ewen"} /\ op.send # <<>>
  /\ srom' = SromClock(srom, Head(op.send))
  /\ got' = IF Len(op.send) <= 16 THEN Append(got, SromAnswer(srom)) ELSE <<>>
  /\ op' = [op EXCEPT !.send = Tail(@)]
  /\ UNCHANGED <<mii, transfers>>

(* The driver gives up: the next command selects the SROM again. *)
Abandon ==
  /\ op.kind \in {"read", "write"} /\ op.send # <<>>
  /\ op' = [NoTransfer EXCEPT !.kind = "abandoned"]
  /\ got' = <<>>
  /\ UNCHANGED <<srom, mii, transfers>>

(* A management command: a preamble of ones, start, opcode and address; then *)
(* the turnaround and sixteen bits, in or out, and two clocks to idle.       *)
MiiCommand(opcode, addr, preamble) ==
  [n \in 1 .. preamble |-> 1] \o <<0, 1>> \o opcode \o BitsOf(addr, 10)
StartMii(kind, addr, preamble) ==
  /\ op.send = <<>> /\ transfers < MaxTransfers
  /\ op' = [kind |-> kind, addr |-> addr, dir |-> "out",
            send |-> IF kind = "miiread"
                     THEN MiiCommand(<<1, 0>>, addr, preamble)
                     ELSE MiiCommand(<<0, 1>>, addr, preamble) \o <<1, 0>>
                          \o [n \in 1 .. 16 |-> n % 2] \o <<1>>]
  /\ got' = <<>> /\ transfers' = transfers + 1
  /\ UNCHANGED <<srom, mii>>

ClockMii ==
  /\ op.kind \in {"miiread", "miiwrite"} /\ op.send # <<>>
  /\ mii' = MiiClock(mii, Head(op.send), op.dir)
  /\ got' = IF op.dir = "in" THEN Append(got, MiiAnswer(mii, op.dir)) ELSE got
  /\ op' = IF op.kind = "miiread" /\ op.dir = "out" /\ Len(op.send) = 1
           THEN [op EXCEPT !.send = [n \in 1 .. 19 |-> 0], !.dir = "in"]
           ELSE [op EXCEPT !.send = Tail(@)]
  /\ UNCHANGED <<srom, transfers>>

Next ==
  \/ \E kind \in {"read", "write", "ewen"}, addr \in SromAddresses,
        zeros \in 0 .. 1, select \in BOOLEAN : StartSrom(kind, addr, zeros, select)
  \/ \E kind \in {"miiread", "miiwrite"}, addr \in MiiAddresses, preamble \in {1, 3} :
       StartMii(kind, addr, preamble)
  \/ ClockSrom \/ ClockMii \/ Abandon

Spec == Init /\ [][Next]_vars

-----------------------------------------------------------------------------
Word(a) == [n \in 1 .. 16 |-> <<a, n - 1>>]

(* A read of the SROM returns the word that was asked for, after whatever     *)
(* commands, whole, short or abandoned, came before (srom_access()).          *)
SromReads == op.kind = "read" /\ op.send = <<>> => got = Word(op.addr)

(* A management read returns the register that was asked for, after whatever  *)
(* commands: the two sides never lose step (mii_access()).                    *)
MiiReads == op.kind = "miiread" /\ op.send = <<>> => SubSeq(got, 2, 17) = Word(op.addr)
=============================================================================

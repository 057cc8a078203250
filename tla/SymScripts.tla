------------------------------ MODULE SymScripts ------------------------------
(***************************************************************************)
(* The SCRIPTS processor of the 53C8xx controllers as programs use it      *)
(* (Sym53C810.cpp): arithmetic on registers, jumps and calls, moves        *)
(* between registers and memory, and signals from the driver; executed     *)
(* by a thread that tests "executing" outside the lock, in single steps,   *)
(* and aborted at any time. The driver puts the data into the registers    *)
(* and writes DSP, which starts the program, and reads the results; its    *)
(* accesses of more than a byte are taken apart, each byte under the       *)
(* lock of its own. A register has W bits; an address is an index of the   *)
(* program.                                                                *)
(***************************************************************************)
EXTENDS Integers, Sequences, Bitwise

CONSTANTS
  W,          \* bits of a register
  Values,     \* what registers and memory may hold at first
  MaxAborts   \* bound: how often the driver aborts the program

Top == 2^W
Ones == Top - 1
Byte == 0 .. Ones

(* Registers by number: SCRATCHA and B, of two bytes, one of which software *)
(* sets some bits only, CTEST2, and SFBR, which instructions reach in their *)
(* own way.                                                                 *)
A0 == 0
A1 == 1
B0 == 2
B1 == 3
Masked == 4
Ctest2 == 5
Sfbr == 6
DspLow == 7           \* DSP, two bits of it and the rest
DspHigh == 8
Entry == 1
SigpBit == 2^(W - 1)
Dack == 1
MaskedBits == Ones - 1
Cells == 4
Dsa == 1

-----------------------------------------------------------------------------
(* Programs. An instruction of R/W: opcode 5 takes SFBR for the register's  *)
(* value, 6 puts the result there, 7 neither.                               *)
Rw(opcode, oper, reg, imm) ==
  [op |-> "rw", opcode |-> opcode, oper |-> oper, reg |-> reg, imm |-> imm, sfbr |-> FALSE]
WithSfbr(opcode, oper, reg) == [Rw(opcode, oper, reg, 0) EXCEPT !.sfbr = TRUE]
Get(reg) == Rw(6, "or", reg, 0)
Put(reg) == Rw(5, "or", reg, 0)

Tc(op, test, jumpIf, to) ==
  [op |-> op, test |-> test, jumpIf |-> jumpIf, to |-> to, relative |-> FALSE,
   dat |-> 0, mask |-> 0, phase |-> 0, fly |-> FALSE]
Always(op, to) == Tc(op, {}, TRUE, to)
Stop == Always("int", 0)
OnTheFly == [Stop EXCEPT !.fly = TRUE]
IfData(dat, mask, jumpIf, to) == [Tc("jump", {"data"}, jumpIf, to) EXCEPT !.dat = dat, !.mask = mask]
Short(i, by) == [i EXCEPT !.relative = TRUE, !.to = by]
Io(op) == [op |-> op]
Move(reg, imm) == Rw(7, "move", reg, imm)

Programs == [
  add |-> <<Get(B0), WithSfbr(7, "add", A0), Get(B1), WithSfbr(7, "adc", A1), Stop>>,
  rotate |-> <<Io("clear"), Rw(7, "shl", A0, 0), Rw(7, "shl", A1, 0),
               Tc("jump", {"carry"}, FALSE, 6), Rw(7, "or", A0, 1),
               Io("set"), Rw(7, "shr", B1, 0), Rw(7, "shr", B0, 0), Stop>>,
  count |-> <<Short(Always("call", 0), 4), Rw(7, "add", B0, Ones), Get(B0),
              Short(IfData(0, 0, FALSE, 0), -4), Stop,
              Rw(7, "add", A0, 1), Tc("return", {"carry"}, FALSE, 0),
              Rw(7, "add", A1, 1), Always("return", 0)>>,
  logic |-> <<Rw(6, "xor", A0, Ones), Put(A0), Rw(6, "xor", B0, Ones), WithSfbr(6, "or", A0),
              Rw(5, "xor", A0, Ones), Rw(7, "and", A1, 1), WithSfbr(7, "move", B1), Stop>>,
  copy |-> <<[op |-> "load", reg |-> A0, n |-> 2, at |-> -1, dsaRelative |-> TRUE],
             [op |-> "memory", from |-> 0, to |-> 1, n |-> 3],
             [op |-> "store", reg |-> A1, n |-> 1, at |-> 3, dsaRelative |-> FALSE], Stop>>,
  signal |-> <<Get(Ctest2), IfData(SigpBit, Ones - SigpBit, FALSE, 1), Rw(7, "add", A0, 1),
               OnTheFly, Rw(7, "add", A1, Ones), Get(A1), IfData(0, 0, FALSE, 1),
               Get(Ctest2), Stop>>,
  dispatch |-> <<Move(Masked, Ones), Get(A0), [Tc("jump", {"phase"}, TRUE, 8) EXCEPT !.phase = 1],
                 [Tc("jump", {"phase", "data"}, TRUE, 6) EXCEPT !.dat = 1, !.mask = Ones - 1],
                 Stop, Move(A0, 2), Stop, Get(Masked), Put(A0), Stop>>
]

VARIABLES
  program, given, phase, ssm,  \* what runs, and on what; the bus; DCNTL.SSM
  regs, mem, carry,            \* registers; memory of the host; state.alu.carry
  dsp, temp,                   \* DSP, TEMP
  executing, inside,           \* state.executing; the thread has found it true
  dstat, stack, intf, sigp,    \* DSTAT, dstat_stack; bits of ISTAT
  irq,                         \* state.irq_asserted
  aborts, sent,                \* history: how often the driver has aborted, and signalled;
  ended, lost,                 \*   it has seen the end; which came when another was pending
  todo, got                    \* the registers that it has yet to write; what it has read at the end

vars == <<program, given, phase, ssm, todo, got, regs, mem, carry, dsp, temp, executing, inside,
          dstat, stack, intf, sigp, irq, aborts, sent, ended, lost>>
fixed == <<program, given, phase, ssm, todo, got>>
history == <<aborts, sent, ended>>

Init ==
  /\ program \in DOMAIN Programs /\ given \in [0 .. Cells - 1 -> Values]
  /\ phase \in {0, 1} /\ ssm \in BOOLEAN
  /\ program # "dispatch" => phase = 0
  /\ program = "signal" => given[A0] = 0
  /\ regs = [r \in 0 .. Sfbr |-> 0] /\ mem = given
  /\ todo = <<A0, A1, B0, B1, DspLow, DspHigh>> /\ got = <<>>
  /\ carry = FALSE /\ dsp = 7 /\ temp = 1          \* DSP as another program has left it
  /\ executing = FALSE /\ inside = FALSE
  /\ dstat = {} /\ stack = {} /\ intf = FALSE /\ sigp = FALSE /\ irq = FALSE
  /\ aborts = 0 /\ sent = 0 /\ ended = FALSE /\ lost = FALSE

-----------------------------------------------------------------------------
(* ReadMem_Bar(), WriteMem_Bar(): reading CTEST2 takes the signal; it is    *)
(* not written.                                                             *)
Value(r) == IF r = Ctest2 THEN Dack + IF sigp THEN SigpBit ELSE 0 ELSE regs[r]
Taken_Never(R) == UNCHANGED sigp
Taken(R) == sigp' = (sigp /\ Ctest2 \notin R)
Written(f, r, v) ==
  CASE r = Ctest2 -> f
    [] r = Masked -> [f EXCEPT ![r] = (@ & (Ones - MaskedBits)) + (v & MaskedBits)]
    [] OTHER -> [f EXCEPT ![r] = v]

(* The driver's accesses; the last byte of DSP is the one that starts the   *)
(* thread.                                                                  *)
WriteByte_Starts(r, v) ==
  /\ regs' = IF r < Cells THEN Written(regs, r, v) ELSE regs
  /\ dsp' = CASE r = DspLow -> 4 * (dsp \div 4) + v
              [] r = DspHigh -> 4 * v + (dsp % 4)
              [] OTHER -> dsp
  /\ executing' = (executing \/ r \in {DspLow, DspHigh})
WriteByte(r, v) ==
  /\ regs' = IF r < Cells THEN Written(regs, r, v) ELSE regs
  /\ dsp' = CASE r = DspLow -> 4 * (dsp \div 4) + v
              [] r = DspHigh -> 4 * v + (dsp % 4)
              [] OTHER -> dsp
  /\ executing' = (executing \/ r = DspHigh)
WriteMem ==
  /\ todo # <<>> /\ todo' = Tail(todo)
  /\ LET r == Head(todo) IN
     WriteByte(r, IF r < Cells THEN given[r] ELSE IF r = DspLow THEN Entry % 4 ELSE Entry \div 4)
  /\ UNCHANGED <<program, given, phase, ssm, got, mem, carry, temp, inside, dstat, stack, intf,
                 sigp, irq, history, lost>>
ReadMem ==
  /\ ended /\ Len(got) < Cells /\ got' = Append(got, Value(Len(got)))
  /\ UNCHANGED <<program, given, phase, ssm, todo, regs, mem, carry, dsp, temp, executing, inside,
                 dstat, stack, intf, sigp, irq, history, lost>>

(* set_interrupt(), eval_interrupts(): a second interrupt of the program    *)
(* goes behind the first; a bit of DSTAT that is always set keeps it there. *)
Raise(what) ==
  /\ IF dstat = {} THEN dstat' = what /\ UNCHANGED stack
     ELSE stack' = stack \cup what /\ UNCHANGED dstat
  /\ executing' = FALSE /\ irq' = TRUE

(* execute_rw_op()                                                            *)
Data(i) == IF i.sfbr THEN regs[Sfbr] ELSE i.imm
Operand(i) == IF i.opcode = 5 THEN regs[Sfbr] ELSE Value(i.reg)
In == IF carry THEN 1 ELSE 0
Sum_NoCarry(i) ==
  LET x == Operand(i) d == Data(i) IN
  CASE i.oper = "shl" -> 2 * x + In
    [] i.oper = "add" -> x + d
    [] i.oper = "adc" -> x + d
Sum(i) ==
  LET x == Operand(i) d == Data(i) IN
  CASE i.oper = "shl" -> 2 * x + In
    [] i.oper = "add" -> x + d
    [] i.oper = "adc" -> x + d + In
Result(i) ==
  LET x == Operand(i) d == Data(i) IN
  CASE i.oper = "move" -> d
    [] i.oper = "or" -> x | d
    [] i.oper = "xor" -> x ^^ d
    [] i.oper = "and" -> x & d
    [] i.oper = "shr" -> (x \div 2) + In * 2^(W - 1)
    [] OTHER -> Sum(i) % Top
Carry(i) ==
  CASE i.oper \in {"move", "or", "xor", "and"} -> carry
    [] i.oper = "shr" -> Operand(i) % 2 = 1
    [] OTHER -> Sum(i) >= Top
ReadWrite(i) ==
  /\ regs' = Written(regs, IF i.opcode = 6 THEN Sfbr ELSE i.reg, Result(i)) /\ carry' = Carry(i)
  /\ Taken(IF i.opcode # 5 /\ i.oper # "move" THEN {i.reg} ELSE {})
  /\ dsp' = dsp + 1 /\ UNCHANGED <<mem, temp>>

(* execute_io_op(): the flags of the arithmetic unit.                       *)
SetClear(i) ==
  /\ carry' = (i.op = "set") /\ dsp' = dsp + 1 /\ UNCHANGED <<regs, mem, temp, sigp>>

(* execute_tc_op()                                                            *)
Same(i) == (regs[Sfbr] & (Ones - i.mask)) = (i.dat & (Ones - i.mask))
Holds_Or(i) ==
  CASE "carry" \in i.test -> carry = i.jumpIf
    [] i.test = {} -> i.jumpIf
    [] OTHER -> \/ "data" \in i.test /\ Same(i) = i.jumpIf
                \/ "phase" \in i.test /\ (phase = i.phase) = i.jumpIf
Holds(i) ==
  CASE "carry" \in i.test -> carry = i.jumpIf
    [] i.test = {} -> i.jumpIf
    [] OTHER -> /\ "data" \in i.test => Same(i) = i.jumpIf
                /\ "phase" \in i.test => (phase = i.phase) = i.jumpIf
Dest(i) == IF i.relative THEN dsp + 1 + i.to ELSE i.to
Transfer(i) ==
  /\ dsp' = IF ~Holds(i) \/ i.op = "int" THEN dsp + 1 ELSE IF i.op = "return" THEN temp ELSE Dest(i)
  /\ temp' = IF Holds(i) /\ i.op = "call" THEN dsp + 1 ELSE temp
  /\ UNCHANGED <<regs, mem, carry, sigp>>
Interrupts(i) == i.op = "int" /\ Holds(i)

(* execute_ls_op(), execute_mm_op()                                         *)
Address(i) == IF i.dsaRelative THEN Dsa + i.at ELSE i.at
Load(i) ==
  /\ regs' = [r \in DOMAIN regs |-> IF r \in i.reg .. i.reg + i.n - 1
                                    THEN mem[Address(i) + r - i.reg] ELSE regs[r]]
  /\ dsp' = dsp + 1 /\ UNCHANGED <<mem, carry, temp, sigp>>
Store(i) ==
  /\ mem' = [a \in DOMAIN mem |-> IF a \in Address(i) .. Address(i) + i.n - 1
                                  THEN Value(i.reg + a - Address(i)) ELSE mem[a]]
  /\ Taken(i.reg .. i.reg + i.n - 1) /\ dsp' = dsp + 1 /\ UNCHANGED <<regs, carry, temp>>
MemoryMove_Forward(i) ==
  /\ mem' = [a \in DOMAIN mem |-> IF a \in i.to .. i.to + i.n - 1 THEN mem[i.from] ELSE mem[a]]
  /\ dsp' = dsp + 1 /\ UNCHANGED <<regs, carry, temp, sigp>>
MemoryMove(i) ==
  /\ mem' = [a \in DOMAIN mem |-> IF a \in i.to .. i.to + i.n - 1
                                  THEN mem[i.from + a - i.to] ELSE mem[a]]
  /\ dsp' = dsp + 1 /\ UNCHANGED <<regs, carry, temp, sigp>>

(* execute(): an instruction, and in single-step mode the interrupt after   *)
(* it.                                                                      *)
Instruction == Programs[program][dsp]
Perform(i) ==
  CASE i.op = "rw" -> ReadWrite(i)
    [] i.op \in {"set", "clear"} -> SetClear(i)
    [] i.op \in {"jump", "call", "return", "int"} -> Transfer(i)
    [] i.op = "load" -> Load(i)
    [] i.op = "store" -> Store(i)
    [] i.op = "memory" -> MemoryMove(i)
Fatal(i) == IF Interrupts(i) /\ ~i.fly THEN {"SIR"} ELSE {}
Execute ==
  /\ inside /\ ~lost /\ inside' = FALSE
  /\ LET i == Instruction
         step == IF ssm THEN {"SSI"} ELSE {} IN
     /\ Perform(i)
     /\ intf' = (intf \/ (Interrupts(i) /\ i.fly))
     /\ IF dstat = {} /\ Fatal(i) # {}
        THEN dstat' = Fatal(i) /\ stack' = stack \cup step /\ executing' = FALSE /\ irq' = TRUE
        ELSE IF Fatal(i) \cup step # {} THEN Raise(Fatal(i) \cup step)
        ELSE irq' = (irq \/ intf') /\ UNCHANGED <<dstat, stack, executing>>
     /\ lost' = (dstat # {} /\ Fatal(i) # {})
  /\ UNCHANGED <<fixed, history>>

(* run(): the loop of the thread.                                           *)
Look ==
  /\ executing /\ ~inside /\ inside' = TRUE
  /\ UNCHANGED <<fixed, regs, mem, carry, dsp, temp, executing, dstat, stack, intf, sigp, irq,
                 history, lost>>

-----------------------------------------------------------------------------
(* The driver: it reads DSTAT after an interrupt and lets the program go    *)
(* on; aborts it; and signals the program that waits for it, anew when the  *)
(* last signal was answered.                                                *)
machine == <<regs, mem, carry, dsp, temp, inside, lost>>
ReadDstat ==
  /\ dstat # {} /\ ~ended /\ ended' = ("SIR" \in dstat) /\ dstat' = {} /\ irq' = intf
  /\ UNCHANGED <<fixed, machine, executing, stack, intf, sigp, aborts, sent>>
WriteDcntl ==
  /\ dstat = {} /\ ~executing /\ ~ended /\ todo = <<>> /\ executing' = TRUE
  /\ UNCHANGED <<fixed, machine, dstat, stack, intf, sigp, irq, history>>
Abort ==
  /\ aborts < MaxAborts /\ ~ended /\ todo = <<>> /\ aborts' = aborts + 1 /\ Raise({"ABRT"})
  /\ UNCHANGED <<fixed, machine, intf, sigp, sent, ended>>
Signal ==
  /\ program = "signal" /\ (sent = 0 \/ intf) /\ ~ended
  /\ sigp' = TRUE /\ intf' = FALSE /\ irq' = (dstat # {}) /\ sent' = sent + 1
  /\ UNCHANGED <<fixed, machine, executing, dstat, stack, aborts, ended>>
Acknowledge ==
  /\ ended /\ intf /\ intf' = FALSE /\ irq' = FALSE
  /\ UNCHANGED <<fixed, machine, executing, dstat, stack, sigp, history>>

Next ==
  \/ WriteMem \/ ReadMem \/ Look \/ Execute
  \/ ReadDstat \/ WriteDcntl \/ Abort \/ Signal \/ Acknowledge
Spec == Init /\ [][Next]_vars

-----------------------------------------------------------------------------
(* What the programs are for.                                               *)
Pair(f, r) == f[r] + Top * f[r + 1]
Times == IF given[B0] = 0 THEN Top ELSE given[B0]
Rounds == IF given[A1] = 0 THEN Top ELSE given[A1]
Done(f) ==
  CASE program = "add" -> Pair(f, A0) = (Pair(given, A0) + Pair(given, B0)) % Top^2
    [] program = "rotate" ->
         /\ Pair(f, A0) = ((2 * Pair(given, A0)) % Top^2) + (Pair(given, A0) \div (Top^2 \div 2))
         /\ Pair(f, B0) = (Pair(given, B0) \div 2) + (Top^2 \div 2)
         /\ carry = (given[B0] % 2 = 1)
    [] program = "count" -> Pair(f, A0) = (Pair(given, A0) + Times) % Top^2
    [] program = "logic" ->
         /\ f[A0] = given[A0] & given[B0] /\ f[A1] = given[A1] % 2
         /\ f[B1] = Ones - f[A0]
    [] program = "copy" ->
         /\ mem[0] = given[0] /\ mem[1] = given[0] /\ mem[2] = given[1] /\ mem[3] = given[1]
    [] program = "signal" -> f[A0] = Rounds % Top /\ sent - Rounds \in {0, 1}
    [] program = "dispatch" -> 
         f[A0] = IF phase = 1 THEN MaskedBits ELSE IF given[A0] % 2 = 1 THEN 2 ELSE given[A0]

(* A program does what it was written for, however often it was stopped on  *)
(* the way; only its last interrupt is lost if it meets another one         *)
(* (execute_*_op(), run()).                                                 *)
ProgramsRight == Len(got) = Cells => Done([r \in 0 .. Cells - 1 |-> got[r + 1]])

(* No instruction is executed beyond the end, and none twice: a program     *)
(* that was interrupted goes on where it was (execute(), write_b_dcntl()).  *)
StaysInProgram ==
  executing \/ todo = <<>> =>
    lost \/ ended \/ "SIR" \in dstat \/ dsp \in DOMAIN Programs[program]

(* The line is up for what can be read in DSTAT or ISTAT, and a pending     *)
(* interrupt has stopped the program (eval_interrupts()).                   *)
LineRight == irq = (dstat # {} \/ intf) /\ (dstat # {} => ~executing)
=============================================================================

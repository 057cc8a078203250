------------------------------ MODULE VgaAdapter -------------------------------
(***************************************************************************)
(* The registers and the memory of the graphics adapters (io_write_b(),    *)
(* io_read(), vga_mem_read() and vga_mem_write() of S3Trio64.cpp;          *)
(* Cirrus.cpp is alike).                                                   *)
(*                                                                         *)
(* The registers are files behind an index, the attribute registers whose  *)
(* index and data share a port, and the palette that is written in threes. *)
(* The driver programs a register with a few accesses of its ports, byte   *)
(* by byte or index and data at once; it may be stopped among them, and an *)
(* interrupt may come that programs a register of the CRTC and puts the    *)
(* index back.                                                             *)
(*                                                                         *)
(* The memory is planes behind four latches. A byte is the set of its      *)
(* bits; a mask over the planes is a set of planes. What a guest has       *)
(* programmed for its accesses does not change during them.                *)
(***************************************************************************)
EXTENDS Integers, Sequences

CONSTANTS
  MaxJobs,    \* bound of the registers that the driver programs or reads
  Width,      \* the bits of a byte
  Planes,     \* 0, 1, ...: as many as the addresses that make a word
  Bank,       \* the bytes of a window; a plane has two
  Modes,      \* what a guest programs: the registers of "reg"
  Bytes,      \* what it writes
  MaxAccesses \* bound of its accesses

VARIABLES
  attr,      \* attribute_ctrl: [flip, index, reg, video]
  file,      \* the sequencer "seq", graphics "gc" and "crtc" files: [index, reg]
  dac,       \* pel: [to, cycle, from, read, reading, data]
  palette,   \* what the window was told of the colours
  derived,   \* line_compare, vertical_display_end, line_offset, y_doublescan
  changed,   \* the CRTC registers that do not have their initial value any more
  misc,      \* misc_output
  job,       \* the driver: the accesses left, of which the first irq are those of an interrupt,
             \* and the value they program, <<>> if they read
  want,      \* what it has programmed: <<>> where it was stopped, else <<value>>
  got,       \* what it has read
  jobs,
  mem,        \* memory[plane][offset]
  latch,      \* of each plane
  reg,        \* the registers of the graphics controller and the sequencer
  op,         \* the last access: [kind, addr, value]
  accesses

adapter == <<attr, file, dac, palette, misc, derived, changed>>
registers == <<adapter, job, want, got, jobs>>
memory == <<mem, latch, reg, op, accesses>>
vars == <<registers, memory>>

Files == {"seq", "gc", "crtc"}
Index == [seq |-> {0, 2, 3}, gc |-> {3, 5, 6}, crtc |-> {7, 9, 12, 13, 14, 17, 18},
          attr |-> {0, 18}, dac |-> {0, 1}, misc |-> {0}]
Bit == {0, 1}
(* Of register 0 of the sequencer the two resets; of CRTC 7 the high bits   *)
(* of the display's end and of the split, of 9 its highest and whether      *)
(* lines are doubled.                                                       *)
Values(f, i) ==
  CASE f = "dac" -> [{1, 2, 3} -> Bit]
    [] f = "crtc" /\ i = 7 -> Bit \X Bit \X Bit
    [] <<f, i>> \in {<<"crtc", 9>>, <<"seq", 0>>} -> Bit \X Bit
    [] OTHER -> {<<b>> : b \in Bit}
Done == [steps |-> <<>>, irq |-> 0, file |-> "none", index |-> 0, value |-> <<>>]

RegistersInit ==
  /\ attr = [flip |-> FALSE, index |-> 0, reg |-> [i \in Index.attr |-> <<0>>], video |-> TRUE]
  /\ file = [f \in Files |-> [index |-> 0, reg |-> [i \in Index[f] |->
       CASE f = "crtc" /\ i = 7 -> <<0, 0, 0>> [] f = "crtc" /\ i = 9 -> <<0, 1>>
         [] f = "seq" /\ i = 0 -> <<1, 1>> [] OTHER -> <<0>>]]]
  /\ dac = [to |-> 0, cycle |-> 0, from |-> 0, read |-> 0, reading |-> FALSE,
            data |-> [i \in Index.dac |-> <<0, 0, 0>>]]
  /\ palette = [i \in Index.dac |-> <<0, 0, 0>>]
  /\ derived = [compare |-> <<255, 1, 1>>, display |-> <<143, 1, 0>>, offset |-> <<40, 0>>,
                dscan |-> FALSE]
  /\ changed = {} /\ misc = <<1>> /\ job = Done /\ got = <<>> /\ jobs = 0
  /\ want = [f \in DOMAIN Index |-> [i \in Index[f] |-> <<>>]]

-----------------------------------------------------------------------------
(* write_b_3c0(): index and data in turn; the index says whether there is a *)
(* picture.                                                                 *)
SelectAttr(v) == [attr EXCEPT !.flip = TRUE, !.index = v.index, !.video = v.video]
DataAttr(v) == [attr EXCEPT !.flip = FALSE, !.reg[attr.index] = v]
Write3c0(v) == attr' = IF attr.flip THEN DataAttr(v) ELSE SelectAttr(v)
ReadAttr == attr.reg[attr.index]
Read3da == attr' = [attr EXCEPT !.flip = FALSE]

(* write_b_3d5(): what the registers of the CRTC come to, and only when     *)
(* they change.                                                             *)
Offset(r) == <<r[13][1], IF r[14] = <<1>> THEN 3 ELSE IF r[17] = <<0>> THEN 2 ELSE 1>>
Derive_Forgets(r, i) ==
  CASE i = 7 -> [derived EXCEPT !.display = <<@[1], r[7][1], r[7][2]>>,
                                !.compare = <<@[1], r[7][3], 0>>]
    [] OTHER -> derived
Derive(r, i) ==
  CASE i = 7 -> [derived EXCEPT !.display = <<@[1], r[7][1], r[7][2]>>,
                                !.compare = <<@[1], r[7][3], @[3]>>]
    [] i = 9 -> [derived EXCEPT !.compare = <<@[1], @[2], r[9][1]>>, !.dscan = r[9][2] = 1]
    [] i = 12 -> [derived EXCEPT !.display = <<r[12][1], @[2], @[3]>>]
    [] i \in {13, 14, 17} -> [derived EXCEPT !.offset = Offset(r)]
    [] i = 18 -> [derived EXCEPT !.compare = <<r[18][1], @[2], @[3]>>]
WriteIndex(f, i) ==
  /\ file' = [file EXCEPT ![f].index = i]
  /\ UNCHANGED <<derived, changed>>
(* write_b_3c5(), write_b_3cf(), write_b_3d5(): the first reset of the      *)
(* sequencer takes the selection of the character maps with it.             *)
Resets(f, i, old, v) == f = "seq" /\ i = 0 /\ old[0][1] = 1 /\ v[1] = 0
Stored(f, i, old, v) ==
  [j \in DOMAIN old |->
    IF j = i THEN v ELSE IF j = 3 /\ Resets(f, i, old, v) THEN <<0>> ELSE old[j]]
Changes(f, i, v) == f = "crtc" /\ v # file[f].reg[i]
WriteData(f, i, v) ==
  /\ file' = [file EXCEPT ![f] = [index |-> i, reg |-> Stored(f, i, @.reg, v)]]
  /\ IF Changes(f, i, v)
     THEN derived' = Derive(file'[f].reg, i) /\ changed' = changed \cup {i}
     ELSE UNCHANGED <<derived, changed>>
ReadData(f) ==           \* read_b_3cf() gives the odd_even of register 5 in register 6
  IF f = "gc" /\ file[f].index = 6 THEN file[f].reg[5] ELSE file[f].reg[file[f].index]

(* The palette: write_b_3c7(), write_b_3c8(), write_b_3c9(), read_b_3c9().  *)
Write3c7(i) == dac' = [dac EXCEPT !.from = i, !.read = 0, !.reading = TRUE]
Write3c8_Keeps(i) == dac' = [dac EXCEPT !.to = i, !.reading = FALSE]
Write3c8(i) == dac' = [dac EXCEPT !.to = i, !.cycle = 0, !.reading = FALSE]
Write3c9(v) ==
  LET whole == dac.cycle = 2 IN
  /\ dac' = [dac EXCEPT !.data[dac.to][dac.cycle + 1] = v, !.cycle = (@ + 1) % 3,
                        !.to = IF whole THEN (@ + 1) % 2 ELSE @]
  /\ palette' = IF whole THEN [palette EXCEPT ![dac.to] = dac'.data[dac.to]] ELSE palette
Colour == IF dac.reading THEN dac.data[dac.from][dac.read + 1] ELSE 63
Read3c9 ==
  dac' = IF dac.reading
         THEN [dac EXCEPT !.read = (@ + 1) % 3, !.from = IF dac.read = 2 THEN (@ + 1) % 2 ELSE @]
         ELSE dac

-----------------------------------------------------------------------------
(* The ports. Those of the CRTC and 3da are also where a monochrome adapter *)
(* has them; an index has the data port behind it, and a write of 16 bits   *)
(* is two, index first.                                                     *)
Indexed == [seq |-> {\h3C4}, gc |-> {\h3CE}, crtc |-> {\h3B4, \h3D4}]
FileAt(port) == {f \in Files : port \in Indexed[f]}
DataAt(port) == {f \in Files : port - 1 \in Indexed[f]}
StatusPort == {\h3BA, \h3DA}
The(S) == CHOOSE x \in S : TRUE

WriteMisc(v) == misc' = v       \* write_b_3c2(), read_b_3cc()
ReadMisc == misc
WriteByte(port, v) ==     \* io_write_b()
  /\ IF port = \h3C0 THEN Write3c0(v) ELSE UNCHANGED attr
  /\ IF port = \h3C2 THEN WriteMisc(v) ELSE UNCHANGED misc
  /\ CASE FileAt(port) # {} -> WriteIndex(The(FileAt(port)), v)
       [] DataAt(port) # {} -> LET f == The(DataAt(port)) IN WriteData(f, file[f].index, v)
       [] OTHER -> UNCHANGED <<file, derived, changed>>
  /\ CASE port = \h3C7 -> Write3c7(v) /\ UNCHANGED palette
       [] port = \h3C8 -> Write3c8(v) /\ UNCHANGED palette
       [] port = \h3C9 -> Write3c9(v)
       [] OTHER -> UNCHANGED <<dac, palette>>
WriteWord(port, i, v) ==  \* io_write(), of an index and its data
  WriteData(The(FileAt(port)), i, v) /\ UNCHANGED <<attr, misc, dac, palette>>
ReadByte(port) ==         \* io_read(): what is read, and what reading does
  /\ IF port \in StatusPort THEN Read3da ELSE UNCHANGED attr
  /\ IF port = \h3C9 THEN Read3c9 ELSE UNCHANGED dac
  /\ got' = CASE port = \h3C1 -> ReadAttr
              [] port = \h3CC -> ReadMisc
              [] DataAt(port) # {} -> ReadData(The(DataAt(port)))
              [] port = \h3C9 -> Append(got, Colour)
              [] OTHER -> got
  /\ UNCHANGED <<file, palette, misc, derived, changed>>

(* The accesses of the driver: bytes written, words and bytes read.         *)
W(port, v) == <<"write", port, v>>
W16(port, i, v) == <<"word", port, i, v>>
R(port) == <<"read", port>>
Access(s) ==
  CASE s[1] = "write" -> WriteByte(s[2], s[3]) /\ UNCHANGED got
    [] s[1] = "word" -> WriteWord(s[2], s[3], s[4]) /\ UNCHANGED got
    [] s[1] = "read" -> ReadByte(s[2])
ToAttr(i, s) == {<<R(p), W(\h3C0, [index |-> i, video |-> TRUE]), s>> : p \in StatusPort}
Programming(f, i, v) ==
  CASE f \in Files -> UNION {{<<W16(p, i, v)>>, <<W(p, i), W(p + 1, v)>>} : p \in Indexed[f]}
    [] f = "attr" -> ToAttr(i, W(\h3C0, v))
    [] f = "misc" -> {<<W(\h3C2, v)>>}
    [] f = "dac" -> {<<W(\h3C8, i), W(\h3C9, v[1]), W(\h3C9, v[2]), W(\h3C9, v[3])>>}
Reading(f, i) ==
  CASE f \in Files -> {<<W(p, i), R(p + 1)>> : p \in Indexed[f]}
    [] f = "attr" -> ToAttr(i, R(\h3C1))
    [] f = "misc" -> {<<R(\h3CC)>>}
    [] f = "dac" -> {<<W(\h3C7, i), R(\h3C9), R(\h3C9), R(\h3C9)>>}
Program ==
  /\ job.steps = <<>> /\ jobs < MaxJobs /\ jobs' = jobs + 1 /\ got' = <<>>
  /\ \E f \in DOMAIN Index : \E i \in Index[f] : \E v \in Values(f, i) :
       /\ \E a \in Programming(f, i, v) :
            job' = [steps |-> a, irq |-> 0, file |-> f, index |-> i, value |-> <<v>>]
       /\ want' = [want EXCEPT ![f][i] = <<>>,
            !["seq"][3] = IF f = "seq" /\ i = 0 /\ v[1] = 0 THEN <<>> ELSE @]
  /\ UNCHANGED adapter
ReadBack ==
  /\ job.steps = <<>> /\ jobs < MaxJobs /\ jobs' = jobs + 1 /\ got' = <<>>
  /\ \E f \in DOMAIN Index : \E i \in {j \in Index[f] : want[f][j] # <<>>} :
       \E a \in Reading(f, i) :
         job' = [steps |-> a, irq |-> 0, file |-> f, index |-> i, value |-> <<>>]
  /\ UNCHANGED <<adapter, want>>
Step ==
  /\ job.steps # <<>> /\ Access(Head(job.steps))
  /\ job' = [job EXCEPT !.steps = Tail(@), !.irq = IF @ > 0 THEN @ - 1 ELSE 0]
  /\ want' = CASE job.irq = 2 -> [want EXCEPT !["crtc"][18] = <<Head(job.steps)[4]>>]
               [] Len(job.steps) = 1 /\ job.value # <<>> ->
                    [want EXCEPT ![job.file][job.index] = job.value]
               [] OTHER -> want
  /\ UNCHANGED jobs
Stop ==
  /\ job.steps # <<>> /\ job.irq = 0 /\ job' = Done /\ got' = <<>>
  /\ UNCHANGED <<adapter, want, jobs>>
Interrupt ==       \* its register 18 is no one else's meanwhile; it reads the index at 3d4
  /\ job.steps # <<>> /\ job.irq = 0 /\ ~(job.file = "crtc" /\ job.index = 18)
  /\ \E b \in Bit :
       /\ job' = [job EXCEPT !.irq = 2, !.steps =
            <<W16(\h3D4, 18, <<b>>), W(\h3D4, file["crtc"].index)>> \o @]
       /\ want' = [want EXCEPT !["crtc"][18] = <<>>]
  /\ UNCHANGED <<adapter, got, jobs>>
RegistersNext == Program \/ ReadBack \/ Step \/ Stop \/ Interrupt

-----------------------------------------------------------------------------
(* Whatever was stopped or came between, a register has the value that it   *)
(* was given, and reads as that, but for odd and even addressing in         *)
(* register 6 of the graphics controller; and the window has the colours of *)
(* the palette (write_b_3c0(), write_b_3c9(), read_b_3cf()).                *)
Held(f, i) ==
  CASE f = "attr" -> attr.reg[i] [] f = "dac" -> dac.data[i] [] f = "misc" -> misc
    [] f \in Files -> file[f].reg[i]
RegistersHeld ==
  /\ \A f \in DOMAIN Index : \A i \in Index[f] :
       want[f][i] # <<>> => want[f][i] = <<Held(f, i)>>
  /\ \A i \in Index.dac : want["dac"][i] # <<>> => palette[i] = dac.data[i]
  /\ (/\ job.steps = <<>> /\ job.file # "none" /\ job.value = <<>>
      /\ <<job.file, job.index>> # <<"gc", 6>>)
     => want[job.file][job.index] = <<got>>

(* What is kept of the registers of the CRTC in other forms is what they    *)
(* say, each part from the first time that its register changes             *)
(* (write_b_3d5()).                                                         *)
DerivedRight ==
  LET r == file["crtc"].reg IN
  /\ 7 \in changed => <<derived.display[2], derived.display[3], derived.compare[2]>> = r[7]
  /\ 9 \in changed => <<derived.compare[3], IF derived.dscan THEN 1 ELSE 0>> = r[9]
  /\ 12 \in changed => derived.display[1] = r[12][1]
  /\ 18 \in changed => derived.compare[1] = r[18][1]
  /\ changed \cap {13, 14, 17} # {} => derived.offset = Offset(r)

-----------------------------------------------------------------------------
(* The memory. *)
Bits == 0 .. Width - 1
Offsets == 0 .. 2 * Bank - 1
Addresses == 0 .. 4 * Bank - 1       \* from A0000
Nothing == [kind |-> "none", addr |-> 0, value |-> {}]
Xor(a, b) == (a \ b) \cup (b \ a)
Rotate(v) == {b \in Bits : (b + reg.rotate) % Width \in v}

MemoryInit ==
  /\ \E b \in [Planes -> SUBSET Bits] :
       mem = [p \in Planes |->
                [o \in Offsets |-> IF o = 0 THEN b[p] ELSE IF o = 1 THEN {0} ELSE {}]]
  /\ latch = [p \in Planes |-> {}]
  /\ reg \in Modes /\ op = Nothing /\ accesses = 0

-----------------------------------------------------------------------------
(* Where a window of the address space is; nothing answers outside of it.   *)
(* Of the four mappings the one that maps both windows at once is left out. *)
InWindow(a) ==
  CASE reg.mapping = 1 -> a < 2 * Bank
    [] reg.mapping = 2 -> a \in 2 * Bank .. 3 * Bank - 1
    [] reg.mapping = 3 -> a >= 3 * Bank
ReadOffset(a) == IF reg.mapping = 1 THEN a % (2 * Bank) ELSE a % Bank
WriteOffset(a) == a - (CASE reg.mapping = 1 -> 0 [] reg.mapping = 2 -> 2 * Bank
                         [] reg.mapping = 3 -> 3 * Bank)
NP == CHOOSE n \in 1 .. 4 : n - 1 \in Planes /\ n \notin Planes
Chained(o) == [plane |-> o % NP, offset |-> o - (o % NP)]

(* The byte that each plane gets, by write mode and raster operation.       *)
Mode0_Unmasked(p, v) == IF p \in reg.enable THEN (IF p \in reg.set THEN Bits ELSE {}) ELSE Rotate(v)
Mode0(p, v) ==
  LET l == latch[p]
      m == reg.bitmask
      w == Rotate(v) IN
  (l \ m) \cup
    IF p \in reg.enable
    THEN CASE reg.raster = "copy" -> IF p \in reg.set THEN m ELSE {}
           [] reg.raster = "and" -> IF p \in reg.set THEN l \cap m ELSE {}
           [] reg.raster = "or" -> IF p \in reg.set THEN m ELSE l \cap m
           [] reg.raster = "xor" -> IF p \in reg.set THEN m \ l ELSE l \cap m
    ELSE m \cap CASE reg.raster = "copy" -> w [] reg.raster = "and" -> w \cap l
                  [] reg.raster = "or" -> w \cup l [] reg.raster = "xor" -> Xor(w, l)
Mode2(p, v) ==
  LET l == latch[p]
      m == reg.bitmask IN
  (l \ m) \cup
    CASE reg.raster = "copy" -> IF p \in v THEN m ELSE {}
      [] reg.raster = "and" -> IF p \in v THEN l \cap m ELSE {}
      [] reg.raster = "or" -> IF p \in v THEN m ELSE l \cap m
      [] reg.raster = "xor" -> IF p \in v THEN m \ l ELSE l \cap m
Mode3(p, v) ==    \* the mask is that of the byte before it is rotated
  LET l == latch[p]
      m == reg.bitmask \cap v
      w == IF p \in reg.set THEN Rotate(v) \cap m ELSE {} IN
  (l \ m) \cup CASE reg.raster = "copy" -> w [] reg.raster = "and" -> w \cap l
                 [] reg.raster = "or" -> w \cup l [] reg.raster = "xor" -> Xor(w, l)
NewVal(p, v) ==
  CASE reg.write = 0 -> Mode0(p, v) [] reg.write = 1 -> latch[p]
    [] reg.write = 2 -> Mode2(p, v) [] reg.write = 3 -> Mode3(p, v)

(* vga_mem_write(). A guest of a graphics mode uses mapping 1 or 3.         *)
WriteMem(a, v) ==
  LET o == WriteOffset(a)
      c == Chained(o) IN
  /\ mem' =
       CASE ~InWindow(a) -> mem
         [] InWindow(a) /\ reg.graphics /\ reg.mapping = 3 -> [mem EXCEPT ![0][o] = v]
         [] InWindow(a) /\ reg.graphics /\ reg.mapping # 3 /\ reg.chain4 ->
              [mem EXCEPT ![c.plane][c.offset] = v]
         [] OTHER -> [p \in Planes |->
              IF p \in reg.mapmask THEN [mem[p] EXCEPT ![o] = NewVal(p, v)] ELSE mem[p]]
  /\ UNCHANGED latch

(* vga_mem_read(): a chained read leaves the latches.                       *)
Matches(l) ==
  Bits \ UNION {Xor(l[p], IF p \in reg.compare THEN Bits ELSE {}) : p \in reg.care}
ReadMem(a) ==
  LET o == ReadOffset(a)
      c == Chained(o) IN
  IF ~InWindow(a) THEN latch' = latch /\ op' = [kind |-> "read", addr |-> a, value |-> Bits]
  ELSE IF reg.chain4
  THEN latch' = latch /\ op' = [kind |-> "read", addr |-> a, value |-> mem[c.plane][c.offset]]
  ELSE /\ latch' = [p \in Planes |-> mem[p][o]]
       /\ op' = [kind |-> "read", addr |-> a,
                 value |-> IF reg.match THEN Matches(latch') ELSE latch'[reg.map]]

-----------------------------------------------------------------------------
Write ==
  /\ accesses < MaxAccesses /\ accesses' = accesses + 1
  /\ \E a \in Addresses, v \in Bytes :
       WriteMem(a, v) /\ op' = [kind |-> "write", addr |-> a, value |-> v]
  /\ UNCHANGED reg
Read ==
  /\ accesses < MaxAccesses /\ accesses' = accesses + 1
  /\ \E a \in Addresses : ReadMem(a)
  /\ UNCHANGED <<mem, reg>>
MemoryNext == Write \/ Read

Init == RegistersInit /\ MemoryInit
Next ==
  \/ RegistersNext /\ UNCHANGED memory
  \/ MemoryNext /\ UNCHANGED registers
Spec == Init /\ [][Next]_memory

-----------------------------------------------------------------------------
(* What a picture element is, and what becomes of it: in the planes of the  *)
(* map mask those under the bit mask are combined with what the latches     *)
(* hold, the others are the latches'; the rest stays. A chained or a linear *)
(* byte changes itself alone (vga_mem_write()). In mode 3 a byte is not     *)
(* rotated.                                                                 *)
Source(p, b, v) ==
  CASE reg.write = 0 -> IF p \in reg.enable THEN p \in reg.set ELSE (b + reg.rotate) % Width \in v
    [] reg.write = 2 -> p \in v
    [] reg.write = 3 -> p \in reg.set
Affected(b, v) == b \in reg.bitmask /\ (reg.write = 3 => b \in v)
Element(p, b, v) ==
  LET l == b \in latch[p]
      s == Source(p, b, v) IN
  IF reg.write = 1 \/ ~Affected(b, v) THEN l
  ELSE CASE reg.raster = "copy" -> s [] reg.raster = "and" -> s /\ l
         [] reg.raster = "or" -> s \/ l [] reg.raster = "xor" -> s # l
Planar == ~reg.chain4 /\ ~(reg.graphics /\ reg.mapping = 3)
ElementsRight ==
  [][ op'.kind = "write" /\ accesses' # accesses /\ Planar /\ (reg.write = 3 => reg.rotate = 0) =>
        \A p \in Planes, o \in Offsets, b \in Bits :
          b \in mem'[p][o] <=>
            IF InWindow(op'.addr) /\ o = WriteOffset(op'.addr) /\ p \in reg.mapmask
            THEN Element(p, b, op'.value) ELSE b \in mem[p][o] ]_memory

(* A byte that is read is the last that was written there, wherever the     *)
(* planes put it; where colours are compared, a bit is set if its element   *)
(* matches in the planes that are cared for (vga_mem_read()).               *)
BytesRead ==
  [][ /\ op'.kind = "read" /\ op.kind = "write" /\ ~Planar /\ reg.chain4 = (reg.mapping = 1)
      /\ op'.addr = op.addr /\ InWindow(op.addr) /\ ~reg.match /\ reg.map = 0
      => op'.value = op.value ]_memory
MatchesRead ==
  [][ op'.kind = "read" /\ accesses' # accesses /\ InWindow(op'.addr) /\ ~reg.chain4 /\ reg.match =>
        \A b \in Bits :
          b \in op'.value <=>
            \A p \in reg.care : b \in mem[p][ReadOffset(op'.addr)] <=> p \in reg.compare ]_memory
================================================================================

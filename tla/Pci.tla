---------------------------------- MODULE Pci ----------------------------------
(***************************************************************************)
(* The configuration space of the PCI devices and the memory map of the    *)
(* system (PCIDevice.cpp; RegisterMemory(), ReadMem() and WriteMem() of    *)
(* System.cpp). The firmware finds the size of each base address           *)
(* register, places it, and gives each device an interrupt; it may move    *)
(* a register later, or reset the bus.                                     *)
(***************************************************************************)
EXTENDS Integers, Sequences

CONSTANTS
  Bars,      \* [device -> [register -> [io, length]]]: std_config_data, std_config_mask
  Legacy,    \* the windows that the devices have from the start, a sequence of
             \* [dev, bar, io, base, length]; their registers are not among Bars
  Top,       \* the addresses of either space
  Lines,     \* [device -> interrupt], of those that interrupt: a slot has one of its own
  MaxChanges \* bound of the registers that are placed, and of the resets

VARIABLES
  data,      \* [device -> [register -> value]]: config_data
  command,   \* the enable bits of the devices: [io, mem]
  line,      \* the interrupt that config_data names, "ff" if none
  windows,   \* asMemories: a sequence of [dev, bar, io, base, length]
  drir,      \* the interrupts that are asserted in the Cchip
  asserting, \* the devices that assert theirs
  placed,    \* the firmware's: <<base, length>>, or <<>> while a register has no place
  changes

vars == <<data, command, line, windows, drir, asserting, placed, changes>>

Devices == DOMAIN Bars
Registers == {<<d, b>> \in Devices \X UNION {DOMAIN Bars[d] : d \in Devices} : b \in DOMAIN Bars[d]}
Masked(d, b, v) == v - (v % Bars[d][b].length)
Off == [io |-> FALSE, mem |-> FALSE]
Within(n, w) == n >= w.base /\ n < w.base + w.length

Init ==
  /\ data = [d \in Devices |-> [b \in DOMAIN Bars[d] |-> 0]]
  /\ command = [d \in Devices |-> Off]
  /\ line = [d \in Devices |-> "ff"]
  /\ windows = Legacy
  /\ drir = {} /\ asserting = {}
  /\ placed = [d \in Devices |-> [b \in DOMAIN Bars[d] |-> <<>>]]
  /\ changes = 0

-----------------------------------------------------------------------------
(* RegisterMemory(): a window that is registered again moves, and keeps its *)
(* rank.                                                                    *)
Same(w, x) == w.dev = x.dev /\ w.bar = x.bar
RegisterMemory(w) ==
  IF \E i \in DOMAIN windows : Same(windows[i], w)
  THEN [i \in DOMAIN windows |-> IF Same(windows[i], w) THEN w ELSE windows[i]]
  ELSE Append(windows, w)

(* config_write() of a base address register. Neither a zero nor the ones   *)
(* that ask for its size move the window (register_bar()).                  *)
ConfigWrite_Ones(d, b, v) ==
  /\ data' = [data EXCEPT ![d][b] = v]
  /\ windows' = IF v \in {0, Top - 1} THEN windows
                ELSE RegisterMemory([dev |-> d, bar |-> b, io |-> Bars[d][b].io, base |-> v,
                                     length |-> Bars[d][b].length])
ConfigWrite(d, b, v) ==
  LET m == Masked(d, b, v) IN
  /\ data' = [data EXCEPT ![d][b] = m]
  /\ windows' = IF m \in {0, Masked(d, b, Top - 1)} THEN windows
                ELSE RegisterMemory([dev |-> d, bar |-> b, io |-> Bars[d][b].io, base |-> m,
                                     length |-> Bars[d][b].length])

(* ReadMem() and WriteMem(): the first window that was registered has the   *)
(* address; the device answers if it is enabled. register_bar() has every   *)
(* register gated by the enable bit of I/O, those of memory as well.        *)
Dispatch(io, n) == {i \in DOMAIN windows : windows[i].io = io /\ Within(n, windows[i])}
Answers(w) ==
  IF w.bar \in DOMAIN Bars[w.dev] THEN command[w.dev].io
  ELSE IF w.io THEN command[w.dev].io ELSE command[w.dev].mem
Target(io, n) ==   \* <<>> if nothing happens, and a read gives zero
  IF Dispatch(io, n) = {} THEN <<>>
  ELSE LET w == windows[CHOOSE i \in Dispatch(io, n) : \A j \in Dispatch(io, n) : i <= j] IN
       IF Answers(w) THEN <<w.dev, w.bar, n - w.base>> ELSE <<>>

-----------------------------------------------------------------------------
(* The firmware. It asks for a size, and looks for a place that nothing     *)
(* else has.                                                                *)
Taken(d, b) ==
  {n \in 0 .. Top - 1 : \E i \in DOMAIN Legacy : Legacy[i].io = Bars[d][b].io /\ Within(n, Legacy[i])}
  \cup UNION {LET p == placed[r[1]][r[2]] IN
              IF p # <<>> /\ Bars[r[1]][r[2]].io = Bars[d][b].io THEN p[1] .. p[1] + p[2] - 1 ELSE {} :
              r \in Registers}
Size(d, b) ==
  /\ changes < MaxChanges /\ changes' = changes + 1
  /\ ConfigWrite(d, b, Top - 1)
  /\ placed' = [placed EXCEPT ![d][b] = <<>>]
  /\ UNCHANGED <<command, line, drir, asserting>>
Place(d, b) ==
  /\ placed[d][b] = <<>> /\ data[d][b] # 0
  /\ \E n \in 1 .. Top - 1 :
       LET length == Top - data[d][b] IN
       /\ n % length = 0 /\ n + length < Top /\ (n .. n + length - 1) \cap Taken(d, b) = {}
       /\ ConfigWrite(d, b, n)
       /\ placed' = [placed EXCEPT ![d][b] = <<n, length>>]
  /\ UNCHANGED <<command, line, drir, asserting, changes>>
Enable(d) ==       \* all that the device has, or nothing
  /\ command' = [command EXCEPT ![d] = IF @ = Off THEN [io |-> TRUE, mem |-> TRUE] ELSE Off]
  /\ UNCHANGED <<data, line, windows, drir, asserting, placed, changes>>
SetLine(d) ==      \* of a device that asserts nothing
  /\ d \notin asserting /\ line' = [line EXCEPT ![d] = IF @ = "ff" THEN Lines[d] ELSE "ff"]
  /\ UNCHANGED <<data, command, windows, drir, asserting, placed, changes>>

(* PCI reset (pchip_csr_write(), ResetPCI()): the windows of the registers  *)
(* stay where they were, and no interrupt is withdrawn: the guest has       *)
(* silenced the devices.                                                    *)
Reset ==
  /\ changes < MaxChanges /\ changes' = changes + 1 /\ asserting = {}
  /\ data' = [d \in Devices |-> [b \in DOMAIN Bars[d] |-> 0]]
  /\ command' = [d \in Devices |-> Off] /\ line' = [d \in Devices |-> "ff"]
  /\ placed' = [d \in Devices |-> [b \in DOMAIN Bars[d] |-> <<>>]]
  /\ UNCHANGED <<windows, drir, asserting>>

(* do_pci_interrupt().                                                      *)
PciInterrupt_Latched(d, level) ==
  drir' = IF line[d] # "ff" /\ level THEN drir \cup {line[d]} ELSE drir
PciInterrupt(d, level) ==
  drir' = IF line[d] = "ff" THEN drir ELSE IF level THEN drir \cup {line[d]} ELSE drir \ {line[d]}
Assert(d) ==
  /\ d \notin asserting /\ asserting' = asserting \cup {d} /\ PciInterrupt(d, TRUE)
  /\ UNCHANGED <<data, command, line, windows, placed, changes>>
Withdraw(d) ==
  /\ d \in asserting /\ asserting' = asserting \ {d} /\ PciInterrupt(d, FALSE)
  /\ UNCHANGED <<data, command, line, windows, placed, changes>>

Next ==
  \/ \E r \in Registers : Size(r[1], r[2]) \/ Place(r[1], r[2])
  \/ \E d \in Devices : Enable(d)
  \/ \E d \in DOMAIN Lines : SetLine(d) \/ Assert(d) \/ Withdraw(d)
  \/ Reset
Spec == Init /\ [][Next]_vars

-----------------------------------------------------------------------------
(* When the firmware has placed every register (again), an access reaches   *)
(* the device that has the address, at its offset, and no other; and        *)
(* nothing, where nobody is or who is there is not enabled: no window of    *)
(* before is left, though none is ever taken away (config_write(),          *)
(* RegisterMemory(), ReadMem()).                                            *)
Claims(io, n) ==
  {<<d, b, n - placed[d][b][1]>> : <<d, b>> \in
     {r \in Registers : /\ Bars[r[1]][r[2]].io = io /\ command[r[1]].io
                        /\ n \in placed[r[1]][r[2]][1] .. placed[r[1]][r[2]][1] + placed[r[1]][r[2]][2] - 1}}
  \cup {<<w.dev, w.bar, n - w.base>> : w \in
     {Legacy[i] : i \in {j \in DOMAIN Legacy : Legacy[j].io = io /\ Within(n, Legacy[j])
                                               /\ command[Legacy[j].dev] # Off}}}
Reached ==
  (\A r \in Registers : placed[r[1]][r[2]] # <<>>) =>
    \A io \in BOOLEAN, n \in 0 .. Top - 1 :
      Claims(io, n) = IF Target(io, n) = <<>> THEN {} ELSE {Target(io, n)}

(* The Cchip shows the interrupts of the devices that assert one, if it was *)
(* named before: the guest names interrupts, and resets, while the device   *)
(* is silent (do_pci_interrupt(), ResetPCI()).                              *)
LinesFollow == drir = {line[d] : d \in {e \in asserting : line[e] # "ff"}}
=============================================================================

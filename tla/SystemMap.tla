------------------------------- MODULE SystemMap -------------------------------
(***************************************************************************)
(* The system address space (ReadMem() and WriteMem() of System.cpp) and   *)
(* the registers of the chipset that are found in it: Cchip, Dchip, the    *)
(* two Pchips and the TIGbus. An address is <<its bits <43:24>, its bits   *)
(* <23:0>>>, a value the set of its bits. The MISC register is in          *)
(* Interrupts.                                                             *)
(*                                                                         *)
(* Then what the registers of a Pchip do to a PCI device that reads or     *)
(* writes memory as bus master: do_pci_read() and do_pci_write() in chunks *)
(* that end with a page, each translated by the windows (PCI_Phys()).      *)
(* Its addresses are scaled down to four bits: <0> is the byte in a page,  *)
(* <1> the page in a megabyte, and <3:2> are what windows compare.  The    *)
(* hole is the second page of the first megabyte.  Two of the four         *)
(* windows are modelled.  A transfer of a single element is translated     *)
(* once: it lies within a page.                                            *)
(***************************************************************************)
EXTENDS Integers, Sequences, FiniteSetsExt

CONSTANTS
  Windows,   \* asMemories: a sequence of [dev, first, last]
  MemoryBits, \* iNumMemoryBits
  Aliases,   \* what a guest puts in the bits <42:35> of an address
  Data,      \* the values it writes
  Offsets,   \* the addresses it writes in configuration space
  MaxWrites, \* bound
  Settings,   \* what the guest programs a window to, all its registers
  Tables,     \* scatter-gather tables it may have in memory
  MaxLength   \* bound: bytes in a transfer

MemoryBitsOK == MemoryBits \in 24 .. 34

Memory == 2^(MemoryBits - 24)  \* the upper parts of addresses below it are memory
Quad == 0 .. 63
Chips == {0, 1}

VARIABLES
  pchip,     \* [chip -> [register -> value]]: wsba, wsm, tba of four windows, pctl, perrmask
  csc, dim, drir, \* of the Cchip; a mask for each CPU
  tig,       \* [FwWrite, HaltA, HaltB]
  cf8,       \* cf8_address of the two buses
  wanted,    \* what the guest has put in each register, by its name
  writes,
  window,    \* WSBA, WSM and TBA of each window
  hole,      \* PCTL<HOLE>
  table,     \* the page table entries in memory: [valid, peer, page]
  transfer,  \* a transfer: its first address, its length, and where its bytes
             \* have gone so far
  steady     \* history: whether the windows are as they were at its start

registers == <<pchip, csc, dim, drir, tig, cf8, wanted, writes>>
master == <<window, hole, table, transfer, steady>>
vars == <<registers, master>>

-----------------------------------------------------------------------------
(* Addresses.                                                                 *)
Le(a, b) == a[1] < b[1] \/ (a[1] = b[1] /\ a[2] <= b[2])
In(a, first, last) == Le(first, a) /\ Le(a, last)
Top == 16777215
Upto(h) == <<h, Top>>

(* Bits <42:35> are not looked at.                                          *)
Masked_Not(a) == a
Masked(a) == <<(a[1] % \h800) + IF a[1] >= \h80000 THEN \h80000 ELSE 0, a[2]>>

Hit(a) == {i \in DOMAIN Windows : In(a, Windows[i].first, Windows[i].last)}
Offset(a, first) == (a[1] - first[1]) * (Top + 1) + a[2] - first[2]

(* Where an access of 32 bits, or of another size, goes. What no window     *)
(* has, ...                                                                 *)
Io(n) == <<IF n = 0 THEN \h801FC ELSE \h803FC, 0>>
Config(n, o) == <<IF n = 0 THEN \h801FE ELSE \h803FE, o>>
Chipset(a) ==
  CASE In(a, <<\h801A0, 0>>, Upto(\h801AF)) -> <<"cchip", Offset(a, <<\h801A0, 0>>)>>
    [] In(a, <<\h80180, 0>>, Upto(\h8018F)) -> <<"pchip 0", Offset(a, <<\h80180, 0>>)>>
    [] In(a, <<\h80380, 0>>, Upto(\h8038F)) -> <<"pchip 1", Offset(a, <<\h80380, 0>>)>>
    [] In(a, <<\h801B0, 0>>, Upto(\h801BF)) -> <<"dchip", Offset(a, <<\h801B0, 0>>)>>
    [] In(a, <<\h80100, 0>>, Upto(\h8013F)) -> <<"tig", Offset(a, <<\h80100, 0>>)>>
    [] In(a, Config(0, 0), Upto(\h801FE)) \/ In(a, Config(1, 0), Upto(\h803FE)) -> <<"ones", 0>>
    [] OTHER -> <<"nothing", 0>>
Claimed(a) ==
  IF Hit(a) = {} THEN Chipset(a)
  ELSE LET w == Windows[CHOOSE i \in Hit(a) : \A j \in Hit(a) : i <= j] IN
       <<w.dev, Offset(a, w.first)>>

(* ... after the address and data registers of configuration space.         *)
Target(address, long) ==
  LET a == Masked(address)
      port(n, o) == long /\ Hit(a) = {} /\ a = <<Io(n)[1], o>>
      bus == IF \E o \in {\hCF8, \hCFC} : port(0, o) THEN 0 ELSE 1 IN
  CASE a[1] < Memory -> <<"memory", a>>
    [] port(0, \hCF8) \/ port(1, \hCF8) -> <<"address", bus>>
    [] port(0, \hCFC) \/ port(1, \hCFC) -> Claimed(Config(bus, cf8[bus]))
    [] OTHER -> Claimed(a)

-----------------------------------------------------------------------------
(* pchip_csr_read() and pchip_csr_write().                                  *)
Window(o) == (o \div 64) % 4
PchipRead(n, o) ==
  CASE o \in {0, \h40, \h80, \hC0} -> pchip[n].wsba[Window(o)]
    [] o \in {\h100, \h140, \h180, \h1C0} -> pchip[n].wsm[Window(o)]
    [] o \in {\h200, \h240, \h280, \h2C0} -> pchip[n].tba[Window(o)]
    [] o = \h300 -> pchip[n].pctl
    [] o = \h400 -> pchip[n].perrmask
    [] OTHER -> {}
PctlBits == (0 .. 19) \cup (22 .. 27) \cup (32 .. 39) \cup (42 .. 44)
SetWindow(n, reg, o, v) == pchip' = [pchip EXCEPT ![n][reg][Window(o)] = v]
SetPctl_All(n, v) == pchip' = [pchip EXCEPT ![n].pctl = v \cap PctlBits]
SetPctl(n, v) == pchip' = [pchip EXCEPT ![n].pctl = (@ \ PctlBits) \cup (v \cap PctlBits)]
PchipWrite(n, o, v) ==
  CASE o \in {0, \h40, \h80} -> SetWindow(n, "wsba", o, v \cap ({0, 1} \cup (20 .. 31)))
    [] o = \hC0 -> SetWindow(n, "wsba", o, (v \cap ({0, 39} \cup (20 .. 31))) \cup {1})
    [] o \in {\h100, \h140, \h180, \h1C0} -> SetWindow(n, "wsm", o, v \cap (20 .. 31))
    [] o \in {\h200, \h240, \h280, \h2C0} -> SetWindow(n, "tba", o, v \cap (10 .. 34))
    [] o = \h300 -> SetPctl(n, v)
    [] o = \h400 -> pchip' = [pchip EXCEPT ![n].perrmask = v]
    [] OTHER -> UNCHANGED pchip

(* cchip_csr_read() and cchip_csr_write(): the masks of CPUs 2 and 3 are    *)
(* those of 0 and 1, bit 11 of their addresses being zero as well.          *)
CpuOf(o) == 2 * ((o \div 2048) % 2) + ((o \div 64) % 2)
Dims == {\h200, \h240, \h600, \h640}
Dirs == {\h280, \h2C0, \h680, \h6C0}
CscBits ==
  (16 .. 21) \cup (24 .. 38) \cup UNION {n .. n + 2 : n \in {40, 44, 48, 52, 56}}
CchipRead(o) ==
  CASE o = 0 -> csc
    [] o = \h100 -> {i \in 12 .. 15 : ((MemoryBits - 23) \div 2^(i - 12)) % 2 = 1}
    [] o \in Dims -> dim[CpuOf(o)]
    [] o \in Dirs -> drir \cap dim[CpuOf(o)]
    [] o = \h300 -> drir
    [] OTHER -> {}
CchipWrite(o, v) ==
  /\ csc' = IF o = 0 THEN (csc \ CscBits) \cup (v \cap CscBits) ELSE csc
  /\ dim' = IF o \in Dims THEN [dim EXCEPT ![CpuOf(o)] = v] ELSE dim

(* tig_read() and tig_write(), a byte.                                      *)
TigRegister(o) ==
  CASE o = \h30000040 -> "FwWrite" [] o = \h300003C0 -> "HaltA"
    [] o = \h300005C0 -> "HaltB" [] OTHER -> "none"
Byte(v) == v \cap (0 .. 7)
TigRead(o) ==
  IF TigRegister(o) # "none" THEN tig[TigRegister(o)]
  ELSE IF o = \h38000180 THEN 1 .. 7 ELSE {}
TigWrite(o, v) ==
  tig' = IF TigRegister(o) = "none" THEN tig ELSE [tig EXCEPT ![TigRegister(o)] = Byte(v)]

(* dchip_csr_read(), in each of the eight bytes.                            *)
Dchip == {<<\h800, {0, 1, 6}>>, <<\h840, {0, 2, 5}>>, <<\h880, {0}>>, <<\h8C0, {0, 1}>>}
DchipRead(o) == UNION {{8 * i + b : i \in 0 .. 7, b \in d[2]} : d \in {e \in Dchip : e[1] = o}}

Ones(size) == 0 .. size - 1
ReadMem(a, size) ==
  LET t == Target(a, size = 32)
      o == t[2] IN
  CASE t[1] = "cchip" -> CchipRead(o)
    [] t[1] = "pchip 0" -> PchipRead(0, o)
    [] t[1] = "pchip 1" -> PchipRead(1, o)
    [] t[1] = "dchip" -> DchipRead(o)
    [] t[1] = "tig" -> TigRead(o)
    [] t[1] = "ones" -> Ones(size)
    [] OTHER -> {}
WriteMem(a, size, v) ==
  LET t == Target(a, size = 32)
      o == t[2] IN
  /\ IF t[1] \in {"pchip 0", "pchip 1"} THEN PchipWrite(IF t[1] = "pchip 0" THEN 0 ELSE 1, o, v)
     ELSE UNCHANGED pchip
  /\ IF t[1] = "cchip" THEN CchipWrite(o, v) ELSE UNCHANGED <<csc, dim>>
  /\ IF t[1] = "tig" THEN TigWrite(o, v) ELSE UNCHANGED tig

-----------------------------------------------------------------------------
(* The guest knows the registers by the tables of pchip_csr_read() and      *)
(* tig_read(): name, address, writable bits.                                *)
Named(name, h, o, rw) == [name |-> name, at |-> <<h, o>>, rw |-> rw]
PchipTable(n, h) ==
  {Named(<<n, "WSBA", i>>, h, 64 * i, {0, 1} \cup (20 .. 31)) : i \in 0 .. 2}
  \cup {Named(<<n, "WSBA", 3>>, h, \hC0, {0, 39} \cup (20 .. 31)),
        Named(<<n, "PCTL", 0>>, h, \h300, PctlBits)}
  \cup {Named(<<n, "WSM", i>>, h, \h100 + 64 * i, 20 .. 31) : i \in 0 .. 3}
  \cup {Named(<<n, "TBA", i>>, h, \h200 + 64 * i, 10 .. 34) : i \in 0 .. 3}
Table ==
  PchipTable(0, \h80180) \cup PchipTable(1, \h80380)
  \cup {Named(<<0, "DIM", i>>, \h801A0, \h200 + 64 * i, Quad) : i \in {0, 1}}
  \cup {Named(<<0, r[1], 0>>, \h80130, r[2], 0 .. 7) :
          r \in {<<"smir", \h40>>, <<"ttcr", \h3C0>>, <<"ev6_halt", \h5C0>>}}
Names == {r.name : r \in Table}

(* The constructor: bits of PCTL and CSC that are set.                      *)
Pctl0(n) == {0, 7, 18, 22, 24, 34, 38, 44} \cup IF n = 1 THEN {46} ELSE {}
Csc0 ==
  {0, 1, 11, 12, 13, 14, 16, 18, 20, 26, 28, 38, 42, 46, 49, 54, 56, 60, 61}
RegistersInit ==
  /\ pchip = [n \in Chips |->
       [wsba |-> [i \in 0 .. 3 |-> IF i = 3 THEN {1} ELSE {}], wsm |-> [i \in 0 .. 3 |-> {}],
        tba |-> [i \in 0 .. 3 |-> {}], pctl |-> Pctl0(n), perrmask |-> {}]]
  /\ csc = Csc0 /\ dim = [c \in 0 .. 3 |-> {}] /\ drir = {}
  /\ tig = [FwWrite |-> {}, HaltA |-> {}, HaltB |-> {}]
  /\ cf8 = [n \in Chips |-> 0]
  /\ wanted = [r \in Names |->
       IF r[2] = "PCTL" THEN Pctl0(r[1])
       ELSE IF r = <<0, "WSBA", 3>> \/ r = <<1, "WSBA", 3>> THEN {1} ELSE {}]
  /\ writes = 0

Alias(a, x) == <<a[1] + (x * \h800), a[2]>>
Write(r, x, v) ==
  /\ writes < MaxWrites /\ writes' = writes + 1
  /\ WriteMem(Alias(r.at, x), 64, v)
  /\ wanted' = [wanted EXCEPT ![r.name] = (@ \ r.rw) \cup (v \cap r.rw)]
  /\ UNCHANGED <<drir, cf8>>
WriteCsc(x, v) ==
  /\ writes < MaxWrites /\ writes' = writes + 1
  /\ WriteMem(Alias(<<\h801A0, 0>>, x), 64, v) /\ UNCHANGED <<wanted, drir, cf8>>

(* The guest names a register of configuration space; its data register is  *)
(* read below.                                                              *)
WriteAddress(n, x, o) ==
  /\ writes < MaxWrites /\ writes' = writes + 1
  /\ Target(Alias(<<Io(n)[1], \hCF8>>, x), TRUE) = <<"address", n>>
  /\ cf8' = [cf8 EXCEPT ![n] = o]
  /\ UNCHANGED <<pchip, csc, dim, drir, tig, wanted>>
Request(v) ==      \* a device
  /\ drir = {} /\ drir' = v
  /\ UNCHANGED <<pchip, csc, dim, tig, cf8, wanted, writes>>
RegistersNext ==
  \/ \E x \in Aliases, v \in Data : WriteCsc(x, v) \/ \E r \in Table : Write(r, x, v)
  \/ \E n \in Chips, x \in Aliases, o \in Offsets : WriteAddress(n, x, o)
  \/ \E v \in Data : Request(v)

-----------------------------------------------------------------------------
(* A bus master behind the windows of a Pchip.                                *)
InPage == {0}
PageBits == {1}
WindowBits == {2, 3}
Addresses == 0 .. 15
Bits(n) == {b \in 0 .. 3 : (n \div 2^b) % 2 = 1}
Number(s) == MapThenSumSet(LAMBDA b : 2^b, s)

Idle == [address |-> 0, length |-> 0, gone |-> <<>>]
Off == [enabled |-> FALSE, sg |-> FALSE, base |-> {}, mask |-> {}, target |-> {}]

MasterInit ==
  /\ window = [w \in 0 .. 1 |-> Off] /\ hole = FALSE
  /\ table \in Tables
  /\ transfer = Idle /\ steady = TRUE

-----------------------------------------------------------------------------
(* Where an address goes: system memory, or a PCI bus by way of PIO. *)
InMemory(s) == [pio |-> FALSE, to |-> Number(s)]
OnBus(s) == [pio |-> TRUE, to |-> Number(s)]
Xor(s, t) == (s \ t) \cup (t \ s)

InHole(a) == hole /\ PageBits \subseteq a /\ a \cap WindowBits = {}
Matches(w, a) == window[w].enabled /\ Xor(a, window[w].base) \cap WindowBits \subseteq window[w].mask

(* PCI_Phys_direct_mapped(). *)
Direct(w, a) ==
  InMemory((a \cap (window[w].mask \cup InPage \cup PageBits))
           \cup ((window[w].target \ window[w].mask) \cap WindowBits))

(* PCI_Phys_scatter_gather(); an invalid entry leaves the address on the bus. *)
Pte(w, a) ==
  table[Number((a \cap (window[w].mask \cup PageBits)) \cup (window[w].target \ window[w].mask))]
Scattered(w, a) ==
  LET pte == Pte(w, a)
  IN CASE ~pte.valid -> OnBus(a)
       [] pte.valid /\ pte.peer -> OnBus(pte.page \cup (a \cap InPage))
       [] OTHER -> InMemory(pte.page \cup (a \cap InPage))

(* PCI_Phys(): the first window that matches. *)
PciPhys(n) ==
  LET a == Bits(n)
      hits == {w \in 0 .. 1 : Matches(w, a)}
  IN IF InHole(a) \/ hits = {} THEN OnBus(a)
     ELSE LET w == Min(hits) IN IF window[w].sg THEN Scattered(w, a) ELSE Direct(w, a)

-----------------------------------------------------------------------------
(* pchip_csr_write(). *)
WriteWindow(w, s) ==
  /\ window[w] # s
  /\ window' = [window EXCEPT ![w] = s]
  /\ steady' = (transfer = Idle)
  /\ UNCHANGED <<hole, table, transfer>>
WriteHole ==
  /\ hole' = ~hole
  /\ steady' = (transfer = Idle)
  /\ UNCHANGED <<window, table, transfer>>

Start(n, length) ==
  /\ transfer = Idle /\ n + length - 1 \in Addresses
  /\ transfer' = [address |-> n, length |-> length, gone |-> <<>>]
  /\ steady' = TRUE
  /\ UNCHANGED <<window, hole, table>>

(* pci_dma_chunk_limit(). Mutant: a page's worth, wherever in the page it   *)
(* begins.                                                                  *)
Chunk_WholePage(phys, remaining) == Min({remaining, 2})
Chunk(phys, remaining) == Min({remaining, 2 - (phys.to % 2)})

(* A pass of the loop of do_pci_read() or do_pci_write(). *)
Move ==
  /\ Len(transfer.gone) < transfer.length
  /\ LET done == Len(transfer.gone)
         phys == PciPhys(transfer.address + done)
         bytes == [k \in 1 .. Chunk(phys, transfer.length - done) |->
                     [phys EXCEPT !.to = @ + k - 1]]
     IN transfer' = [transfer EXCEPT !.gone = @ \o bytes]
  /\ UNCHANGED <<window, hole, table, steady>>
Finish ==
  /\ transfer # Idle /\ Len(transfer.gone) = transfer.length
  /\ transfer' = Idle /\ steady' = TRUE
  /\ UNCHANGED <<window, hole, table>>

MasterNext ==
  \/ \E w \in 0 .. 1, s \in Settings : WriteWindow(w, s)
  \/ WriteHole
  \/ \E n \in Addresses, length \in 1 .. MaxLength : Start(n, length)
  \/ Move \/ Finish

Init == RegistersInit /\ MasterInit
Next ==
  \/ RegistersNext /\ UNCHANGED master
  \/ MasterNext /\ UNCHANGED registers
Spec == Init /\ [][Next]_vars

-----------------------------------------------------------------------------
(* A register holds what the guest has put in its writable bits, whatever   *)
(* it has put in others and by whichever of its addresses; a CPU sees the   *)
(* requests that it has enabled (pchip_csr_write(), cchip_csr_read(),       *)
(* tig_write()).                                                            *)
RegistersHold ==
  \A x \in Aliases :
    /\ \A r \in Table : ReadMem(Alias(r.at, x), 64) = wanted[r.name]
    /\ \A c \in {0, 1} :
         ReadMem(Alias(<<\h801A0, \h280 + 64 * c>>, x), 64) = drir \cap wanted[<<0, "DIM", c>>]
    /\ csc \ CscBits = Csc0 \ CscBits

(* The data register of a bus is the register of configuration space that   *)
(* its address register names, of the same device and with the same absence *)
(* of one.                                                                  *)
ConfigReached ==
  \A n \in Chips :
    Target(<<Io(n)[1], \hCFC>>, TRUE) = Target(Config(n, cf8[n]), TRUE)

(* Each region of the table in WriteMem() answers where it begins and ends  *)
(* and not outside (but for what devices have registered), and memory ends  *)
(* where AAR says.                                                          *)
Regions ==
  {<<"tig", \h80100, \h8013F>>, <<"pchip 0", \h80180, \h8018F>>, <<"cchip", \h801A0, \h801AF>>,
   <<"dchip", \h801B0, \h801BF>>, <<"ones", \h801FE, \h801FE>>, <<"pchip 1", \h80380, \h8038F>>,
   <<"ones", \h803FE, \h803FE>>}
MemorySize ==
  LET v == ReadMem(<<\h801A0, \h100>>, 64)
      asiz == IF 12 \in v THEN 1 ELSE 0 IN
  2^(asiz + (IF 13 \in v THEN 2 ELSE 0) + (IF 14 \in v THEN 4 ELSE 0)
          + (IF 15 \in v THEN 8 ELSE 0) - 1)
Edges == UNION {{<<r[2] - 1, Top>>, <<r[2], 0>>, <<r[3], Top>>, <<r[3] + 1, 0>>} : r \in Regions}
         \cup {<<\h80000, 0>>, Upto(\h800FF), <<\h80200, 0>>, Upto(\h802FF), <<MemorySize, 0>>}
RegionsDecoded ==     \* in the initial state: it depends on none
  writes = 0 => \A a \in Edges, x \in Aliases :
    LET t == Target(Alias(a, x), FALSE)[1]
        r == {q \in Regions : a[1] \in q[2] .. q[3]} IN
    /\ Target(Upto(MemorySize - 1), FALSE)[1] = "memory"
    /\ Hit(a) = {} => t = (IF r = {} THEN "nothing" ELSE (CHOOSE q \in r : TRUE)[1])

(* A transfer is as good as one byte at a time: while the guest leaves the    *)
(* windows alone, each byte goes where PCI_Phys() sends its own address,      *)
(* across pages, windows, the hole and entries that are not valid.            *)
BytesTranslated ==
  steady => \A k \in 1 .. Len(transfer.gone) :
              transfer.gone[k] = PciPhys(transfer.address + k - 1)
================================================================================

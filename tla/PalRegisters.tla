------------------------------ MODULE PalRegisters ------------------------------
(***************************************************************************)
(* The internal registers of the processor that its PALcode reads and      *)
(* writes (HW_MFPR, HW_MTPR), whose fields are kept apart and lie in       *)
(* more than one register, the interrupts that they let through            *)
(* (execute()), and how the PALcode gets at memory (HW_LD, HW_ST). A       *)
(* quadword is the set of its bits. What instructions count, the           *)
(* translation buffers (TranslationBuffer) and registers that nothing      *)
(* ever sets (PCR, CRR, SLR, I_STAT, DC_STAT) are left out.                *)
(***************************************************************************)
EXTENDS Integers

CONSTANTS
  Patterns,    \* the quadwords that are written
  Groups,      \* sets of registers; of one of them the PALcode writes any
  Parts,       \* the sets of fields of PCTX that a function writes
  Pins,        \* the interrupt pins that are driven
  MaxWrites    \* bound of the writes

VARIABLES
  group,       \* the registers that are written
  ipr,         \* the fields of the state
  eir,         \* pins that are asserted
  check,       \* check_int
  pal,         \* whether PALcode is running: bit 0 of the PC
  want,        \* the bits that the registers were last given
  writes

vars == <<group, ipr, eir, check, pal, want, writes>>

(* What is written where, in the register or the fields of it that are      *)
(* written alone.                                                           *)
Places ==
  [asn |-> 39 .. 46, aster |-> 5 .. 8, astrr |-> 9 .. 12, ppcen |-> {1}, fpen |-> {2},
   cm |-> 3 .. 4, ier |-> 13 .. 38, sirr |-> 14 .. 28, pal_base |-> 15 .. 43,
   i_ctl |-> (0 .. 22 \ {14}) \cup 30 .. 47, va_ctl |-> 1 .. 2 \cup 30 .. 47,
   pctr |-> 0 .. 63 \ {5}, offset |-> 32 .. 63, cc |-> 4 .. 31, alt |-> 0 .. 1, m_ctl |-> 1 .. 3]
PctxFields == {"asn", "aster", "astrr", "ppcen", "fpen"}
Given(reg, fields) ==
  CASE reg = "PCTX" -> fields
    [] reg = "IER_CM" -> {"ier", "cm"}
    [] OTHER -> {reg}

Chip == {24, 29}      \* CPU_CHIP_ID, 0x21, in its place
Take(v, at, width) == {b \in 0 .. width - 1 : b + at \in v}
Put(f, at) == {b + at : b \in f}
Sext48(v) == v \cup (IF 47 \in v THEN 48 .. 63 ELSE {})
Number(f) == (IF 0 \in f THEN 1 ELSE 0) + (IF 1 \in f THEN 2 ELSE 0)

(* Of the fields, those that init() does not clear: floating point is       *)
(* enabled, and I_CTL.                                                      *)
Init ==
  /\ group \in Groups
  /\ ipr = [asn |-> {}, aster |-> {}, astrr |-> {}, ppcen |-> {}, fpen |-> {0}, cm |-> {},
            asten |-> {}, sien |-> {}, pcen |-> {}, cren |-> {}, slen |-> {}, eien |-> {},
            sir |-> {}, pal_base |-> {}, i_ctl_other |-> {1, 2, 7, 13, 20, 22},
            i_ctl_vptb |-> {}, i_ctl_spe |-> {}, sde |-> {}, hwe |-> {}, i_ctl_va_mode |-> {},
            va_ctl_vptb |-> {}, va_ctl_va_mode |-> {}, pctr_ctl |-> {}, cc_offset |-> {},
            cc |-> {}, alt_cm |-> {}, m_ctl_spe |-> {}]
  /\ want = [[g \in DOMAIN Places |-> {}] EXCEPT !.fpen = {2}, !.i_ctl = {1, 2, 7, 13, 20, 22}]
  /\ eir = {} /\ check = FALSE /\ pal = TRUE /\ writes = 0

-----------------------------------------------------------------------------
(* DO_HW_MTPR                                                                *)
WritePctx(s, v, fields) ==
  [s EXCEPT !.asn = IF "asn" \in fields THEN Take(v, 39, 8) ELSE @,
            !.aster = IF "aster" \in fields THEN Take(v, 5, 4) ELSE @,
            !.astrr = IF "astrr" \in fields THEN Take(v, 9, 4) ELSE @,
            !.ppcen = IF "ppcen" \in fields THEN Take(v, 1, 1) ELSE @,
            !.fpen = IF "fpen" \in fields THEN Take(v, 2, 1) ELSE @]
WriteCm(s, v) == [s EXCEPT !.cm = Take(v, 3, 2)]
WriteIer(s, v) ==
  [s EXCEPT !.asten = Take(v, 13, 1), !.sien = Take(v, 13, 16) \ {0}, !.pcen = Take(v, 29, 2),
            !.cren = Take(v, 31, 1), !.slen = Take(v, 32, 1), !.eien = Take(v, 33, 6)]
WriteIctl(s, v) ==
  [s EXCEPT !.i_ctl_other = v \cap ({0, 1, 2, 5, 6, 8, 9, 10, 11, 13} \cup 17 .. 22),
            !.i_ctl_vptb = Sext48(v \cap 30 .. 47), !.i_ctl_spe = Take(v, 3, 2),
            !.sde = Take(v, 7, 1), !.hwe = Take(v, 12, 1), !.i_ctl_va_mode = Take(v, 15, 2)]
WriteVaCtl(s, v) ==
  [s EXCEPT !.va_ctl_vptb = Sext48(v \cap 30 .. 47), !.va_ctl_va_mode = Take(v, 1, 2)]
WriteIerCm_Stops(s, v) == WriteCm(s, v)
WriteIerCm(s, v) == WriteIer(WriteCm(s, v), v)     \* IER_CM goes on to IER
Write(s, reg, v) ==
  CASE reg = "cm" -> WriteCm(s, v)
    [] reg = "ier" -> WriteIer(s, v)
    [] reg = "IER_CM" -> WriteIerCm(s, v)
    [] reg = "sirr" -> [s EXCEPT !.sir = Take(v, 13, 16) \ {0}]
    [] reg = "pal_base" -> [s EXCEPT !.pal_base = v \cap 15 .. 43]
    [] reg = "i_ctl" -> WriteIctl(s, v)
    [] reg = "pctr" -> [s EXCEPT !.pctr_ctl = v \ {5}]
    [] reg = "alt" -> [s EXCEPT !.alt_cm = v \cap 0 .. 1]
    [] reg = "m_ctl" -> [s EXCEPT !.m_ctl_spe = Take(v, 1, 3)]
    [] reg = "offset" -> [s EXCEPT !.cc_offset = Take(v, 32, 32)]
    [] reg = "cc" -> [s EXCEPT !.cc = v \cap 4 .. 31]
    [] reg = "va_ctl" -> WriteVaCtl(s, v)
Checks_Enabled(reg, fields) == reg \in {"cm", "ier", "IER_CM", "sirr"} \/ "aster" \in fields
Checks(reg, fields) ==
  reg \in {"cm", "ier", "IER_CM", "sirr"} \/ (reg = "PCTX" /\ {"aster", "astrr"} \cap fields # {})
Mtpr ==
  /\ pal /\ writes < MaxWrites /\ writes' = writes + 1
  /\ \E reg \in group, v \in Patterns :
       \E fields \in IF reg = "PCTX" THEN Parts ELSE {{}} :
         /\ ipr' = IF reg = "PCTX" THEN WritePctx(ipr, v, fields) ELSE Write(ipr, reg, v)
         /\ check' = (check \/ Checks(reg, fields))
         /\ want' = [g \in DOMAIN Places |->
              IF g \in Given(reg, fields) THEN v \cap Places[g] ELSE want[g]]
  /\ UNCHANGED <<eir, pal>>

(* DO_HW_MFPR                                                                *)
ToMode(s) == {m \in s.aster \cap s.astrr : m <= Number(s.cm)}
ReadPctx ==
  UNION {Put(ipr.asn, 39), Put(ipr.astrr, 9), Put(ipr.aster, 5), Put(ipr.fpen, 2),
         Put(ipr.ppcen, 1)}
ReadIerCm ==
  UNION {Put(ipr.eien, 33), Put(ipr.slen, 32), Put(ipr.cren, 31), Put(ipr.pcen, 29),
         Put(ipr.sien, 13), Put(ipr.asten, 13), Put(ipr.cm, 3)}
ReadIsum ==
  UNION {Put(eir \cap ipr.eien, 33), Put(ipr.sir \cap ipr.sien, 13),
         IF ipr.asten = {} THEN {}
         ELSE Put(ToMode(ipr) \cap 0 .. 1, 3) \cup Put(ToMode(ipr) \cap 2 .. 3, 7)}
ReadIctl ==
  UNION {ipr.i_ctl_other, Chip, ipr.i_ctl_vptb, Put(ipr.i_ctl_va_mode, 15), Put(ipr.hwe, 12),
         Put(ipr.sde, 7), Put(ipr.i_ctl_spe, 3)}
ReadCc == Put(ipr.cc_offset, 32) \cup ipr.cc

(* va_form(): where the entry of an address is in the page table.           *)
VaForm(mode, base, va) ==
  LET at == {b - 10 : b \in va \ 0 .. 9} IN
  CASE mode = 0 -> (base \cap 33 .. 63) \cup (at \cap 3 .. 32)
    [] mode = 1 -> (base \cap 43 .. 63) \cup (at \cap 3 .. 37)
                     \cup (IF 37 \in at THEN 38 .. 42 ELSE {})
    [] mode = 2 -> (base \cap 30 .. 63) \cup (at \cap 3 .. 21)
    [] OTHER -> {}
ReadVaForm(va) == VaForm(Number(ipr.va_ctl_va_mode), ipr.va_ctl_vptb, va)
ReadIvaForm(va) == VaForm(Number(ipr.i_ctl_va_mode), ipr.i_ctl_vptb, va)

(* execute(): when check_int is set and PALcode is not running. GO_PAL()    *)
(* leaves it set.                                                           *)
Deliverable ==
  \/ ipr.eien \cap eir # {} \/ ipr.sien \cap ipr.sir # {}
  \/ (ipr.asten # {} /\ ToMode(ipr) # {})
Deliver ==
  /\ ~pal /\ check /\ pal' = Deliverable /\ check' = Deliverable
  /\ UNCHANGED <<ipr, eir, want, writes>>
(* CALL_PAL and exceptions enter PALcode by themselves, HW_RET leaves it.   *)
Call == ~pal /\ pal' = TRUE /\ UNCHANGED <<ipr, eir, check, want, writes>>
Return == pal /\ pal' = FALSE /\ UNCHANGED <<ipr, eir, check, want, writes>>
Drive ==               \* irq_h(), without a delay
  /\ \E pin \in Pins :
       \/ pin \notin eir /\ eir' = eir \cup {pin} /\ check' = TRUE
       \/ pin \in eir /\ eir' = eir \ {pin} /\ UNCHANGED check
  /\ UNCHANGED <<ipr, pal, want, writes>>

Next == UNCHANGED group /\ (Mtpr \/ Deliver \/ Call \/ Return \/ Drive)
Spec == Init /\ [][Next]_vars

-----------------------------------------------------------------------------
(* DO_HW_LDL, DO_HW_LDQ, DO_HW_STL, DO_HW_STQ: what the functions do; the   *)
(* odd ones are those of quadwords.                                         *)
Way(how, flags) == [how |-> how, flags |-> flags]
Load(function) ==
  CASE function \in {0, 1} -> Way("physical", {})
    [] function \in {2, 3} -> Way("locked", {})
    [] function \in {4, 5} -> Way("virtual", {"no check", "vpte"})
    [] function \in {8, 9} -> Way("virtual", {"no check"})
    [] function \in {10, 11} -> Way("virtual", {})
    [] function \in {12, 13} -> Way("virtual", {"no check", "alt"})
    [] function \in {14, 15} -> Way("virtual", {"alt"})
Store(function) ==
  CASE function \in {0, 1} -> Way("physical", {})
    [] function \in {2, 3} -> Way("locked", {})
    [] function \in {4, 5} -> Way("virtual", {"no check"})
    [] function \in {12, 13} -> Way("virtual", {"no check", "alt"})

(* virt2phys(): the regions of memory that the kernel reaches without       *)
(* tables.                                                                  *)
Unmapped_NoAlt(way, region) ==
  way.how = "virtual" /\ ipr.cm = {} /\ region \in ipr.m_ctl_spe
Unmapped(way, region) ==
  /\ way.how = "virtual" /\ region \in ipr.m_ctl_spe
  /\ (IF "alt" \in way.flags THEN ipr.alt_cm ELSE ipr.cm) = {}

-----------------------------------------------------------------------------
(* A register, and each field of PCTX, IER and CM, reads as it was last     *)
(* written, alone or with others (DO_HW_MTPR, DO_HW_MFPR).                  *)
RegistersRead ==
  /\ ReadPctx = UNION {want[g] : g \in PctxFields}
  /\ ReadIerCm = want.cm \cup want.ier
  /\ Put(ipr.sir, 13) = want.sirr
  /\ ipr.pal_base = want.pal_base /\ ipr.pctr_ctl = want.pctr
  /\ ReadIctl = Sext48(want.i_ctl) \cup Chip
  /\ ReadCc = want.offset \cup want.cc

(* ISUM shows what was enabled and requested, at the place of each, and     *)
(* something if and only if execute() delivers; while code that is not      *)
(* PALcode runs, nothing is deliverable without check_int being set,        *)
(* whichever of the mode, masks, requests and pins made it so.              *)
AstBit == <<3, 4, 9, 10>>
Mode == Number({b - 3 : b \in want.cm})
IsumRight ==
  /\ ReadIsum = UNION {{33 + pin : pin \in {p \in eir : 33 + p \in want.ier}},
                       want.sirr \cap want.ier,
                       {AstBit[m + 1] : m \in {k \in 0 .. Mode :
                          13 \in want.ier /\ 5 + k \in want.aster /\ 9 + k \in want.astrr}}}
  /\ (ReadIsum # {}) = Deliverable
  /\ ~pal /\ Deliverable => check

(* An access for another mode, whether it is checked or not, reaches what   *)
(* the kernel alone does only if that mode is the kernel, others if the     *)
(* current one is (DO_HW_LDL, DO_HW_STL, virt2phys()); function bits 1 to 3 *)
(* say all that is said of it.                                              *)
ModesRight ==
  \A region \in 0 .. 2, function \in 4 .. 15 \ {6, 7} :
    /\ Unmapped(Load(function), region) =
         (1 + region \in want.m_ctl /\ (IF function >= 12 THEN want.alt ELSE want.cm) = {})
    /\ function \in {4, 5, 12, 13} =>
         Unmapped(Store(function), region) = Unmapped(Load(function), region)

(* Two addresses have one entry in the table of a base, eight bytes long,   *)
(* if and only if they are in one page of those that its format has room    *)
(* for (va_form()).                                                         *)
PageOf(mode, va) ==
  va \cap CASE mode = 0 -> 13 .. 42 [] mode = 1 -> 13 .. 47 [] mode = 2 -> 13 .. 31
FormRight(mode, Form(_)) ==
  LET form == [v \in Patterns |-> Form(v)]
      page == [v \in Patterns |-> PageOf(mode, v)]
  IN mode # 3 => \A v, w \in Patterns :
       (form[v] = form[w]) = (page[v] = page[w]) /\ form[v] \cap 0 .. 2 = {}
FormsRight ==
  /\ FormRight(Number({b - 1 : b \in want.va_ctl \cap 1 .. 2}), ReadVaForm)
  /\ FormRight(Number({b - 15 : b \in want.i_ctl \cap 15 .. 16}), ReadIvaForm)
=============================================================================

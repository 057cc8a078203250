------------------------------- MODULE VmsFault -------------------------------
(***************************************************************************)
(* What becomes of an access to virtual memory under the replacement of    *)
(* the PALcode of OpenVMS: virt2phys(), the handlers of translation        *)
(* buffer misses and of faults that it calls (AlphaCPU_vmspal.cpp), and    *)
(* PROBER and PROBEW. Page tables have a directory of two levels and a     *)
(* page of entries, itself mapped in virtual memory; which entry of the    *)
(* buffer is replaced is the matter of TranslationBuffer, here any may     *)
(* be.                                                                     *)
(***************************************************************************)
EXTENDS Integers

CONSTANTS
  Page,     \* pages of virtual memory
  Super,    \* those in the region that the kernel reaches without tables
  Mode,     \* modes of the processor
  Entries,  \* entries that the guest makes
  Levels    \* entries that it makes in the directory

VARIABLES
  dir,      \* the entries on the two levels above,
  table,    \*   and that of each page
  dtb, itb, \* state.tb: pages and, in dtb, the page of the tables
  faulted   \* history: the page and access that a fault-on bit was just reported for

vars == <<dir, table, dtb, itb, faulted>>

Kernel == 0
Tables == "tables"
None == <<>>
Absent == [v |-> FALSE, fo |-> {}, re |-> {}, we |-> {}]

Init ==
  /\ dir \in [1 .. 2 -> Levels] /\ table \in [Page -> Entries]
  /\ dtb = [p \in Page \cup {Tables} |-> Absent] /\ itb = [p \in Page |-> Absent]
  /\ faulted = None

Accesses ==
  [page : Page, kind : {"read", "write"}, mode : Mode, by : {"code", "pal"}, r31 : BOOLEAN]
  \cup [page : Page, kind : {"exec"}, mode : Mode, by : {"code"}, r31 : {FALSE}]
  \cup [page : Page, kind : {"read", "write"}, mode : Mode, by : {"probe"}, r31 : {FALSE}]

Granted(pte, kind, mode) == mode \in IF kind = "write" THEN pte.we ELSE pte.re
Result(what, as) == [what |-> what, as |-> as]
Done == Result("done", "")

-----------------------------------------------------------------------------
(* vmspal_ent_dtbm_double_3(): an entry of the tables is in a page that the *)
(* buffer does not have. A fetch finds what an earlier miss has left in p5  *)
(* and p7.                                                                  *)
Walked == dtb[Tables].v \/ (dir[1].v /\ dir[2].v)
DirectoryRead == IF dir[1].v THEN Granted(dir[2], "read", Kernel) ELSE Granted(dir[1], "read", Kernel)
Double3(a) ==
  LET why == IF DirectoryRead THEN "tnv" ELSE "acv" IN
  CASE a.by = "probe" -> IF DirectoryRead THEN Result(why, a.kind) ELSE Result("no", "")
    [] a.by = "pal" -> Result("pal", "")
    [] a.kind = "exec" -> Result("any", "")
    [] a.by = "code" /\ a.kind = "read" /\ a.r31 -> Result("skip", "")
    [] OTHER -> Result(why, a.kind)

(* vmspal_ent_dtbm_single(): the entry is invalid. After a double miss p5   *)
(* holds the PC, so that what it takes for MM_STAT says that the access is  *)
(* a read.                                                                  *)
Known(a) == IF dtb[Tables].v THEN a.kind ELSE "read"
DtbmSingle(a) ==
  LET pte == table[a.page] IN
  CASE a.by = "probe" -> Result(IF Granted(pte, a.kind, a.mode) THEN "yes" ELSE "no", "")
    [] a.by = "pal" -> Result("pal", "")
    [] a.by = "code" /\ Known(a) = "read" /\ a.r31 -> Result("skip", "")
    [] OTHER -> Result(IF Granted(pte, Known(a), a.mode) THEN "tnv" ELSE "acv", Known(a))

(* vmspal_ent_itbm(): an entry that is invalid or faults on execution.      *)
Itbm(a) ==
  LET pte == table[a.page] IN
  Result(IF ~Granted(pte, "exec", a.mode) THEN "acv" ELSE IF pte.v THEN "foe" ELSE "tnv", "exec")

(* vmspal_ent_dfault(), vmspal_ent_iacv(): what the entry in the buffer     *)
(* forbids.                                                                 *)
Dfault(a, why) ==
  CASE a.by = "probe" -> Result(IF why = "acv" THEN "no" ELSE "yes", "")
    [] a.by = "pal" -> Result("pal", "")
    [] a.by = "code" /\ a.kind = "read" /\ a.r31 -> Result("skip", "")
    [] OTHER -> Result(why, a.kind)
Checked(a, pte) ==
  CASE ~Granted(pte, a.kind, a.mode) ->
         IF a.kind = "exec" THEN Result("acv", "exec") ELSE Dfault(a, "acv")
    [] Granted(pte, a.kind, a.mode) /\ a.kind \in pte.fo ->
         Dfault(a, IF a.kind = "write" THEN "fow" ELSE "for")
    [] OTHER -> IF a.by = "probe" THEN Result("yes", "") ELSE Done

(* virt2phys(). The buffer of instructions has no entries that fault:       *)
(* add_tb_i() clears their bits.                                            *)
Fits_Exec(pte, kind) == pte.v
Fits(pte, kind) == pte.v /\ ~(kind = "exec" /\ "exec" \in pte.fo)
Buffer(a) == IF a.kind = "exec" THEN itb ELSE dtb
Bypassed(a) == a.page \in Super /\ a.mode = Kernel
Virt2phys(a) ==
  CASE Bypassed(a) -> IF a.by = "probe" THEN Result("yes", "") ELSE Done
    [] ~Bypassed(a) /\ Buffer(a)[a.page].v -> Checked(a, Buffer(a)[a.page])
    [] ~Bypassed(a) /\ ~Buffer(a)[a.page].v /\ ~Walked -> Double3(a)
    [] ~Bypassed(a) /\ ~Buffer(a)[a.page].v /\ Walked /\ Fits(table[a.page], a.kind) ->
         Checked(a, table[a.page])
    [] OTHER -> IF a.kind = "exec" THEN Itbm(a) ELSE DtbmSingle(a)

-----------------------------------------------------------------------------
(* What it leaves in the buffer: entries on the way, but not one that       *)
(* dfault() has invalidated.                                                *)
Missed(a) == ~Bypassed(a) /\ ~Buffer(a)[a.page].v
Filled(a) == [Buffer(a) EXCEPT ![a.page] =
                IF Missed(a) /\ Walked /\ Fits(table[a.page], a.kind) THEN table[a.page] ELSE @]
Faults_Kept(a) == FALSE
Faults(a) ==
  /\ ~Bypassed(a) /\ a.kind # "exec" /\ Filled(a)[a.page].v
  /\ Granted(Filled(a)[a.page], a.kind, a.mode) /\ a.kind \in Filled(a)[a.page].fo
  /\ ~(a.by = "code" /\ a.kind = "read" /\ a.r31)
Access(a) ==
  /\ itb' = IF a.kind = "exec" THEN Filled(a) ELSE itb
  /\ LET d == IF a.kind = "exec" THEN dtb ELSE Filled(a) IN
     dtb' = [d EXCEPT ![Tables] = IF Missed(a) /\ Walked /\ ~@.v THEN dir[2] ELSE @,
                      ![a.page] = IF Faults(a) THEN Absent ELSE @]
  /\ faulted' = IF Virt2phys(a).what \in {"for", "fow", "foe"}
                THEN <<a.page, a.kind>> ELSE None
  /\ UNCHANGED <<dir, table>>

(* vmspal_call_prober(), vmspal_call_probew(): the first and the last byte, *)
(* in the mode of the caller or in a less privileged one; R0 is 1 if both   *)
(* can be accessed.                                                         *)
Less(m, n) == IF m > n THEN m ELSE n
Prober_First(kind, p, q, cm, mode) ==
  Virt2phys([page |-> p, kind |-> kind, mode |-> Less(cm, mode), by |-> "probe", r31 |-> FALSE])
Prober(kind, p, q, cm, mode) ==
  LET result(x) == Virt2phys([page |-> x, kind |-> kind, mode |-> Less(cm, mode), by |-> "probe",
                              r31 |-> FALSE]) IN
  IF result(p).what = "yes" THEN result(q) ELSE result(p)

-----------------------------------------------------------------------------
(* The guest makes an entry valid at will, but when it changes a valid one  *)
(* it invalidates it in the buffer. A fault-on bit that was reported it     *)
(* clears without.                                                          *)
SetEntry(p, pte) ==
  /\ table' = [table EXCEPT ![p] = pte] /\ faulted' = None
  /\ IF table[p].v
     THEN dtb' = [dtb EXCEPT ![p] = Absent] /\ itb' = [itb EXCEPT ![p] = Absent]
     ELSE UNCHANGED <<dtb, itb>>
  /\ UNCHANGED dir
ClearFault ==
  /\ faulted # None /\ table' = [table EXCEPT ![faulted[1]].fo = @ \ {faulted[2]}]
  /\ faulted' = None /\ UNCHANGED <<dir, dtb, itb>>
SetLevel(i, pte) ==
  /\ dir' = [dir EXCEPT ![i] = pte] /\ faulted' = None
  /\ IF dir[i].v
     THEN dtb' = [p \in DOMAIN dtb |-> Absent] /\ itb' = [p \in Page |-> Absent]
     ELSE UNCHANGED <<dtb, itb>>
  /\ UNCHANGED table
Evict ==
  /\ \/ \E p \in DOMAIN dtb : dtb' = [dtb EXCEPT ![p] = Absent] /\ UNCHANGED itb
     \/ \E p \in Page : itb' = [itb EXCEPT ![p] = Absent] /\ UNCHANGED dtb
  /\ UNCHANGED <<dir, table, faulted>>

Next ==
  \/ \E a \in Accesses : Access(a)
  \/ \E p \in Page, pte \in Entries : SetEntry(p, pte)
  \/ \E i \in 1 .. 2, pte \in Levels : SetLevel(i, pte)
  \/ ClearFault \/ Evict
Spec == Init /\ [][Next]_vars

-----------------------------------------------------------------------------
(* What the tables say of an access, as the architecture has it.            *)
Verdict(a) ==
  LET pte == table[a.page] IN
  CASE Bypassed(a) -> "done"
    [] ~Bypassed(a) /\ ~(dir[1].v /\ dir[2].v) -> IF DirectoryRead THEN "tnv" ELSE "acv"
    [] ~Bypassed(a) /\ dir[1].v /\ dir[2].v /\ ~Granted(pte, a.kind, a.mode) -> "acv"
    [] ~Bypassed(a) /\ dir[1].v /\ dir[2].v /\ Granted(pte, a.kind, a.mode) ->
         CASE ~pte.v -> "tnv"
           [] pte.v /\ a.kind \in pte.fo ->
                (CASE a.kind = "read" -> "for" [] a.kind = "write" -> "fow" [] OTHER -> "foe")
           [] OTHER -> "done"
InDirectory(a) == ~Bypassed(a) /\ ~(dir[1].v /\ dir[2].v)
Expected(a) ==
  LET v == Verdict(a) IN
  CASE a.by = "probe" ->
         IF InDirectory(a) /\ v = "tnv" THEN Result("tnv", a.kind)
         ELSE Result(IF v = "acv" THEN "no" ELSE "yes", "")
    [] a.by # "probe" /\ v = "done" -> Done
    [] a.by = "pal" /\ v # "done" -> Result("pal", "")
    [] a.by = "code" /\ v # "done" ->
         IF a.kind = "read" /\ a.r31 THEN Result("skip", "") ELSE Result(v, a.kind)

(* An access is done if the tables allow it, whatever the buffers hold, and *)
(* else it is reported for what it is: but for a write to an invalid page   *)
(* whose entry was missed as well, and a fetch from below an invalid        *)
(* directory (virt2phys(), vmspal_ent_*()).                                 *)
Misread(a) ==
  /\ Missed(a)
  /\ \/ a.by = "code" /\ a.kind = "write" /\ ~dtb[Tables].v /\ Walked /\ ~table[a.page].v
     \/ a.kind = "exec" /\ ~Walked
FaultsRight == \A a \in Accesses : Misread(a) \/ Virt2phys(a) = Expected(a)

(* PROBE answers for both ends of the structure (vmspal_call_prober()).     *)
ProbesRight ==
  \A kind \in {"read", "write"}, p, q \in Page, cm, m \in Mode :
    LET of(x) == Expected([page |-> x, kind |-> kind, mode |-> Less(cm, m), by |-> "probe",
                           r31 |-> FALSE]) IN
    Prober(kind, p, q, cm, m).what = "yes" <=> of(p).what = "yes" /\ of(q).what = "yes"
=============================================================================

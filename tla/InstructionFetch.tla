-------------------------- MODULE InstructionFetch --------------------------
(***************************************************************************)
(* Instruction fetch, get_icache(): with the instruction cache, whose      *)
(* lines are kept by virtual address, or without it, where the physical    *)
(* address of the PC is kept for the rest of the page.  LoadROM() runs     *)
(* the firmware's decompression with the cache enabled and then goes       *)
(* back to the configuration.                                              *)
(*                                                                         *)
(* Virtual page 0 is mapped per address space, page 1 alike in all         *)
(* (ASM). PALmode addresses are physical.  The guest is external: one      *)
(* that stores into code, or maps page 0 elsewhere, flushes before it      *)
(* executes there.                                                         *)
(***************************************************************************)
EXTENDS Integers, FiniteSetsExt

CONSTANTS
  Lines,    \* ICACHE_ENTRIES
  PageSize, \* instructions in a page; a line holds one
  Asn,      \* address space numbers
  Pal,      \* physical addresses PALcode runs at
  Code,     \* and instructions the guest modifies
  MaxOwed   \* bound: changes of code or of mappings not flushed

Slot == 0 .. Lines - 1
None == -1
PrivateFrames == {0, 1}
GlobalFrame == 2
Memory == 0 .. 3 * PageSize - 1     \* instructions in memory
Virtual == 0 .. 2 * PageSize - 1
Addresses(pal) == IF pal THEN Pal ELSE Virtual

(* What the firmware and the guest are: address space 0 is the first, and   *)
(* PALcode and the code that is modified are in memory.                     *)
ParametersOK ==
  /\ Lines \in Nat \ {0} /\ PageSize \in Nat \ {0}
  /\ 0 \in Asn /\ Pal \subseteq Memory /\ Pal # {} /\ Code \subseteq Memory

VARIABLES
  pc,          \* state.pc: an address, and the PALmode bit
  pcPhys, rem, \* pc_phys and rem_ins_in_page
  asn,         \* the current address space
  enabled,     \* icache_enabled,
  config,      \*   and what the configuration says
  icache, nextLine, lastFound,
  map,         \* where page 0 of an address space is
  mem,         \* the instructions in memory
  owed         \* lines changed, and spaces mapped elsewhere, since a flush
vars == <<pc, pcPhys, rem, asn, enabled, config, icache, nextLine, lastFound, map, mem, owed>>
pcVars == <<pc, pcPhys, rem>>
cacheVars == <<icache, nextLine, lastFound>>
guestVars == <<map, mem, owed>>

(* What an invalid line holds is never used. *)
Invalid == [valid |-> FALSE, asn |-> 0, asm |-> FALSE, at |-> [pal |-> FALSE, v |-> 0], data |-> 0]

(* LoadROM() starts the firmware in PALmode with the cache enabled.          *)
Init ==
  /\ pc = [pal |-> TRUE, v |-> Min(Pal)] /\ pcPhys = 0 /\ rem = 0
  /\ asn = 0
  /\ enabled = TRUE /\ config \in BOOLEAN
  /\ icache = [i \in Slot |-> Invalid] /\ nextLine = 0 /\ lastFound = 0
  /\ map = [a \in Asn |-> 0] /\ mem = [a \in Memory |-> (a \div PageSize) % 2] /\ owed = {}

-----------------------------------------------------------------------------
Global(at) == at.v >= PageSize
Translate(at) ==
  IF at.pal THEN at.v
  ELSE (at.v % PageSize) + PageSize * (IF Global(at) THEN GlobalFrame ELSE map[asn])

(* The line the cache has of the PC: the one found last, or the first. *)
Hit(i) ==
  /\ icache[i].valid
  /\ icache[i].asn = asn \/ icache[i].asm
  /\ icache[i].at = pc
Found ==
  LET hits == {i \in Slot : Hit(i)}
  IN IF lastFound \in hits THEN lastFound ELSE IF hits = {} THEN None ELSE Min(hits)

(* The address get_icache() reads, and the instruction it returns. *)
Phys == IF pc.pal \/ rem = 0 THEN Translate(pc) ELSE pcPhys
Instruction ==
  IF ~enabled THEN mem[Phys] ELSE IF Found # None THEN icache[Found].data ELSE mem[Translate(pc)]

(* The guest executes no code it has changed, or mapped elsewhere, unflushed. *)
Allowed ==
  /\ <<"line", Translate(pc)>> \notin owed
  /\ pc.pal \/ Global(pc) \/ <<"space", asn>> \notin owed

(* next_pc(); where the PC is in memory matters while instructions remain.  *)
(* Mutant: the instructions that remain in the page are not counted.        *)
Advance_NoCount(phys, n) ==
  /\ pc' = [pc EXCEPT !.v = IF @ + 1 \in Addresses(pc.pal) THEN @ + 1 ELSE Min(Addresses(pc.pal))]
  /\ rem' = n
  /\ pcPhys' = IF rem' = 0 THEN 0 ELSE phys + 1
Advance(phys, n) ==
  /\ pc' = [pc EXCEPT !.v = IF @ + 1 \in Addresses(pc.pal) THEN @ + 1 ELSE Min(Addresses(pc.pal))]
  /\ rem' = IF n > 0 THEN n - 1 ELSE 0
  /\ pcPhys' = IF rem' = 0 THEN 0 ELSE phys + 1

Cached ==
  /\ enabled /\ Allowed
  /\ IF Found # None
     THEN lastFound' = Found /\ UNCHANGED <<icache, nextLine>>
     ELSE /\ icache' = [icache EXCEPT ![nextLine] =
               [valid |-> TRUE, asn |-> asn, asm |-> pc.pal \/ Global(pc), at |-> pc,
                data |-> mem[Translate(pc)]]]
          /\ lastFound' = nextLine /\ nextLine' = (nextLine + 1) % Lines
  /\ Advance(pcPhys, rem)
  /\ UNCHANGED <<asn, enabled, config, guestVars>>
Uncached ==
  /\ ~enabled /\ Allowed
  /\ Advance(Phys, IF pc.pal THEN 1 ELSE IF rem = 0 THEN PageSize - (pc.v % PageSize) ELSE rem)
  /\ UNCHANGED <<asn, enabled, config, cacheVars, guestVars>>

(* set_pc() and add_pc(): branches, traps, and returns from PALcode. *)
Jump(to) ==
  /\ to.v \in Addresses(to.pal)
  /\ pc' = to /\ rem' = 0 /\ pcPhys' = 0
  /\ UNCHANGED <<asn, enabled, config, cacheVars, guestVars>>

-----------------------------------------------------------------------------
(* flush_icache() and flush_icache_asm() do nothing to a cache that is off.   *)
FlushAll ==
  IF enabled
  THEN /\ icache' = [i \in Slot |-> Invalid]
       /\ nextLine' = 0 /\ lastFound' = 0
  ELSE UNCHANGED cacheVars
Flush ==
  /\ FlushAll /\ owed' = {}
  /\ UNCHANGED <<pcVars, asn, enabled, config, map, mem>>
FlushAsm ==
  /\ icache' = IF enabled
               THEN [i \in Slot |-> IF icache[i].asm THEN icache[i] ELSE Invalid]
               ELSE icache
  /\ owed' = {o \in owed : o[1] = "line"}
  /\ UNCHANGED <<pcVars, asn, enabled, config, nextLine, lastFound, map, mem>>

(* restore_icache(), once the decompression is done. *)
Restore ==
  /\ enabled' = config
  /\ IF ~config THEN FlushAll ELSE UNCHANGED cacheVars
  /\ UNCHANGED <<pcVars, asn, config, guestVars>>

(* The address space changes in PALmode, or below code of the global page     *)
(* (the PALcode functions of cpu_misc.hpp leave the PC alone).                *)
SetAsn(a) ==
  /\ pc.pal \/ Global(pc)
  /\ asn' = a
  /\ UNCHANGED <<pcVars, enabled, config, cacheVars, guestVars>>
Remap(a) ==
  /\ Cardinality(owed) < MaxOwed
  /\ pc.pal \/ Global(pc)
  /\ map' = [map EXCEPT ![a] = 1 - @] /\ owed' = owed \cup {<<"space", a>>}
  /\ UNCHANGED <<pcVars, asn, enabled, config, cacheVars, mem>>
Modify(a) ==
  /\ Cardinality(owed) < MaxOwed
  /\ mem' = [mem EXCEPT ![a] = 1 - @] /\ owed' = owed \cup {<<"line", a>>}
  /\ UNCHANGED <<pcVars, asn, enabled, config, cacheVars, map>>

Next ==
  \/ Cached \/ Uncached \/ (\E to \in [pal : BOOLEAN, v : Memory] : Jump(to))
  \/ Flush \/ FlushAsm \/ Restore
  \/ (\E a \in Asn : SetAsn(a) \/ Remap(a)) \/ (\E a \in Code : Modify(a))

Spec == Init /\ [][Next]_vars

-----------------------------------------------------------------------------
TypeOK ==
  /\ pc \in [pal : BOOLEAN, v : Memory] /\ rem \in 0 .. PageSize /\ pcPhys \in Memory
  /\ \A i \in Slot : icache[i].data \in {0, 1}
  /\ nextLine \in Slot /\ lastFound \in Slot

(* The instruction that is executed is the one in memory where the PC is      *)
(* mapped: neither a line of another address space or of code since changed,  *)
(* nor a physical address kept beyond its page, its mapping or a jump.        *)
FetchesCurrent == Allowed => Instruction = mem[Translate(pc)]
=============================================================================

------------------------------ MODULE NicStatus ------------------------------
(***************************************************************************)
(* CSR5 of CDEC21143 and the interrupt it raises.  The network thread      *)
(* ORs events into the register, recomputes the summary bits at the end    *)
(* of each round and drives the PCI interrupt when its level has           *)
(* changed; the CPU's thread acknowledges events and changes the enable    *)
(* mask in nic_write(). Every update of CSR5 is a load and a store, and    *)
(* nothing locks it.                                                       *)
(***************************************************************************)
EXTENDS Naturals

CONSTANTS
  Normal,      \* events that NIS sums up: RI, TI, TU, ...
  Abnormal,    \* events that AIS sums up: RU, LNPANC, ...
  Masks,       \* the values the guest gives CSR7
  MaxEvents    \* bound: rounds in which something happens

Event == Normal \cup Abnormal
Summary == {"NIS", "AIS"}

VARIABLES
  csr5,        \* state.reg[CSR_STATUS/8]: events and summary bits
  inten,       \* CSR7, the enable mask
  routed,      \* the interrupt line register: whether it names a line
  irqWas,      \* irq_was_asserted
  pin,         \* the level CSystem::interrupt() has been called with
  round,       \* where the network thread is in run()
  tmp,         \* the value of CSR5 it has loaded
  sampled,     \* asserted
  events,      \* events so far
  access,      \* the CPU's access to CSR5: idle, or the bits to clear and set
  loaded,      \* the value of CSR5 it has loaded
  quiet        \* the CPU has stopped writing registers
vars == <<csr5, inten, routed, irqWas, pin, round, tmp, sampled, events,
          access, loaded, quiet>>
cpuVars == <<inten, routed, access, loaded, quiet>>
threadVars == <<irqWas, pin, round, tmp, sampled, events>>

Idle == [at |-> "idle", clear |-> {}, set |-> {}]

Init ==
  /\ csr5 = {} /\ inten = {} /\ routed = FALSE
  /\ irqWas = FALSE /\ pin = FALSE
  /\ round = "work" /\ tmp = {} /\ sampled = FALSE /\ events = 0
  /\ access = Idle /\ loaded = {} /\ quiet = FALSE

-----------------------------------------------------------------------------
(* One round of run(): reception and transmission may report events ... *)
LoadForEvent ==
  /\ round = "work" /\ events < MaxEvents
  /\ tmp' = csr5
  /\ round' = "report"
  /\ UNCHANGED <<csr5, irqWas, pin, sampled, events, cpuVars>>

StoreEvent(e) ==
  /\ round = "report"
  /\ csr5' = tmp \cup {e}
  /\ events' = events + 1
  /\ round' = "work" /\ tmp' = {}
  /\ UNCHANGED <<irqWas, pin, sampled, cpuVars>>

(* ... then the summary bits are cleared ... *)
LoadForSummary ==
  /\ round = "work"
  /\ tmp' = csr5
  /\ round' = "clear"
  /\ UNCHANGED <<csr5, irqWas, pin, sampled, events, cpuVars>>

(* Mutant: the summary bits of earlier rounds stay. *)
ClearSummary_Not ==
  /\ round = "clear"
  /\ csr5' = tmp
  /\ round' = "normal" /\ tmp' = {}
  /\ UNCHANGED <<irqWas, pin, sampled, events, cpuVars>>

ClearSummary ==
  /\ round = "clear"
  /\ csr5' = tmp \ Summary
  /\ round' = "normal" /\ tmp' = {}
  /\ UNCHANGED <<irqWas, pin, sampled, events, cpuVars>>

(* ... and set, each after a test of the enabled events. *)
TestSummary(here, there, sources, next) ==
  /\ round = here
  /\ IF csr5 \cap inten \cap sources # {}
     THEN round' = there /\ tmp' = csr5
     ELSE round' = next /\ UNCHANGED tmp
  /\ UNCHANGED <<csr5, irqWas, pin, sampled, events, cpuVars>>
SetSummary(here, bit, next) ==
  /\ round = here
  /\ csr5' = tmp \cup {bit}
  /\ round' = next /\ tmp' = {}
  /\ UNCHANGED <<irqWas, pin, sampled, events, cpuVars>>

Summarise ==
  \/ TestSummary("normal", "setNormal", Normal, "abnormal")
  \/ SetSummary("setNormal", "NIS", "abnormal")
  \/ TestSummary("abnormal", "setAbnormal", Abnormal, "sample")
  \/ SetSummary("setAbnormal", "AIS", "sample")

(* The level of the interrupt: any event or summary bit that is enabled. *)
Asserted == csr5 \cap inten # {}
Sample ==
  /\ round = "sample"
  /\ sampled' = Asserted
  /\ round' = "drive"
  /\ UNCHANGED <<csr5, irqWas, pin, tmp, events, cpuVars>>

(* Mutant: the level counts as reported although no line is programmed. *)
DriveLine_Unrouted ==
  /\ round = "drive"
  /\ irqWas' = sampled
  /\ pin' = IF sampled # irqWas /\ routed THEN sampled ELSE pin
  /\ round' = "work" /\ sampled' = FALSE
  /\ UNCHANGED <<csr5, tmp, events, cpuVars>>

(* do_pci_interrupt() is called when the level differs from the one reported *)
(* last; it fails as long as the guest has programmed no line.               *)
DriveLine ==
  /\ round = "drive"
  /\ IF sampled # irqWas /\ routed
     THEN pin' = sampled /\ irqWas' = sampled
     ELSE UNCHANGED <<pin, irqWas>>
  /\ round' = "work" /\ sampled' = FALSE
  /\ UNCHANGED <<csr5, tmp, events, cpuVars>>

-----------------------------------------------------------------------------
(* nic_write(), in the CPU's thread.  Accesses that clear or set bits of     *)
(* CSR5: a write to it clears, a poll demand clears TU, starting             *)
(* autonegotiation sets LNPANC.                                              *)
Access(clear, set) ==
  /\ access.at = "idle" /\ ~quiet
  /\ access' = [at |-> "store", clear |-> clear, set |-> set]
  /\ loaded' = csr5
  /\ UNCHANGED <<csr5, inten, routed, quiet, threadVars>>
WriteStatus == \E bits \in SUBSET Event \ {{}} : Access(bits \cup Summary, {})
TxPoll == Access({"TU"}, {})
StartAutonegotiation == Access({}, {"LNPANC"})

StoreStatus ==
  /\ access.at = "store"
  /\ csr5' = (loaded \ access.clear) \cup access.set
  /\ access' = Idle /\ loaded' = {}
  /\ UNCHANGED <<inten, routed, quiet, threadVars>>

WriteIntEn(mask) ==
  /\ access.at = "idle" /\ ~quiet
  /\ inten' = mask
  /\ UNCHANGED <<csr5, routed, access, loaded, quiet, threadVars>>

(* ResetNIC() clears the registers, and leaves irq_was_asserted to the      *)
(* thread.                                                                  *)
ResetNIC ==
  /\ access.at = "idle" /\ ~quiet
  /\ csr5' = {} /\ inten' = {}
  /\ UNCHANGED <<routed, access, loaded, quiet, threadVars>>

(* The guest programs the interrupt line register. *)
RouteInterrupt ==
  /\ access.at = "idle" /\ ~quiet
  /\ routed' = TRUE
  /\ UNCHANGED <<csr5, inten, access, loaded, quiet, threadVars>>

(* From here on the guest leaves the interface alone. *)
Quiesce ==
  /\ access.at = "idle" /\ ~quiet
  /\ quiet' = TRUE
  /\ UNCHANGED <<csr5, inten, routed, access, loaded, threadVars>>

Thread ==
  \/ LoadForEvent \/ (\E e \in Event \ {"LNPANC"} : StoreEvent(e))
  \/ LoadForSummary \/ ClearSummary \/ Summarise \/ Sample \/ DriveLine
Next ==
  \/ Thread
  \/ WriteStatus \/ TxPoll \/ StartAutonegotiation \/ StoreStatus
  \/ (\E mask \in Masks : WriteIntEn(mask))
  \/ ResetNIC \/ RouteInterrupt \/ Quiesce

Fairness == WF_vars(Thread) /\ WF_vars(StoreStatus)
Spec == Init /\ [][Next]_vars
FairSpec == Spec /\ Fairness

-----------------------------------------------------------------------------
(* No interrupt is forgotten for good: whatever accesses have raced with the  *)
(* thread, once the guest stops writing registers the line it has programmed  *)
(* settles at the level of the enabled bits of CSR5.                          *)
LineCatchesUp == quiet ~> <>[](routed => (pin <=> Asserted))

(* ... and so do the summary bits: set exactly for the events enabled.        *)
SummaryCatchesUp ==
  quiet ~> <>[](round \in {"sample", "drive", "work"} =>
                  /\ "NIS" \in csr5 <=> csr5 \cap inten \cap Normal # {}
                  /\ "AIS" \in csr5 <=> csr5 \cap inten \cap Abnormal # {})
=============================================================================

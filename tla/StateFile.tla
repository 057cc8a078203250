------------------------------ MODULE StateFile ------------------------------
(***************************************************************************)
(* A state file (System.cpp): the memory, whose runs of zero words are     *)
(* compressed, and then the components' states in their order, each with   *)
(* its magic number and size. The file is read into a system that may      *)
(* have been configured otherwise. One step is one turn of the loop over   *)
(* the memory, or one component.                                           *)
(***************************************************************************)
EXTENDS Integers, Sequences, SequencesExt, FiniteSetsExt

CONSTANTS
  Words,     \* the memory in words: memints
  Values,    \* the values of a word, among them 0
  Saved,     \* the components that are saved: sequences of [name, size]
  Systems    \* the components that read the file: such sequences too

(* What SaveState() of a component writes and RestoreState() looks for.     *)
(* Sizes may be the same for different states, and other in another version *)
(* of the program.                                                          *)
Item(is, value) == [is |-> is, value |-> value]
State(first, name, second) ==
  <<Item("magic", first), Item("size", "short"), Item("state", name), Item("magic", second)>>
CPCIDevice == State("C1095A78", "PCI device", "87A5901C")
PciState(first, name, second) == CPCIDevice \o State(first, name, second)

CAlphaCPU == State("2126468C", "AlphaCPU", "C8646212")
CDMA == State("65324387", "DMA", "24092875")
CDPR == State("18A7B92D", "DPR", "D29B7A81")
CDisk == State("D15D15D1", "Disk", "15D15D5")
CFlash == State("FF3E3FF3", "Flash", "3FF3E3FF")
CFloppyController == State("0FDC0FDC", "FloppyController", "FDC0FDC0")
CKeyboard == State("65481687", "Keyboard", "24895375")
CPort80 == State("80FFAA80", "Port80", "AA8080FF")
CSCSIBus == State("5C510123", "SCSIBus", "32105C51")
CSerial == State("5A15A15A", "Serial", "1A51A51A")
CAliM1543C == PciState("A111543C", "AliM1543C", "C345111A")
CAliM1543C_ide == PciState("B222654D", "AliM1543C_ide", "D456222C")
CAliM1543C_usb == PciState("9000432B", "AliM1543C_usb", "B2340009")
CCirrus == PciState("C1AA4500", "Cirrus", "0054AA1C")
CDEC21143 == PciState("DEC21143", "DEC21143", "21143DEC")
CS3Trio64 == PciState("53338811", "S3Trio64", "88115333")
CSym53C810 == PciState("53C810CC", "Sym53C810", "CC53C810")
CSym53C895 == PciState("53C895CC", "Sym53C895", "CC53C895")
Formats ==
  [CAlphaCPU |-> CAlphaCPU, CDMA |-> CDMA, CDPR |-> CDPR, CDisk |-> CDisk,
   CFlash |-> CFlash, CFloppyController |-> CFloppyController, CKeyboard |-> CKeyboard,
   CPort80 |-> CPort80, CSCSIBus |-> CSCSIBus, CSerial |-> CSerial,
   CAliM1543C |-> CAliM1543C, CAliM1543C_ide |-> CAliM1543C_ide,
   CAliM1543C_usb |-> CAliM1543C_usb, CCirrus |-> CCirrus, CDEC21143 |-> CDEC21143,
   CS3Trio64 |-> CS3Trio64, CSym53C810 |-> CSym53C810, CSym53C895 |-> CSym53C895]
Format(component) ==
  LET s == Formats[component.name] IN [s EXCEPT ![Len(s) - 2].value = component.size]
Formatted(components) == FlattenSeq([i \in DOMAIN components |-> Format(components[i])])

VARIABLES
  mem,       \* the memory
  beyond,    \* the word after it, which the loop reads too
  m,         \* the loop's word
  file,      \* what has been written and not yet read
  pc,        \* "save", "restart", "restore", "done" or "failed"
  states, system, c, \* the components saved and reading; the next of them
  saved,     \* the memory that was saved
  written,   \* what of the components' states went to the file
  held       \* the states that the components have read

vars == <<mem, beyond, m, file, pc, states, system, c, saved, written, held>>

Init ==
  /\ mem \in [0 .. Words - 1 -> Values] /\ beyond \in Values /\ saved = mem
  /\ states \in Saved /\ system \in Systems /\ c = 1
  /\ m = 0 /\ file = <<>> /\ pc = "save" /\ written = <<>> /\ held = <<>>

Word(i) == IF i < Words THEN mem[i] ELSE beyond

(* SaveState(): a word that is not zero goes to the file as it is ...       *)
SaveWord ==
  /\ pc = "save" /\ m < Words /\ mem[m] # 0
  /\ file' = Append(file, mem[m]) /\ m' = m + 1
  /\ UNCHANGED <<mem, beyond, pc, states, system, c, saved, written, held>>

(* ... and a run of zero words as a zero and the number of the words after  *)
(* it.                                                                      *)
RunEnd_Late(i) ==
  /\ i \in m + 1 .. Words /\ (i = Words \/ Word(i) # 0)
  /\ \A k \in m + 2 .. i - 1 : Word(k) = 0
RunEnd(i) ==
  /\ i \in m + 1 .. Words /\ (i = Words \/ Word(i) # 0)
  /\ \A k \in m + 1 .. i - 1 : Word(k) = 0
SaveRun ==
  /\ pc = "save" /\ m < Words /\ mem[m] = 0
  /\ \E i \in m + 1 .. Words :
       /\ RunEnd(i)
       /\ file' = file \o <<0, i - m - 1>>
       /\ m' = IF Word(i) # 0 THEN i ELSE i + 1
  /\ UNCHANGED <<mem, beyond, pc, states, system, c, saved, written, held>>

(* The components follow; nobody looks whether fwrite() has written all of  *)
(* them.                                                                    *)
SaveStates ==
  /\ pc = "save" /\ m >= Words
  /\ LET all == Formatted(states) IN
     \E n \in {0, Len(all) - 2, Len(all)} : n >= 0 /\ written' = SubSeq(all, 1, n)
  /\ file' = file \o written'
  /\ pc' = "restart" /\ UNCHANGED <<mem, beyond, m, states, system, c, saved, held>>

(* Another run, whose memory holds anything; no component has been          *)
(* restored.                                                                *)
Restart ==
  /\ pc = "restart" /\ pc' = "restore" /\ m' = 0
  /\ \E v \in Values : mem' = [i \in 0 .. Words - 1 |-> v]
  /\ UNCHANGED <<beyond, file, states, system, c, saved, written, held>>

(* RestoreState(): a word, or a run of zero words ...                       *)
RestoreWord ==
  /\ pc = "restore" /\ m < Words
  /\ LET n == IF Head(file) = 0 THEN file[2] ELSE 0 IN
     /\ mem' = [i \in 0 .. Words - 1 |->
                  IF i = m THEN Head(file)
                  ELSE IF i \in m + 1 .. m + n THEN 0 ELSE mem[i]]
     /\ m' = m + n + 1
     /\ file' = SubSeq(file, IF Head(file) = 0 THEN 3 ELSE 2, Len(file))
  /\ UNCHANGED <<beyond, pc, states, system, c, saved, written, held>>

(* ... and the components, each of which reads what it has once saved: the  *)
(* first that finds another magic number or size, or the end of the file,   *)
(* ends the program.                                                        *)
Fits_Magic(i, s) == i <= Len(file) /\ file[i].is = s.is /\ (s.is = "magic" => file[i] = s)
Fits_AtEnd(i, s) == i <= Len(file) => file[i].is = s.is /\ (s.is # "state" => file[i] = s)
Fits(i, s) == i <= Len(file) /\ file[i].is = s.is /\ (s.is # "state" => file[i] = s)
RestoreComponent ==
  /\ pc = "restore" /\ m >= Words /\ c <= Len(system)
  /\ LET s == Format(system[c])
         fit == {n \in 0 .. Len(s) : \A i \in 1 .. n : Fits(i, s[i])}
         n == Max(fit) IN
     /\ held' = held \o SelectSeq(SubSeq(file, 1, Min({n, Len(file)})), LAMBDA i : i.is = "state")
     /\ file' = SubSeq(file, n + 1, Len(file))
     /\ IF n = Len(s) THEN c' = c + 1 /\ UNCHANGED pc ELSE pc' = "failed" /\ UNCHANGED c
  /\ UNCHANGED <<mem, beyond, m, states, system, saved, written>>
Finish ==
  /\ pc = "restore" /\ m >= Words /\ c > Len(system) /\ pc' = "done"
  /\ UNCHANGED <<mem, beyond, m, file, states, system, c, saved, written, held>>

Next ==
  \/ SaveWord \/ SaveRun \/ SaveStates \/ Restart \/ RestoreWord
  \/ RestoreComponent \/ Finish
Spec == Init /\ [][Next]_vars

-----------------------------------------------------------------------------
(* What is restored is what was saved, word for word, whatever follows the  *)
(* memory; a system whose components are others, or that finds a part of    *)
(* the file, does not go on, unless it has only fewer of them; and none has *)
(* the state of another kind (SaveState(), RestoreState()).                 *)
States(items) == SelectSeq(items, LAMBDA i : i.is = "state")
Restored ==
  /\ m >= Words /\ pc \in {"restore", "done", "failed"} => mem = saved
  /\ pc = "done" => IsPrefix(Formatted(system), written)
  /\ pc \in {"restore", "done", "failed"} => IsPrefix(held, States(Formatted(system)))
=============================================================================

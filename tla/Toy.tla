--------------------------------- MODULE Toy ---------------------------------
(***************************************************************************)
(* The time-of-year clock of the ALi chipset (AliM1543C.cpp). It has no    *)
(* time of its own: each write of the index below 14 takes the host's      *)
(* time again, counts for the emulated update in progress, and collects    *)
(* the interrupt flags.                                                    *)
(***************************************************************************)
EXTENDS Integers, Sequences

CONSTANTS
  Times,     \* the host's clock: a sequence of [h, m, s]
  Modes,     \* the values of register B: sets of "SET", "PIE", "UIE", "DM", "24"
  Polls,     \* index writes without an update: 1000000 / (IPus * 3)
  Hold       \* and with one: 2228 / (IPus * 3) + 1

VARIABLES
  now,       \* the host's time, an index of Times
  b, c,      \* registers B and C, as sets of their bits
  uip, rate, \* register A: update in progress, and whether a rate is set
  reads, hold, \* read_count, hold_count
  index, port, \* toy_access_ports[0] and [1]: bits, or a number
  guest      \* the guest's read of the time: how many registers it has read,
             \* what each of them said, and the host's time when it began

vars == <<now, b, c, uip, rate, reads, hold, index, port, guest>>

Fields == <<"s", "m", "h", "s", "m", "h">>   \* the guest reads the time twice
Bits(f) == [bits |-> f, n |-> 0]
NoRead == [n |-> 0, said |-> <<>>, since |-> 0]
Init ==
  /\ now = 1 /\ b \in Modes /\ c = {} /\ uip = FALSE /\ rate = FALSE
  /\ reads = 0 /\ hold = 0 /\ index = "A" /\ port = Bits({})
  /\ guest = NoRead

(* toy_write(): the host's time in the representation that register B asks  *)
(* for.                                                                     *)
Coded(n) == IF "DM" \in b THEN n ELSE 16 * (n \div 10) + (n % 10)
Hour_After12(h) ==
  IF "24" \in b THEN Coded(h) ELSE (IF h > 12 THEN 128 ELSE 0) + Coded(h % 12)
Hour(h) ==
  IF "24" \in b THEN Coded(h) ELSE (IF h \div 12 = 1 THEN 128 ELSE 0) + Coded(h % 12)
Field(f) ==
  LET t == Times[now] IN
  CASE f = "s" -> Coded(t.s) [] f = "m" -> Coded(t.m) [] f = "h" -> Hour(t.h)

(* The update in progress, emulated by counting (no further than it         *)
(* matters).                                                                *)
UpdateEnds == uip /\ (hold - 1 = 0 \/ "SET" \in b)
Update_Held == uip' = (uip \/ reads >= Polls) /\ reads' = (IF uip THEN reads ELSE reads + 1)
  /\ hold' = Hold
Update ==
  /\ IF uip
     THEN /\ hold' = hold - 1 /\ uip' = ~UpdateEnds
          /\ reads' = IF UpdateEnds THEN 0 ELSE reads
     ELSE /\ reads' = IF reads > Polls THEN reads ELSE reads + 1
          /\ uip' = (reads' > Polls)
          /\ hold' = IF reads' > Polls THEN Hold ELSE hold

(* toy_update_irqf()                                                         *)
WithIrqf(flags) ==
  LET raised == (flags \cap {"PF"} # {} /\ "PIE" \in b)
             \/ (flags \cap {"UF"} # {} /\ "UIE" \in b) IN
  (flags \ {"IRQF"}) \cup IF raised THEN {"IRQF"} ELSE {}

(* A write of the index, with fires saying that a period has elapsed since  *)
(* toy_pi_last_fire. The data of a read come with it; register C is         *)
(* cleared.                                                                 *)
Happened(fires) ==
  (IF UpdateEnds THEN {"UF"} ELSE {}) \cup (IF fires /\ rate THEN {"PF"} ELSE {})
Flags_Early(fires) == WithIrqf(c) \cup Happened(fires)
Flags(fires) == WithIrqf(c \cup Happened(fires))
WriteIndex(i, fires) ==
  /\ index' = i /\ Update
  /\ port' = CASE i = "C" -> Bits(Flags(fires))
               [] i \in {"s", "m", "h"} -> [bits |-> {}, n |-> Field(i)]
               [] i = "A" -> Bits(IF uip' THEN {"UIP"} ELSE {})
               [] i = "B" -> Bits(b)
  /\ c' = IF i = "C" THEN {} ELSE Flags(fires)
  /\ UNCHANGED <<now, b, rate>>

(* A write of the data of register A or B. One that enables the periodic    *)
(* interrupt makes C look as if it had fired.                               *)
WriteA ==
  /\ index = "A" /\ rate' = TRUE /\ uip' = FALSE
  /\ UNCHANGED <<now, b, c, reads, hold, index, port, guest>>
WriteB(v) ==
  /\ index = "B" /\ guest = NoRead /\ b' = v
  /\ c' = IF "PIE" \in v THEN {"IRQF", "PF", "AF", "UF"} ELSE c
  /\ UNCHANGED <<now, uip, rate, reads, hold, index, port, guest>>

(* The guest: it reads hours, minutes and seconds until it has read the     *)
(* same time twice, polls register A, and reads register C when it is       *)
(* interrupted.                                                             *)
Accepted(said) == SubSeq(said, 1, 3) = SubSeq(said, 4, 6)
ReadTime ==
  /\ guest.n < 6 /\ WriteIndex(Fields[guest.n + 1], FALSE)
  /\ guest' = [n |-> guest.n + 1, said |-> Append(guest.said, port'.n),
               since |-> IF guest.n = 0 THEN now ELSE guest.since]
TimeRead == guest.n = 6 /\ guest' = NoRead
            /\ UNCHANGED <<now, b, c, uip, rate, reads, hold, index, port>>
Read(i) ==
  /\ \E fires \in BOOLEAN : WriteIndex(i, fires)
  /\ UNCHANGED guest
Poll == Read("A")

Tick ==
  /\ now < Len(Times) /\ now' = now + 1
  /\ UNCHANGED <<b, c, uip, rate, reads, hold, index, port, guest>>

Next ==
  \/ Tick \/ ReadTime \/ TimeRead \/ Poll \/ Read("B") \/ Read("C") \/ WriteA
  \/ \E v \in Modes : WriteB(v)
Spec == Init /\ [][Next]_vars /\ WF_vars(Poll)

-----------------------------------------------------------------------------
(* A guest that has read the same time twice has read a time that the       *)
(* host's clock showed while it did, although each register is of another   *)
(* moment (toy_write()).                                                    *)
Decoded(n) == IF "DM" \in b THEN n ELSE 10 * (n \div 16) + (n % 16)
DecodedHour(n) ==
  IF "24" \in b \/ n < 128 THEN Decoded(n) ELSE 12 + Decoded(n - 128)
TimeRight ==
  guest.n = 6 /\ Accepted(guest.said) =>
    \E t \in guest.since .. now :
      Times[t] = [h |-> DecodedHour(guest.said[3]), m |-> Decoded(guest.said[2]),
                  s |-> Decoded(guest.said[1])]

(* The interrupt flag is read if and only if the flag of an enabled         *)
(* interrupt is, those that the same access has set among them              *)
(* (toy_update_irqf()).                                                     *)
FlagsRight ==
  index = "C" =>
    LET read == port.bits IN
    "IRQF" \in read <=> ("PF" \in read /\ "PIE" \in b) \/ ("UF" \in read /\ "UIE" \in b)

(* Who polls for an update sees it begin and end.                           *)
UpdatesHappen == []<>uip /\ []<>~uip
=============================================================================

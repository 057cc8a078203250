------------------------------- MODULE Keyboard -------------------------------
(***************************************************************************)
(* The keyboard controller with its keyboard and mouse (Keyboard.cpp),     *)
(* called by three threads: the window's, which brings keys; its own,      *)
(* which moves a byte to the output buffer and requests interrupts; and    *)
(* the CPU's. A call is a step. The guest's driver sends one command at    *)
(* a time and reads when interrupted.                                      *)
(***************************************************************************)
EXTENDS Integers, Sequences, SequencesExt

CONSTANTS
  KbdElements, MouseSize, QSize,  \* the sizes of the three buffers
  Keys,        \* the lengths of the scan codes of the keys that are pressed
  Commands,    \* what the driver sends: [port, c], a command and where it goes
  MaxCommands  \* bound of the commands sent

VARIABLES
  s,         \* state: a record, see Init
  pins,      \* the interrupts asserted in the interrupt controllers
  keys,      \* the keys still to be pressed
  guest,     \* the driver: "idle", or in its interrupt routine
  data,      \* the byte it has yet to write to port 60: <<>> or <<it>>
  sent,      \* commands so far
  accepted, got, \* how many bytes of scan codes were put into the internal buffer,
             \* and those that were read
  discarded  \* a command has discarded bytes

vars == <<s, pins, keys, guest, data, sent, accepted, got, discarded>>

(* A byte is [of, n]: the n-th of the scan codes ("key"), or an answer of   *)
(* the mouse or of the keyboard and the controller.                         *)
Byte(of, n) == [of |-> of, n |-> n, code |-> "-"]
Answer(c) == [of |-> "answer", n |-> 0, code |-> c]
Ack == Answer("FA")

Init ==
  /\ s = [outb |-> FALSE, auxb |-> FALSE, kout |-> Answer("00"), aout |-> Answer("00"),
          q |-> <<>>, kbuf |-> <<>>, mbuf |-> <<>>,
          clocks |-> {"kbd"}, allow |-> {1, 12}, requested |-> {}, timer |-> FALSE,
          bat |-> FALSE, scanning |-> TRUE, last |-> "none", port60 |-> FALSE,
          param |-> FALSE, mparam |-> FALSE, wrap |-> FALSE,
          tested |-> FALSE]
  /\ pins = {} /\ keys \in Keys /\ guest = "idle" /\ data = <<>> /\ sent = 0
  /\ accepted = 0 /\ got = <<>> /\ discarded = FALSE

Request(t, line) ==
  [t EXCEPT !.requested = IF line \in t.allow THEN @ \cup {line} ELSE @]

(* enQ(), enQ_imm() and mouse_enQ_packet()                                   *)
EnQ(t, b) ==
  IF Len(t.kbuf) >= KbdElements THEN t
  ELSE [t EXCEPT !.kbuf = Append(@, b), !.timer = @ \/ (~t.outb /\ "kbd" \in t.clocks)]
EnQAll(t, bytes) == FoldLeft(EnQ, t, bytes)
EnQImm(t, b) ==
  IF Len(t.kbuf) >= KbdElements THEN t
  ELSE Request([t EXCEPT !.kout = b, !.outb = TRUE], 1)
MouseEnQPacket(t) ==
  IF Len(t.mbuf) + 3 >= MouseSize THEN t
  ELSE [t EXCEPT !.mbuf = @ \o [i \in 1 .. 3 |-> Byte("mouse", i)],
                 !.timer = @ \/ (~t.outb /\ "aux" \in t.clocks)]

(* controller_enQ(), which throws an exception when the queue is full.      *)
ControllerEnQ(t, b, source) ==
  IF t.outb THEN [t EXCEPT !.q = Append(@, b)]
  ELSE IF source = "kbd"
       THEN Request([t EXCEPT !.kout = b, !.outb = TRUE, !.auxb = FALSE], 1)
       ELSE Request([t EXCEPT !.aout = b, !.outb = TRUE, !.auxb = TRUE], 12)

(* periodic(): the next byte goes to the output buffer, the keyboard's      *)
(* first. The interrupts that it returns are those requested before.        *)
Serves_Always(t) == t.timer
Serves(t) == t.timer /\ ~t.outb
KbdFirst(t) == t.kbuf # <<>> /\ ("kbd" \in t.clocks \/ t.bat)
Periodic(t) ==
  LET u == [t EXCEPT !.requested = {}, !.timer = FALSE] IN
  IF ~Serves(t) THEN u
  ELSE IF KbdFirst(t)
       THEN Request([u EXCEPT !.kout = Head(t.kbuf), !.kbuf = Tail(@), !.outb = TRUE], 1)
  ELSE IF t.mbuf # <<>> /\ "aux" \in t.clocks
       THEN Request([u EXCEPT !.aout = Head(t.mbuf), !.mbuf = Tail(@), !.outb = TRUE,
                              !.auxb = TRUE], 12)
  ELSE u

(* execute(): what a call leaves behind.                                    *)
Execute(t) == s' = Periodic(t) /\ pins' = pins \cup t.requested

-----------------------------------------------------------------------------
(* The window's thread: gen_scancode().                                     *)
Press ==
  /\ keys # <<>> /\ keys' = Tail(keys)
  /\ IF "kbd" \in s.clocks /\ s.scanning
     THEN LET code == [i \in 1 .. Head(keys) |-> Byte("key", accepted + i)]
          IN /\ s' = EnQAll(s, code)
             /\ accepted' = accepted + Len(s'.kbuf) - Len(s.kbuf)
     ELSE UNCHANGED <<s, accepted>>
  /\ UNCHANGED <<pins, guest, data, sent, got, discarded>>

(* The controller's thread: run().                                          *)
Run ==
  /\ Execute(s)
  /\ UNCHANGED <<keys, guest, data, sent, accepted, got, discarded>>

-----------------------------------------------------------------------------
(* The CPU: read_60(). Each byte that is read makes room for the next one.  *)
Promote_NotAux(t, line) ==
  IF t.q = <<>> THEN t
  ELSE Request([t EXCEPT !.kout = Head(t.q), !.q = Tail(@), !.outb = TRUE], line)
Promote(t, line) ==
  IF t.q = <<>> THEN t
  ELSE Request([t EXCEPT !.aout = Head(t.q), !.q = Tail(@), !.outb = TRUE, !.auxb = TRUE],
               line)
Read60 ==
  /\ LET t == IF s.auxb
              THEN Promote([s EXCEPT !.outb = FALSE, !.auxb = FALSE,
                                     !.requested = @ \ {12}], 12)
              ELSE Promote([s EXCEPT !.outb = FALSE, !.bat = FALSE,
                                     !.requested = @ \ {1}], 1)
     IN Execute([t EXCEPT !.timer = TRUE])
  /\ LET b == IF s.auxb THEN s.aout ELSE s.kout
     IN got' = IF b.of = "key" THEN Append(got, b.n) ELSE got

(* set_kbd_clock_enable() and set_aux_clock_enable()                        *)
SetClock_Only(t, c, on) == [t EXCEPT !.clocks = IF on THEN @ \cup {c} ELSE @ \ {c}]
SetClock(t, c, on) ==
  [t EXCEPT !.clocks = IF on THEN @ \cup {c} ELSE @ \ {c},
            !.timer = @ \/ (on /\ c \notin t.clocks /\ ~t.outb)]

(* write_64(): a command to the controller.                                 *)
Answered(t, n) == IF t.outb THEN t ELSE ControllerEnQ(t, Answer(n), "kbd")
SelfTest(t) ==            \* the first one empties the output buffer without the keyboard's
  LET u == IF ~t.tested THEN [t EXCEPT !.q = <<>>, !.outb = FALSE, !.tested = TRUE]
           ELSE IF t.outb THEN [t EXCEPT !.outb = FALSE, !.kbuf = <<>>] ELSE t
  IN ControllerEnQ(u, Answer("55"), "kbd")
Announces(c) == c \in {"60", "d1", "d2", "d3", "d4"}   \* a byte to port 60
Write64(t0, c) ==
  LET t == [t0 EXCEPT !.last = c, !.port60 = Announces(c)] IN
  CASE c \in {"20", "a9", "ab", "c0", "d0"} -> Answered(t, c)
    [] c = "a7" -> SetClock(t, "aux", FALSE)
    [] c = "a8" -> SetClock(t, "aux", TRUE)
    [] c = "ad" -> SetClock(t, "kbd", FALSE)
    [] c = "ae" -> SetClock(t, "kbd", TRUE)
    [] c = "aa" -> SelfTest(t)
    [] OTHER -> t

(* ctrl_to_kbd(): a command to the keyboard, or the parameter of the last   *)
(* one.                                                                     *)
ResetInternals(t) == [t EXCEPT !.kbuf = <<>>]
KbdParameter(t) == EnQ([t EXCEPT !.param = FALSE], Ack)
KbdSettings(t, c) ==
  CASE c = "f4" -> EnQ([t EXCEPT !.scanning = TRUE], Ack)
    [] c = "f5" -> [EnQ(ResetInternals(t), Ack) EXCEPT !.scanning = FALSE]
    [] c = "f6" -> [EnQ(ResetInternals(t), Ack) EXCEPT !.scanning = TRUE]
    [] c = "fc" -> EnQ([t EXCEPT !.param = TRUE], Ack)
    [] c = "fe" -> t
    [] c = "ff" -> EnQAll([ResetInternals(t) EXCEPT !.bat = TRUE], <<Ack, Answer("AA")>>)
    [] OTHER -> EnQ(t, Answer("FE"))
CtrlToKbd(t, c) ==
  IF t.param THEN KbdParameter(t)
  ELSE CASE c = "ed" -> EnQImm([t EXCEPT !.param = TRUE], Ack)
         [] c \in {"f0", "f3"} -> EnQ([t EXCEPT !.param = TRUE], Ack)
         [] c = "ee" -> EnQ(t, Answer("EE"))
         [] c = "f2" -> EnQAll(t, <<Ack, Answer("AB"), Answer("41")>>)
         [] OTHER -> KbdSettings(t, c)

(* ctrl_to_mouse(): answers of one byte or more; in wrap mode all but two   *)
(* commands come back.                                                      *)
FromMouse(t, n) ==
  FoldLeft(LAMBDA u, i : ControllerEnQ(u, Byte("mouse", i), "aux"), t, [i \in 1 .. n |-> i])
MouseParameter(t) == FromMouse([t EXCEPT !.mparam = FALSE], 1)
MouseAnswers(t, c) ==
  CASE c = "f2" -> FromMouse(t, 2)
    [] c = "f3" -> [FromMouse(t, 1) EXCEPT !.mparam = TRUE]
    [] c = "e9" -> FromMouse(t, 4)
    [] c = "eb" -> MouseEnQPacket(FromMouse(t, 1))
    [] c = "ff" -> FromMouse([t EXCEPT !.wrap = FALSE], 3)
    [] c = "bb" -> t
    [] OTHER -> FromMouse(t, 1)
CtrlToMouse(t, c) ==
  IF t.mparam THEN MouseParameter(t)
  ELSE IF t.wrap /\ c \notin {"ff", "ec"} THEN FromMouse(t, 1)
  ELSE CASE c = "e8" -> [FromMouse(t, 1) EXCEPT !.mparam = TRUE]
         [] c = "ec" -> IF t.wrap THEN FromMouse([t EXCEPT !.wrap = FALSE], 1) ELSE t
         [] c = "ee" -> FromMouse([t EXCEPT !.wrap = TRUE], 1)
         [] OTHER -> MouseAnswers(t, c)

(* write_60(): a byte for the last command, or for the keyboard. A command  *)
(* byte that allows an interrupt requests it for what is waiting.           *)
Bits ==   \* three of its values: without interrupts, with them, without the keyboard
  [poll |-> [allow |-> {}, kbd |-> TRUE, aux |-> TRUE],
   on   |-> [allow |-> {1, 12}, kbd |-> TRUE, aux |-> TRUE],
   off  |-> [allow |-> {1, 12}, kbd |-> FALSE, aux |-> TRUE]]
WithBits(t, v) == SetClock(SetClock([t EXCEPT !.allow = v.allow], "kbd", v.kbd), "aux", v.aux)
CommandByte(t, v) ==
  LET u == WithBits(t, Bits[v])
  IN IF 12 \in u.allow /\ u.auxb THEN Request(u, 12)
     ELSE IF 1 \in u.allow /\ u.outb THEN Request(u, 1) ELSE u
Write60(t0, v) ==
  LET t == [t0 EXCEPT !.port60 = FALSE] IN
  IF ~t0.port60 THEN CtrlToKbd(SetClock(t, "kbd", TRUE), v)
  ELSE CASE t.last = "60" -> CommandByte(t, v)
         [] t.last = "d4" -> CtrlToMouse(t, v)
         [] t.last = "d3" -> FromMouse(t, 1)
         [] t.last = "d2" -> ControllerEnQ(t, Answer(v), "kbd")
         [] OTHER -> t

-----------------------------------------------------------------------------
(* The driver sends a command when it has read every answer to the last     *)
(* one: to the controller, or a byte to port 60 after the command that      *)
(* announces it.                                                            *)
Patient ==
  /\ guest = "idle" /\ data = <<>> /\ sent < MaxCommands
  /\ s.q = <<>> /\ s.mbuf = <<>> /\ \A i \in DOMAIN s.kbuf : s.kbuf[i].of = "key"
  /\ s.outb => ~s.auxb /\ s.kout.of = "key"
Discarding == {"aa", "ed", "f5", "f6", "ff"}
Send(c) ==
  /\ Patient /\ sent' = sent + 1
  /\ IF c.port = "kbd" THEN Execute(Write60(s, c.v)) /\ UNCHANGED data
     ELSE /\ Execute(Write64(s, c.port))
          /\ data' = IF s'.port60 THEN <<c.v>> ELSE <<>>
  /\ discarded' = 
       (discarded \/ c.port \in Discarding \/ (c.port = "kbd" /\ c.v \in Discarding))
  /\ UNCHANGED <<keys, guest, accepted, got>>
SendData ==
  /\ guest = "idle" /\ data # <<>>
  /\ Execute(Write60(s, Head(data))) /\ data' = <<>>
  /\ UNCHANGED <<keys, guest, sent, accepted, got, discarded>>

(* Its interrupt routine ends the interrupt, looks at the status and reads. *)
Enter(p) ==
  /\ guest = "idle" /\ p \in pins /\ pins' = pins \ {p} /\ guest' = "status"
  /\ UNCHANGED <<s, keys, data, sent, accepted, got, discarded>>
Status ==
  /\ guest = "status" /\ guest' = IF s.outb THEN "read" ELSE "idle"
  /\ UNCHANGED <<s, pins, keys, data, sent, accepted, got, discarded>>
Read ==
  /\ guest = "read" /\ Read60 /\ guest' = "idle"
  /\ UNCHANGED <<keys, data, sent, accepted, discarded>>
Routine == (\E p \in {1, 12} : Enter(p)) \/ Status \/ Read

Next == Press \/ Run \/ (\E c \in Commands : Send(c)) \/ SendData \/ Routine
Spec == Init /\ [][Next]_vars /\ WF_vars(Run) /\ WF_vars(Routine) /\ WF_vars(SendData)

-----------------------------------------------------------------------------
(* The bytes of the keys are read in the order in which they were accepted, *)
(* none twice; none is lost but by a command that resets the keyboard, and  *)
(* by that of the lamps, which overwrites the output buffer (enQ(),         *)
(* periodic(), read_60()).                                                  *)
Waiting ==
  (IF s.outb /\ ~s.auxb THEN <<s.kout>> ELSE <<>>) \o s.kbuf
KeysOf(bytes) ==
  LET k == SelectSeq(bytes, LAMBDA b : b.of = "key") IN [i \in DOMAIN k |-> k[i].n]
KeysInOrder ==
  LET all == got \o KeysOf(Waiting) IN
  /\ \A i, j \in DOMAIN all : i < j => all[i] < all[j]
  /\ ~discarded => Len(all) = accepted

(* What the mouse says is read as the mouse's; and a driver that reads the  *)
(* answers of one command before it sends the next never overfills the      *)
(* controller's queue (controller_enQ(), read_60()).                        *)
Attributed ==
  /\ s.outb => (s.auxb <=> (IF s.auxb THEN s.aout ELSE s.kout).of = "mouse")
  /\ Len(s.q) <= QSize

(* In the end everything has been read: there was an interrupt for each     *)
(* byte, and the next was always brought to the output buffer (periodic(),  *)
(* execute()).                                                              *)
AllRead ==
  <>[](s.allow = {1, 12} /\ s.clocks = {"kbd", "aux"} =>
         ~s.outb /\ s.kbuf = <<>> /\ s.mbuf = <<>> /\ s.q = <<>>)
=============================================================================

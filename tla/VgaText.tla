-------------------------------- MODULE VgaText --------------------------------
(***************************************************************************)
(* How the window follows the memory of a graphics adapter in text         *)
(* modes: the adapter's thread draws the characters that differ from       *)
(* text_snapshot (update() of S3Trio64.cpp and text_update() of sdl.cpp    *)
(* and gui_x11.cpp), without a lock that accesses would take. Lines        *)
(* follow one another in memory; there is neither panning nor a split      *)
(* screen.                                                                 *)
(***************************************************************************)
EXTENDS Integers

CONSTANTS
  Cols, Heights, \* characters of a line; the numbers of lines that a guest programs
  Starts,      \* the start addresses that it scrolls to
  Values,      \* characters with their attributes; 0 is in the memory at first
  MaxAccesses  \* bound of its accesses

Largest(S) == CHOOSE n \in S : \A m \in S : m <= n
Places == 0 .. Cols * Largest(Heights) - 1
Addresses == 0 .. Largest(Places) + Largest(Starts)

VARIABLES
  text, start, cursor, visible, \* memory, and the registers of the CRTC (cs_start, cs_end)
  palette, font,  \* versions of the colours, and of what text_update() has as vga_charmap
  charmap_updated,
  rows, old_rows, \* as the registers say, and as the window has
  updated,     \* vga_mem_updated
  snapshot,    \* text_snapshot
  screen,      \* what each place of the window shows
  prev_cursor,
  pass,        \* the thread in update(): [at, start, n]
  cpu,         \* what is left of the CPU's access: [at, address, value]
  accesses,
  missed       \* places that the thread does not owe: they changed during a pass or with
               \* nothing marked, or to the zero of a cleared snapshot; were copied after
               \* a change; or have not been drawn since the window got its size

vars == <<text, start, cursor, visible, palette, font, charmap_updated, rows, old_rows,
          updated, snapshot, screen, prev_cursor, pass, cpu, accesses, missed>>
registers == <<start, cursor, visible, rows>>
drawn == <<screen, prev_cursor, old_rows>>

Idle == [at |-> "idle", start |-> 0, n |-> 0]
Step(at) == [at |-> at, address |-> 0, value |-> 0]
Shown == 0 .. Cols * rows - 1

(* What place i of the window should show.                                  *)
Look(i) == [value |-> text[start + i], palette |-> palette, font |-> font,
            inverse |-> visible /\ cursor = start + i]
Changed == {i \in Places : Look(i)' # Look(i)}
Black == [value |-> 0, palette |-> 0, font |-> 0, inverse |-> FALSE]

-----------------------------------------------------------------------------
(* The thread: update() and, as it holds the lock of the window,            *)
(* text_update().                                                           *)
CursorPlace == IF cursor < start THEN -1 ELSE cursor - start
Invalidated_NoPrevious == IF visible THEN {CursorPlace} ELSE {}
Invalidated == {prev_cursor} \cup IF visible THEN {CursorPlace} ELSE {}
ToDraw_NoForce == {i \in Shown : i \in Invalidated \/ snapshot[i] # text[start + i]}
ToDraw ==
  {i \in Shown : charmap_updated \/ i \in Invalidated \/ snapshot[i] # text[start + i]}
Window(before) == [i \in Places |-> IF i \in ToDraw THEN Look(i) ELSE before[i]]
Draw ==
  /\ pass.at = "idle" /\ updated
  /\ screen' = Window(IF rows = old_rows THEN screen ELSE [i \in Places |-> Black])
  /\ charmap_updated' = FALSE /\ prev_cursor' = CursorPlace /\ old_rows' = rows
  /\ missed' = (IF rows = old_rows THEN missed ELSE Places) \ ToDraw
  /\ pass' = [at |-> "copy", start |-> start, n |-> Cols * rows]
  /\ UNCHANGED <<text, registers, palette, font, updated, snapshot, cpu, accesses>>

(* memcpy() into text_snapshot, and the end of update(). *)
Copy ==
  /\ pass.at = "copy" /\ pass' = [pass EXCEPT !.at = "end"]
  /\ snapshot' = [i \in Places |-> IF i < pass.n THEN text[pass.start + i] ELSE snapshot[i]]
  /\ missed' = missed \cup
       {i \in Places : i < pass.n /\ text[pass.start + i] # screen[i].value}
  /\ UNCHANGED <<text, registers, palette, font, charmap_updated, updated, drawn, cpu, accesses>>
Finish ==
  /\ pass.at = "end" /\ pass' = Idle /\ updated' = FALSE
  /\ UNCHANGED <<text, registers, palette, font, charmap_updated, snapshot, drawn, cpu,
                 accesses, missed>>

-----------------------------------------------------------------------------
(* The CPU: an access begins, ...                                           *)
Begin(step) ==
  /\ cpu.at = "idle" /\ accesses < MaxAccesses /\ accesses' = accesses + 1
  /\ cpu' = step
  /\ UNCHANGED <<snapshot, drawn, pass>>
Unlocked == pass.at = "idle"
Unseen == {i \in Places : snapshot[i] = 0 /\ text'[start' + i] = 0}
MissedIf(busy, places) ==
  missed' = missed \cup IF busy THEN places ELSE places \cap Unseen

Write(a, v) ==       \* vga_mem_write(): marked before it is stored
  /\ Begin([at |-> "store", address |-> a, value |-> v]) /\ updated' = TRUE
  /\ UNCHANGED <<text, registers, palette, font, charmap_updated, missed>>
WriteFont ==
  /\ Begin(Step("font")) /\ updated' = TRUE
  /\ UNCHANGED <<text, registers, palette, font, charmap_updated, missed>>
LoadFont ==          \* set_text_charmap()
  /\ Unlocked /\ Begin(Step("mark"))
  /\ font' = 1 - font /\ charmap_updated' = TRUE
  /\ UNCHANGED <<text, registers, palette, updated, missed>>
SetPalette(locks) ==      \* of the DAC, with the lock of the window, or of the attributes
  /\ (locks => Unlocked) /\ Begin(Step("redraw"))
  /\ palette' = 1 - palette
  /\ UNCHANGED <<text, registers, font, charmap_updated, updated, missed>>
SetRegisters(s, c, v) ==  \* 0a to 0f of the CRTC
  /\ Begin(Step("mark"))
  /\ <<s, c, v>> # <<start, cursor, visible>>
  /\ start' = s /\ cursor' = c /\ visible' = v
  /\ UNCHANGED <<text, palette, font, charmap_updated, updated, rows>>
  /\ MissedIf(~Unlocked, Changed)
SetHeight(n) ==      \* 12 of the CRTC: nothing is marked
  /\ Begin(Step("idle")) /\ n # rows /\ rows' = n /\ missed' = Places
  /\ UNCHANGED <<text, start, cursor, visible, palette, font, charmap_updated, updated>>

(* ... and goes on.                                                         *)
Goes(at, next) ==
  /\ cpu.at = at /\ cpu' = Step(next)
  /\ UNCHANGED <<registers, palette, drawn, pass, accesses>>
Store ==
  /\ Goes("store", "idle")
  /\ text' = [text EXCEPT ![cpu.address] = cpu.value]
  /\ UNCHANGED <<font, charmap_updated, updated, snapshot>>
  /\ MissedIf(~Unlocked \/ ~updated, Changed)
StoreFont ==         \* set_text_charbyte()
  /\ Goes("font", "idle") /\ Unlocked
  /\ font' = 1 - font /\ charmap_updated' = TRUE
  /\ UNCHANGED <<text, updated, snapshot>>
  /\ MissedIf(~updated, Places)
Mark ==
  /\ Goes("mark", "idle") /\ updated' = TRUE
  /\ UNCHANGED <<text, font, charmap_updated, snapshot, missed>>

(* redraw_area(): a place that has a zero by then is not drawn.             *)
Redraw ==
  /\ Goes("redraw", "clear") /\ updated' = TRUE
  /\ UNCHANGED <<text, font, charmap_updated, snapshot, missed>>
Cleared_Not == snapshot
Cleared == [i \in Places |-> 0]
Clear ==
  /\ Goes("clear", "idle") /\ snapshot' = Cleared
  /\ UNCHANGED <<text, font, charmap_updated, updated>>
  /\ missed' = missed \cup {i \in Places : Unlocked /\ updated => text[start + i] = 0}

Init ==
  /\ text = [a \in Addresses |-> 0] /\ start = 0 /\ cursor = 0 /\ visible = FALSE
  /\ palette = 0 /\ font = 0 /\ charmap_updated = FALSE
  /\ rows = Largest(Heights) /\ old_rows = rows /\ updated = TRUE
  /\ snapshot = [i \in Places |-> 0] /\ screen = [i \in Places |-> Black]
  /\ prev_cursor = 0 /\ pass = Idle /\ cpu = Step("idle") /\ accesses = 0 /\ missed = {}
Next ==
  \/ Draw \/ Copy \/ Finish
  \/ \E a \in Addresses, v \in Values : Write(a, v)
  \/ WriteFont \/ LoadFont \/ \E locks \in BOOLEAN : SetPalette(locks)
  \/ \E s \in Starts, c \in Addresses, v \in BOOLEAN : SetRegisters(s, c, v)
  \/ \E n \in Heights : SetHeight(n)
  \/ Store \/ StoreFont \/ Mark \/ Redraw \/ Clear
Spec == Init /\ [][Next]_vars

-----------------------------------------------------------------------------
(* Once nothing is marked, each place shows its character with the present  *)
(* colours and font, and the cursor is shown at its place and nowhere else. *)
TextShown ==
  pass.at = "idle" /\ cpu.at = "idle" /\ ~updated
    => \A i \in Shown \ missed : screen[i] = Look(i)
==============================================================================

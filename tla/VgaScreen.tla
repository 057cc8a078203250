------------------------------- MODULE VgaScreen -------------------------------
(***************************************************************************)
(* How the picture follows the memory of a graphics adapter in its         *)
(* graphics modes: vga_mem_write() marks tiles, and a thread draws those   *)
(* that are marked (S3Trio64.cpp; Cirrus.cpp is alike). The CPU's thread   *)
(* and the adapter's share the marks without a lock. A picture is not      *)
(* kept, only which tiles differ from the memory.                          *)
(***************************************************************************)
EXTENDS Integers, Sequences

CONSTANTS
  XT, YT,     \* X_TILESIZE, Y_TILESIZE
  NX, NY,     \* BX_NUM_X_TILES, BX_NUM_Y_TILES
  Half, Line, \* CGA: 0x2000, and the bytes of a line
  Modes,      \* what a guest programs: [kind, shift, div2, dscan, start, offset, compare, w, h]
  Starts, Offsets, \* where it scrolls, and the bytes it writes
  MaxAccesses \* bound of its accesses

VARIABLES
  mode,       \* the registers that the picture depends on
  video,      \* attribute_ctrl.video_enabled
  dirty,      \* vga_tile_updated
  updated,    \* vga_mem_updated
  size,       \* old_iWidth, old_iHeight
  drawing, pass, \* the thread: whether it is in update(), the tiles it has still to look at
  hand,       \* the tile whose mark is yet to be cleared
  cpu,        \* what is left of the CPU's access: [steps, tiles]
  accesses,
  stale,      \* the tiles that do not show the memory
  owed        \* of them, those that an access and a pass at the same time, or a growth of the
              \* window, account for

vars == <<mode, video, dirty, updated, size, drawing, pass, hand, cpu, accesses, stale, owed>>

Tiles == (0 .. NX - 1) \X (0 .. NY - 1)
Up(n, d) == (n + d - 1) \div d
TilesOf(w, h) == {t \in Tiles : t[1] < Up(w, XT) /\ t[2] < Up(h, YT)}
Screen == TilesOf(mode.w, mode.h)
Quiet == [steps |-> <<>>, tiles |-> {}]

-----------------------------------------------------------------------------
(* update(): the byte that a picture element comes from.                    *)
Compare(m) == IF m.dscan THEN m.compare \div 2 ELSE m.compare
Cell(m, px, py) ==
  LET y == IF m.dscan THEN py \div 2 ELSE py
      x == IF m.div2 /\ (m.kind = "planar" \/ m.shift = 1) THEN px \div 2 ELSE px IN
  CASE m.kind = "cga" ->
         m.start + (y % 2) * Half + Line * (y \div 2) + x \div (IF m.shift = 1 THEN 4 ELSE 8)
    [] m.kind = "planar" ->
         x \div 8 + IF y > Compare(m) THEN (y - Compare(m) - 1) * m.offset
                    ELSE m.start + y * m.offset
    [] m.kind = "chain4" -> m.start + y * m.offset + x \div 2
    [] m.kind = "modex" -> m.start + y * m.offset + (x \div 2) \div 4
Shown(m, o) ==
  {t \in TilesOf(m.w, m.h) :
     \E c \in 0 .. XT - 1, r \in 0 .. YT - 1 : Cell(m, t[1] * XT + c, t[2] * YT + r) = o}

(* vga_mem_write(): the tiles that a byte is taken to be in.                *)
Rows(m) == IF m.dscan THEN YT \div 2 ELSE YT
Cga(m, o) ==
  LET d == o - m.start
      y == IF d >= Half THEN 2 * ((d - Half) \div Line) + 1 ELSE 2 * (d \div Line)
      x == 4 * (IF d >= Half THEN (d - Half) % Line ELSE d % Line)
      first == IF m.shift = 0 THEN 2 * x ELSE x
      last == IF m.shift = 0 THEN x + 7 ELSE x + 3
      wide == IF m.div2 THEN XT \div 2 ELSE XT IN
  IF d < 0 THEN {} ELSE {<<first \div wide, y \div Rows(m)>>, <<last \div wide, y \div Rows(m)>>}
Byte(m) == IF m.div2 THEN XT \div 16 ELSE XT \div 8
Below_Lost(m, o) == {}
Below(m, o) ==       \* the lines after the split
  LET y == IF m.dscan THEN 2 * (o \div m.offset) ELSE o \div m.offset IN
  IF m.compare < m.h - 1
  THEN {<<(o % m.offset) \div Byte(m), (y + m.compare + 1) \div YT>>} ELSE {}
Above(m, o) ==
  LET d == o - m.start IN
  IF d < 0 THEN {} ELSE {<<(d % m.offset) \div Byte(m), (d \div m.offset) \div Rows(m)>>}
Marks(m, o) ==
  LET d == o - m.start IN
  Tiles \cap
    CASE m.kind = "cga" -> Cga(m, o)
      [] m.kind = "planar" -> Below(m, o) \cup Above(m, o)
      [] m.kind = "chain4" ->
           IF d < 0 THEN {} ELSE {<<(d % m.offset) \div (XT \div 2), (d \div m.offset) \div Rows(m)>>}
      [] m.kind = "modex" ->
           IF d < 0 THEN {}
           ELSE {<<((d % m.offset) * 4) \div (XT \div 2), (d \div m.offset) \div Rows(m)>>}

-----------------------------------------------------------------------------
Init ==
  /\ mode \in Modes /\ video = FALSE
  /\ dirty = {} /\ updated = TRUE /\ size \in {<<0, 0>>} \cup {<<m.w, m.h>> : m \in Modes}
  /\ drawing = FALSE /\ pass = {} /\ hand = {} /\ cpu = Quiet /\ accesses = 0
  /\ stale = Tiles /\ owed = Tiles

(* An access of the CPU, in the order of its stores. An access during a     *)
(* pass leaves what the pass may have looked at already.                    *)
Idle == cpu = Quiet /\ accesses < MaxAccesses
Begin(steps, tiles) ==
  /\ Idle /\ accesses' = accesses + 1
  /\ cpu' = [steps |-> steps, tiles |-> tiles]
Write ==
  /\ video /\ size # <<0, 0>>
  /\ \E o \in Offsets :
       Begin(IF mode.kind \in {"cga", "chain4"}
             THEN <<<<"mem", o>>, <<"updated">>, <<"tile", Marks(mode, o)>>>>
             ELSE <<<<"updated">>, <<"mem", o>>, <<"tile", Marks(mode, o)>>>>, Shown(mode, o))
  /\ UNCHANGED <<mode, video, dirty, updated, size, drawing, pass, hand, stale, owed>>
Redraw == <<<<"updated">>, <<"tile", TilesOf(size[1], size[2])>>>>
Scroll ==
  /\ video /\ size # <<0, 0>>
  /\ \E s \in Starts \ {mode.start} : Begin(<<<<"start", s>>>> \o Redraw, Screen)
  /\ UNCHANGED <<mode, video, dirty, updated, size, drawing, pass, hand, stale, owed>>
Store ==
  /\ cpu.steps # <<>>
  /\ LET s == Head(cpu.steps)
         left == Tail(cpu.steps) IN
     /\ cpu' = IF left = <<>> THEN Quiet ELSE [cpu EXCEPT !.steps = left]
     /\ updated' = (updated \/ s[1] = "updated")
     /\ dirty' = IF s[1] = "tile" THEN dirty \cup s[2] ELSE dirty
     /\ mode' = IF s[1] = "start" THEN [mode EXCEPT !.start = s[2]] ELSE mode
     /\ stale' = IF s[1] \in {"mem", "start"} THEN stale \cup cpu.tiles ELSE stale
  /\ owed' = IF drawing THEN owed \cup cpu.tiles ELSE owed
  /\ UNCHANGED <<video, size, drawing, pass, hand, accesses>>

(* write_b_3c0(): blanking the screen waits for the pass that holds the     *)
(* lock of the window, and a guest that sets a mode does it between         *)
(* blanking and enabling.                                                   *)
Blank ==
  /\ Idle /\ video /\ ~drawing /\ accesses' = accesses + 1
  /\ video' = FALSE /\ stale' = Tiles
  /\ UNCHANGED <<mode, dirty, updated, size, drawing, pass, hand, cpu, owed>>
SetMode ==
  /\ cpu = Quiet /\ ~video /\ mode' \in Modes /\ mode' # mode
  /\ UNCHANGED <<video, dirty, updated, size, drawing, pass, hand, cpu, accesses, stale, owed>>
Enable ==
  /\ cpu = Quiet /\ ~video /\ video' = TRUE
  /\ cpu' = IF size = <<0, 0>> THEN Quiet ELSE [steps |-> Redraw, tiles |-> Tiles]
  /\ owed' = Tiles \ TilesOf(size[1], size[2])
  /\ UNCHANGED <<mode, dirty, updated, size, drawing, pass, hand, accesses, stale>>

-----------------------------------------------------------------------------
(* update(), by the adapter's thread. A window of another size loses its    *)
(* contents, and the tiles that it did not have were not marked by a        *)
(* redraw_area().                                                           *)
First(todo) == CHOOSE t \in todo : \A u \in todo : t[2] < u[2] \/ (t[2] = u[2] /\ t[1] <= u[1])
Start ==
  /\ ~drawing /\ video /\ updated
  /\ drawing' = TRUE /\ pass' = Screen /\ size' = <<mode.w, mode.h>>
  /\ stale' = IF size' # size THEN stale \cup Tiles ELSE stale
  /\ owed' = IF size' # size THEN owed \cup (Tiles \ TilesOf(size[1], size[2])) \cup cpu.tiles
             ELSE owed
  /\ UNCHANGED <<mode, video, dirty, updated, hand, cpu, accesses>>
Draw ==      \* the picture of a marked tile, from the memory as it is
  /\ hand = {} /\ pass # {}
  /\ LET t == First(pass) IN
     /\ pass' = pass \ {t}
     /\ hand' = IF t \in dirty THEN {t} ELSE {}
     /\ stale' = stale \ hand' /\ owed' = owed \ hand'
  /\ UNCHANGED <<mode, video, dirty, updated, size, drawing, cpu, accesses>>
Clear ==
  /\ hand # {} /\ dirty' = dirty \ hand /\ hand' = {}
  /\ UNCHANGED <<mode, video, updated, size, drawing, pass, cpu, accesses, stale, owed>>
Finish_Clears ==
  /\ drawing /\ pass = {} /\ hand = {} /\ drawing' = FALSE /\ updated' = FALSE /\ dirty' = {}
  /\ owed' = owed /\ UNCHANGED <<mode, video, size, pass, hand, cpu, accesses, stale>>
Finish ==
  /\ drawing /\ pass = {} /\ hand = {} /\ drawing' = FALSE /\ updated' = FALSE
  /\ owed' = owed \cup cpu.tiles
  /\ UNCHANGED <<mode, video, dirty, size, pass, hand, cpu, accesses, stale>>
Update == Start \/ Draw \/ Clear \/ Finish

Next == Write \/ Scroll \/ Store \/ Blank \/ SetMode \/ Enable \/ Update
Spec == Init /\ [][Next]_vars /\ WF_vars(Update) /\ WF_vars(Store)

-----------------------------------------------------------------------------
(* Between accesses and passes, a tile that does not show the memory is     *)
(* marked, and will be drawn; but for one that was written while a pass was *)
(* going on, or that the window has gained (vga_mem_write(), redraw_area(), *)
(* update()).                                                               *)
MarkedIfStale ==
  video /\ ~drawing /\ cpu = Quiet =>
    LET s == (stale \cap Screen) \ owed IN s \subseteq dirty /\ (s # {} => updated)

(* When the guest leaves the adapter alone, the screen shows all of the     *)
(* memory that it can.                                                      *)
PictureFollows == <>[](video => (stale \cap Screen) \subseteq owed)
=============================================================================

--------------------------------- MODULE Pic ---------------------------------
(***************************************************************************)
(* The two interrupt controllers of CAliM1543C, cascaded: controller 1     *)
(* reports to pin 2 of controller 0, which drives line 55 of the Cchip.    *)
(*                                                                         *)
(* A call is the sequence of steps it still has to make.  The CPU's        *)
(* thread makes the guest's calls; a device calls from a thread of its     *)
(* own or, as part of a register access, from the CPU's.                   *)
(***************************************************************************)
EXTENDS Integers, SequencesExt

CONSTANTS
  Pins,        \* pins in use: <<controller, number>>
  Levels,      \* those that are deasserted by their devices
  Threads,     \* threads that make calls, "cpu" among them
  Guest,       \* "any" register writes, or "served": one service routine
  MaxRequests  \* bound: interrupts requested

Cascade == 2
Number(i) == {p[2] : p \in {q \in Pins : q[1] = i}} \cup (IF i = 0 THEN {Cascade} ELSE {})
PicMode == {"std", "init0", "init1", "init2"}

VARIABLES
  asserted, mask, mode,  \* state.pic_*, per controller
  line,        \* the level of line 55
  call,        \* per thread: the steps left of its call
  tmp,         \* per thread: the value of pic_asserted it has loaded
  last,        \* history: what the last call was, and whether the line was
  before,      \* stale or an interrupt hidden before it
  requests,    \* interrupts requested so far
  serving      \* the service routine: the pin whose vector was read
vars == <<asserted, mask, mode, line, call, tmp, last, before, requests, serving>>

Nothing == <<-1, -1>>

Init ==
  /\ asserted = [i \in 0 .. 1 |-> {}]
  /\ mask = [i \in 0 .. 1 |-> {}] /\ mode = [i \in 0 .. 1 |-> "std"]
  /\ line = FALSE
  /\ call = [t \in Threads |-> <<>>] /\ tmp = [t \in Threads |-> {}]
  /\ last = <<"none", 0>> /\ before = [stale |-> FALSE, hidden |-> FALSE]
  /\ requests = 0 /\ serving = Nothing

-----------------------------------------------------------------------------
(* The steps calls are made of; "skip" is how many are left out by a test.   *)
UnlessRequested(i, n) == [do |-> "unless", pic |-> i, pin |-> n]
IfPending(i, n) == [do |-> "if", pic |-> i, pin |-> n]
IfEmpty(i, skip) == [do |-> "empty", pic |-> i, skip |-> skip]
Update(i, add, del) ==
  << [do |-> "load", pic |-> i], [do |-> "store", pic |-> i, add |-> add, del |-> del] >>
Interrupt55(on) == [do |-> "line", on |-> on]

(* Mutant: the cascade pin is left out. *)
PicInterrupt_NoCascade(i, n) ==
  <<UnlessRequested(i, n)>> \o Update(i, {n}, {}) \o (IF i = 0 THEN <<Interrupt55(TRUE)>> ELSE <<>>)

PicInterrupt(i, n) ==
  LET primary(k) == <<UnlessRequested(0, k)>> \o Update(0, {k}, {}) \o <<Interrupt55(TRUE)>>
  IN IF i = 0 THEN primary(n)
     ELSE <<UnlessRequested(1, n)>> \o Update(1, {n}, {}) \o primary(Cascade)

PicDeassert(i, n) ==
  LET primary(k) ==
        <<IfPending(0, k)>> \o Update(0, {}, {k}) \o <<IfEmpty(0, 1), Interrupt55(FALSE)>>
  IN IF i = 0 THEN primary(n)
     ELSE <<IfPending(1, n)>> \o Update(1, {}, {n}) \o <<IfEmpty(1, 6)>> \o primary(Cascade)

(* Mutant: the line is released although an interrupt is pending. *)
ReleaseLine_Always == <<Interrupt55(FALSE)>>

ReleaseLine == <<IfEmpty(0, 1), Interrupt55(FALSE)>>

(* pic_write(), OCW2.  The non-specific EOI clears every pending interrupt. *)
EndOfInterrupt(i) ==
  <<[do |-> "clear", pic |-> i]>>
  \o (IF i = 1 THEN Update(0, {}, {Cascade}) ELSE <<>>) \o ReleaseLine

(* Mutant: the cascade pin goes although another interrupt is pending. *)
SpecificEnd_Cascade(i, n) ==
  Update(i, {}, {n}) \o (IF i = 1 THEN Update(0, {}, {Cascade}) ELSE <<>>) \o ReleaseLine

(* Mutant: the line is not released. *)
SpecificEnd_KeepsLine(i, n) ==
  Update(i, {}, {n}) \o (IF i = 1 THEN <<IfEmpty(1, 2)>> \o Update(0, {}, {Cascade}) ELSE <<>>)

SpecificEnd(i, n) ==
  Update(i, {}, {n})
  \o (IF i = 1 THEN <<IfEmpty(1, 2)>> \o Update(0, {}, {Cascade}) ELSE <<>>)
  \o ReleaseLine

(* pic_write(), port 1 in standard mode: the mask, and what it hides. *)
WriteMask(i, m) == <<[do |-> "mask", pic |-> i, pins |-> m]>> \o Update(i, {}, m)

-----------------------------------------------------------------------------
(* Between calls: the line is asserted for nothing, or an interrupt of        *)
(* controller 1 has no cascade pin to be seen by.                             *)
Quiet == \A t \in Threads : call[t] = <<>>
Stale == Quiet /\ line /\ asserted[0] = {}
Hidden == Quiet /\ asserted[1] # {} /\ Cascade \notin asserted[0]

Drop(s, n) == SubSeq(s, n + 1, Len(s))

(* A step of the call of thread t. *)
Step(t) ==
  /\ call[t] # <<>>
  /\ LET s == Head(call[t])
         rest(n) == call' = [call EXCEPT ![t] = Drop(@, n + 1)]
         done == call' = [call EXCEPT ![t] = <<>>]
     IN CASE s.do = "unless" ->
               /\ IF s.pin \in mask[s.pic] \cup asserted[s.pic] THEN done ELSE rest(0)
               /\ UNCHANGED <<asserted, mask, line, tmp>>
          [] s.do = "if" ->
               /\ IF s.pin \in asserted[s.pic] THEN rest(0) ELSE done
               /\ UNCHANGED <<asserted, mask, line, tmp>>
          [] s.do = "empty" ->
               /\ rest(IF asserted[s.pic] = {} THEN 0 ELSE s.skip)
               /\ UNCHANGED <<asserted, mask, line, tmp>>
          [] s.do = "load" ->
               /\ tmp' = [tmp EXCEPT ![t] = asserted[s.pic]]
               /\ rest(0) /\ UNCHANGED <<asserted, mask, line>>
          [] s.do = "store" ->
               /\ asserted' = [asserted EXCEPT ![s.pic] = (tmp[t] \ s.del) \cup s.add]
               /\ tmp' = [tmp EXCEPT ![t] = {}]
               /\ rest(0) /\ UNCHANGED <<mask, line>>
          [] s.do = "clear" ->
               /\ asserted' = [asserted EXCEPT ![s.pic] = {}]
               /\ rest(0) /\ UNCHANGED <<mask, line, tmp>>
          [] s.do = "mask" ->
               /\ mask' = [mask EXCEPT ![s.pic] = s.pins]
               /\ rest(0) /\ UNCHANGED <<asserted, line, tmp>>
          [] OTHER ->
               /\ line' = s.on
               /\ rest(0) /\ UNCHANGED <<asserted, mask, tmp>>
  /\ UNCHANGED <<mode, last, before, requests, serving>>

Start(t, steps, what) ==
  /\ call[t] = <<>>
  /\ call' = [call EXCEPT ![t] = steps]
  /\ last' = what /\ before' = [stale |-> Stale, hidden |-> Hidden]
  /\ UNCHANGED <<asserted, mask, line, tmp>>

(* A device on pin p requests an interrupt, or withdraws the request. *)
Request(t, p) ==
  /\ requests < MaxRequests
  /\ Start(t, PicInterrupt(p[1], p[2]), <<"request", p[1]>>)
  /\ requests' = requests + 1
  /\ UNCHANGED <<mode, serving>>
Withdraw(t, p) ==
  /\ p[2] \in asserted[p[1]]
  /\ Start(t, PicDeassert(p[1], p[2]), <<"withdraw", p[1]>>)
  /\ UNCHANGED <<mode, requests, serving>>

(* The guest's writes.  An OCW2 to port 0 (or ICW1, which starts the        *)
(* initialisation) sets the mode; other OCW2 commands have no effect.       *)
WritePort0(i, steps, what) ==
  /\ Guest = "any"
  /\ Start("cpu", steps, what)
  /\ mode' = [mode EXCEPT ![i] = "std"]
  /\ UNCHANGED <<requests, serving>>
Initialise(i) ==
  /\ Guest = "any" /\ call["cpu"] = <<>>
  /\ mode' = [mode EXCEPT ![i] = "init0"]
  /\ UNCHANGED <<asserted, mask, line, call, tmp, last, before, requests, serving>>
WritePort1(i, m) ==
  /\ Guest = "any" /\ call["cpu"] = <<>>
  /\ CASE mode[i] = "std" -> Start("cpu", WriteMask(i, m), <<"mask", i>>) /\ UNCHANGED mode
       [] mode[i] = "init0" -> mode' = [mode EXCEPT ![i] = "init1"]
       [] mode[i] = "init1" -> mode' = [mode EXCEPT ![i] = "init2"]
       [] OTHER -> mode' = [mode EXCEPT ![i] = "std"]
  /\ mode[i] # "std" => UNCHANGED <<asserted, mask, line, call, tmp, last, before>>
  /\ UNCHANGED <<requests, serving>>

-----------------------------------------------------------------------------
(* pic_read_vector(): the lowest pin, those of controller 1 in the place of   *)
(* the cascade pin.                                                           *)
Lowest(S) == CHOOSE n \in S : \A k \in S : n <= k
Vector ==
  LET below == {n \in asserted[0] : n < Cascade}
      above == {n \in asserted[0] : n > Cascade}
  IN CASE below # {} -> <<0, Lowest(below)>>
       [] below = {} /\ Cascade \in asserted[0] /\ asserted[1] # {} -> <<1, Lowest(asserted[1])>>
       [] below = {} /\ (Cascade \notin asserted[0] \/ asserted[1] = {}) /\ above # {} ->
            <<0, Lowest(above)>>
       [] OTHER -> Nothing

(* A guest that reads the vector when the line is asserted, and ends the      *)
(* interrupt with a specific EOI to the controller it came from.              *)
ReadVector ==
  /\ Guest = "served" /\ call["cpu"] = <<>> /\ serving = Nothing /\ line
  /\ serving' = Vector
  /\ UNCHANGED <<asserted, mask, mode, line, call, tmp, last, before, requests>>
EndService ==
  /\ serving # Nothing
  /\ Start("cpu", SpecificEnd(serving[1], serving[2]), <<"eoi", serving[1]>>)
  /\ serving' = Nothing
  /\ UNCHANGED <<mode, requests>>

Write ==
  \E i \in 0 .. 1 :
    \/ WritePort0(i, EndOfInterrupt(i), <<"eoi", i>>)
    \/ \E n \in Number(i) : WritePort0(i, SpecificEnd(i, n), <<"eoi", i>>)
    \/ WritePort0(i, <<>>, <<"other", i>>)
    \/ Initialise(i)
    \/ \E m \in SUBSET Number(i) : WritePort1(i, m)

Next ==
  \/ \E t \in Threads :
       Step(t) \/ (\E p \in Pins : Request(t, p)) \/ (\E p \in Levels : Withdraw(t, p))
  \/ Write \/ ReadVector \/ EndService

(* Calls end, and the service routine goes on while the line is asserted. *)
Fairness == (\A t \in Threads : WF_vars(Step(t))) /\ WF_vars(ReadVector) /\ WF_vars(EndService)
Spec == Init /\ [][Next]_vars
FairSpec == Spec /\ Fairness

-----------------------------------------------------------------------------
TypeOK ==
  /\ \A i \in 0 .. 1 : asserted[i] \subseteq Number(i) /\ mask[i] \subseteq Number(i)
  /\ mode \in [0 .. 1 -> PicMode] /\ line \in BOOLEAN

(* pic_interrupt() is to "assert an interrupt": between calls, an interrupt   *)
(* pending in controller 0 has line 55 asserted.                              *)
LineCovers == Quiet /\ asserted[0] # {} => line

(* The line is left asserted with nothing pending by a write of controller    *)
(* 0's mask only: that one does not call interrupt().                         *)
StaleByMask == Stale => before.stale \/ last = <<"mask", 0>>

(* An interrupt of controller 1 is left hidden, with no cascade pin pending,  *)
(* only by what the guest does to controller 0: an EOI, or its mask.          *)
HiddenByPrimary ==
  Hidden => \/ before.hidden
            \/ last \in {<<"eoi", 0>>, <<"mask", 0>>}
            \/ last[1] = "request" /\ Cascade \in mask[0]

(* Served by a guest that ends each interrupt at its own controller, every    *)
(* request that is pending is seen: none is hidden by the end of another.     *)
EveryRequestServed == \A p \in Pins : p[2] \in asserted[p[1]] ~> p[2] \notin asserted[p[1]]
=============================================================================

--------------------------------- MODULE Flash ---------------------------------
(***************************************************************************)
(* The flash memory of the firmware (Flash.cpp): a byte is programmed      *)
(* and a sector erased by sequences of writes. A driver may give up in     *)
(* the middle of one, and any write that is not its own may come between   *)
(* two of its writes.                                                      *)
(***************************************************************************)
EXTENDS Integers, Sequences

CONSTANTS
  Sectors,   \* [address -> sector]; "5555" and "2aaa" are addresses of their own
  Bytes,     \* what is programmed
  MaxJobs    \* bound of what the driver does

VARIABLES
  flash, mode,   \* state.Flash, state.mode
  steps,         \* what the driver has still to do: [op, addr, data]
  lost,          \* someone has written since the driver began
  want,          \* the contents that there may be
  got,           \* what it read last: [addr, data]
  jobs

vars == <<flash, mode, steps, lost, want, got, jobs>>

Address == DOMAIN Sectors
Erased(mem, s) == [a \in Address |-> IF s = "all" \/ Sectors[a] = s THEN "ff" ELSE mem[a]]
None == [addr |-> "none", data |-> "none"]

Init ==
  /\ flash = [a \in Address |-> "ff"] /\ mode = "read"
  /\ steps = <<>> /\ lost = FALSE /\ want = {flash} /\ got = None /\ jobs = 0

-----------------------------------------------------------------------------
(* WriteMem(). What is not the next write of a sequence ends it; in the     *)
(* modes without one the byte is programmed, whichever it is.               *)
Sequence ==     \* mode, address and byte of a write, and the mode it leads to
  {<<"read", "5555", "aa", "step1">>, <<"autosel", "5555", "aa", "step1">>,
   <<"step1", "2aaa", "55", "step2">>, <<"step2", "5555", "90", "autosel">>,
   <<"step2", "5555", "a0", "program">>, <<"step2", "5555", "80", "erase3">>,
   <<"erase3", "5555", "aa", "erase4">>, <<"erase4", "2aaa", "55", "erase5">>}
WriteMem_Sticks(a, v) ==
  IF mode \in {"program", "confirm1", "confirm0"}
  THEN flash' = [flash EXCEPT ![a] = v] /\ mode' = "read"
  ELSE IF mode = "erase5" /\ v = "30"
  THEN flash' = Erased(flash, Sectors[a]) /\ mode' = "confirm1"
  ELSE /\ flash' = IF mode = "erase5" /\ v = "10" THEN Erased(flash, "all") ELSE flash
       /\ mode' = IF \E s \in Sequence : s[2] = a /\ s[3] = v
                  THEN (CHOOSE s \in Sequence : s[2] = a /\ s[3] = v)[4] ELSE "read"
WriteMem(a, v) ==
  LET next == {s \in Sequence : s[1] = mode /\ s[2] = a /\ s[3] = v} IN
  CASE mode \in {"program", "confirm1", "confirm0"} ->
         flash' = [flash EXCEPT ![a] = v] /\ mode' = "read"
    [] mode = "erase5" /\ a = "5555" /\ v = "10" ->
         flash' = Erased(flash, "all") /\ mode' = "confirm1"
    [] mode = "erase5" /\ v = "30" ->
         flash' = Erased(flash, Sectors[a]) /\ mode' = "confirm1"
    [] OTHER ->
         flash' = flash /\ mode' = IF next = {} THEN "read" ELSE (CHOOSE s \in next : TRUE)[4]

(* ReadMem(): an erasure is over for the second read.                       *)
ReadMem(a) ==
  /\ got' = [addr |-> a, data |-> CASE mode = "autosel" -> IF a = "0" THEN "01" ELSE "00"
                                    [] mode \in {"confirm1", "confirm0"} -> "80"
                                    [] OTHER -> flash[a]]
  /\ mode' = CASE mode = "confirm1" -> "confirm0" [] mode = "confirm0" -> "read" [] OTHER -> mode

-----------------------------------------------------------------------------
(* The driver. It looks at a bit that toggles while a sector is erased: it  *)
(* reads twice.                                                             *)
W(a, v) == [op |-> "write", addr |-> a, data |-> v]
R(a) == [op |-> "read", addr |-> a, data |-> "any"]
Unlock == <<W("5555", "aa"), W("2aaa", "55")>>
Jobs ==
  {Unlock \o <<W("5555", "a0"), [W(a, v) EXCEPT !.op = "program"], R(a)>> : a \in Address, v \in Bytes}
  \cup {Unlock \o <<W("5555", "80")>> \o Unlock \o <<[W(a, "30") EXCEPT !.op = "erase"], R(a), R(a)>> :
          a \in Address}
  \cup {Unlock \o <<W("5555", "80")>> \o Unlock \o <<[W("5555", "10") EXCEPT !.op = "erase all"], R("0"), R("0")>>,
        Unlock \o <<W("5555", "90"), R("0"), W("0", "f0")>>}
  \cup {<<R(a)>> : a \in Address}
Start ==
  /\ steps = <<>> /\ jobs < MaxJobs /\ jobs' = jobs + 1
  /\ \E j \in Jobs : steps' = <<W("0", "f0")>> \o j
  /\ lost' = FALSE /\ got' = None /\ want' = {flash} /\ UNCHANGED <<flash, mode>>
Step ==
  /\ steps # <<>> /\ steps' = Tail(steps)
  /\ LET s == Head(steps) IN
     /\ IF s.op = "read" THEN ReadMem(s.addr) /\ flash' = flash
                         ELSE WriteMem(s.addr, s.data) /\ got' = None
     /\ want' = (IF lost THEN want ELSE {}) \cup
          {CASE s.op \in {"read", "write"} -> m
             [] s.op = "program" -> [m EXCEPT ![s.addr] = s.data]
             [] s.op = "erase" -> Erased(m, Sectors[s.addr])
             [] s.op = "erase all" -> Erased(m, "all") : m \in want}
  /\ UNCHANGED <<lost, jobs>>
(* Neither comes just before the byte that is programmed, or before the     *)
(* second of two reads.                                                     *)
Between == mode \notin {"program", "confirm1", "confirm0"}
GiveUp ==
  /\ steps # <<>> /\ Between /\ steps' = <<>> /\ got' = None
  /\ UNCHANGED <<flash, mode, lost, want, jobs>>
Stray ==
  /\ steps # <<>> /\ Between /\ lost' = TRUE
  /\ \E a \in {"0", "5555"}, v \in {"aa", "f0"} : WriteMem(a, v)
  /\ UNCHANGED <<steps, want, got, jobs>>
Next == Start \/ Step \/ GiveUp \/ Stray
Spec == Init /\ [][Next]_vars

-----------------------------------------------------------------------------
(* The memory holds what the driver has programmed and erased, and it reads *)
(* that; a command that was given up is not done, and one among whose       *)
(* writes there was another is done or not done, but never something else.  *)
(* Erased memory answers after two reads (WriteMem(), ReadMem()).           *)
FlashRight ==
  /\ flash \in want
  /\ got # None /\ steps = <<>> /\ ~lost => got.data \in {flash[got.addr], "80"}
  /\ steps = <<>> => Between
=============================================================================

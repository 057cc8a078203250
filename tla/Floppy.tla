-------------------------------- MODULE Floppy --------------------------------
(***************************************************************************)
(* The floppy controller (FloppyController.cpp) and the DMA controller     *)
(* behind which it reads (DMA.cpp). The driver programs its channel byte   *)
(* by byte, sends a command byte by byte and reads the result; between     *)
(* two of its commands another driver may program another channel. No      *)
(* interrupt is ever asserted, so the driver polls.                        *)
(***************************************************************************)
EXTENDS Integers, Sequences

CONSTANTS
  Byte,      \* the number of values of a byte
  Eot,       \* EOT of a command: the sectors of both sides of a cylinder
  Addresses, Counts, \* what the driver programs: [page, base], each of two bytes
  Chs,       \* where it reads: <<cylinder, head, sector>>
  MaxJobs    \* bound of the commands

VARIABLES
  channel,   \* DMA: base, pagebase, count of channels 1 and 2, as <<low, high>>,
             \* and whether their low bytes are expected next
  mask,      \* the masked channels of controller 0
  parms,     \* cmd_parms: the command so far
  res,       \* cmd_res: what is left of the result
  dio,       \* status.dio: there is a result to read
  cylinder, seeking, \* of the selected drive
  interrupt, \* set for ever by the first seek or read
  driver,    \* the driver: what it does next
  job,       \* what it wants: [cmd, chs, to, count]
  jobs,      \* how many it has begun
  moved      \* the transfer of this job: from a sector, to an address, so many bytes

vars == <<channel, mask, parms, res, dio, cylinder, seeking, interrupt, driver, job,
          jobs, moved>>
dma == <<channel, mask>>
fdc == <<parms, res, dio, cylinder, seeking, interrupt>>

Channels == {1, 2}
Zero == <<0, 0>>
Nothing == [cmd |-> "none", chs |-> <<0, 0, 1>>, to |-> [page |-> Zero, base |-> Zero],
            count |-> Zero]
Init ==
  /\ channel = [c \in Channels |->
       [base |-> Zero, page |-> Zero, count |-> Zero, alo |-> TRUE, clo |-> TRUE]]
  /\ mask = 0 .. 3
  /\ parms = <<>> /\ res = <<>> /\ dio = FALSE /\ cylinder = 0
  /\ seeking \in 0 .. 2       \* the constructor leaves it as it was
  /\ interrupt \in BOOLEAN
  /\ driver = <<"idle">> /\ job = Nothing /\ jobs = 0 /\ moved = {}

-----------------------------------------------------------------------------
(* CDMA::WriteMem(): a byte of the base or the count goes where its         *)
(* flip-flop says.                                                          *)
Low(old, b) == <<b, old[2]>>
High(old, b) == <<old[1], b>>
WriteBase(c, b) ==
  channel' = [channel EXCEPT ![c].base = IF channel[c].alo THEN Low(@, b) ELSE High(@, b),
                             ![c].alo = ~@]
WriteCount(c, b) ==
  channel' = [channel EXCEPT ![c].count = IF channel[c].clo THEN Low(@, b) ELSE High(@, b),
                             ![c].clo = ~@]
WritePage(c, part, b) ==
  channel' = [channel EXCEPT ![c].page = IF part = "low" THEN Low(@, b) ELSE High(@, b)]
ClearFlipFlops ==
  channel' = [c \in Channels |-> [channel[c] EXCEPT !.alo = TRUE, !.clo = TRUE]]

(* The single mask: the bit that is set is always that of channel 0.        *)
MaskSingle(c, set) == mask' = (mask \ {c}) \cup IF set THEN {0} ELSE {}

(* send_data(): from the channel's registers; get_count() is the count as   *)
(* it was written.                                                          *)
Number(b) == b[1] + Byte * b[2]
Address(c) == Number(channel[c].page) * Byte * Byte + Number(channel[c].base)
SendData(c, from) ==
  moved' = IF c \in mask THEN moved
           ELSE moved \cup {[from |-> from, to |-> Address(c), n |-> Number(channel[c].count)]}

-----------------------------------------------------------------------------
(* CFloppyController::WriteMem(): a command is executed with its last byte. *)
Length_Four(cmd) ==
  CASE cmd = "read" -> 9 [] cmd \in {"configure", "specify"} -> 4
    [] cmd = "seek" -> 3 [] cmd \in {"recalibrate", "perpendicular"} -> 2
    [] cmd = "sense" -> 1
Length(cmd) ==
  CASE cmd = "read" -> 9 [] cmd \in {"specify", "seek"} -> 3
    [] cmd \in {"recalibrate", "perpendicular"} -> 2 [] cmd = "configure" -> 4
    [] cmd = "sense" -> 1
Sector_Sides(p) == p[3] * p[7] + p[4] * p[7] + p[5] - 1
Sector(p) == p[3] * p[7] + p[4] * (p[7] \div 2) + p[5] - 1
Following(p) ==
  IF p[5] + 1 <= p[7] \div 2 THEN <<p[3], p[4], p[5] + 1>>
  ELSE IF p[4] = 0 THEN <<p[3], 1, 1>> ELSE <<p[3] + 1, 0, 1>>
Command(p) ==
  /\ CASE p[1] = "read" ->
            /\ SendData(2, Sector(p)) /\ seeking' = 1 /\ interrupt' = TRUE
            /\ res' = <<"st0", "st1", "st2">> \o Following(p) \o <<p[6]>>
            /\ UNCHANGED cylinder
       [] p[1] = "recalibrate" ->
            cylinder' = 0 /\ seeking' = 3 /\ interrupt' = TRUE /\ UNCHANGED <<res, moved>>
       [] p[1] = "seek" ->
            cylinder' = p[3] /\ seeking' = 3 /\ interrupt' = TRUE /\ UNCHANGED <<res, moved>>
       [] p[1] = "sense" ->
            /\ res' = <<IF interrupt THEN "st0" ELSE "none", cylinder>>
            /\ UNCHANGED <<cylinder, seeking, interrupt, moved>>
       [] OTHER -> UNCHANGED <<res, cylinder, seeking, interrupt, moved>>
  /\ dio' = (p[1] \in {"read", "sense"})
  /\ parms' = <<>>
WriteCommand(b) ==
  LET p == Append(parms, b) IN
  IF dio THEN UNCHANGED <<parms, res, dio, cylinder, seeking, interrupt, moved>>
  ELSE IF Len(p) = Length(p[1]) THEN Command(p)
  ELSE parms' = p /\ UNCHANGED <<res, dio, cylinder, seeking, interrupt, moved>>
ReadResult ==
  /\ res' = Tail(res) /\ dio' = (Len(res) > 1)
  /\ UNCHANGED <<parms, cylinder, seeking, interrupt>>

(* get_status(): a look at the status is what time there is.                *)
Busy == seeking > 1 \/ dio
GetStatus ==
  /\ seeking' = IF seeking > 0 THEN seeking - 1 ELSE 0
  /\ UNCHANGED <<parms, res, dio, cylinder, interrupt>>

-----------------------------------------------------------------------------
(* The driver. A job that reads first programs the channel.                 *)
Bytes(j) ==
  LET drive == 0 IN
  CASE j.cmd = "read" -> <<"read", drive, j.chs[1], j.chs[2], j.chs[3], 2, Eot, 0, 0>>
    [] j.cmd = "seek" -> <<"seek", drive, j.chs[1]>>
    [] j.cmd = "recalibrate" -> <<"recalibrate", drive>>
    [] j.cmd = "specify" -> <<"specify", 0, 0>>
    [] j.cmd = "sense" -> <<"sense">>
Programming(j) ==
  IF j.cmd = "read"
  THEN <<<<"flipflops">>, <<"base", j.to.base[1]>>, <<"base", j.to.base[2]>>,
         <<"page", "low", j.to.page[1]>>, <<"page", "high", j.to.page[2]>>,
         <<"count", j.count[1]>>, <<"count", j.count[2]>>, <<"unmask">>>>
  ELSE <<>>
Begin ==
  /\ driver = <<"idle">> /\ jobs < MaxJobs /\ jobs' = jobs + 1 /\ moved' = {}
  /\ \E cmd \in {"read", "seek", "recalibrate", "specify", "sense"},
        chs \in Chs, to \in Addresses, n \in Counts :
       /\ job' = [cmd |-> cmd, chs |-> chs, to |-> to, count |-> n]
       /\ cmd \notin {"read", "seek"} => chs = Nothing.chs
       /\ cmd # "read" => to.base = Zero /\ n = Zero
  /\ driver' = <<"program", 1>>
  /\ UNCHANGED <<dma, fdc>>
Program ==
  /\ driver[1] = "program"
  /\ IF driver[2] > Len(Programming(job))
     THEN driver' = <<"wait">> /\ UNCHANGED dma
     ELSE LET op == Programming(job)[driver[2]] IN
          /\ driver' = <<"program", driver[2] + 1>>
          /\ CASE op[1] = "flipflops" -> ClearFlipFlops /\ UNCHANGED mask
               [] op[1] = "base" -> WriteBase(2, op[2]) /\ UNCHANGED mask
               [] op[1] = "page" -> WritePage(2, op[2], op[3]) /\ UNCHANGED mask
               [] op[1] = "count" -> WriteCount(2, op[2]) /\ UNCHANGED mask
               [] op[1] = "unmask" -> MaskSingle(2, FALSE) /\ UNCHANGED channel
  /\ UNCHANGED <<fdc, job, jobs, moved>>
WaitReady ==
  /\ driver = <<"wait">> /\ GetStatus
  /\ driver' = IF Busy THEN driver ELSE <<"send", 1>>
  /\ UNCHANGED <<dma, job, jobs, moved>>
Send ==
  /\ driver[1] = "send" /\ WriteCommand(Bytes(job)[driver[2]])
  /\ driver' = IF driver[2] < Len(Bytes(job)) THEN <<"send", driver[2] + 1>> ELSE <<"result">>
  /\ UNCHANGED <<dma, job, jobs>>
Result ==
  /\ driver = <<"result">>
  /\ IF dio THEN ReadResult /\ UNCHANGED driver
            ELSE GetStatus /\ driver' = IF Busy THEN driver ELSE <<"idle">>
  /\ UNCHANGED <<dma, job, jobs, moved>>

(* The other driver programs and masks channel 1, and may leave a flip-flop *)
(* behind.                                                                  *)
Other ==
  /\ driver[1] \in {"idle", "wait", "result"}
  /\ \/ \E b \in 0 .. Byte - 1 : WriteBase(1, b) /\ UNCHANGED mask
     \/ \E set \in BOOLEAN : MaskSingle(1, set) /\ UNCHANGED channel
  /\ UNCHANGED <<fdc, driver, job, jobs, moved>>

Driver == Program \/ WaitReady \/ Send \/ Result
Next == Begin \/ Driver \/ Other
Spec == Init /\ [][Next]_vars /\ WF_vars(Driver)

-----------------------------------------------------------------------------
(* A read moves the sectors that it names, so many bytes as were programmed *)
(* to where they were to go, once (WriteMem(), send_data()).                *)
Wanted ==
  [from |-> (job.chs[1] * 2 + job.chs[2]) * (Eot \div 2) + job.chs[3] - 1,
   to |-> Number(job.to.page) * Byte * Byte + Number(job.to.base), n |-> Number(job.count)]
ReadExact ==
  /\ moved \subseteq {Wanted}
  /\ driver = <<"result">> /\ job.cmd = "read" => moved = {Wanted}

(* Command and result never get out of step (get_status()).                 *)
NothingLeft == driver[1] \in {"idle", "program"} => parms = <<>> /\ ~dio

(* Every command ends (send_data(), get_status()).                          *)
CommandsEnd == driver # <<"idle">> ~> driver = <<"idle">>
=============================================================================

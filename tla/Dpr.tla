---------------------------------- MODULE Dpr ----------------------------------
(***************************************************************************)
(* The dual-port RAM (DPR.cpp), through which the firmware gives           *)
(* commands to the remote management controller, whose part the emulator   *)
(* plays, stores the data of field replaceable units, and starts the       *)
(* other CPUs. What it holds is written to a file when the program ends,   *)
(* and read by the next one, which may have another number of CPUs. A      *)
(* unit's page and the buffer have Size bytes.                             *)
(***************************************************************************)
EXTENDS Integers, Sequences, FiniteSetsExt

CONSTANTS
  Units,     \* the units that the firmware addresses, by the number of their page
  Commands,  \* the command codes that it gives
  Size,      \* of a page
  Bytes,     \* what it writes
  Counts,    \* the numbers of CPUs that a system may have
  MaxJobs    \* bound of commands, starts and ends of the program

Secondary == 1 .. 3
Header == 0 .. 3
Offset == 0 .. Size - 1

VARIABLES
  cpus,      \* get_cpu_num()
  header,    \* the first cells of each CPU: "zero", "set" by init(), or a guest's "other"
  buffer,    \* the cells from 3500
  unit,      \* the pages of the units
  cmd,       \* cells f9 to ff: [size, at, unit, done, answer, code, id]
  rom,       \* dpr.rom: [header, buffer, unit, cmd]
  cpu,       \* the other CPUs: [pc, waiting, from]
  starting,  \* the CPU that WriteMem() starts, between set_pc() and stop_waiting()
  job,       \* the writes that the firmware has still to do
  want,      \* what each page should hold, now and in the file
  given,     \* the command that was given last, and for how many CPUs
  touched,   \* the CPUs whose header the firmware wrote
  jobs

ram == <<header, buffer, unit, cmd>>
vars == <<cpus, ram, rom, cpu, starting, job, want, given, touched, jobs>>

Zero == [o \in Offset |-> 0]
NoCommand == [size |-> 0, at |-> 0, unit |-> 0, done |-> 0, answer |-> 0, code |-> 0, id |-> 0]
Blank ==
  [header |-> [i \in Header |-> "zero"], buffer |-> Zero, unit |-> [u \in Units |-> Zero],
   cmd |-> NoCommand]
Waiting == [i \in Secondary |-> [pc |-> 0, waiting |-> TRUE, from |-> -1]]
NotGiven == [cmd |-> NoCommand, cpus |-> 0]

(* init(): the file first, and then what tells the firmware of this system. *)
(* The cells of a CPU that the last system had and this one lacks stay as   *)
(* they were.                                                               *)
Started_FileLast(r, n) == r
Started(r, n) == [r EXCEPT !.header = [i \in Header |-> IF i < n THEN "set" ELSE @[i]]]
Load(r) == header = r.header /\ buffer = r.buffer /\ unit = r.unit /\ cmd = r.cmd

Init ==
  /\ cpus \in Counts /\ Load(Started(Blank, cpus)) /\ rom = Blank
  /\ cpu = Waiting /\ starting = 0 /\ job = <<>>
  /\ want = [now |-> Blank.unit, file |-> Blank.unit]
  /\ given = NotGiven /\ touched = {} /\ jobs = 0

-----------------------------------------------------------------------------
(* The command of a write of ff, of which the answer is in fc. A unit is    *)
(* written with f9 + 1 bytes from the buffer; command f0 (the flash of the  *)
(* controller) is done like one that there is not.                          *)
Code == [unit |-> 1, baud |-> 2, panel |-> 3, flash |-> 240]
Known == (1 .. 8) \cup (\h21 .. \h2A) \cup (\h31 .. \h33) \cup (\h3B .. \h3F)
Present(u, n) == u \in \h21 .. \h24 => u - \h20 <= n
Accepted(c, n) == c.unit \in Known /\ Present(c.unit, n)
Answer(c, n) ==
  CASE c.code = Code.unit -> IF Accepted(c, n) THEN 0 ELSE \h80
    [] c.code \in {Code.baud, Code.panel} -> 0
    [] OTHER -> \h81
Copied_Exclusive(u, c) ==
  [o \in Offset |-> IF o \in c.at .. c.at + c.size - 1 THEN buffer[o] ELSE unit[u][o]]
Copied(u, c) == [o \in Offset |-> IF o \in c.at .. c.at + c.size THEN buffer[o] ELSE unit[u][o]]

(* WriteMem(), of a cell by its name; ReadMem() gives what it holds.        *)
Write(cell, v) ==
  /\ header' = IF cell[1] = "header" THEN [header EXCEPT ![cell[2]] = "other"] ELSE header
  /\ buffer' = IF cell[1] = "buffer" THEN [buffer EXCEPT ![cell[2]] = v] ELSE buffer
  /\ cmd' = CASE cell[1] \in DOMAIN cmd \ {"id", "done"} -> [cmd EXCEPT ![cell[1]] = v]
              [] cell[1] = "id" -> [cmd EXCEPT !.id = v, !.done = v, !.answer = Answer(cmd, cpus)]
              [] cell[1] = "done" -> [cmd EXCEPT !.id = v, !.done = v]
              [] OTHER -> cmd
  /\ unit' = IF cell[1] = "id" /\ cmd.code = Code.unit /\ Accepted(cmd, cpus)
             THEN [unit EXCEPT ![cmd.unit] = Copied(cmd.unit, cmd)] ELSE unit

(* A write of 3418 + 10 * i gives CPU i its address and then ends its       *)
(* waiting.                                                                 *)
Console == 1
SetPc(i) == cpu' = [cpu EXCEPT ![i].pc = Console]
StopWaiting(i) == cpu' = [cpu EXCEPT ![i].waiting = FALSE]
EndStart ==
  /\ starting # 0 /\ starting' = 0 /\ StopWaiting(starting)
  /\ UNCHANGED <<cpus, ram, rom, job, want, given, touched, jobs>>
(* run(): it looks at wait_for_start from time to time.                     *)
Wake(i) ==
  /\ ~cpu[i].waiting /\ cpu[i].from = -1
  /\ cpu' = [cpu EXCEPT ![i].from = cpu[i].pc]
  /\ UNCHANGED <<cpus, ram, rom, starting, job, want, given, touched, jobs>>

-----------------------------------------------------------------------------
(* The firmware. It may give up among its writes, and begin anew.           *)
Begin ==
  /\ job = <<>> /\ starting = 0 /\ jobs < MaxJobs /\ jobs' = jobs + 1
  /\ \/ \E u \in Units, at \in Offset, b \in Bytes : \E n \in 0 .. Size - 1 - at :
          job' = <<<<<<"buffer", at>>, b>>, <<<<"buffer", at + n>>, b>>, <<<<"code", 0>>, Code.unit>>,
                   <<<<"size", 0>>, n>>, <<<<"at", 0>>, at>>, <<<<"unit", 0>>, u>>,
                   <<<<"id", 0>>, jobs'>>, <<<<"done", 0>>, 0>>>>
     \/ \E c \in Commands :
          job' = <<<<<<"code", 0>>, c>>, <<<<"id", 0>>, jobs'>>, <<<<"done", 0>>, 0>>>>
     \/ \E i \in Header : job' = <<<<<<"header", i>>, 0>>>>
     \/ \E i \in {j \in Secondary : cpu[j].waiting} : job' = <<<<<<"start", i>>, 0>>>>
  /\ UNCHANGED <<cpus, ram, rom, cpu, starting, want, given, touched>>
Step ==
  /\ job # <<>> /\ starting = 0 /\ job' = Tail(job)
  /\ LET cell == Head(job)[1] v == Head(job)[2] IN
     /\ Write(cell, v)
     /\ IF cell[1] = "start" /\ cell[2] < cpus
        THEN starting' = cell[2] /\ SetPc(cell[2]) ELSE UNCHANGED <<starting, cpu>>
     /\ touched' = IF cell[1] = "header" THEN touched \cup {cell[2]} ELSE touched
     /\ given' = IF cell[1] = "id" THEN [cmd |-> cmd, cpus |-> cpus] ELSE given
     /\ want' = IF /\ cell[1] = "id" /\ cmd.code = Code.unit
                   /\ cmd.unit \in \h21 .. \h24 => cmd.unit < \h21 + cpus
                   /\ cmd.unit \in Known
                THEN [want EXCEPT !.now[cmd.unit] =
                        [o \in Offset |-> IF o >= cmd.at /\ o - cmd.at < cmd.size + 1
                                          THEN buffer[o] ELSE @[o]]]
                ELSE want
  /\ UNCHANGED <<cpus, rom, jobs>>
GiveUp ==
  /\ job # <<>> /\ job' = <<>>
  /\ UNCHANGED <<cpus, ram, rom, cpu, starting, want, given, touched, jobs>>

(* The program ends, with SaveStateF() or without, and another one begins.  *)
Restart(saved, n) ==
  /\ jobs < MaxJobs /\ jobs' = jobs + 1
  /\ cpus' = n /\ cpu' = Waiting /\ starting' = 0 /\ job' = <<>> /\ touched' = {} /\ given' = NotGiven
  /\ rom' = IF saved THEN [header |-> header, buffer |-> buffer, unit |-> unit, cmd |-> cmd] ELSE rom
  /\ LET r == Started(rom', n) IN
     header' = r.header /\ buffer' = r.buffer /\ unit' = r.unit /\ cmd' = r.cmd
  /\ want' = IF saved THEN [want EXCEPT !.file = want.now] ELSE [want EXCEPT !.now = want.file]

Next ==
  \/ Begin \/ Step \/ GiveUp \/ EndStart
  \/ \E i \in Secondary : Wake(i)
  \/ \E saved \in BOOLEAN, n \in Counts : Restart(saved, n)
Spec == Init /\ [][Next]_vars

-----------------------------------------------------------------------------
(* The data of the units is what commands have written that were done, and  *)
(* no other bytes, through any number of programs; a command that was given *)
(* has been answered, with success if its unit is there; the firmware is    *)
(* told of the CPUs of this system; and a CPU that runs began where the     *)
(* console is (WriteMem(), init(), SaveStateF()).                           *)
DprRight ==
  /\ unit = want.now
  /\ given # NotGiven =>
       cmd.answer = CASE given.cmd.code = Code.unit ->
                           IF given.cmd.unit \in Known \ {\h20 + i : i \in given.cpus + 1 .. 4} THEN 0 ELSE \h80
                      [] given.cmd.code \in {Code.baud, Code.panel} -> 0
                      [] OTHER -> \h81
  /\ \A i \in Header : i < cpus /\ i \notin touched => header[i] = "set"
  /\ \A i \in Secondary : cpu[i].from # -1 => i < cpus /\ cpu[i].from = Console
=============================================================================

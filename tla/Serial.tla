------------------------------- MODULE Serial -------------------------------
(***************************************************************************)
(* A serial port (Serial.cpp): the thread that takes bytes from the        *)
(* telnet connection, filters them and puts them into a ring without a     *)
(* lock, while the CPU's thread takes them out; and the interrupt, which   *)
(* both evaluate. The guest's service routine reads the identification     *)
(* register and then all characters.                                       *)
(***************************************************************************)
EXTENDS Integers, Sequences, SequencesExt

CONSTANTS
  Streams,   \* what the connection may bring: sequences of batches of tokens
  Size,      \* FIFO_SIZE
  Enables    \* the values of IER: sets of "receive" and "transmit"

VARIABLES
  input,     \* the batches to come
  batch,     \* what the filter has left of this one
  ring, w, r, \* rcvBuffer, rcvW, rcvR
  iir, ier,  \* the identification and enable registers
  pin,       \* the port's interrupt is asserted in the interrupt controller
  pc,        \* the thread
  guest,     \* the service routine
  breakHit,
  stream, got, \* what the connection brings, and what the guest has read
  count,     \* the bytes between r and w that are there
  torn, lapped \* the guest has read one that was not; one more than fits has come

vars == <<input, batch, ring, w, r, iir, ier, pin, pc, guest, breakHit, stream, got,
          count, torn, lapped>>

(* Tokens of the stream: a character c, a line feed, a zero, an escaped     *)
(* IAC, a command, an option or a subnegotiation, BREAK and "are you        *)
(* there".                                                                  *)
Iac == 255
Skipped == {"lf", "option", "subnegotiation", "command"}

(* execute(): what the filter makes of a batch. The byte after a BREAK is   *)
(* taken as it is, and is any byte if the batch ends there.                 *)
Bytes_LineFeed(t) ==
  CASE t.k \in {"char", "lf"} -> <<IF t.k = "char" THEN t.c ELSE 10>>
    [] t.k \in Skipped \cup {"break"} -> <<>>
    [] t.k = "iac" -> <<Iac>> [] t.k = "ayt" -> <<Iac, 246>> [] t.k = "nul" -> <<0>>
Bytes(t) ==
  CASE t.k \in Skipped \cup {"break"} -> <<>>
    [] t.k = "char" -> <<t.c>>
    [] t.k = "iac" -> <<Iac>>
    [] t.k = "ayt" -> <<Iac, 246>>
    [] t.k = "nul" -> <<0>>
AfterBreak(t) ==
  CASE t.k = "lf" -> <<10>>
    [] t.k \in {"option", "subnegotiation", "command", "iac", "break"} -> <<Iac>>
    [] OTHER -> Bytes(t)
Filter(b, junk) ==
  FlattenSeq([i \in DOMAIN b |->
    IF i > 1 /\ b[i - 1].k = "break" THEN AfterBreak(b[i])
    ELSE IF i = Len(b) /\ b[i].k = "break" THEN <<junk>> ELSE Bytes(b[i])])

(* receive() stops at a zero.                                               *)
UpToNul(bytes) ==
  LET zeros == {i \in DOMAIN bytes : bytes[i] = 0} IN
  IF zeros = {} THEN bytes
  ELSE SubSeq(bytes, 1, (CHOOSE i \in zeros : \A j \in zeros : i <= j) - 1)

Init ==
  /\ input \in Streams /\ ier \in Enables /\ batch = <<>>
  /\ ring = [i \in 0 .. Size - 1 |-> 0] /\ w = 0 /\ r = 0
  /\ iir = "none" /\ pin = FALSE /\ pc = "poll" /\ guest = "out"
  /\ breakHit = FALSE /\ stream = input /\ got = <<>>
  /\ count = 0 /\ torn = FALSE /\ lapped = FALSE

-----------------------------------------------------------------------------
(* eval_interrupts(). The line is never lowered: irq_active is not set.     *)
Identify ==
  IF "receive" \in ier /\ r # w THEN "receive"
  ELSE IF "transmit" \in ier THEN "transmit" ELSE "none"
Evaluate ==
  /\ iir' = Identify
  /\ pin' = (pin \/ Identify # "none")

(* The thread: a batch from the connection ...                              *)
Poll ==
  /\ pc = "poll" /\ input # <<>>
  /\ \E junk \in {0, 7} :
       batch' = UpToNul(Filter(Head(input), junk))
  /\ breakHit' = (breakHit \/ \E i \in DOMAIN Head(input) : Head(input)[i].k = "break")
  /\ input' = Tail(input) /\ pc' = "receive"
  /\ UNCHANGED <<ring, w, r, iir, ier, pin, guest, stream, got, count, torn,
                 lapped>>

(* ... is put into the ring, the byte first or the index first, as the      *)
(* compiler has it, without a look at r; the index is wrapped after that,   *)
(* ...                                                                      *)
Put(p) ==
  /\ ring' = [ring EXCEPT ![p] = Head(batch)]
  /\ batch' = Tail(batch)
  /\ count' = (count + 1) % Size /\ lapped' = (lapped \/ count = Size - 1)
ByteFirst ==
  /\ pc = "receive" /\ batch # <<>> /\ Put(w) /\ pc' = "index"
  /\ UNCHANGED <<input, w, r, iir, ier, pin, guest, breakHit, stream, got, torn>>
IndexFirst ==
  /\ pc = "receive" /\ batch # <<>> /\ w' = w + 1 /\ pc' = "byte"
  /\ UNCHANGED <<input, batch, ring, r, iir, ier, pin, guest, breakHit, stream, got,
                 count, torn, lapped>>
Index ==
  /\ pc = "index" /\ w' = w + 1 /\ pc' = "wrap"
  /\ UNCHANGED <<input, batch, ring, r, iir, ier, pin, guest, breakHit, stream, got,
                 count, torn, lapped>>
Byte ==
  /\ pc = "byte" /\ Put(w - 1) /\ pc' = "wrap"
  /\ UNCHANGED <<input, w, r, iir, ier, pin, guest, breakHit, stream, got, torn>>
Wrapped(i) == IF i = Size THEN 0 ELSE i
Wrap ==
  /\ pc = "wrap" /\ w' = Wrapped(w) /\ pc' = "evaluate"
  /\ UNCHANGED <<input, batch, ring, r, iir, ier, pin, guest, breakHit, stream, got,
                 count, torn, lapped>>

(* ... and the interrupt is evaluated, after each byte and once in each     *)
(* round.                                                                   *)
AfterByte ==
  /\ pc = "evaluate" /\ Evaluate
  /\ pc' = "receive"
  /\ UNCHANGED <<input, batch, ring, w, r, ier, guest, breakHit, stream, got, count,
                 torn, lapped>>
EachRound_OnlyData == pc = "receive" /\ batch = <<>>
EachRound == pc = "poll" \/ (pc = "receive" /\ batch = <<>>)
Round ==
  /\ EachRound /\ Evaluate /\ pc' = "poll"
  /\ UNCHANGED <<input, batch, ring, w, r, ier, guest, breakHit, stream, got, count,
                 torn, lapped>>
Thread == Poll \/ ByteFirst \/ IndexFirst \/ Index \/ Byte \/ Wrap \/ AfterByte \/ Round

-----------------------------------------------------------------------------
(* The CPU's thread: the service routine is entered, reads the              *)
(* identification register (the load, and then the store that clears it),   *)
(* ...                                                                      *)
Enter ==
  /\ guest = "out" /\ pin /\ guest' = IF iir = "receive" THEN "clear" ELSE "clear end"
  /\ UNCHANGED <<input, batch, ring, w, r, iir, ier, pin, pc, breakHit, stream, got,
                 count, torn, lapped>>
ClearIir ==
  /\ guest \in {"clear", "clear end"} /\ iir' = "none"
  /\ guest' = IF guest = "clear" THEN "read" ELSE "end"
  /\ UNCHANGED <<input, batch, ring, w, r, ier, pin, pc, breakHit, stream, got, count,
                 torn, lapped>>

(* ... the line status and the characters, ...                              *)
Ready == r # w
Broken == torn \/ lapped   \* the bound of the history: what is read then is not followed
ReadChar ==
  /\ guest = "read" /\ Ready /\ ~Broken
  /\ got' = Append(got, ring[r]) /\ r' = Wrapped(r + 1)
  /\ count' = (count - 1) % Size /\ torn' = (torn \/ count = 0)
  /\ UNCHANGED <<input, batch, ring, w, iir, ier, pin, pc, guest, breakHit, stream,
                 lapped>>
Empty ==
  /\ guest = "read" /\ ~Ready /\ guest' = "end"
  /\ UNCHANGED <<input, batch, ring, w, r, iir, ier, pin, pc, breakHit, stream, got,
                 count, torn, lapped>>

(* ... and ends the interrupt at its controller.                            *)
End ==
  /\ guest = "end" /\ pin' = FALSE /\ guest' = "out"
  /\ UNCHANGED <<input, batch, ring, w, r, iir, ier, pc, breakHit, stream, got, count,
                 torn, lapped>>
Guest == Enter \/ ClearIir \/ ReadChar \/ Empty \/ End

Next == Thread \/ Guest
Spec == Init /\ [][Next]_vars /\ WF_vars(Thread) /\ WF_vars(Guest)

-----------------------------------------------------------------------------
(* The guest reads the characters of the stream, in order, without the      *)
(* options of the connection, up to where the ring overflows or it reads    *)
(* one that is not there yet (receive(), ReadMem()).                        *)
Characters(s) ==
  FlattenSeq([i \in DOMAIN s |->
    CASE s[i].k \in Skipped -> <<>> [] s[i].k = "iac" -> <<Iac>> [] OTHER -> <<s[i].c>>])
Clean(s) == \A i \in DOMAIN s : s[i].k \notin {"nul", "break", "ayt"}
ReadInOrder ==
  Clean(FlattenSeq(stream)) /\ ~torn /\ ~lapped =>
    IsPrefix(got, Characters(FlattenSeq(stream)))

(* What is in the ring is read, although the interrupt is evaluated by two  *)
(* threads without a lock and each may undo the other's                     *)
(* (eval_interrupts()).                                                     *)
Emptied == "receive" \in ier /\ r # w ~> r = w \/ Broken
=============================================================================

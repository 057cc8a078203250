------------------------------ MODULE LoadLocked ------------------------------
(***************************************************************************)
(* Load-locked and store-conditional (LDx_L, STx_C): the lock flags and    *)
(* addresses in CSystem, set by cpu_lock() and tested by cpu_unlock() under *)
(* cpu_lock_mutex, and broken by every WriteMem() of another CPU or device, *)
(* which looks at them without the mutex before it stores.                 *)
(*                                                                         *)
(* An address is the 256-byte block that WriteMem() compares.              *)
(***************************************************************************)
EXTENDS Naturals, TLAPS

CONSTANTS
  NumCPUs,   \* iNumCPUs
  Device,    \* components that write memory by DMA
  Block      \* the lock granules software uses

CPU == 0 .. NumCPUs - 1
Agent == CPU \cup Device

ASSUME CountAssumption == NumCPUs \in Nat \ {0} /\ Device \cap Nat = {}

VARIABLES
  flags,      \* cpu_lock_flags: the CPUs with a reservation
  address,    \* cpu_lock_address
  mutex,      \* cpu_lock_mutex: its holder
  pc,         \* what each agent is doing
  block,      \* the block an agent locks or writes
  next,       \* the CPU an agent's WriteMem() looks at next
  before,     \* before[a]: CPUs whose reservation is older than a's WriteMem()
  overtaken   \* CPUs whose block was stored to since they locked it
vars == <<flags, address, mutex, pc, block, next, before, overtaken>>

Free == NumCPUs   \* no CPU holds the mutex
ASSUME FreeAssumption == Free \notin Agent

Init ==
  /\ flags = {}
  /\ address \in [CPU -> Block]
  /\ mutex = Free
  /\ pc = [a \in Agent |-> "idle"]
  /\ block = [a \in Agent |-> CHOOSE b \in Block : TRUE]
  /\ next = [a \in Agent |-> 0]
  /\ before = [a \in Agent |-> {}]
  /\ overtaken = {}

At(a, label) == pc[a] = label
Go(a, label) == pc' = [pc EXCEPT ![a] = label]
Forget(c) == before' = [a \in Agent |-> before[a] \ {c}] /\ overtaken' = overtaken \ {c}

(* Mutant: a new reservation takes the others' away. *)
Lock_BreaksOthers(c, b) ==
  /\ At(c, "idle") /\ mutex = Free
  /\ mutex' = c
  /\ flags' = {c}
  /\ block' = [block EXCEPT ![c] = b]
  /\ Go(c, "locking")
  /\ Forget(c)
  /\ UNCHANGED <<address, next>>

(* LDx_L: cpu_lock() takes the mutex and sets the flag, ... *)
Lock(c, b) ==
  /\ At(c, "idle") /\ mutex = Free
  /\ mutex' = c
  /\ flags' = flags \cup {c}
  /\ block' = [block EXCEPT ![c] = b]
  /\ Go(c, "locking")
  /\ Forget(c)
  /\ UNCHANGED <<address, next>>

(* ... then the address, and returns; the read of memory follows. *)
LockAddress(c) ==
  /\ At(c, "locking")
  /\ address' = [address EXCEPT ![c] = block[c]]
  /\ mutex' = Free
  /\ Go(c, "reserved")
  /\ UNCHANGED <<flags, block, next, before, overtaken>>

(* A WriteMem() begins: with no flag set it goes on to store at once. *)
BeginWrite(a, b) ==
  /\ block' = [block EXCEPT ![a] = b]
  /\ next' = [next EXCEPT ![a] = 0]
  /\ before' = [before EXCEPT ![a] =
                  {c \in CPU \ {a} : c \in flags' /\ ~At(c, "locking") /\ address[c] = b}]

(* STx_C: cpu_unlock() tests and clears the flag under the mutex; only then  *)
(* is the address translated, and the store goes through WriteMem().         *)
StoreConditional(c) ==
  /\ At(c, "reserved") /\ mutex = Free
  /\ flags' = flags \ {c}
  /\ overtaken' = overtaken \ {c}
  /\ \/ /\ c \in flags
        /\ Go(c, IF flags' = {} THEN "storing" ELSE "checking")
        /\ BeginWrite(c, block[c])
     \/ /\ Go(c, "idle")
        /\ before' = [a \in Agent |-> before[a] \ {c}]
        /\ UNCHANGED <<block, next>>
  /\ UNCHANGED <<address, mutex>>

(* An ordinary store of a CPU, or a DMA transfer of a device. *)
Write(a, b) ==
  /\ At(a, "idle")
  /\ Go(a, IF flags = {} THEN "storing" ELSE "checking")
  /\ flags' = flags
  /\ BeginWrite(a, b)
  /\ UNCHANGED <<address, mutex, overtaken>>

(* Mutant: the test of the source is the wrong way round. *)
MustBreak_Own(a, c) == c \in flags /\ address[c] = block[a] /\ c = a

(* WriteMem(): the loop over the CPUs, whose flag and address are read       *)
(* without the mutex, ...                                                    *)
MustBreak(a, c) == c \in flags /\ address[c] = block[a] /\ c # a

Check(a) ==
  /\ At(a, "checking")
  /\ IF next[a] = NumCPUs
     THEN Go(a, "storing") /\ UNCHANGED next
     ELSE IF MustBreak(a, next[a])
     THEN Go(a, "breaking") /\ UNCHANGED next
     ELSE next' = [next EXCEPT ![a] = @ + 1] /\ UNCHANGED pc
  /\ UNCHANGED <<flags, address, mutex, block, before, overtaken>>

(* ... cpu_break_lock() under the mutex, ... *)
Break(a) ==
  /\ At(a, "breaking") /\ mutex = Free
  /\ flags' = flags \ {next[a]}
  /\ next' = [next EXCEPT ![a] = @ + 1]
  /\ Go(a, "checking")
  /\ UNCHANGED <<address, mutex, block, before, overtaken>>

(* ... and the store.  It overtakes the reservations that are older than     *)
(* this WriteMem().                                                          *)
Store(a) ==
  /\ At(a, "storing")
  /\ overtaken' = overtaken \cup before[a]
  /\ before' = [before EXCEPT ![a] = {}]
  /\ Go(a, "idle")
  /\ UNCHANGED <<flags, address, mutex, block, next>>

WriteStep(a) == Check(a) \/ Break(a) \/ Store(a)

Next ==
  \/ \E c \in CPU, b \in Block : Lock(c, b)
  \/ \E c \in CPU : LockAddress(c) \/ StoreConditional(c)
  \/ \E a \in Agent, b \in Block : Write(a, b)
  \/ \E a \in Agent : WriteStep(a)

(* A thread goes on with the WriteMem() or cpu_lock() it is in. *)
Fairness ==
  /\ \A c \in CPU : WF_vars(LockAddress(c))
  /\ \A a \in Agent : WF_vars(WriteStep(a))
Spec == Init /\ [][Next]_vars
FairSpec == Spec /\ Fairness

-----------------------------------------------------------------------------
TypeOK ==
  /\ flags \subseteq CPU
  /\ address \in [CPU -> Block]
  /\ mutex \in CPU \cup {Free}
  /\ pc \in [Agent -> {"idle", "locking", "reserved", "checking", "breaking", "storing"}]
  /\ block \in [Agent -> Block]
  /\ next \in [Agent -> 0 .. NumCPUs]
  /\ before \in [Agent -> SUBSET CPU]
  /\ overtaken \subseteq CPU

(* A reservation means something: no WriteMem() of another CPU or device that *)
(* began after LDx_L locked the block has stored to it while the flag is      *)
(* still set, so that STx_C would succeed on data that changed.  (A WriteMem  *)
(* that began before and stores after is not covered: it is not atomic.)      *)
NotOvertaken == flags \cap overtaken = {}

(* Breaking is not starving: a reservation is only ever lost to a WriteMem()  *)
(* that goes on to store, so CPUs that use nothing but LDx_L and STx_C and    *)
(* keep trying, without faults, succeed again and again.                      *)
Attempt == \E c \in CPU : StoreConditional(c)
Success == \E c \in CPU : c \in flags /\ StoreConditional(c) /\ pc'[c] # "idle"
Fault == \E c \in CPU : c \in flags /\ StoreConditional(c) /\ pc'[c] = "idle"
PlainWrite == \E a \in Agent, b \in Block : Write(a, b)
SomeoneSucceeds ==
  []<><<Attempt>>_vars => []<><<Success \/ Fault \/ PlainWrite>>_vars

-----------------------------------------------------------------------------
(* What holds on any machine: any number of CPUs and devices, any blocks.    *)
Writing == {"checking", "breaking", "storing"}

(* What is known of a WriteMem() in progress and of the reservations that are *)
(* older: those that still stand are of the block that is written, are not    *)
(* being renewed, and are still ahead of the loop that breaks them.           *)
Ahead(a) ==
  /\ pc[a] \notin Writing => before[a] = {}
  /\ \A c \in before[a] :
       /\ c # a /\ pc[c] # "locking"
       /\ c \in flags => /\ address[c] = block[a]
                         /\ pc[a] # "storing"
                         /\ next[a] <= c

AllAhead == \A a \in Agent : Ahead(a)

(* A CPU whose reservation is broken exists: the loop has not ended.         *)
LoopInRange == \A a \in Agent : pc[a] = "breaking" => next[a] < NumCPUs
Typed == TypeOK /\ LoopInRange
IInv == Typed /\ AllAhead /\ NotOvertaken

-----------------------------------------------------------------------------
LEMMA Types ==
  /\ CPU \subseteq Agent /\ CPU \subseteq Nat /\ NumCPUs \in Nat
  /\ \A c \in CPU : c < NumCPUs
  BY CountAssumption DEF CPU, Agent

LEMMA TypedInit == Init => Typed
<1> SUFFICES ASSUME Init PROVE Typed
  OBVIOUS
<1>1. \A a \in Agent : block[a] \in Block
  <2>1. 0 \in CPU
    BY CountAssumption DEF CPU
  <2>2. address[0] \in Block
    BY <2>1 DEF Init
  <2>3. (CHOOSE b \in Block : TRUE) \in Block
    BY <2>2
  <2> QED BY <2>3 DEF Init
<1> QED BY <1>1, Types DEF Init, Typed, TypeOK, LoopInRange

(* Variables keep their types, the loop counter within the CPUs.             *)
LEMMA TypedStep == Typed /\ [Next]_vars => Typed'
<1> SUFFICES ASSUME Typed, [Next]_vars PROVE Typed'
  OBVIOUS
<1> USE Types DEF Typed, TypeOK, LoopInRange
<1>1. ASSUME NEW c \in CPU, NEW b \in Block, Lock(c, b) PROVE Typed'
  BY <1>1 DEF Lock, Go, Forget
<1>2. ASSUME NEW c \in CPU, LockAddress(c) PROVE Typed'
  BY <1>2 DEF LockAddress, Go
<1>3. ASSUME NEW c \in CPU, StoreConditional(c) PROVE Typed'
  BY <1>3 DEF StoreConditional, Go, BeginWrite
<1>4. ASSUME NEW a \in Agent, NEW b \in Block, Write(a, b) PROVE Typed'
  BY <1>4 DEF Write, Go, BeginWrite
<1>5. ASSUME NEW a \in Agent, Check(a) PROVE Typed'
  <2>1. next[a] # NumCPUs => next[a] + 1 \in 0 .. NumCPUs /\ next[a] < NumCPUs
    OBVIOUS
  <2>2. CASE next[a] = NumCPUs
    BY <1>5, <2>2 DEF Check, Go
  <2>3. CASE next[a] # NumCPUs /\ MustBreak(a, next[a])
    BY <1>5, <2>1, <2>3 DEF Check, Go
  <2>4. CASE next[a] # NumCPUs /\ ~MustBreak(a, next[a])
    BY <1>5, <2>1, <2>4 DEF Check, Go, At
  <2> QED BY <2>2, <2>3, <2>4
<1>6. ASSUME NEW a \in Agent, Break(a) PROVE Typed'
  <2>1. next[a] + 1 \in 0 .. NumCPUs
    BY <1>6 DEF Break, At
  <2> QED BY <1>6, <2>1 DEF Break, Go
<1>7. ASSUME NEW a \in Agent, Store(a) PROVE Typed'
  BY <1>7 DEF Store, Go
<1>8. UNCHANGED vars => Typed'
  BY DEF vars
<1> QED BY <1>1, <1>2, <1>3, <1>4, <1>5, <1>6, <1>7, <1>8 DEF Next, WriteStep

-----------------------------------------------------------------------------
LEMMA AheadInit == Init => AllAhead /\ NotOvertaken
  BY DEF Init, AllAhead, Ahead, NotOvertaken

(* A step of one agent keeps what is known of every WriteMem().              *)
LEMMA AheadStep == IInv /\ [Next]_vars => AllAhead'
<1> SUFFICES ASSUME IInv, [Next]_vars, NEW a \in Agent PROVE Ahead(a)'
  BY DEF AllAhead
<1> USE Types DEF IInv, Typed, TypeOK, AllAhead, Ahead, Writing
<1>1. ASSUME NEW c \in CPU, NEW b \in Block, Lock(c, b) PROVE Ahead(a)'
  BY <1>1 DEF Lock, Go, Forget, At
<1>2. ASSUME NEW c \in CPU, LockAddress(c) PROVE Ahead(a)'
  BY <1>2 DEF LockAddress, Go, At
<1>3. ASSUME NEW c \in CPU, StoreConditional(c) PROVE Ahead(a)'
  <2>1. pc[c] = "reserved" /\ flags' = flags \ {c} /\ address' = address
    BY <1>3 DEF StoreConditional, At
  <2>2. CASE /\ pc' = [pc EXCEPT ![c] = "idle"]
             /\ before' = [d \in Agent |-> before[d] \ {c}]
             /\ block' = block /\ next' = next
    BY <2>1, <2>2
  <2>3. CASE /\ pc' = [pc EXCEPT ![c] = IF flags' = {} THEN "storing" ELSE "checking"]
             /\ BeginWrite(c, block[c])
    <3>1. /\ block' = [block EXCEPT ![c] = block[c]] /\ next' = [next EXCEPT ![c] = 0]
          /\ before' = [before EXCEPT ![c] =
               {d \in CPU \ {c} : d \in flags' /\ pc[d] # "locking" /\ address[d] = block[c]}]
      BY <2>3 DEF BeginWrite, At
    <3>2. CASE a # c
      BY <2>1, <2>3, <3>1, <3>2
    <3>3. CASE a = c
      <4>1. before'[a] = {d \in CPU \ {c} : d \in flags' /\ pc[d] # "locking" /\ address[d] = block[c]}
        BY <3>1, <3>3
      <4>2. next'[a] = 0 /\ block'[a] = block[c] /\ pc'[a] \in Writing
        BY <2>3, <3>1, <3>3
      <4>3. pc'[a] = "storing" => flags' = {}
        BY <2>3, <3>3
      <4>4. \A d \in before'[a] : /\ d # a /\ pc'[d] # "locking" /\ d \in flags'
                                  /\ address'[d] = block'[a] /\ 0 <= d
        <5>1. \A d \in CPU \ {c} : pc'[d] = pc[d]
          BY <2>3
        <5>2. \A d \in before'[a] : d \in CPU \ {c} /\ pc[d] # "locking" /\ d \in flags'
                                    /\ address[d] = block[c]
          BY <4>1
        <5>3. \A d \in CPU : 0 <= d
          BY DEF CPU
        <5> HIDE DEF Typed, TypeOK, AllAhead, Ahead, IInv
        <5> QED BY <2>1, <3>3, <4>2, <5>1, <5>2, <5>3
      <4> QED BY <4>2, <4>3, <4>4
    <3> QED BY <3>2, <3>3
  <2> QED BY <1>3, <2>2, <2>3 DEF StoreConditional, Go
<1>4. ASSUME NEW d \in Agent, NEW b \in Block, Write(d, b) PROVE Ahead(a)'
  BY <1>4 DEF Write, Go, BeginWrite, At
<1>5. ASSUME NEW d \in Agent, Check(d) PROVE Ahead(a)'
  BY <1>5 DEF Check, Go, MustBreak, At
<1>6. ASSUME NEW d \in Agent, Break(d) PROVE Ahead(a)'
  BY <1>6 DEF Break, Go, At, LoopInRange
<1>7. ASSUME NEW d \in Agent, Store(d) PROVE Ahead(a)'
  BY <1>7 DEF Store, Go, At
<1>8. UNCHANGED vars => Ahead(a)'
  BY DEF vars
<1> QED BY <1>1, <1>2, <1>3, <1>4, <1>5, <1>6, <1>7, <1>8 DEF Next, WriteStep

(* ... and only stores overtake.                                             *)
LEMMA OvertakenStep == IInv /\ [Next]_vars => NotOvertaken'
<1> SUFFICES ASSUME IInv, [Next]_vars PROVE NotOvertaken'
  OBVIOUS
<1> USE DEF IInv, Typed, TypeOK, NotOvertaken
<1>1. ASSUME NEW c \in CPU, NEW b \in Block, Lock(c, b) PROVE NotOvertaken'
  BY <1>1 DEF Lock, Forget
<1>2. ASSUME NEW c \in CPU, LockAddress(c) \/ StoreConditional(c) PROVE NotOvertaken'
  BY <1>2 DEF LockAddress, StoreConditional
<1>3. ASSUME NEW a \in Agent, NEW b \in Block, Write(a, b) PROVE NotOvertaken'
  BY <1>3 DEF Write
<1>4. ASSUME NEW a \in Agent, Check(a) \/ Break(a) PROVE NotOvertaken'
  BY <1>4 DEF Check, Break
<1>5. ASSUME NEW a \in Agent, Store(a) PROVE NotOvertaken'
  <2>1. before[a] \cap flags = {}
    BY <1>5 DEF Store, At, AllAhead, Ahead
  <2> QED BY <1>5, <2>1 DEF Store
<1>6. UNCHANGED vars => NotOvertaken'
  BY DEF vars
<1> QED BY <1>1, <1>2, <1>3, <1>4, <1>5, <1>6 DEF Next, WriteStep

(* The state of the locks, the loop of each WriteMem() and the reservations   *)
(* it has yet to break fit together.                                          *)
THEOREM Inductive == Spec => []IInv
<1>1. Init => IInv
  BY TypedInit, AheadInit DEF IInv
<1>2. IInv /\ [Next]_vars => IInv'
  BY TypedStep, AheadStep, OvertakenStep DEF IInv
<1> QED BY <1>1, <1>2, PTL DEF Spec

(* Type correctness: no loop of WriteMem() leaves the array of CPUs.         *)
THEOREM TypeCorrect == Spec => []TypeOK
<1>1. IInv => TypeOK
  BY DEF IInv, Typed
<1> QED BY <1>1, Inductive, PTL

(* No STx_C succeeds after a WriteMem() of another CPU or device that began   *)
(* after its LDx_L has stored to the block.                                   *)
THEOREM NotOvertakenAlways == Spec => []NotOvertaken
<1>1. IInv => NotOvertaken
  BY DEF IInv
<1> QED BY <1>1, Inductive, PTL
=============================================================================

-------------------------------- MODULE VmsPal --------------------------------
(***************************************************************************)
(* The replacement of the PALcode of OpenVMS (AlphaCPU_vmspal.cpp): the    *)
(* modes of the processor and their stacks, interrupt priority levels      *)
(* and their masks, and the hardware contexts of processes. CHME, and      *)
(* the entry of an interrupt, which execute() leaves to the original       *)
(* PALcode, do as the routines do that were written to replace them and    *)
(* are not called.                                                         *)
(***************************************************************************)
EXTENDS Integers, SequencesExt

CONSTANTS
  Process,     \* processes, with a hardware context each
  First,       \* the one that runs first
  Soft,        \* levels of software interrupts
  Levels,      \* the levels that the guest raises or lowers itself to
  Scheduling,  \* the one at which it swaps contexts
  Depth,       \* bound: frames on a stack
  MaxCalls     \* bound: what the guest and the clock do beside exceptions and REI

Kernel == 0
Executive == 1
User == 3
Modes == {Kernel, Executive, User}
AstLevel == 2
ClockLevel == 22

VARIABLES
  pc, cm,      \* state.pc, state.cm
  ps,          \* p22: its mode and level
  sp,          \* r30: the stack, the frames on it, and whether it is unaligned
  frames,      \* the frames in the memory of each stack
  masks,       \* eien, sien and asten
  ast,         \* aster and astrr
  sir, clock,  \* software interrupts, and the clock's, that are requested
  check,       \* check_int
  current, ksp, \* what p21+10 (the context) and p21+18 (kernel stack) hold
  pcb,         \* the contexts in memory: stack pointers and ASTs
  calls,       \* history: how many times they did,
  late,        \*   whether an REI has let an AST through without a check,
  contexts     \*   and per process what it has been doing, the latest last

vars == <<pc, cm, ps, sp, frames, masks, ast, sir, clock, check, current, ksp, pcb,
          calls, late, contexts>>

(* ipl_ier_mask                                                              *)
Row(ipl) ==
  [soft |-> {s \in Soft : s > ipl}, ast |-> ipl < AstLevel, clock |-> ipl < ClockLevel]

Empty(p, m) == [of |-> p, m |-> m, n |-> 0, odd |-> FALSE]
Context(at, mode, ipl, stack) == [pc |-> at, mode |-> mode, ipl |-> ipl, sp |-> stack]
NoAst == [enabled |-> {}, requested |-> {}]

(* The first process runs in user mode; the others were prepared to.        *)
Init ==
  /\ pc = 1 /\ cm = User /\ ps = [mode |-> User, ipl |-> 0]
  /\ sp = Empty(First, User) /\ current = First /\ ksp = Empty(First, Kernel)
  /\ frames = [s \in Process \X Modes |->
       IF s[1] # First /\ s[2] = Kernel
       THEN <<[pc |-> 1, mode |-> User, ipl |-> 0, odd |-> FALSE]>> ELSE <<>>]
  /\ pcb = [p \in Process |->
       [sp |-> [m \in Modes |-> [Empty(p, m) EXCEPT !.n = IF p # First /\ m = Kernel THEN 1 ELSE 0]],
        ast |-> NoAst]]
  /\ contexts = [p \in Process |->
       <<Context(1, User, 0, Empty(p, User))>>
       \o IF p = First THEN <<>>
          ELSE <<Context(0, Kernel, Scheduling, [Empty(p, Kernel) EXCEPT !.n = 1])>>]
  /\ masks = Row(0) /\ ast = NoAst /\ sir = {} /\ clock = FALSE /\ check = FALSE
  /\ calls = 0 /\ late = FALSE

Machine == Context(pc, ps.mode, ps.ipl, sp)
Happens(c) == contexts' = [contexts EXCEPT ![current] = c]
Becomes(c) == Happens(Append(Front(contexts[current]), c))

Deliverable(m, mode, a) ==
  m.soft \cap sir # {} \/ (m.clock /\ clock)
  \/ (m.ast /\ \E x \in a.enabled \cap a.requested : x <= mode)

-----------------------------------------------------------------------------
(* vmspal_int_initiate_exception() and _interrupt(): to the kernel stack,   *)
(* aligned, with a frame of what is interrupted.                            *)
Stack(p, m) == <<p, m>>
Push(s, f) == frames' = [frames EXCEPT ![Stack(s.of, s.m)] = Append(SubSeq(@, 1, s.n), f)]
Enter_NoSave(ipl) ==
  LET top == IF ps.mode = Kernel THEN sp ELSE ksp IN
  /\ top.n < Depth /\ UNCHANGED pcb
  /\ Push(top, [pc |-> pc, mode |-> ps.mode, ipl |-> ps.ipl, odd |-> top.odd])
  /\ sp' = [top EXCEPT !.n = @ + 1, !.odd = FALSE]
  /\ pc' = 0 /\ cm' = Kernel /\ ps' = [mode |-> Kernel, ipl |-> ipl]
  /\ Happens(Append(contexts[current], Context(0, Kernel, ipl, sp')))
  /\ UNCHANGED <<current, ksp, late>>
Enter(ipl) ==
  LET top == IF ps.mode = Kernel THEN sp ELSE ksp IN
  /\ top.n < Depth
  /\ pcb' = IF ps.mode = Kernel THEN pcb ELSE [pcb EXCEPT ![current].sp[ps.mode] = sp]
  /\ Push(top, [pc |-> pc, mode |-> ps.mode, ipl |-> ps.ipl, odd |-> top.odd])
  /\ sp' = [top EXCEPT !.n = @ + 1, !.odd = FALSE]
  /\ pc' = 0 /\ cm' = Kernel /\ ps' = [mode |-> Kernel, ipl |-> ipl]
  /\ Happens(Append(contexts[current], Context(0, Kernel, ipl, sp')))
  /\ UNCHANGED <<current, ksp, late>>

Exception == Enter(ps.ipl) /\ UNCHANGED <<masks, ast, sir, clock, check>>

(* execute(): when check_int is set, what is deliverable is delivered: the  *)
(* clock, software interrupts above that of ASTs, an AST, and the software  *)
(* interrupts below.                                                        *)
ClockPending == masks.clock /\ clock
SoftPending == masks.soft \cap sir
AstPending == {x \in ast.enabled \cap ast.requested : masks.ast /\ x <= cm}
Highest(S) == CHOOSE x \in S : \A y \in S : y <= x
Lowest(S) == CHOOSE x \in S : \A y \in S : x <= y

EnterClock ==
  /\ check /\ ClockPending /\ clock' = FALSE
  /\ Enter(ClockLevel) /\ masks' = Row(ClockLevel) /\ UNCHANGED <<ast, sir, check>>
EnterSoft ==
  /\ check /\ ~ClockPending /\ SoftPending # {}
  /\ LET x == Highest(SoftPending) IN
     /\ x >= AstLevel \/ AstPending = {}
     /\ sir' = sir \ {x} /\ Enter(x) /\ masks' = Row(x)
  /\ UNCHANGED <<ast, clock, check>>
EnterAst ==
  /\ check /\ ~ClockPending /\ AstPending # {} /\ \A s \in SoftPending : s < AstLevel
  /\ ast' = [ast EXCEPT !.requested = @ \ {Lowest(AstPending)}]
  /\ masks' = [masks EXCEPT !.ast = FALSE, !.soft = {s \in @ : s > 2}]
  /\ Enter(AstLevel) /\ UNCHANGED <<sir, clock, check>>
NothingToEnter ==
  /\ check /\ ~ClockPending /\ SoftPending = {} /\ AstPending = {} /\ check' = FALSE
  /\ UNCHANGED <<pc, cm, ps, sp, frames, masks, ast, sir, clock, current, ksp, pcb,
                 late, contexts>>

-----------------------------------------------------------------------------
(* CALL_PAL REI. From a mode other than kernel it must go to one no more    *)
(* privileged, at level zero, and else is an exception.                     *)
Top == frames[Stack(sp.of, sp.m)][sp.n]
Popped == [sp EXCEPT !.n = @ - 1, !.odd = Top.odd]
Resume(ipl, stack) ==
  /\ pc' = Top.pc /\ cm' = Top.mode /\ ps' = [mode |-> Top.mode, ipl |-> ipl]
  /\ sp' = stack /\ Happens(Front(contexts[current]))
  /\ frames' = [frames EXCEPT ![Stack(sp.of, sp.m)] = SubSeq(@, 1, sp.n - 1)]
  /\ UNCHANGED <<ast, sir, clock, current>>
Returns == sp.n > 0 /\ ~sp.odd

ReiOuter ==
  /\ Returns /\ ps.mode # Kernel /\ Top.mode >= ps.mode /\ Top.ipl = 0
  /\ pcb' = [pcb EXCEPT ![current].sp[ps.mode] = Popped]
  /\ Resume(0, pcb'[current].sp[Top.mode])
  /\ late' = (late \/ (~check /\ Deliverable(masks, Top.mode, ast)))
  /\ UNCHANGED <<masks, check, ksp>>
ReiIllegal ==
  /\ Returns /\ ps.mode # Kernel /\ (Top.mode < ps.mode \/ Top.ipl # 0)
  /\ Exception
ReiFromKernel_Quiet ==
  /\ Returns /\ ps.mode = Kernel /\ Top.mode # Kernel
  /\ ksp' = Popped /\ Resume(0, pcb[current].sp[Top.mode])
  /\ masks' = Row(0) /\ UNCHANGED <<pcb, check, late>>
ReiFromKernel ==
  /\ Returns /\ ps.mode = Kernel /\ Top.mode # Kernel
  /\ ksp' = Popped /\ Resume(0, pcb[current].sp[Top.mode])
  /\ masks' = Row(0) /\ check' = TRUE /\ UNCHANGED <<pcb, late>>
ReiInKernel ==
  /\ Returns /\ ps.mode = Kernel /\ Top.mode = Kernel
  /\ Resume(Top.ipl, Popped)
  /\ masks' = Row(Top.ipl) /\ check' = TRUE /\ UNCHANGED <<pcb, ksp, late>>

(* CALL_PAL CHME: to the executive's stack.                                 *)
Chme ==
  /\ ps.mode = User
  /\ LET top == pcb[current].sp[Executive] IN
     /\ top.n < 1
     /\ pcb' = [pcb EXCEPT ![current].sp[User] = sp]
     /\ Push(top, [pc |-> pc, mode |-> User, ipl |-> 0, odd |-> FALSE])
     /\ sp' = [top EXCEPT !.n = @ + 1]
     /\ pc' = 0 /\ cm' = Executive /\ ps' = [mode |-> Executive, ipl |-> 0]
     /\ Happens(Append(contexts[current], Context(0, Executive, 0, sp')))
  /\ UNCHANGED <<masks, ast, sir, clock, check, current, ksp, late>>

(* CALL_PAL SWPCTX: it loads the ASTs of the next process before it saves   *)
(* those of the last, so that a guest must not swap a process for itself.   *)
Swpctx(p) ==
  /\ ps = [mode |-> Kernel, ipl |-> Scheduling] /\ p # current /\ ~sp.odd
  /\ ast' = pcb[p].ast /\ check' = TRUE
  /\ pcb' = [pcb EXCEPT ![current].ast = ast, ![current].sp[Kernel] = sp]
  /\ sp' = pcb[p].sp[Kernel] /\ current' = p
  /\ UNCHANGED <<pc, cm, ps, frames, masks, sir, clock, ksp, late, contexts>>

(* CALL_PAL MTPR_IPL, MTPR_SIRR, MTPR_ASTEN, MTPR_ASTSR, SWASTEN.           *)
MtprIpl(ipl) ==
  /\ ps.mode = Kernel /\ ipl # ps.ipl
  /\ ps' = [ps EXCEPT !.ipl = ipl] /\ masks' = Row(ipl) /\ check' = TRUE
  /\ Becomes([Machine EXCEPT !.ipl = ipl])
  /\ UNCHANGED <<pc, cm, sp, frames, ast, sir, clock, current, ksp, pcb, late>>
Request ==
  /\ check' = TRUE
  /\ UNCHANGED <<pc, cm, ps, sp, frames, masks, clock, current, ksp, pcb, late, contexts>>
MtprSirr(s) == ps.mode = Kernel /\ Request /\ sir' = sir \cup {s} /\ UNCHANGED ast
MtprAsten(keep, set) ==
  /\ ps.mode = Kernel /\ Request /\ UNCHANGED sir
  /\ ast' = [ast EXCEPT !.enabled = (@ \cap keep) \cup set]
MtprAstsr(keep, set) ==
  /\ ps.mode = Kernel /\ Request /\ UNCHANGED sir
  /\ ast' = [ast EXCEPT !.requested = (@ \cap keep) \cup set]
Swasten(on) ==
  /\ ast' = [ast EXCEPT !.enabled = IF on THEN @ \cup {cm} ELSE @ \ {cm}]
  /\ check' = (check \/ on)
  /\ UNCHANGED <<pc, cm, ps, sp, frames, masks, sir, clock, current, ksp, pcb, late, contexts>>

(* The clock of the machine, and code that runs: in user mode it goes on,   *)
(* in kernel mode it leaves its stack unaligned.                            *)
Tick ==
  /\ ~clock /\ clock' = TRUE /\ check' = TRUE
  /\ UNCHANGED <<pc, cm, ps, sp, frames, masks, ast, sir, current, ksp, pcb, late, contexts>>
Run ==
  /\ ps.mode = User /\ pc' = 3 - pc /\ UNCHANGED sp
  /\ Becomes([Machine EXCEPT !.pc = pc'])
  /\ UNCHANGED <<cm, ps, frames, masks, ast, sir, clock, check, current, ksp, pcb, late>>
Unalign ==
  /\ ps.mode = Kernel /\ sp' = [sp EXCEPT !.odd = ~@] /\ UNCHANGED pc
  /\ Becomes([Machine EXCEPT !.sp = sp'])
  /\ UNCHANGED <<cm, ps, frames, masks, ast, sir, clock, check, current, ksp, pcb, late>>
(* The executive asks for a mode or a level that it must not enter, and     *)
(* gives up.                                                                *)
Forge ==
  /\ ps.mode = Executive /\ UNCHANGED pc
  /\ \/ /\ sp.n = 1 /\ sp' = [sp EXCEPT !.n = 2]
        /\ \E m \in {Kernel, User} :
             Push(sp, [pc |-> 1, mode |-> m, ipl |-> IF m = User THEN AstLevel ELSE 0, odd |-> FALSE])
     \/ sp.n = 2 /\ sp' = [sp EXCEPT !.n = 1] /\ UNCHANGED frames
  /\ Becomes([Machine EXCEPT !.sp = sp'])
  /\ UNCHANGED <<cm, ps, masks, ast, sir, clock, check, current, ksp, pcb, late>>

Calls ==
  \/ Chme \/ Tick \/ Unalign \/ Forge
  \/ \E p \in Process : Swpctx(p)
  \/ \E ipl \in Levels : MtprIpl(ipl)
  \/ \E s \in Soft : MtprSirr(s)
  \/ \E m \in Modes : MtprAsten(Modes, {m}) \/ MtprAsten(Modes \ {m}, {}) \/ MtprAstsr(Modes, {m})
  \/ \E on \in BOOLEAN : Swasten(on)
Next ==
  \/ calls < MaxCalls /\ calls' = calls + 1 /\ Calls
  \/ /\ Exception \/ EnterClock \/ EnterSoft \/ EnterAst \/ NothingToEnter
        \/ ReiOuter \/ ReiIllegal \/ ReiFromKernel \/ ReiInKernel \/ Run
     /\ UNCHANGED calls
Spec == Init /\ [][Next]_vars

-----------------------------------------------------------------------------
(* The machine is in the context that its process entered last and has not  *)
(* left: whatever came between, an REI returns to the code, mode, level and *)
(* stack that were interrupted, those of this process                       *)
(* (vmspal_int_initiate_exception(), vmspal_call_rei(),                     *)
(* vmspal_call_swpctx()).                                                   *)
ContextKept == Machine = Last(contexts[current]) /\ cm = ps.mode

(* Interrupts are masked as the level in PS says; outside kernel mode it is *)
(* zero, and the kernel stack that an entry takes is that of the process    *)
(* (vmspal_ent_ast_int()).                                                  *)
MasksRight ==
  /\ masks = Row(ps.ipl)
  /\ ps.mode # Kernel => ps.ipl = 0 /\ ksp = Empty(current, Kernel)

(* What can be delivered is looked at; only an REI from one outer mode to   *)
(* another lets an AST through unseen (vmspal_call_rei(),                   *)
(* vmspal_call_mtpr_asten()).                                               *)
NothingUnseen == Deliverable(masks, cm, ast) => check \/ late
=============================================================================

-------------------------------- MODULE Trap --------------------------------
(***************************************************************************)
(* Privilege, traps and interrupts of the instruction set simulator        *)
(* (iss.cpp).  One step is one run_step: an instruction is executed and    *)
(* either completes, after which a pending interrupt may be taken, or      *)
(* raises an exception.  The guest is arbitrary: any instruction at any    *)
(* time, at any privilege.  Interrupts are numbered as in mcause, so that  *)
(* i % 4 is the level of interrupt i; misa has the user and supervisor     *)
(* extensions.                                                             *)
(***************************************************************************)
EXTENDS Naturals

CONSTANTS
    Irqs,       \* the interrupts of the platform: the bits of mip and mie
    Excs,       \* the exceptions its instructions may raise
    Code,       \* places of the guest's code outside of its trap vectors
    Vector,     \* the place its trap vectors point to (mtvec, stvec, utvec)
    Delegs,     \* values of mideleg, sideleg, medeleg, sedeleg
    TSR,        \* mstatus.tsr, set once by the guest's firmware
    MppValues,  \* values written to the two bits of mstatus.mpp
    WRITES      \* bound: CSR writes the guest makes after its firmware's set-up

UserMode == 0
SupervisorMode == 1
MachineMode == 3
NoneMode == 4
Modes == {UserMode, SupervisorMode, MachineMode}

(* The level the architecture reserves.  The write mask of mstatus admits  *)
(* it in mpp, and mret makes it the mode of the hart.                      *)
ReservedMode == 2
Levels == Modes \cup MppValues

ASSUME TrapAssumption ==
    /\ Irqs \subseteq {0, 1, 3, 4, 5, 7, 8, 9, 11}
    /\ Excs \subseteq 0 .. 15 /\ TSR \in BOOLEAN /\ WRITES \in Nat
    /\ MppValues \subseteq 0 .. 3
    /\ Delegs \subseteq [mi : SUBSET Irqs, si : SUBSET Irqs, me : SUBSET Excs, se : SUBSET Excs]

EXC_ILLEGAL_INSTR == 2

Places == Code \cup {Vector}

VARIABLES
    hart,       \* prv, pc, the fields of mstatus, xepc, mie, mip, delegation
    ctx,        \* history: what the handler of each mode has interrupted
    writes,     \* CSR writes left
    stop        \* "no", or what has ended the simulator: "assert", the
                \* assertion of prepare_trap, or "unknown", the exception of
                \* an environment call at an unknown privilege level

trapVars == <<hart, ctx, writes, stop>>

NoCtx == [pc |-> "none", prv |-> NoneMode, ie |-> FALSE]

(* The firmware has delegated, enabled interrupts and chosen where its     *)
(* return from machine mode leads.                                         *)
TrapInit ==
    \E d \in Delegs, c \in Code, v \in MppValues, b \in [Modes -> BOOLEAN] :
        /\ hart = [prv |-> MachineMode, pc |-> c,
                   ie |-> [b EXCEPT ![MachineMode] = FALSE], pie |-> b,
                   mpp |-> v, spp |-> UserMode, epc |-> [m \in Modes |-> c],
                   mie |-> Irqs, mip |-> {}, deleg |-> d]
        /\ ctx = [m \in Modes |-> NoCtx]
        /\ writes = WRITES
        /\ stop = "no"

-----------------------------------------------------------------------------
(* compute_pending_interrupts: the mode that has to take one, or none.     *)
(* TargetMode_anyEnable asks for the enable bit in lower modes as well.    *)
TargetMode_anyEnable(h) ==
    LET pending == h.mie \cap h.mip
    IN  IF pending \ h.deleg.mi # {} /\ h.ie[MachineMode] THEN MachineMode
        ELSE IF (pending \cap h.deleg.mi) \ h.deleg.si # {} /\ h.prv <= SupervisorMode
                /\ h.ie[SupervisorMode] THEN SupervisorMode
        ELSE NoneMode

Enabled(h, m) == h.prv < m \/ (h.prv = m /\ h.ie[m])

TargetMode(h) ==
    LET pending   == h.mie \cap h.mip
        m_pending == pending \ h.deleg.mi
        s_pending == (pending \cap h.deleg.mi) \ h.deleg.si
        u_pending == pending \cap h.deleg.mi \cap h.deleg.si
    IN  IF m_pending # {} /\ Enabled(h, MachineMode) THEN MachineMode
        ELSE IF s_pending # {} /\ Enabled(h, SupervisorMode) THEN SupervisorMode
        ELSE IF u_pending # {} /\ Enabled(h, UserMode) THEN UserMode
        ELSE NoneMode

(* switch_to_trap_handler reading prv after it has been set.               *)
SwitchTo_late(h, t) ==
    [h EXCEPT !.prv = t, !.pc = Vector, !.epc[t] = h.pc,
              !.pie[t] = h.ie[t], !.ie[t] = FALSE,
              !.mpp = IF t = MachineMode THEN t ELSE @,
              !.spp = IF t = SupervisorMode THEN t ELSE @]

(* switch_to_trap_handler with a field spp as wide as mpp.                *)
SwitchTo_wide(h, t) ==
    [h EXCEPT !.prv = t, !.pc = Vector, !.epc[t] = h.pc,
              !.pie[t] = h.ie[t], !.ie[t] = FALSE,
              !.mpp = IF t = MachineMode THEN h.prv ELSE @,
              !.spp = IF t = SupervisorMode THEN h.prv ELSE @]

(* switch_to_trap_handler.  The field spp has one bit: of the reserved     *)
(* level it keeps the low one.                                             *)
SwitchTo(h, t) ==
    [h EXCEPT !.prv = t, !.pc = Vector, !.epc[t] = h.pc,
              !.pie[t] = h.ie[t], !.ie[t] = FALSE,
              !.mpp = IF t = MachineMode THEN h.prv ELSE @,
              !.spp = IF t = SupervisorMode THEN h.prv % 2 ELSE @]

(* prepare_trap: the mode that handles exception r.                        *)
TrapMode(h, r) ==
    IF h.prv = MachineMode \/ r \notin h.deleg.me THEN MachineMode
    ELSE IF h.prv = SupervisorMode \/ r \notin h.deleg.se THEN SupervisorMode
    ELSE UserMode

(* return_from_trap_handler with the saved enable bit set before it is      *)
(* restored.                                                               *)
ReturnFrom_swapped(h, m) ==
    [h EXCEPT !.pc = h.epc[m], !.ie[m] = TRUE, !.pie[m] = TRUE,
              !.prv = CASE m = MachineMode -> h.mpp
                        [] m = SupervisorMode -> h.spp
                        [] m = UserMode -> UserMode,
              !.mpp = IF m = MachineMode THEN UserMode ELSE @,
              !.spp = IF m = SupervisorMode THEN UserMode ELSE @]

(* return_from_trap_handler.                                               *)
ReturnFrom(h, m) ==
    [h EXCEPT !.pc = h.epc[m], !.ie[m] = h.pie[m], !.pie[m] = TRUE,
              !.prv = CASE m = MachineMode -> h.mpp
                        [] m = SupervisorMode -> h.spp
                        [] m = UserMode -> UserMode,
              !.mpp = IF m = MachineMode THEN UserMode ELSE @,
              !.spp = IF m = SupervisorMode THEN UserMode ELSE @]

-----------------------------------------------------------------------------
(* The end of a step.                                                      *)

Saves(c, h, t) == [c EXCEPT ![t] = [pc |-> h.pc, prv |-> h.prv, ie |-> h.ie[t]]]

(* The instruction has completed and left h; c is the history without it.  *)
Completes(h, c) ==
    LET t == TargetMode(h)
    IN  IF t = NoneMode
        THEN hart' = h /\ ctx' = c /\ UNCHANGED stop
        ELSE hart' = SwitchTo(h, t) /\ ctx' = Saves(c, h, t) /\ UNCHANGED stop

(* The instruction raises r: the pc is that of the instruction itself, and *)
(* pending interrupts are not looked at.  prepare_trap asserts that only   *)
(* user mode is left with a user mode handler.                             *)
Raises(r) ==
    LET t == TrapMode(hart, r)
    IN  IF t = UserMode /\ hart.prv # UserMode
        THEN stop' = "assert" /\ UNCHANGED <<hart, ctx>>
        ELSE hart' = SwitchTo(hart, t) /\ ctx' = Saves(ctx, hart, t) /\ UNCHANGED stop

-----------------------------------------------------------------------------
(* The instructions.                                                       *)

(* Arithmetic, memory, jumps: all that matters is where it leads.          *)
Plain == \E p \in Code : Completes([hart EXCEPT !.pc = p], ctx)

(* An environment call raises the exception of the mode it is made in; at  *)
(* the reserved level it ends the simulator.                               *)
Exception ==
    \E r \in Excs : (r \in 8 .. 11 => hart.prv \in Modes /\ r = 8 + hart.prv) /\ Raises(r)

UnknownCall ==
    hart.prv \notin Modes /\ stop' = "unknown" /\ UNCHANGED <<hart, ctx>>

Forgets(m) == [ctx EXCEPT ![m] = NoCtx]

Xret(m) ==
    IF m = SupervisorMode /\ hart.prv = SupervisorMode /\ TSR
    THEN Raises(EXC_ILLEGAL_INSTR)
    ELSE Completes(ReturnFrom(hart, m), Forgets(m))

Mret == Xret(MachineMode)
Sret == Xret(SupervisorMode)
Uret == Xret(UserMode)

(* CSR instructions, one field at a time.  A mode writes the fields of its *)
(* own and of lower modes, through mstatus, sstatus or ustatus and so on;  *)
(* a write above the own privilege is illegal.                             *)
Allowed(m) == m <= hart.prv
Successors(h) == {[h EXCEPT !.pc = p] : p \in Code}

CsrWrite(h, c) ==
    /\ writes > 0 /\ writes' = writes - 1
    /\ \E g \in Successors(h) : Completes(g, c)

WriteEnable(m) ==
    Allowed(m) /\ \E b \in BOOLEAN : CsrWrite([hart EXCEPT !.ie[m] = b], ctx)

WriteContext(m) ==
    /\ Allowed(m)
    /\ \E b \in BOOLEAN, p \in Code, v \in MppValues, w \in {UserMode, SupervisorMode} :
         \/ CsrWrite([hart EXCEPT !.pie[m] = b], Forgets(m))
         \/ CsrWrite([hart EXCEPT !.epc[m] = p], Forgets(m))
         \/ m = MachineMode /\ CsrWrite([hart EXCEPT !.mpp = v], Forgets(m))
         \/ m = SupervisorMode /\ CsrWrite([hart EXCEPT !.spp = w], Forgets(m))

Toggle(set, i) == IF i \in set THEN set \ {i} ELSE set \cup {i}

WriteMie(i) == Allowed(i % 4) /\ CsrWrite([hart EXCEPT !.mie = Toggle(@, i)], ctx)

(* The machine-level bits of mip are read-only.                            *)
WriteMip(i) ==
    i % 4 < MachineMode /\ Allowed(i % 4) /\ CsrWrite([hart EXCEPT !.mip = Toggle(@, i)], ctx)

WriteDeleg ==
    Allowed(MachineMode) /\ \E d \in Delegs : CsrWrite([hart EXCEPT !.deleg = d], ctx)

WriteIllegal ==
    \E m \in Modes : ~Allowed(m) /\ Raises(EXC_ILLEGAL_INSTR) /\ UNCHANGED writes

WriteCsr ==
    \/ \E m \in Modes : WriteEnable(m) \/ WriteContext(m)
    \/ \E i \in Irqs : WriteMie(i) \/ WriteMip(i)
    \/ WriteDeleg \/ WriteIllegal

-----------------------------------------------------------------------------
(* trigger_external_interrupt, clear_external_interrupt,                   *)
(* trigger_timer_interrupt, trigger_software_interrupt.                    *)
Line(i) == hart' = [hart EXCEPT !.mip = Toggle(@, i)] /\ UNCHANGED <<ctx, stop>>
Wired == Irqs \cap {3, 7, 8, 9, 11}

TrapNext ==
    /\ stop = "no"
    /\ \/ (Plain \/ Exception \/ UnknownCall \/ Mret \/ Sret \/ Uret) /\ UNCHANGED writes
       \/ WriteCsr
       \/ \E i \in Wired : Line(i) /\ UNCHANGED writes

TrapSpec == TrapInit /\ [][TrapNext]_trapVars

-----------------------------------------------------------------------------
PrevPrv(h, m) ==
    CASE m = MachineMode -> h.mpp [] m = SupervisorMode -> h.spp [] m = UserMode -> UserMode

TrapTypeOK ==
    /\ hart.prv \in Levels /\ hart.pc \in Places
    /\ hart.ie \in [Modes -> BOOLEAN] /\ hart.pie \in [Modes -> BOOLEAN]
    /\ hart.mpp \in Levels /\ hart.spp \in {UserMode, SupervisorMode}
    /\ hart.epc \in [Modes -> Places]
    /\ hart.mie \subseteq Irqs /\ hart.mip \subseteq Irqs /\ hart.deleg \in Delegs
    /\ writes \in 0 .. WRITES /\ stop \in {"no", "assert", "unknown"}

(* The supervisor's handler has interrupted code at the reserved level,    *)
(* which its one bit spp cannot hold.                                      *)
Truncated(m) == m = SupervisorMode /\ ctx[m].prv = ReservedMode

(* As long as the guest has not written the saved context of a mode        *)
(* itself, no trap, interrupt or return of another mode has touched it,    *)
(* and a handler belongs to a mode at least as privileged as what it has   *)
(* interrupted (the assertions of prepare_trap and switch_to_trap_handler).*)
(* Only a trap from the reserved level to supervisor mode goes down, and   *)
(* of its context the privilege is lost.                                   *)
ContextKept ==
    \A m \in Modes : ctx[m] # NoCtx =>
        /\ hart.epc[m] = ctx[m].pc /\ hart.pie[m] = ctx[m].ie
        /\ ~Truncated(m) => ctx[m].prv <= m /\ PrevPrv(hart, m) = ctx[m].prv

(* prepare_trap asserts that what is left to user mode comes from user     *)
(* mode.  The assertion does not hold of a hart at the reserved level.     *)
AssertionHolds == stop # "assert"

(* A return goes on with what the handler has interrupted, at its place,   *)
(* privilege and interrupt enable, or, when another interrupt is taken in  *)
(* the same step, that one's handler has saved exactly this.  A truncated  *)
(* privilege is the exception.                                             *)
Resumes ==
    [][\A m \in Modes :
         ctx[m] # NoCtx /\ ~Truncated(m)
           /\ ~(m = SupervisorMode /\ hart.prv = m /\ TSR) /\ Xret(m) =>
            \/ hart'.pc = ctx[m].pc /\ hart'.prv = ctx[m].prv /\ hart'.ie[m] = ctx[m].ie
            \/ \E t \in Modes : ctx'[t] = [pc |-> ctx[m].pc, prv |-> ctx[m].prv,
                                           ie |-> IF t = m THEN ctx[m].ie ELSE hart.ie[t]]]_trapVars

(* A step that leaves an interrupt the hart should have taken, an enabled  *)
(* one for a more privileged mode, or for the current one with its         *)
(* interrupts on, is not that of an instruction that completes.            *)
Due(h, m) ==
    \E i \in h.mie \cap h.mip :
        /\ m = IF i \notin h.deleg.mi THEN MachineMode
               ELSE IF i \notin h.deleg.si THEN SupervisorMode ELSE UserMode
        /\ m > h.prv \/ (m = h.prv /\ h.ie[m])

NoneLeft ==
    [][(\E m \in Modes : Due(hart', m))
         => ~(Plain \/ Mret \/ \E m \in Modes : WriteEnable(m))]_trapVars
=============================================================================

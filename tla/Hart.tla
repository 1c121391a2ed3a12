-------------------------------- MODULE Hart --------------------------------
(***************************************************************************)
(* The simulator's hart as a thread of the SystemC kernel (iss.cpp): it    *)
(* runs ahead of the simulated time for up to a quantum, holds the bus     *)
(* lock between LR_W and SC_W, and waits for interrupts in WFI.  Threads   *)
(* are cooperative: other threads act, time goes on and notifications are  *)
(* delivered only while the hart waits; the hart's own accesses to the     *)
(* interrupt controllers reach mip in its own thread.  Privilege and       *)
(* delegation are the subject of module Trap; here there is one mode and   *)
(* one interrupt.  The quantum keeper, the bus lock and the kernel belong  *)
(* to the riscv-vp and SystemC libraries and are modelled as iss.cpp uses  *)
(* them.                                                                   *)
(***************************************************************************)
EXTENDS Integers

CONSTANTS
    QUANTUM,    \* the global quantum, in cycles
    LRWINDOW,   \* 17: instructions for which a reservation holds the bus
    TIMED       \* PIPELINE_TIMING

ASSUME HartAssumption ==
    QUANTUM \in Nat \ {0} /\ LRWINDOW \in Nat \ {0} /\ TIMED \in BOOLEAN

VARIABLES
    thread,         \* run: executing; sync: in quantum_keeper.sync(); wfi: in
                    \* wait(wfi_event); woken: to go on behind it; ended
    mip, mie, ie,   \* the interrupt, pending and enabled; mstatus.mie
    lr_sc_counter,
    lock,           \* the bus is locked for the hart
    held,           \* history: instructions it has been locked for
    local,          \* cycles since time last went on: the keeper's offset
    wfi_event       \* a notification is on its way

irqVars == <<mip, mie, ie>>
lockVars == <<lr_sc_counter, lock, held>>
hartVars == <<thread, irqVars, lockVars, local, wfi_event>>

(* Cycles of an instruction: memory accesses take four, multiplications    *)
(* and divisions eight.                                                    *)
Slowest == 8
instr_cycles == {1, 4, Slowest}

(* Both histories count no further than one beyond what they may reach.    *)
HELD == LRWINDOW
AHEAD == QUANTUM + LRWINDOW * Slowest
UpTo(n, max) == IF n < max THEN n ELSE max

HartInit ==
    /\ thread = "run" /\ mip = FALSE /\ mie = FALSE /\ ie = FALSE
    /\ lr_sc_counter = 0 /\ lock = FALSE /\ held = 0
    /\ local = 0 /\ wfi_event = FALSE

-----------------------------------------------------------------------------
(* performance_and_sync_update, after an instruction that has left the     *)
(* counter c and the lock l.  CountDown_always counts on below zero (the   *)
(* assertion), NeedsSync_always does not look at the counter,              *)
(* NeedsSync_inTime misses a quantum long over when a reservation ends.    *)
CountDown_always(c) == c - 1
CountDown(c) == IF c = 0 THEN 0 ELSE c - 1

Account(c, l) ==
    /\ lr_sc_counter' = CountDown(c)
    /\ lock' = (l /\ c # 1)
    /\ held' = IF lock' THEN UpTo(held + 1, HELD) ELSE 0
    /\ \E n \in instr_cycles : local' = UpTo(local + n, AHEAD)

NeedsSync_always == local' >= QUANTUM
NeedsSync_inTime ==
    local' >= QUANTUM /\ local' < QUANTUM + LRWINDOW /\ lr_sc_counter' = 0
NeedsSync == local' >= QUANTUM /\ lr_sc_counter' = 0

(* The rest of run_step: compute_pending_interrupts, with the enable bits  *)
(* a and b, then the accounting.  A trap frees the bus first of all.       *)
Finishes(c, l, a, b) ==
    /\ mie' = a
    /\ IF mip' /\ a /\ b
       THEN ie' = FALSE /\ Account(0, FALSE)
       ELSE ie' = b /\ Account(c, l)

Goes == thread' = IF NeedsSync THEN "sync" ELSE "run"

(* A CSR instruction writes mip; a load or a store may reach an interrupt  *)
(* controller that sets or clears it at once, with a notification or not.  *)
Touches == mip' \in BOOLEAN /\ wfi_event' \in {wfi_event, TRUE}
Quiet == UNCHANGED <<mip, wfi_event>>

Accesses == thread = "run" /\ Touches
Running == thread = "run" /\ Quiet

(* Any instruction but those below; CSR instructions and MRET write the    *)
(* enable bits.                                                            *)
Ordinary ==
    /\ Accesses
    /\ \E a, b \in BOOLEAN : Finishes(lr_sc_counter, lock, a, b)
    /\ Goes

(* Any instruction may raise an exception instead.                         *)
Trap ==
    Running /\ ie' = FALSE /\ UNCHANGED mie /\ Account(0, FALSE) /\ Goes

(* Where LR_W puts the counter: the timed build starts it anew each time,  *)
(* the other one, unlike Window_again, only when no reservation is open.   *)
Window_again == LRWINDOW
Window == IF TIMED \/ lr_sc_counter = 0 THEN LRWINDOW ELSE lr_sc_counter

LoadReserved == Accesses /\ Finishes(Window, TRUE, mie, ie) /\ Goes

StoreConditional == Accesses /\ Finishes(0, FALSE, mie, ie) /\ Goes

(* EBREAK or an exit: run() leaves its loop, with a last sync.             *)
Stop ==
    Running /\ thread' = "ended" /\ Finishes(lr_sc_counter, lock, mie, ie)

(* WFI frees the bus and waits, unless an enabled interrupt is pending;    *)
(* MustWait_always waits for the next one.                                 *)
MustWait_always == TRUE
MustWait == ~(mie /\ mip)

Frees == lr_sc_counter' = 0 /\ lock' = FALSE /\ held' = 0

WaitForInterrupt ==
    /\ Running
    /\ \/ MustWait /\ thread' = "wfi" /\ Frees /\ UNCHANGED <<mie, ie, local>>
       \/ ~MustWait /\ Finishes(0, FALSE, mie, ie) /\ Goes

Resume ==
    /\ thread = "woken" /\ Quiet
    /\ Finishes(lr_sc_counter, lock, mie, ie) /\ Goes

RunStep ==
    \/ Ordinary \/ Trap \/ LoadReserved \/ StoreConditional
    \/ WaitForInterrupt \/ Stop \/ Resume

-----------------------------------------------------------------------------
(* The kernel and the devices, while the hart waits.                       *)

Waits == thread # "run"

(* Time has caught up with the hart.                                       *)
SyncReturns ==
    /\ thread = "sync" /\ thread' = "run" /\ local' = 0
    /\ UNCHANGED <<irqVars, lockVars, wfi_event>>

(* The next delta cycle: the event wakes the hart if it waits for it.      *)
Delta ==
    /\ Waits /\ wfi_event /\ wfi_event' = FALSE
    /\ thread' = IF thread = "wfi" THEN "woken" ELSE thread
    /\ UNCHANGED <<irqVars, lockVars, local>>

(* trigger_external_interrupt, trigger_timer_interrupt,                    *)
(* trigger_software_interrupt, called by another thread.                   *)
Trigger(status) ==
    /\ Waits /\ mip' = status /\ wfi_event' = TRUE
    /\ UNCHANGED <<thread, mie, ie, lockVars, local>>

(* clear_external_interrupt, called by another thread, notifies nobody.    *)
Clear ==
    /\ Waits /\ mip' = FALSE
    /\ UNCHANGED <<thread, mie, ie, lockVars, local, wfi_event>>

Kernel == SyncReturns \/ Delta

HartNext == RunStep \/ Kernel \/ Clear \/ \E status \in BOOLEAN : Trigger(status)

(* The kernel runs a thread that is ready, delivers notifications and lets *)
(* time go on.                                                             *)
HartFairness ==
    WF_hartVars(RunStep) /\ WF_hartVars(SyncReturns) /\ WF_hartVars(Delta)

HartSpec == HartInit /\ [][HartNext]_hartVars /\ HartFairness

-----------------------------------------------------------------------------
HartTypeOK ==
    /\ thread \in {"run", "sync", "wfi", "woken", "ended"}
    /\ {mip, mie, ie, lock, wfi_event} \subseteq BOOLEAN
    /\ lr_sc_counter \in 0 .. LRWINDOW /\ held \in 0 .. HELD /\ local \in 0 .. AHEAD

(* The hart never waits with the bus locked, so that no other initiator    *)
(* can meet the lock, and the lock is held exactly as long as the counter  *)
(* runs, through interrupts, exceptions and WFI.  Only the last sync after *)
(* a breakpoint is an exception.                                           *)
LockNeverAcrossWait ==
    /\ lock <=> lr_sc_counter > 0
    /\ thread \in {"sync", "wfi", "woken"} => ~lock

(* A reservation ends after LRWINDOW instructions, whatever the guest does *)
(* ("this instruction + 16 additional ones").                              *)
LockBounded == held < HELD

(* The hart runs ahead of the simulated time by no more than a quantum and *)
(* a reservation opened in its last cycle, whatever the guest does.        *)
AheadBounded == local < AHEAD

(* A hart in WFI with an enabled interrupt pending goes on, however the    *)
(* trigger, the notification and the wait have been interleaved.           *)
WakesUp == thread = "wfi" /\ mie /\ mip ~> thread # "wfi"
=============================================================================

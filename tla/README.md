# VCIL: a TLA+ model of the hardware-in-the-loop coprocessor platform

VCIL runs a guest program on a RISC-V virtual platform (C++/SystemC) whose SM3/SM4
instructions are computed by a real FPGA at the other end of a serial port. This project
models the FPGA design clock by clock, the serial line, the two C++ bridges, the guest's
drivers and programs, and of the instruction set simulator (ISS) the trap and thread
logic, the floating-point state and the timing models. TLC checks the modules on small
instances; TLAPS proves the results about the FPGA design, the serial lines, the chain from
driver to core, the simulator and the guest programs for every value of their constants.

Paths: `FPGA/` is `src/DDR200T/Vivado2018.3/workplace_uart/uart/uart.srcs/sources_1/imports/uart/`,
`VP/` is `src/RISCV-VP/`.

## 1. Inventory

| component | code | state | operations | made correct by |
|---|---|---|---|---|
| coprocessor core | `FPGA/nice_core.v` | state machine, 10-byte request register, SM3/SM4 pipeline registers, result, cycle counter, one-byte output port | collect 12 bytes, acknowledge each 4th, compute, answer polls (0xff), reply to a read (0x00), asynchronous reset | the reply is the operation's result and exact latency; nothing on offer is overwritten |
| receiver | `FPGA/uart_rx.v` | frame state, baud counter, shift register, parity | synchronise, find the start bit, sample mid-bit, one-clock done pulse | each byte once, in order; glitches ignored |
| transmitter | `FPGA/uart_tx.v` | frame state, baud counter, latched byte, busy flag | take a byte from the port, send a frame | each offered byte one frame |
| FPGA design | `FPGA/uart_top.v` | wiring only | the three on one clock | right answers in time on the wires |
| substitution table | `FPGA/Sbox.v` | none | lookup | constant operator |
| TLM bridge | `VP/Bridge_Socket_Uart.{h,cpp}` | `state`, `read_buff`, serial port | five write registers, each a blocking conversation; two read registers | in step with the core |
| guest drivers | `VP/sm_tlm_uart/sm3.h`, `sm4.h` | register sequence | `custom3_sm3p0/p1/sm4ks/sm4ed` | a call returns the operation's value |
| NICE bridge | `VP/nice.h` | `read_buff`, `cycles` | CUSTOM3 through the serial port; software definitions | the answer is this instruction's; a glitch is repaired by the next flush |
| ISS | `VP/iss.cpp` | registers, CSRs, privilege, LR/SC counter, quantum, `fcsr`, `mstatus.fs` | instructions, traps, interrupts, WFI, synchronisation, floating point | saved contexts survive, no interrupt overlooked, bus and time not held, no flag lost |
| timing | `VP/timing.h` | pending latencies of registers, units and stores; return stack, BTB, BHT; cache lines with one mark per set | stall, reserve, count down; predict and learn; hit, miss, replace | delays are those of absolute ready times, no assertion fails; the predictor learns; replacement is LRU |
| counters | `VP/*/core_feature_base.h` | a 64-bit counter that runs | high/low/high read | the value lies between the first and the last read |
| guest programs | `VP/sm3_nice_uart`, `VP/sm4_nice_uart`, `VP/sm_tlm_uart/*.h` | message blocks and chaining value; round keys | pad, expand, compress; expand key, encrypt, decrypt | the digest is SM3's; decryption inverts encryption |
| platform | `VP/tiny32_main.cpp`, `define.h` | | construction and binding | no behaviour of its own |
| not part of the design | `FPGA/random_generator.v`, `uart_top_tb.v` | | the first is not instantiated, the second has no checks | not modelled |

Interaction: a driver call is five memory writes (opcode, rs1, rs2, poll, read), each
followed by a loop on `addr_state`. A write enters `Bridge_Socket_Uart::b_transport`,
which opens and flushes the serial port, writes 1 or 4 bytes and spins in `while(1) read`.
On the FPGA `uart_rx` presents each byte for one clock (`o_rx_done`); `nice_core` counts
it, computes, and hands bytes to `uart_tx` over the flags `o_data_valid`/`o_state_0`.
The ISS executes the driver as one SystemC thread, ahead of the simulated time by up to
a quantum; other threads change `mip` only while it waits, and the hart itself in its own
thread, by a write to a CSR or by a store that reaches the interrupt controller. A CUSTOM3 instruction takes
the other way: `nice.h` opens the port inside `exec_step`, writes ten bytes, reads five and
hands the last to the pipeline as a stall. In the timed build every instruction asks
`timing.h` for each register it reads or writes, and `performance_and_sync_update` takes
the cycles from there.

Hard behaviours: the flag handshake between core and transmitter (flags one clock apart);
bytes that meet the core in a state that drops them; polls during the computation; late
or repeated answers; a counter that is cleared elsewhere than it is used; a receiver that
falls behind on back-to-back bytes; short and failed reads, and what they leave for the
next instruction; a killed platform; traps nested with interrupts and returns; WFI against
notifications; a bus lock across a wait; latencies counted down relative to a clock that
every stall moves; predictor entries shared by remainder; flags in a global of a library.
`PROJECT.json` lists each with its line and properties.

## 2. Modules

| module | models | refines / composes |
|---|---|---|
| `NiceRef` | the four operations as `nice.h` defines them (`P0`, `P1`, `SM4ks`, `SM4ed`, `Custom3`); words are four bytes, rotations move bits between them | |
| `NiceCore` | `nice_core.v`, an action per branch of the `case`; registers keep their names | extends `NiceRef` |
| `UartParams`, `UartRx`, `UartTx` | the two UARTs clock by clock, parity included | |
| `RxLine`, `TxLine` | each UART between an ideal adapter and nice_core's side | `UartRx`; `UartTx` |
| `NiceTop` | core and transmitter wired, bytes presented at any clock | `NiceCore`, `UartTx` |
| `UartTop` | `uart_top.v` on the wires with a host that follows the bridge's protocol | `NiceCore`, `UartRx`, `UartTx` |
| `CoprocCall` | abstract: a call returns the operation's value, unless the caller is killed | |
| `VcilHil` | driver, bridge, serial port, core, faults | `NiceCore`; implements `CoprocCall` |
| `Trap` | privilege, traps, interrupts, returns, the CSR writes that touch them | |
| `Hart` | the run loop as a SystemC thread: LR/SC, WFI, quantum, notifications | |
| `ReadyTimes` | abstract: an operation starts at the first cycle at which all it uses is ready | |
| `Pipeline` | `HiFive1PipelineTiming` with the E203's delays, and what each kind of instruction asks of it | implements `ReadyTimes` |
| `Predictor` | return stack, BTB and BHT, and the branches, jumps, calls and returns that use them | |
| `LruSets` | abstract: each set keeps the last two heads asked for | |
| `ICache` | the cache of instruction lines with one mark per set | implements `LruSets` |
| `Fpu` | `fcsr`, `mstatus.fs`, rounding mode and library flags under every floating-point instruction and CSR write | |
| `NiceHil` | CUSTOM3 through `nice.h`: both objects, the port, the adapter, a coprocessor of the same protocol | |
| `Sm3Padding`, `Sm3` | `SM3_nice`: padding, expansion, compression | `NiceRef` |
| `Sm4` | `sm4_nice`: key schedule, encryption, decryption; a word is the set of its one bits | |
| `CounterRead` | the high/low/high read against a running counter | |
| `MCChain`, `MCLines`, `MCVcilHil`, `MCTrap`, `MCHart`, `MCSim`, `MCGuest`, `MCHash` | instances for TLC | |
| `NiceCore_proofs`, `NiceTop_proofs`, `VcilHil_proofs` | theorems about the core, the handshake, the chain from driver to core | the last two build on the first |
| `UartTx_proofs`, `Lines_proofs` | lemmas about the transmitter's frame; theorems about the incoming and the outgoing line | the second builds on the first, as `NiceTop_proofs` does |
| `UartTop_proofs` | theorems about the whole design and its host | `NiceCore_proofs`, and `Lines_proofs` as an instance |
| `Timing_proofs` | theorems about `Pipeline`, `Predictor`, `ICache` | |
| `Software_proofs` | theorems about `Trap`, `Hart`, `Fpu`, `NiceHil`, `Sm3Padding`, `Sm4`, `CounterRead` | |

`MCChain`, `MCLines`, `MCSim` and `MCGuest` hold several parts: a variable chosen at the start
says which of them runs, the others rest in one initial state. The parts of `MCChain` share
the registers of the core, the others nothing.

Correspondence. In the Verilog modules each variable is a register and one step is one
clock edge: an action computes all registers from their old values, as non-blocking
assignments do. `Port` is the poll/release `if` of `nice_core.v:107-115`, which runs in
every state up to the end of the computation; `Count` is the counter of lines 103-105.
Two names differ: the opcode, rs1 and rs2 wires are slices of `nice_req_inst`, and the bit
flag `op_ssm*` is a Boolean. In `VcilHil` a driver or bridge action is a stretch of C++
between two system calls or two bus accesses. In `Trap` a step is one `run_step` or one
edge of an interrupt line; the mstatus fields are functions from the mode (`ie[m]` is
mie, sie or uie), `m` being 0, 1 or 3 as in the code. Of the values that fit `mstatus.mpp`,
which `iss.cpp:2124-2126` writes under a plain mask, the constant `MppValues` says which the
guest and its firmware write; it may hold the reserved level 2, at which MRET then runs the
hart (`:2331`). `spp` has one bit and keeps the low one of that level (`:2555`), and `stop`
says how the simulator has ended: by the assertion of `prepare_trap` (`:2441`) or by the
exception of an environment call at an unknown level (`:935-936`). The assertions of
`switch_to_trap_handler` (`:2551` and its like) are no part of `stop`: `prv` is set to the
target before they look at it (`:2534`), so they always hold. In `Hart`
the instructions that may write `mip` of their own hart are `Ordinary`, `LoadReserved` and
`StoreConditional` (`Accesses`). A step is one `run_step`,
one delta cycle, one device call or the return of `sync`. In `Pipeline` and `Predictor` a
step is one instruction, in `Pipeline` with everything it reads, reserves and writes in the
order of `exec_step`; a register latency of 0 stands for an entry that is not in
`pending_register_latencies`. In `NiceHil` the bytes of an answer carry the number of the
call they belong to, so that the model can tell a stale byte from a fresh one although the
code cannot. In `Sm3` and `Sm4` a step is one iteration of a loop.

Every property's mutant is an operator named `<definition>_<how>` beside the definition
it would replace: a way a plausible slip in that code could read.

## 3. Runs

| run | shows | instance and bounds |
|---|---|---|
| `chain`, part `core` | `TypeOK`, `ResultCorrect`, `LatencyExact`, `OfferHeld` for the core alone with any byte, busy flag and reset at every clock; the other parts check them too | real exclusive or; a bijective stand-in for the table; the opcode byte ranges over the four operations, two operand bytes over two values, any position may hold a poll or a read (theorems cover the rest) |
| `chain`, part `wired` | `FramedOnce`, `NothingPending`, `SendingEndsWired` for the core wired to the transmitter; part `uart_top` checks the first two as well | 8 data bits, 4 clocks a bit, SM3 requests; the host need not wait |
| `chain`, part `uart_top` | `AnswersRight`, `AnswersInTime`, `ByteFindsCoreReady` | 8N1, 32 clocks a bit, all four operations one after the other, pauses of any length before each transmission |
| `chain`, part `hil` | refinement `KeepsPromise`, `CallReturns`, `InStep` | four calls in any order for ever, one restart |
| `lines` | `Delivered`, `NoByteLost`, `Received` (start bit, data, parity bit and stop bit, the parity bit being that of the code), `IdleWhenHeard`, `LinesTypeOK` | 3 data bits and parity, type 1, 40 clocks a bit; receiver: sender 2.5 % slow, bursts of 4, glitches up to half a bit; transmitter: host's receiver at the same rate |
| `rx_line_even` | **violation** of `NoneLost`: `PARITY_TYPE` 0 rejects correct frames | same line, exact clock |
| `tx_line_parity` | **violation** of `ParityDocumented`: with `PARITY_TYPE` 1, odd parity by the comment, the frames have even parity | transmitter of run `lines`, 32 clocks a bit |
| `hil_short` | **violation** of `ReturnsOperation`: a short read passes for an answer | adapter hands over parts |
| `hil_unplug` | **violation** of `ReturnsOperation`: a failed read passes for an answer | adapter vanishes once |
| `trap` | `TrapTypeOK`, `ContextKept`, `Resumes`, `NoneLeft`, whatever level the guest writes to `mpp`; the privilege of code at the reserved level is excepted when supervisor mode interrupts it (`Truncated`) | two interrupts (M timer, S external), two exceptions (an illegal instruction and the environment call of user mode), two delegations, of which the second leaves both exceptions to user mode, `MppValues` {0, 2}, one CSR write beyond the firmware's set-up (which is any choice of enables and of the mode returned to); 450,696 states |
| `trap_reserved` | **violation** of `AssertionHolds`: an exception delegated twice at the reserved level fails the assertion of `prepare_trap` | instance of run `trap` |
| `hart_timed` | **violation** of `LockBounded`: with `PIPELINE_TIMING` each LR_W starts the window anew | window 17 as in the code, quantum of 40 cycles |
| `sim` | refinements `AsSoonAsReady` and `EvictsOldest`, `AssertionsHold`, `ShallowReturnsFree`, `Learns`, `NoFlagLost`, `UnsavedIsDirty` | pipeline: two registers, x0 among them, four overlapping and disjoint ranges, the E203's delays, 20 cycles; predictor: return stack of 2 under 4 nested calls, two branches that share their entries, 2 history bits; cache: two sets, four heads; two exception flags |
| `guest` | `LockNeverAcrossWait`, `LockBounded`, `AheadBounded`, `WakesUp`, `HartTypeOK`; `RightWithoutGlitch`, `FlushRestores`, `InstructionEnds`; `DecryptInverts`; `DigestRight`; `ReadInInterval` | hart: window 6, quantum of 14 cycles; CUSTOM3: three instructions of two objects, the adapter pulled out once, answers in any pieces; the real table, constants and 32 rounds of SM4 with the key of `sm4.c` and two blocks; SM3 of the two messages of `sm3.c` and of 56 bytes, whose padding needs a block of its own; counter: halves of 4 and 3 values |
| `hash_full` | **violation** of `DigestRight`: a message of 55 bytes | one message |

Why the bounds are enough. The bit length changes no branch of the UARTs, only how many
clocks a state lasts; 16 and more clocks leave every phase relation between the sample
point, the busy flag and the next start bit that 868 clocks leave, and part `wired` uses 4 to
bring the handshake and the frame close together. Three data bits distinguish first,
middle and last; part `uart_top` has all eight. The request history of the core is finite in
effect (a reply, a reject or a reset returns it to `IDLE` with cleared counters, which
`IdleInv` in the proofs states), so calls in any order need no bound. One restart reaches
each point of a call; a second would start from the same states. Two interrupts of
different levels and two delegations give nested handlers of all three modes. In the
smaller hart a reservation may still end before, at and long after the quantum. The
20 cycles of the pipeline are passed by a pending multiplication's 17 and reach two
operations in one unit; four nested calls overflow the return stack by two; four heads
are two more than a set holds. Three CUSTOM3 instructions are a short read, the
instruction it disturbs and the one that is right again. What the theorems of section 4
state holds without any of these bounds.

In `VcilHil` a byte arrives at the core only in a state that takes it, and a frame ends
only after the handshake is over. Both are theorems about the detailed models:
`BytesFindCoreReady` (during a reply the core ignores the receiver) and `NothingStaysPending`.

Deadlock is not checked where the system stops: `sim` (the cycle bound), `guest` and
`hash_full` (the programs end, the calls are used up), `trap` and `trap_reserved` (the
simulator ends, `stop`).

### Fairness

* `ClockRuns`, `[]<><<i_clk_sys' # i_clk_sys>>_i_clk_sys`: the oscillator of the board does not stop. No
  other assumption is needed for `SendingEndsWired`.
* `VcilHil`: the platform's process is scheduled (weak fairness of driver and bridge
  steps; calls themselves are not fair, the guest need not call), the adapter delivers
  what it holds (`FrameSent`, `Deliver`), and a byte on the wire arrives (`WireDelivers`,
  weak fairness of the clock edge that brings it, written out with its guard).
* `Hart`: the SystemC kernel runs the thread while it is ready, delivers notifications,
  and lets time go on once the thread waits for it. Devices and guest are not fair.
* `NiceHil`: the coprocessor answers, the adapter delivers, and the read loop, which has no
  pause in it, polls (`ReadReply`, `ReadFails`). Issuing an instruction is not fair, pulling
  the adapter out and back is not either. `InstructionEnds` excludes one case: a port lost
  in the middle of the loop may read as empty for ever.

The seven runs that end in a violation check safety, so that no fairness matters to their counterexamples.

## 4. Proofs

`NiceCore_proofs`, for every line input and every operators `XorB`, `SM4_Sbox` that
satisfy the assumptions of `NiceRef`/`NiceCore` (`XorAssumption`, `SboxAssumption`: bytes
to bytes; `RxAssumption`: the line carries bytes):

* `TypeCorrect`: `CoreSpec => []TypeOK`.
* `InductiveInvariant`: `CoreSpec => []IInv`. `ResultCorrect` is not inductive: it looks
  only at the end of the computation. `IInv` says what each stage holds on the way there:
  the operand and flags belong to the request register (`SM3Loaded`, `SM4Loaded`), the
  intermediate words are the partial results (`Sm3Inv`, `Sm4Inv`, with `Substituted(k)`
  for the k bytes already through the table), the counter is the number of the stage,
  `IDLE` has a cleared counter (`IdleInv`), and a word on offer is flagged twice
  (`o_data_valid = state_count`).
* `ResultIsCorrect`, `LatencyIsExact`: the two safety properties of run `chain`, for all
  operands; `OfferIsHeld`: its action property, from the same invariant.

`NiceTop_proofs`, for every bit length and every byte at every clock (`TopAssumption`: the
bytes have eight bits):

* `NothingStaysPending` and `EachByteFramedOnce` (`NothingPending`, `FramedOnce`) follow from
  `HandshakeInv`, the phases of the two flags: an offer outlasts the clock in which the
  transmitter latches it and is gone in every clock of the frame, so that the second latch
  is of the same byte. It needs the core's `IInv` and the transmitter's `TxInv`
  (`UartTx_proofs`: where in a bit the baud counter and its pulse are in each state).

`Lines_proofs`, for every number of clocks per bit at each end of both
lines, every number of data bits, and every burst, pause and glitch. What the clocks must
satisfy is stated as a hypothesis, in the terms of the code's sampling:

* `ClocksAgree`, for the outgoing line: each sample of the host falls into its bit, and that
  of the stop bit no later than `Half + 4` clocks after the bit began, for the next start bit
  may begin one clock later. `EqualClocksAgree`: equal clocks satisfy it.
* `RxClocksAgree`, for the incoming line: a start bit is seen after 6 clocks, every sample
  then falls into its bit even when the n-th byte of a burst is found `Late(n)` clocks late,
  the receiver is free again before the pause is over, and a glitch is gone when the start
  bit is checked. `EqualHostClocks`: equal clocks, `Half + 4 + 2 * BURST < CYCLE`, a pause of
  more than `Half + 4` and `5 + 2 * BURST` clocks and glitches of up to `Half + 6` satisfy it.
  The constants of run `lines` satisfy the three hypotheses as well.
* `ParityChecked`: with parity on, parity is odd. Run `rx_line_even` is the counterexample
  for even parity.

The results:

* `LinesTypes`: `LinesTypeOK` without any hypothesis on the clocks: even a host at the wrong
  rate drives no counter out of its range.
* `HostHears`, `HostMissesNone`, `IdleAfterLastByte` (`Received`, `AllHeard`, `IdleWhenHeard`)
  under `ClocksAgree`. `Received` compares the parity bit the host has sampled with the one
  the code computes for the byte (`SentParity`: even for type 1, odd for 0); its invariant
  `ParityInv` follows the parity register, the level on the line and the bit sampled. The invariant `TxLineInv` ties the host's timer to the bit on the line
  (`FrameInv`: `timer = Begin(BitNo) + Since`) and, between frames, says how far the handshake
  for the next byte can be while the host is still in the last stop bit (`RestInv`).
* `OwnReceiverRejects`: under `ClocksAgree` and with parity on, of either type, every frame
  the host completes fails the check `uart_rx.v` makes with the same parameters
  (`FailsOwnCheck`): the sum it compares is 0 or 2 where type 1 asks for 1, and 1 where type
  0 asks for 0.
* `BytesArriveRight`, `NoByteMissed` (`Delivered`, `NoneLost`) under `RxClocksAgree` and
  `ParityChecked`. The invariant `RxLineInv`: what the synchroniser and its five flags remember
  of the line (`SyncInv`, `FlagInv`); how far receiver and line can be apart when the receiver
  waits, follows a glitch, is in the frame on the wire or still in the one before it
  (`PhaseInv`); that the bytes owed are the one being received and the fresh one behind it
  (`ExpectedInv`); and what of it is in the shift register, with its parity (`DataInv`).
* `NoByteIsLost`: both directions, for the composition `LinesSpec` under all three hypotheses.

`UartTop_proofs`, the whole design over its wires, for every set of requests, all operands and
tables, every bit length that is long enough, and every pause of the host. The hypotheses:

* `BitIsLong`: half a bit and twelve clocks pass within a bit. A start bit is seen six clocks
  late, and each of the four back-to-back frames of a word two clocks later than the one
  before. The board has 868 clocks a bit, part `uart_top` 32.
* `KnownRequests`: the software asks for the four operations only, as the drivers `sm3.h` and
  `sm4.h` do. The core never answers another opcode.

The argument. Each line of the design is an instance of `RxLine` and `TxLine`, at equal clocks
and without glitches (`L == INSTANCE Lines_proofs WITH ...`): a step of `UartTop` is one clock
of each, so that `RxLineInv` and `TxLineInv` hold and a byte that leaves one end is the byte
that arrives at the other. `TopInv` adds to these two and to the core's `IInv`: what the host
sends and hears excludes each other (`SendInv`); where the core is at each step of the
conversation (`StepInv`); that the request register holds the bytes sent so far
(`RegisterInv`); and that the bytes heard and those under way are an initial part of the
answer (`AnswerInv`).

* `AnswersAlwaysRight` (`AnswersRight`): every word is acknowledged, every poll answered 0 or
  1, and every read brings the result of this request and its latency.
* `BytesFindCoreReady` (`ByteFindsCoreReady`): each byte finds the core in a state that takes
  it, with no answer on offer or under way.
* `AnswersAlwaysInTime` (`AnswersInTime`): each byte of an answer is heard at most nine bits,
  two halves and four clocks after the one before (`PerByte`): the ten bits of its frame and
  four clocks, which for the bytes of a whole answer add up to less than one bit.
  `LagInv` bounds the time waited by the bytes heard and how far the next one has come:
  framed, on offer, or about to be offered (`AnswersAtOnce`).

`VcilHil_proofs`, for every set of calls, all operands and tables, and any number of
restarts. Hypothesis `~CHUNKED` (a read of the port gets the whole answer); the adapter stays,
as `HilSpec` has it. Runs `hil_short` and `hil_unplug` are the counterexamples without them:

* `ConversationKept`: `ChainInv` names the stages of a conversation (a word arrives, is taken,
  is acknowledged; a poll arrives, is answered; a read arrives, is being answered, is
  answered) with what is then in the driver, in `read_buff`, in each buffer on the way and in
  the core: the request register holds the bytes sent so far (`Collected`, then `Loaded`),
  and a poll is answered 1 only with the result there.
* `HostAndCoreInStep` (`InStep`), `OperationReturned` (`ReturnsOperation`) and the refinement
  `PromiseIsKept` (`HilSpec => KeepsPromise`) follow from it and from the core's `IInv`.

`Software_proofs`, traps, for every set of interrupts and exceptions, every delegation, every
guest and every `MppValues`, the reserved level among them (`TrapAssumption`: numbers and types
only):

* `TrapInvariant`: the types and `ContextKept` together are inductive (`TrapInv`). The
  argument: a trap or interrupt is handled in a mode at least as privileged as the one it
  leaves (`TargetIsAbove`, `TrapIsAbove`), so what `switch_to_trap_handler` saves fits the
  fields of that mode and touches no other mode's (`SwitchKept`). One case is left out by
  name, `Truncated`: an exception delegated to supervisor mode at the reserved level goes
  down to it, and the one bit of spp loses the privilege; place and interrupt enable are kept.
* `AssertionHoldsWithin`: if the reserved level is not in `MppValues`, the assertion of
  `prepare_trap` never fails. Run `trap_reserved` is the counterexample if it is.
* `TrapTypeCorrect`, `ContextsSurvive` follow; `ReturnsResume` is `Resumes` from the same
  invariant; `NoInterruptPassedOver` is `NoneLeft`, since whatever is due is due for the
  mode that takes it or a less privileged one (`DueIsTaken`).

`Software_proofs`, the hart thread, for every quantum and every window (`HartAssumption`), without
`PIPELINE_TIMING`:

* `HartInvariant`: while the lock is held, the instructions it has been held for and the
  count that is left make up the window, and the hart has gone beyond its quantum only
  since then; while the bus is free and the hart runs, the quantum is not used up.
* From it `HartTypeCorrect`, `NeverWaitsLocked`, `ReservationEnds` and `DecouplingBounded`. The assumption
  `~TIMED` is needed: run `hart_timed` is the counterexample for the other build.

`Timing_proofs`, the pipeline, for every register file, every set of ranges and stalls and all delays
(`PipelineAssumption`):

* `PipelineRight`: no assertion of `timing.h` fails, and between two instructions at most
  one store is pending, for one cycle. The invariant is `PipelineTypeOK`, `AssertionsHold`
  and `OneStorePending`; the last one is what makes the single cycle that `do_load` waits
  enough. An assertion could fail only if an instruction left a delay on a register that
  has one: every path waits for its destination first.
* `PipelineImplementsReadyTimes`: `PipelineSpec => AsSoonAsReady`. Ready times are the
  counter plus what is left; a wait of n cycles (`access_register`) moves the counter and
  every latency by n and leaves the ready times of what is still pending alone, so that the
  instruction's waits, in any order, end at the latest of the times it depends on.

`Timing_proofs`, the predictor, for every table size, stack size, number of history bits and counter
range, and every program (`PredictorAssumption`):

* `ReturnsPredicted`: the return stack is the top of the guest's call stack (`RasIsTop`),
  and how much of it there is depends on the depth reached since (`RasInv`).
* `BranchesLearnt`: after k equal outcomes the last k history bits are that outcome
  (`LearnInv`), from the NumHistoryBits-th on the same counter is counted, and after
  CounterThreshold more it is past the threshold, wherever it began.

`Timing_proofs`, the cache: `CacheIsLru`, the refinement of `LruSets`, with `ICacheTyped`. The
mapping: the mark says which of the two lines is the latest.

`Software_proofs`, floating point, for every set of flags: `NoFlagIsLost` (`NoFlagLost`), and
`UnsavedStaysDirty` (`UnsavedIsDirty`); the two are inductive with the types.

`Software_proofs`, the guest programs and their bridge:

* `CounterRight`: `ReadInInterval` for every width of the low half; the value read so far
  lies between two moments of the read, whichever branch is taken (`ReadSoFar`).
* `CipherInverts`: `DecryptInverts` for every number of rounds, word width, key, block and
  round function: the cipher is unbalanced Feistel, and each step of `Decrypt` finds the
  four words the encryption had at that place (`Sm4Inv`).
* `PaddingFits`: message, mark and length never overlap, and `num` is the number of blocks
  of the standard if and only if `len + 9` is no multiple of 64 (run `hash_full`).
* `BridgeRight`, `FlushRepairs`: `RightWithoutGlitch` and `FlushRestores` for any number of
  instructions and objects. The invariant says what the line and the host's buffer may hold while no
  read has been short, and while a call was issued on a clean line.

Only model-checked: liveness (`SendingEndsWired`, `CallReturns`, `WakesUp`,
`InstructionEnds`), since fairness and ENABLED are beyond the prover; that the hash computes SM3 (`DigestRight`), which is a
statement about data. No module that is proved about uses a RECURSIVE operator; the one of
`MCGuest` converts between two forms of words for TLC. `Sm3` uses the bitwise operators of
the community modules and has no theorem; its padding is a module of its own for that.

## 5. What the models say about the code

* `uart_rx.v:160` (run `rx_line_even`): with parity on, even parity does not work: the sum
  is not reduced to a bit. For type 1 the receiver takes odd parity, as its comment says.
* `uart_tx.v:143-146` (run `tx_line_parity`): the transmitter sends even parity for
  `PARITY_TYPE` 1 and odd for 0, the reverse of its comment (`:6`). The two UARTs of the
  design agree for neither type: the receiver rejects each frame of the transmitter (theorem
  `OwnReceiverRejects`). The shipped design has parity off, so both stay without effect.
* `iss.cpp:2124-2126` (run `trap_reserved`): `mpp` is written without being legalised. A guest
  that writes 2 and returns runs at the reserved level; there an exception delegated to user
  mode ends the simulator by the assertion of `prepare_trap` (`:2441`), an environment call
  by an exception (`:935-936`), and an exception delegated to supervisor mode is handled at
  a lower level with the interrupted one cut to a bit of spp (`:2434`, `:2555`). A guest that
  writes implemented modes only meets none of it (theorem `AssertionHoldsWithin`).
* `Bridge_Socket_Uart.cpp:217` (runs `hil_short`, `hil_unplug`): any non-zero `nread`,
  a failed read included, ends the conversation as a success.
* `iss.cpp:1320` against `:1332` (run `hart_timed`): a guest that waits on an LR_W loop
  stops the simulated time in the timed build.
* `sm3.h:250`, `sm3_nice_uart/insn.c:121` (run `hash_full`, theorem `PaddingFits`): the
  digest is wrong for each length that is 55 modulo 64.
* `iss.cpp:1407`, `:1632` (module `Fpu`): FLW and FLD neither ask for `mstatus.fs` nor set
  it, and CSR writes to `fcsr` do not set it: `UnsavedIsDirty` speaks of what operations
  compute only. `fp_setup_rm` refuses the mode RMM, which the standard has (`:2314`).
* `iss.cpp:538`: JALR reads its operand without asking the pipeline, so it alone does not
  wait for a result it uses (`Link` of `Pipeline`).
* `iss.cpp:1079`: with `PIPELINE_TIMING`, CSRRSI and CSRRCI with a zero immediate count as
  writes and trap on a read-only CSR; without it they do not.
* `timing.h:464`: an empty cache line has head 0, so code in the first 16 KB of memory
  never misses in an empty set (`Cold` of `ICache`). `timing.h:118`: `num_total_cycles` has
  no initial value; the model counts from whatever it is.
* `nice.h:134`: as in the bridge, a failed read ends the loop as a success and the answer
  is the previous one of the same object; a short one can also leave a cycle count of 0
  or 1, on which the assertion of `advance` aborts the simulator. An instruction issued on
  a quiet line whose own read is whole is right again (`FlushRestores`).
* `sm3.h:227` rotates by `j % 32`, which for 0 shifts a word by 32 bits: undefined in C, and
  taken as no rotation here, as the guest's compiler and processor have it.

Limits that are properties of the protocol, not of these lines: an acknowledgement is lost
if the host sends the fourth byte of a word while a frame is still going out; an unknown
opcode is never answered and the host waits for ever; a restart in the middle of a call
needs a reset of the board; the receiver lags two clocks more with each back-to-back byte,
which at 868 clocks a bit is harmless up to 214 bytes (`EqualHostClocks`; the protocol sends
four); the transmitter may begin the next start bit `Half + 5` clocks into the stop bit, so a
host slower than the board by more than 4 clocks in the ten bits of a byte would meet the
next start bit before it has sampled this stop bit (`ClocksAgree`): at 868 clocks a bit that
is 0.05 %; an instruction that raises an exception
is not followed by a look at pending interrupts, so an endlessly faulting handler keeps
them out.

## 6. Not modelled

The entries of the substitution table (except in `MCGuest`); the values the base and
floating-point instructions compute, AMOs, and the memory system (`riscv-vp`, not in this
repository); cause and value CSRs; debug mode; vectored trap addresses (one place stands
for a mode's handlers); CSR writes that change several fields of `Trap` at once;
`tcgetattr` and the other set-up calls failing one by one; the delays of the HiFive1 where
`E203_TIMING` gives others; the high half of a counter that overflows; logging; power
estimation (LIBTLMPWT); `tiny32_main.cpp`, which constructs and binds; the main programs of
the guest, which call and print; the testbench, which checks nothing; the random generator,
which nothing instantiates.

`nice.h` and `nice_core.v` of this repository do not speak the same protocol (ten bytes and
an unasked answer against twelve, acknowledgements and a read). `NiceHil` therefore models
`nice.h` with a coprocessor of its own protocol, marked external, and not with `NiceCore`.

## 7. Plan

Done: the path of one operation from the driver to the core and back and its faults; the
CUSTOM3 path; the simulator's control logic, floating-point state and timing models; the
guest programs and the counter read; proofs about all of these except the hash, up to the
whole design over both wires.

Left: the delays of the HiFive1, where a store is pending for
longer, as a second instance of `Pipeline`.

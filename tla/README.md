# Formal models of polarfire-soc-zephyr-applications

This directory holds TLA+ models of the parts of the repository that have
concurrent or event-driven behaviour. It has TLC configurations that check
them on small instances and TLAPS proofs of their main invariants for every
value of the constants. `PROJECT.json` lists the components, the runs, the
mutants, the map from every definition to the source lines it models, the
findings, the hazards and the theorems.

## Inventory of the repository

| Source | Part | Status |
|---|---|---|
| `src/subsys/bluetooth/services/ots/ots_oacp.c` | OTS Object Action Control Point (OACP): the request/indication state machine over GATT plus the L2CAP object channel | modelled: `OtsOacp`, `MCOtsOacp`, `OtsOacpProofs`, `ObjectTransfer`, `OtsOacpRefinement`, `OtsOacpWriteProofs` |
| `src/zephyr/subsys/testsuite/busy_sim/busy_sim.c` | Busy simulator: counter alarm ISR, entropy refill work item, ring buffer, start/stop | modelled: `BusySim`, `BusySimProofs` |
| `src/zephyr/arch/riscv/core/smp.c`, `src/include/arch/riscv/arch_inlines.h` | RISC-V hart start-up handshake (`hart_wake_flags`, `riscv_cpu_sp`, MSIP nudges) and scheduler IPIs | modelled: `SmpRiscv`, `SmpRiscvProofs` |
| `src/mpfs-applications/synchronization_blinky/src/main.c` | Two threads taking turns through two binary semaphores, driving LEDs | modelled: `SyncBlinky`, `SyncBlinkyProofs` |
| `src/arch/arm/core/aarch32/cortex_a_r/fault.c` | Cortex-A/R fault decoding and logging | not modelled: sequential decode-and-log before a fatal error |
| `src/zephyr/drivers/sensor/iis2dlpc/iis2dlpc.c` | accelerometer driver | not modelled: register I/O |
| `src/zephyr/soc/riscv/riscv-privilege/mpfs/mss_sgmii.c` | SGMII init | not modelled: one-shot register programming |
| `src/zephyr/boards/arm/frdm_kl25z/pinmux.c` | pin mux | not modelled: static configuration |
| `src/zephyr/tests/drivers/build_all/adc/src/main.c` | build-only test | not modelled: empty `main` |
| `src/include/dt-bindings/clock/imx_ccm.h` | clock constants | not modelled: no behaviour |

The parts do not interact with each other in this repository. Each one is
modelled with its own environment: the Bluetooth client and the L2CAP and
GATT layers for OACP, and the kernel's work queue, ring buffer and counter
for the busy simulator, the secondary harts' reset path and `z_smp_init` for
the SMP start-up, and the kernel's scheduler and semaphores for the blinky.

## OTS OACP (`OtsOacp.tla`)

**State.** The variables are the fields the handlers read and write:
- `cur_obj->state.type` (`objState`);
- the read/write parameters that share one union in the object state
  (`opOffset`, `opLen`, `sentLen`, `recvLen`). The header that declares the
  union is not in the repository. The model keeps `sent_len` and `recv_len`
  as two variables, and an accepted Write leaves `sentLen` alone. The
  mapping to `ObjectTransfer` reads only the field that belongs to the
  object's state, so the overlay matters only where a finding says so
  (`oacp_stray_sdu`);
- `metadata.size.cur` (`sizeCur`; `Alloc` is the constant `size.alloc`);
- the object channel: whether it is open, an SDU in flight, and the
  `rx_done`, `tx_done` and `closed` callback pointers;
- the CCC flag `oacp_ind.is_enabled`;
- the queue of indications waiting for the client's confirmation;
- a `fault` flag for a NULL `cur_obj` dereference;
- the client's phase.

**Actions.** There is one action per entry point of the code:
- `bt_gatt_ots_oacp_write`: decode, length check, validation in the code's
  order of early returns, acceptance that binds the channel callbacks, and
  `oacp_ind_send`;
- `oacp_ind_cb`: the confirmation, which dispatches on the object's current
  state and starts or continues a Read with `oacp_read_proc_execute` /
  `oacp_read_proc_cb`;
- `L2capSent`: the channel's `tx_done`, which calls the read engine again;
- `L2capRecv`: `rx_done`, which is `oacp_write_proc_cb` with its cut to the
  declared length, the sink call and the size extension, followed by what
  the L2CAP layer does with the callback's result. A result of `len`
  (`RecvDone`) keeps the channel. Anything else (`RecvFailed`) takes the
  channel down and runs the bound `closed` callback (`ChannelDown`). That
  covers `-ENODEV`, a sink error and the `-EIO` of a short write;
- `L2capConnected`, and `L2capDisconnected`, which is `ChannelDown`:
  `oacp_l2cap_closed` runs when it is bound;
- `bt_gatt_ots_oacp_cfg_changed`.

The data source and sink return any result the code handles: an error, a
short count or the full count. For the data source that includes 0, which
sends an empty SDU and asks again (`ReadResults`). A sink error is one value,
-1. `-EINPROGRESS`, which the code logs as unsupported (line 409), is
treated like any other error. `size_t` arithmetic is taken modulo
`SizeMod`. The L2CAP layer (`ots_l2cap.c`) is not in the repository, so its
four actions are modelled from its call contract in the spec. The client is
arbitrary, or "conforming" (one procedure at a time, sending exactly what it
declared), as the constant `ConformingClient` selects.

**Fairness.** All handlers run on the stack's dispatch context, which
eventually delivers every pending event. So the following are weakly fair:
- the confirmation of a queued indication (`oacp_ind_cb`; ATT obliges the
  client to confirm);
- the sent callback of an SDU in flight;
- a conforming client's data SDUs;
- the client noticing a closed channel.

Commands, connections, disconnections and CCC writes are the client's
choice and are not fair.

**Bounds** (`MCOtsOacp`):
- allocation 3 and SDUs of up to 2 bytes, so that a transfer takes several
  chunks, an SDU can run past the declared length, and a Write can both patch
  and append;
- at most one queued indication;
- the opcodes READ, WRITE, DELETE (not supported, so rejected) and an
  unknown one.

**Runs.**
- `oacp_conforming` (pass) checks `TypeOK`, `SizeWithinAlloc`,
  `ReadWithinObject` and `WriteCoversProgress`. No interleaving of commands,
  confirmations, chunk completions, SDUs, source and sink errors and channel
  loss lets the object grow past its allocation, makes a Read request bytes
  outside the object, or makes the size lag behind the bytes written.
  It also checks `WriteEndsWithData`: once the client has taken the Write's
  response and sent what it declared, the object is not left in a Write of
  non-zero length. This depends on the cut to the declared length (lines
  393-396) and the completion test (line 425) agreeing with the client's
  count. A short sink write is caught only because the L2CAP layer
  disconnects on its `-EIO`. The mutant `WriteChunkLen_short` cuts one byte
  too few and breaks it.
  Finally it checks `ImplementsTransfer`: every behaviour is one of the
  abstract contract `ObjectTransfer` under the mapping `Transfer` (below).
- Five violation runs each show a disagreement between the code and what it
  is meant to do (see "Findings" in `PROJECT.json`):
  - `oacp_close_read`: the `closed` callback is bound only by Write (line 145).
    The run checks `NoSpuriousLock`: no command is refused with
    `OBJ_LOCKED`. TLC finds this sequence: a Read's chunk is in flight, the
    channel is lost, and the client gives up. It reconnects and asks for a
    new Read, which is refused with `OBJ_LOCKED` (line 76). The object stays
    in the Read state until the next confirmation re-drives the engine,
    which then ends the old Read;
  - `oacp_double_drive`: `oacp_ind_cb` dispatches on the current state, so
    the confirmation of a *rejected* command re-enters a running Read and can
    complete it while a chunk is in flight (line 446);
  - `oacp_stray_sdu`: `rx_done` stays bound after a Write ends, so
    `oacp_params.len - recv_len` wraps after a Read has reused the union
    (line 396);
  - `oacp_null_obj`: a NULL `cur_obj` is dereferenced in `oacp_ind_cb`;
  - `oacp_write_stuck`: the liveness property `WriteReleased` fails with a
    conforming client and a reliable stack. A Write accepted with length 0
    never receives an SDU, so `recv_len == len` (line 425) is never tested
    and the object stays locked until the channel closes. A short sink
    write is not a second route: its `-EIO` takes the channel down.

**Proved** (`OtsOacpProofs.tla`):
- `TypeCorrect`: `Spec => []TypeOK`, for all values of the constants that
  satisfy the module's `ASSUME`s.
- `SizeSafe`: with a conforming client, `Spec => []SizeWithinAlloc`.
  `SizeWithinAlloc` is not inductive by itself. A step of
  `oacp_write_proc_cb` extends the size to `offset + recv_len + len`, and
  that stays within the allocation only because:
  - the accepted range `opOffset + opLen` is within `Alloc`;
  - `recvLen <= opLen` while a Write is in progress or its acceptance is
    still queued;
  - a conforming client has at most the response to its last command
    outstanding, so no stale response can start another procedure.

  The strengthening `SizeBoundInv` states exactly these facts. TLC checked
  it as an invariant before it was proved. The proof shows
  `Init => SizeBoundInv` and that every action preserves it. The argument
  for `oacp_write_proc_cb` is arithmetic: `WriteArith` and `WriteCbBound`
  bound `offset + recv_len + len` after the cut to the declared length, for
  every sink result. `ModSmall` shows that the modular `size_t` sums equal
  the plain ones under `SizeModAssumption`.

**Abstract contract** (`ObjectTransfer.tla`). This is what OACP promises
about one object, with the data reduced to lengths. The state is:
- the object state `st`;
- the running procedure's offset, length and progress (`off`, `len`,
  `done`, all 0 when Idle);
- the object's `size`.

A procedure starts only on an Idle object:
- `StartRead` only for a range inside the object;
- `StartWrite` only for an offset inside the object and a range inside
  `Alloc`.

While a procedure runs:
- `Sent` makes a Read's progress grow up to its length;
- `Received` makes a Write's progress grow, the size grows to cover it, and
  the Write ends at its declared length. It can also end in the same step
  when the transfer failed: a short sink write counts its bytes and then
  takes the channel down;
- `Release` ends any procedure at any time.

`LateWrite` lets an Idle object grow within its allocation. It is there
because the code has it: `rx_done` stays bound after a Write ends, so an SDU
that arrives later is still written. Without `LateWrite`, TLC finds the
refinement violated.

The mapping `Transfer` in `OtsOacp` reads:
- `st` from `objState`;
- `off` and `len` from `oacp_params` while the object is not Idle;
- `done` from `sent_len` or `recv_len` according to the state, since they
  share a union;
- `size` from `sizeCur`.

`oacp_conforming` checks `ImplementsTransfer` as a temporal property. Its
mutant `ReadAccept_keep` (a Read that does not reset `sent_len`) breaks it.

**Proved** (`OtsOacpRefinement.tla`), with a conforming client:
- `Refinement`: `Spec => ImplementsTransfer`;
- `CoversSafe`: `Spec => []WriteCoversProgress`;
- `ReadSafe`: `Spec => []ReadWithinObject`. This one is inductive together
  with `RefInv`:
  - a Read starts only through `oacp_read_proc_validate`, which compares the
    range with `size.cur` and resets `sent_len`;
  - `ReadCbSent` shows that `oacp_read_proc_cb` asks only for what is left;
  - `NoWriterDuringRead` keeps `oacp_write_proc_cb`, the only handler that
    changes the size, from running during the Read.

The inductive invariant is `RefInv`, which TLC checked first. It conjoins:
- `SizeBoundInv`;
- `WriteCoversProgress`, which `CoversSafe` states;
- `NoWriterDuringRead`: the receive callback never runs during a Read,
  because a conforming client sends only after its Write was accepted.

The step mapping has one lemma per handler:
- `WriteStep`: an accepted command maps to `StartRead` or `StartWrite`,
  because validation demands an Idle object;
- `ReadCbStep`: a read chunk maps to `Sent`. A `tx_done` left stale from an
  earlier Read touches only `sent_len`, which the mapping does not read
  outside a Read, so it is a stutter;
- `WriteCbStep`: uses `WriteExact`, the exact `size_t` sums without
  wrap-around, and `WriteCbExact`. During a Write a step maps to
  `Received(d, failed)`, where `failed` says the L2CAP layer took the
  channel down on the callback's result. On an Idle object it maps to
  `LateWrite` or a stutter.

Every other step maps to `Release` (`IdleStep`) or to a stutter
(`KeepStep`). The lemmas `ChannelDownState`, `RecvState` and `RecvStep` in
`OtsOacpProofs` bound what the L2CAP layer's teardown can do: the object
stays in its state or becomes Idle.

**Proved** (`OtsOacpWriteProofs.tla`), with a conforming client:
- `WriteEnds`: `Spec => []WriteEndsWithData`. The inductive invariant is
  `RefInv /\ WriteClientInv`, which TLC checked first (with and without
  lost indications). `WriteClientInv` says that while the object is in the
  Write state:
  - an object is selected and the channel is open, with `closed` and
    `rx_done` bound to this file;
  - a client awaiting the Write's acceptance has `cLeft = opLen` and
    `recv_len` is 0;
  - a writing client has `cLeft = opLen - recvLen`;
  - a client that is idle, or reading, faces a Write of length 0.

  The argument per step:
  - `RecvClient`: an SDU that leaves the Write in place was taken whole by
    the sink and was not the last, so the client's count follows
    `recv_len`. A short or failed write releases the object through
    `ChannelDownReleases`;
  - `IndCbClient`: the confirmation the client takes during a Write is its
    acceptance. Another response can only be for a Write of length 0;
  - `SentClient`: a stale `tx_done` keeps the Write only by sending on the
    open channel, which it leaves bound (`ReadCbKeeps`).

## Busy simulator (`BusySim.tla`)

**State.**
- The ring buffer `rnd_rbuf` is kept as its indices (the read position,
  the bytes published, and the bytes claimed but not finished) and, for
  each byte, whether it holds fresh entropy or a stale value.
- The work item is kept as its `QUEUED`, `RUNNING` and `CANCELING` flags and
  the handler's local `len`.
- The counter is running or stopped.
- The test thread is stopped, running, or between the two calls of
  `busy_sim_stop`.

**Actions.**
- `rng_pool_work_handler` is split at the entropy call, because the ISR can
  run between the claim and the finish. It has three actions:
  - `_claim`;
  - `_finish`, when the claim got space and the entropy call succeeded;
  - `_retry`, when the claim got no space or the entropy call failed: the
    handler resubmits itself and leaves the claim unfinished.
- `counter_alarm_callback` is atomic with respect to the threads. It makes
  the two `get_timeout` calls, each reading `sizeof(rand_val)` bytes and
  submitting the work on a short read, and re-arms the alarm.
- `busy_sim_start` submits the work and starts the counter.
- `busy_sim_stop` is split between `k_work_cancel` (asynchronous: a running
  handler is only marked `CANCELING`) and `counter_stop`.

The timeout arithmetic is abstracted away. `ring_buf_put_claim` follows
the ring buffer's contract: at most the free space and the space before the
wrap, with claimed space released only by `ring_buf_put_finish`.
`k_work_submit` is refused while the item is being cancelled.

**Fairness.** The alarm fires while the counter runs (hardware). The work
queue thread runs queued items and lets handlers return (weak fairness). The
entropy driver's failures are transient: strong fairness on the successful
finish. The test thread has no fairness.

**Runs.**
- `busysim_refill` (pass, the real `BUFFER_SIZE` of 32, entropy reliable)
  checks `TypeOK`, `FreshPublished` and `RefillProgress`:
  - every byte the ISR reads was written by the entropy driver and not read
    before;
  - while the simulator runs, a shortage of random bytes is always
    eventually refilled.
- `busysim_wedge` (violation, `EntropyMayFail`): transient entropy failures
  leave their claims unfinished until no space can be claimed. The handler
  then resubmits itself for ever, and the buffer is never refilled, even
  under the fairness that makes the entropy driver eventually succeed.
  The same unfinished claim breaks `FreshPublished`: the first successful
  refill after a failure publishes the bytes of the failed claim, which
  were never written.
- `busysim_restart` (violation): `busy_sim_start` right after
  `busy_sim_stop`, while the handler is still running, gets `-EBUSY` from
  `k_work_submit`, against the assertion at line 138.

The violation runs use a 4-byte buffer so that the traces stay short. The
same behaviours occur with 32 bytes, where a wedge takes one claim of 31
bytes and one of 1 byte.

**Proved** (`BusySimProofs.tla`), for every buffer size of at least 2:
- `TypeCorrect`: `Spec => []TypeOK`, whether or not the entropy driver
  fails. `ClaimRange` shows that `ring_buf_put_claim` grants at most the
  free space. `AlarmRange` shows that the two `get_timeout` calls take at
  most the published bytes. A claim abandoned by a failed handler still
  counts against the free space.
- `FreshSafe`: with an entropy driver that does not fail,
  `Spec => []FreshPublished`. The hypothesis is the one the property needs.
  With `EntropyMayFail` it does not hold. This was checked with
  `BusySim_wedge.cfg` and its `PROPERTY` replaced by
  `INVARIANT FreshPublished`. TLC reports the violation with a 6-state
  trace on the 4-byte buffer: the stale publication of the wedge finding.
  No listed run repeats this, because a violation run checks one property
  and `busysim_wedge` checks `RefillProgress`.

  The inductive invariant `FreshInv` adds `ClaimInv` to `TypeOK`. `ClaimInv`
  says that a running handler's claim is the only one (`claimed =
  workLen`), and that there is none while no handler runs. With it:
  - the span `rng_pool_work_handler` fills, which ends at `put_head`, is
    exactly the span `ring_buf_put_finish` publishes from `put_tail`
    (`SpanHit`);
  - the alarm callback's reads move the tail past the bytes it marks stale
    (`AlarmShift`).

  Both lemmas are modular index arithmetic. Every index stays below twice
  the buffer size, so each is proved by a case split on a single
  wrap-around (`ModInj`, `ModPos`).

## RISC-V SMP start-up and IPIs (`SmpRiscv.tla`)

**State.**
- `wake`: `hart_wake_flags`, indexed by hart. It is `__noinit`, so its
  initial value is any function into the constant `InitFlags`.
- `msip`: the MSIP register of each hart.
- `cpuSp`: the single slot `riscv_cpu_sp`, as the CPU whose stack it holds.
- `ppc` and `cur`: where CPU 0 is in `arch_start_cpu`, and for which CPU.
- `spc` and `spRead`: where each secondary is, and the stack it loaded.
- `hclr` and `pending`: ghost state for IPIs. `hclr` means the handler has
  cleared its MSIP and not yet run `z_sched_ipi`. `pending` means an IPI was
  raised for the CPU after its last `z_sched_ipi` began.

**Actions.**
- `arch_start_cpu` has four actions, one for each point where CPU 0 waits:
  - `_begin` publishes the stack (line 81);
  - `_go` runs once the flag reads WAIT. It writes GO and raises the MSIP
    (lines 84-89);
  - `_nudge` raises the MSIP again while the flag is not DONE (lines 91-95);
  - `_end` runs once the flag reads DONE. It clears the MSIP (line 98), and
    `z_smp_init` moves on to the next CPU.
- The secondary's reset path is assembly that is not in this repository. It
  is modelled from the protocol the flags implement, as `SecondaryWait`,
  `SecondaryGo` (loads `riscv_cpu_sp`) and `SecondaryDone`.
- `z_riscv_secondary_cpu_init` enables the soft interrupt and enters the
  scheduler.
- `arch_sched_ipi` raises the MSIP of every other CPU.
- `sched_ipi_handler` has two steps: clearing its own MSIP, then
  `z_sched_ipi`.

CPU c runs on hart `c + CONFIG_RV_BASE_CPU`, as in `get_hart_msip`. The
CPU's own id is `arch_curr_cpu`: `mhartid - 1` under `CONFIG_SOC_MPFS`
(constant `SocMpfs`) and `mhartid` elsewhere. The assumption
`RvBaseCpuAssumption` ties the two together as the comment at smp.c lines
39-41 does: the base is 1 with a monitor hart and 0 otherwise. Because of
this assumption, no run covers a build that pairs them otherwise (the
hazard at `arch_inlines.h:26`). Such a build would make `arch_curr_cpu`
name another CPU. The lemma `CurrCpuOfHart` shows that the pairing is the
condition for getting the right CPU.

**Fairness.** Every hart runs, so each step of CPU 0's loops and each step
of a secondary is weakly fair. A pending soft interrupt on an online CPU is
eventually taken, so the handler's steps are weakly fair too. The nudge and
`arch_sched_ipi` are not fair: they may or may not happen.

**Runs** (3 CPUs, `CONFIG_RV_BASE_CPU` 1):
- `smp_start` (pass). The wake flags start at any value other than WAIT,
  and IPIs start once start-up is over. The run checks `TypeOK`,
  `SpHandoff`, `NoLostIpi` and the liveness property `AllOnline`:
  - each secondary loads its own stack, although all of them share one slot;
  - no IPI is lost;
  - every CPU comes online.
- `smp_stale_wait` (violation of `AllOnline`). A WAIT left in the
  `__noinit` flags by an earlier boot lets CPU 0 write GO before the
  secondary has booted. The secondary then writes WAIT over GO, and both
  harts spin for ever.
- No run raises IPIs during start-up (`IpiDuringStart` TRUE). Then an IPI
  raised for a CPU that has just written DONE and enabled its soft
  interrupt is erased by the clear at line 98, and `NoLostIpi` fails.
  Whether the kernel raises one that early is outside this repository, so
  this is kept as a hazard and not reported as a finding.

**Proved** (`SmpRiscvProofs.tla`), for every number of CPUs, either SoC
and every set of initial wake flags:
- `StackHandoff`: `Spec => []SpHandoff`. The inductive invariant adds two
  facts to `TypeOK`. `SlotInv` says that from the store at line 81 until
  the next `arch_start_cpu` the slot holds the stack of the CPU being
  started. `GoInv` says that a waiting secondary reads GO only while CPU 0
  waits for that very CPU's DONE. Together they give the stack a secondary
  loads. `GoInv` is preserved by `_end` because it runs only once the flag
  reads DONE, not GO.
- `IpiSafe`: if no IPI is raised before start-up is over, then
  `Spec => []NoLostIpi`. The strengthening `QuietInv` says nothing is
  pending before CPU 0 finishes. This is exactly what the MSIP clear at
  line 98 relies on.

- `TypeCorrect`: `Spec => []TypeOK`, from the same inductive invariant
  as `StackHandoff`. It holds whether or not IPIs are raised during
  start-up.

The lemmas are:
- `HartOfInj`: distinct CPUs have distinct MSIPs;
- `CurrCpuOfHart`: `arch_curr_cpu` inverts `get_hart_msip`'s offset under
  `RvBaseCpuAssumption`.

## Synchronization blinky (`SyncBlinky.tla`)

**State.**
- `pc`: each thread's place in `threadA`/`helloLoop`.
- `sem`: the counts of the two semaphores.
- `gpio` and `cfgd`: the GPIO2_LO output register and its configured pins.
- `mask`: each thread's CPU mask.
- `cpu`: the CPU each thread last reported.

**Actions.**
- `threadA_init`: GPIO init and configuration, creating B with `K_FOREVER`,
  and with `CONFIG_SCHED_CPU_MASK` disabling CPU 1 and enabling CPU 0 for B.
- `threadA_start`.
- For each thread, the four steps of `helloLoop`:
  - `k_sem_take`. The thread resumes on any CPU of its mask, and reports
    `arch_curr_cpu()->id`.
  - `MSS_GPIO_set_outputs`.
  - `hello`: the greeting and the sleeps.
  - `k_sem_give`, which saturates at the limit 1.

**Fairness.** Both threads have priority 7 and block in `k_sem_take` and
`k_msleep`, so every ready thread runs eventually. Each thread's loop is
weakly fair.

**Run.** `blinky_turns` (pass, 4 CPUs, CPU mask set) checks `TypeOK`,
`LedsShowTurn` and `Alternation`:
- while a thread greets, the LEDs show its value;
- each thread greets infinitely often.

**Proved** (`SyncBlinkyProofs.tla`). `LedsSafe` states
`Spec => []LedsShowTurn` for every number of CPUs and either mask setting.
The inductive invariant has three parts besides `TypeOK` and the property:
- `TokenInv`: the two semaphore counts plus the threads between take and
  give add up to exactly one turn;
- `StartInv`: B does not run before A starts it;
- `LedsShowTurn` itself.

`TypeCorrect` (`Spec => []TypeOK`) follows from the same inductive invariant.

Lemma `OneHolder` derives from `TokenInv` that the other thread neither
holds the turn nor can take it while one thread writes the LEDs or gives.

## What is only model-checked

Every invariant that a passing run checks is also proved by a theorem, under
the same hypothesis as the run's constants. The following are checked by TLC on the instances above and are not proved:
- every liveness property (`RefillProgress`, `AllOnline`,
  `Alternation`): TLAPS in this setup does not
  handle fairness and `ENABLED`;
- `NoLostIpi` when IPIs may be raised during start-up, and
  `FreshPublished` with a failing entropy driver. Both fail: the first
  in a run above, the second in the variant of `busysim_wedge` described
  under `FreshSafe`;
- the refinement with an arbitrary (non-conforming) client. It does not
  hold: a stray SDU during a Read (`oacp_stray_sdu`) is no step of the
  contract.

## Plan for the next sittings

1. Proofs about the abstract contract `ObjectTransfer` itself (its Read
   progress within the object), so that they carry over to `OtsOacp`
   through `Refinement`.
2. A larger OACP instance (allocation 4, two queued indications) for the
   arbitrary-client runs.

# bootcode in TLA+

`bootcode` is a small guest kernel. A virtual machine monitor (VMM) starts it on a pool of up to
64 virtual cpus (vcpus); the vcpus bring themselves to 64-bit mode, and then execute, again and
again, the functions of a directed acyclic graph (*dag*) that the VMM has placed in memory. There
is no kernel thread and no lock around the scheduler: every vcpu runs `sched()` on the same
counters and bitmaps with `lock`-prefixed instructions. This directory holds the specifications of
that program, the TLC models that check them and the proofs that TLAPS checks.

Paths below are relative to `src/`.

## 1. Inventory

### 1.1 Components

| Component | Code | State it keeps | Operations | Specified in |
|---|---|---|---|---|
| Dag scheduler | `src/sched.c`, `include/sched.h`, `DCAS`, `CAS`, `e_bsf` of `include/util.h` | run queue `bm_run_fn` and `runnable_tasks`; `metadata->dag_in_count`, `metadata->current[]`, `num_fin_fn`; `num_free_vcpu`, `bm_inactive_vcpus`, `bm_kicked_vcpus`, `hlt_ts[]`, `kick_ts[]`; `wake_num_vcpu`, `sig_wake_num_vcpu_is_0`, `ss_reflective_bm`, `ss_reflective_bm1` | `sched`, `process_sched_dag`, `add_runnable_fn`, `wake_up_task`, `get_work`, `jump2fn`, `wake_up_event`, `scheduler_init_pre/post` | `Sched`, `DagRun` |
| Vcpu start-up | `src/boot.S`, `src/main.c` | `fill_idt_lock_grab`, the IDT, the GDT, `mutex_tss_fill_flush`, `barrier_bm` | `long_mode`, `fill_idt`, `init_boot`, `fill_tss`, `flush_tss`, `fill_user_mode_gdt`, the barrier of `main` | `VcpuBoot` |
| Interrupt and system call entry | `src/boot.S`, `src/interrupt.c`, `syscall_entry` and `set_syscall_msrs` of `src/main.c` | registers, stack, `gs` base and interrupt flag of one vcpu, request and service bit of its APIC, `int_func[]` | the trampolines, `int_expt_handler_64`, `__syscall_entry`, `jump_usermode`, `high_interrupt_handler` | `IntEntry` |
| Condition variable, `barrier()` | `include/util.h` | `barrier_cond` (two bitmaps and a word), `barrier_word` | `cond_wait`, `cond_set`, `barrier` | `Barrier` |
| Mutex and console | `include/util.h`, `src/libc/printf.c`, `src/interrupt.c` | `mutex_printf` | `mutex_lock`, `mutex_unlock`, `printf_` from kernel, user code and exception handler | `Console` |
| Stack | `src/stack.c`, `include/stack.h` | `arr`, `head`, `n`, mutex | `stack_init`, `stack_push`, `stack_pop`, `stack_current_size` | `Stack`, `BoundedStack` |
| Encoding of the dag | `process_sched_dag` (`src/sched.c:120-143`), words of the run queue | rows of `metadata->dag` | decoding with 8-bit indices, placing functions in words | `DagCode` |
| Formatting of printf | `src/libc/printf.c` | `idx` and the caller's buffer; the local buffer of a number | `_vsnprintf`, `_ntoa_format`, `_ntoa_long`, `_out_rev`, `_ftoa` | `Printf`, `PrintfC` |
| Page-table walk | `src/mm.c` | none | `addr_to_pde` | not modelled |
| APIC and inter-processor interrupts | `src/ipi.c`, `src/apic.c`, `include/apic.h` | device registers | bit packs, bounded poll | not modelled: only the end of interrupt is used, see `IntEntry` |
| PIC, ports, memory helpers, layout, build | `src/pic.c`, `src/libc/util.c`, `src/global.c`, `linker.script`, `makefile` | none, or the device's | port I/O, `memset`, `memcpy`, `hexdump` | not modelled: straight-line device writes |

### 1.2 How the components interact

* **Shared memory.** All state of the scheduler, of the barrier and of the mutexes is shared by all
  vcpus. No scheduler operation is atomic as a whole.
* **Hypercalls.** `vmmcall(KVM_HC_KICK_CPU)` wakes a vcpu that executes `hlt`, and
  `KVM_HC_SCHED_YIELD` gives the host's cpu to another vcpu. `outw(PORT_MSG, ...)` stops the vcpu
  until the VMM has reacted: `MSG_BOOTED`, `MSG_WAITING_FOR_WORK`.
* **Start-up to scheduler.** `main()` on vcpu 0 waits at `barrier_bm`, initialises the scheduler and
  enters `sched()`. The others halt in `main()` and enter `sched()` when they are first kicked.
* **User code to scheduler.** `jump2fn` leaves for user mode; the function comes back by system call
  `0x20a`, which enters `sched()` from the beginning.
* **Exceptions to console.** The exception handler prints, under the mutex of `printf_`, on the
  vcpu that has faulted.
* **Exceptions to scheduler.** An exception in a user function stops its vcpu, with the function
  unfinished; nothing in the scheduler notices.

### 1.3 What is hard

Work is put in a queue by vcpus while others decide that there is none and halt; a kick can reach a
vcpu before, during or after its `hlt`, or not at all; the number of vcpus to wake is computed from
two counters that move while they are read; the end of an invocation is detected by whichever vcpu
compares a counter last, and that vcpu then resets shared state with plain stores. Every hazard is
listed at its line in `PROJECT.json`, with the properties that address it or the reason why none
does.

### 1.4 What makes each component correct

* Scheduler: each function runs exactly once per invocation, after its predecessors; no runnable
  function is left to sleeping vcpus; the invocation completes; counters agree with what they count.
* Start-up: no vcpu uses a descriptor table another one is still writing; nobody enters the
  scheduler before all vcpus are initialised; the idle set the scheduler starts from is the truth.
* Entry code: the handler sees one frame format, interrupted code gets all registers back, and a
  kick is always taken.
* `barrier()`: nobody leaves early; a wake-up is lost in no way but one, a store overtaken by its
  own vcpu's loads.
* Formatting: the local buffer holds, the text is what C promises, the caller's buffer is respected.
* Console: lines are whole; the mutex is not left taken.
* Stack: within its array, and linearizable.

## 2. Modules

| Module | Models | Main correspondences |
|---|---|---|
| `DagRun` | the promise of the scheduler: `Begin(f)`, `End(f)`, `Restart` | what the VMM and the user functions can observe |
| `Sched` | `sched.c` and the primitives it uses | one action per access to shared memory; `pc` labels follow the order of the code |
| `MCSched` | dags, pools and the symmetry for TLC | `Diamond`, `Fork`, `OneWord`, `TwoWords` |
| `SchedProofs` | theorems about `Sched`: the wake-up protocol; the run queue and the dag, `Sched` implements `DagRun`; the free vcpus of a pool of two | one lemma per invariant and group of actions |
| `DagCode` | `sched.c` on a pool of one vcpu, down to the bytes of `metadata->dag` and the words of `bm_run_fn` | one action per operation; all dags are initial states |
| `VcpuBoot` | from reset until vcpu 0 enters `sched()`; what a kicked vcpu does after the `hlt` of `main()` is in `Sched` | one action per step that another vcpu can observe |
| `IntEntry` | one vcpu's entry and exit paths and its APIC | one action per instruction, or group of instructions that nothing can tell apart; `HandleKick` and `HandleException` are `high_interrupt_handler` |
| `Barrier` | `cond_wait`, `cond_set`, `barrier()` | one action per access; the store of `cond_set` becomes visible late, and values may be kept in registers |
| `MCBarrier` | the symmetry of the vcpus for TLC | |
| `Console` | `printf_` on `mutex_printf` | lock attempts, retry counter, yield, characters, a fault in between |
| `PrintfC` | what C says a directive prints (`CTexts`), and the cases in which the code prints something else (`Departs`, `MayDepart`) | the comments of `printf.h` |
| `Printf` | `_vsnprintf` and the conversions | one action per kind of directive; numbers in three: digits, `NtoaFormat`, `OutRev` |
| `MCPrintf` | directives and calls for TLC | flags, widths and precisions at the limits and next to them |
| `BoundedStack` | the promise of the stack functions | each call takes effect at one moment |
| `Stack` | `stack.c` | one action per access to the structure |

`Sched` implements `DagRun` (`RefinesDag`, and with fairness `DagProgress`); `Stack` implements
`BoundedStack` (`Linearizable`). `StackProofs`, `ConsoleProofs`, `VcpuBootProofs`, `BarrierProofs`,
`IntEntryProofs`, `DagCodeProofs` and `PrintfProofs` hold the theorems about the module each is named
after (section 4). `VcpuBoot` ends where `Sched` begins: its `HandsOver` is what
`Sched!Init` assumes. `PROJECT.json` maps every definition to the lines it stands for.

Each module has a section of *faulty variants*: actions as a plausible bug would leave them, used
by no behaviour of `Spec`. Putting one in place of the action it varies violates the property it is
listed with in `PROJECT.json`; this is how the properties were tested.

### 2.1 Abstractions in `Sched`

* **Atomicity.** Loads, stores and `lock` instructions on shared words are separate actions. The
  memory order is sequentially consistent: between a vcpu's accesses that matter to others there is
  always a locked instruction, a `vmmcall` or an `out`. `runnable_tasks - num_free_vcpu` is two
  loads, in one order. `bsf` followed by `lock btr`, retried when the bit is gone, is one action
  that takes any set bit: the bit need not be the lowest any more when the `btr` succeeds.
* **The dag** is a relation `Succ`; out edges are followed in any order. The in-degrees are derived
  from it. Its encoding is the subject of `DagCode`.
* **Clocks.** `hlt_ts[]` and `kick_ts[]` are used for one comparison; `hlt_after_kick` keeps its
  result. The comparison with `rekick_thd` may go either way when `RekickThdPasses`.
* **`wake_num_vcpu`** is decremented by `lock xadd` also when it is not positive, and then set by
  the next winner of the CAS: what is below 0 is never told apart from 0, so it stops at 0.
* **`num_free_vcpu`, `runnable_tasks`** are unsigned 64-bit words; they are integers here.
  `runnable_tasks` is proved to be a cardinality, up to the vcpus that have still to count
  (`RunnableExact`). `num_free_vcpu` is exact with two vcpus, without spurious wake-ups and second kicks
  (`FreeExact`); otherwise it drifts, also below 0. A wrapped word is taken back by the subtraction
  from `runnable_tasks`, whose result is an `int64_t` (`sched.c:227`): too many vcpus are then woken.
* **Kicks** leave a token that the vcpu's next (or current) `hlt` consumes. `KickMayBeLost` lets a
  kick leave no token, `SpuriousWakeUps` lets `hlt` return without one.
* **User functions** end, or with `UserFaults` stop their vcpu for good (`UserFault`): the exception
  handler calls `halt()`, and the VMM's `Resume` is that of `IntEntry`. The program has no recovery,
  so a stopped vcpu counts as running: the properties say that the others neither run its function
  again nor report the invocation complete.
* **Left out**: the time statistics, the state the VMM reads for display, and everything `jump2fn`
  does to the vcpu's own registers and page tables.

### 2.2 Abstractions elsewhere

* `DagCode`: one vcpu, so that operations are atomic; the parts of the protocol that concern other
  vcpus are left out (they are `Sched`'s). The layout of `metadata->dag` is written by the VMM, which
  is not in this repository: it is inferred from how `process_sched_dag` reads it. A byte has 4 bits
  and a word 2, in the proportion the bounds need.
* `VcpuBoot`: mode switches, control registers, MSRs, SSE and APIC set-up are private to a vcpu and
  straight-line. Each user-segment descriptor is cleared and then completed, as the compiled code
  does. The hypercall that yields to a late vcpu at the barrier is a stutter.
* `IntEntry`: registers are the nine the entry code saves, `rbx` and `rbp`; stack slots hold symbolic
  words. Interrupts are delivered where the interrupt flag is set and none is in service,
  exceptions by user code and by the kernel's C code. After an exception the vcpu stops until the VMM
  resumes it. The PIC is masked before interrupts are enabled; vector 0x40 is the only interrupt. The instances use two exceptions and one interrupt. NMI, a vector
  with an error code that user code reaches by an `int` instruction, which pushes none (`int $21`), and vectors 29 and 30 of AMD processors (error codes the table `no_err_code` does not
  list) are outside the instances. What a compiler keeps below the stack pointer is not modelled.
* `Barrier`: the store of `cond_set` is a plain `movq` and the loads that follow it may be executed
  before it is visible, as on x86; `sfence` orders stores with stores only. It becomes visible at any
  time up to the vcpu's next locked instruction or `vmmcall` (`buffer`, `Drain`). The fields of `cond_t`
  and `barrier_word` are not `volatile`, and `ATOMIC_INCQ` and `ATOMIC_DECQ` (`util.h:13-21`) clobber no
  memory: `ReadEmpty` may use the `barrier_word` read before the decrement, `ReadKick` the bitmap just
  compared. gcc 12 with the flags of the makefile does the first: compiled so, `cond_set(.., 0)` is
  never called and a second barrier never opens. A value kept from one call of
  `barrier()` to the next is not modelled. `RetryCount` is 1 for 32. `early` is history: whose store was not yet
  visible when it looked for waiting vcpus for the last time.
* `Printf`: a text is a sequence of characters and a format a sequence of directives, each a record of
  flags, width, precision, size and argument; the scan of the format string is not modelled. The local
  buffers have 6 places for 32 and the integer types 2, 3, 4 and 8 bits. A double is a number of
  256ths with 8 significant bits, rounded after each product as the processor does. With a precision so
  large that the zeros in excess of `MaxFloatPrec` fill the local buffer, the code reads a power of 10 behind
  its table (section 3.4): what is read is any number, so that the digits are arbitrary (`Parts`), or
  the access faults (`PowerFault`). `%e`, `%g` and
  numbers above `PRINTF_MAX_FLOAT` (`_etoa`) are left out. `given`, `texts` and `text` are history: what
  was asked for, the text of each directive, and these texts in a row.
* `Console`: a line is one or two characters; `RetryCount` is 2 for 3072. A fault can happen while a
  format's arguments are read. After the handler's own line the VMM stops the vcpu.
* `Stack`: the array has one element more than `tsz`, so that an overrun would show. `mutex_unlock`
  (`util.h:248-251`) clobbers no memory, so C allows a compiler to move a store of `stack.c` behind
  the one that releases the mutex. The model keeps the accesses inside the section; so does gcc 12 with the
  flags of the makefile.

## 3. What TLC checks

### 3.1 Runs

| Run | Instance | Question |
|---|---|---|
| `SchedDiamond` | 2 vcpus, 4 functions with a fork and a join, lost kicks, fairness | are the counters exact, is each function in one place of its way, is the dag executed in order, is the winner of an invocation alone, and does every invocation complete? |
| `SchedFaults` | 2 vcpus, 3 functions in 2 words, lost and repeated kicks, spurious wake-ups, functions stopped by an exception | does the wake-up protocol survive every fault? |
| `SchedRecovery` | 3 vcpus, fork, no fault | does the recovery code repair `num_free_vcpu`? It does not. |
| `Boot` | 3 vcpus | are tables and barrier right whatever the interleaving? |
| `BootIdt` | 2 vcpus, fairness | does a vcpu waiting for the IDT go on? Not always. |
| `Barrier` | 3 vcpus, 2 barriers in a row | does `barrier()` keep the vcpus together, and is a wake-up lost only to a store overtaken by its own loads? |
| `IntEntry` | vectors 3, 14, 64 and a system call, fairness | are frames, registers and kicks kept, however entries nest? |
| `Stack` | 2 vcpus, 2 elements, size 2 | is the array respected, and is each call atomic to its callers? |
| `Printf` | about 63,000 directives alone, 25 pairs in too little room, 3 output functions | does each print what C says, but for the listed cases, and does the whole text reach the caller as far as there is room? |
| `Console` | 3 vcpus, faults | are lines whole, and does the mutex let somebody in? |
| `DagCode` | every dag of up to 4 functions in every numbering; a byte of 4 bits, words of 2 | is what the encoding says executed, completely and in order? |
| `DagCodeFull` | the same dags, a byte of 3 bits | also for dags of up to half of `MAX_FUNC` functions? No: the indices wrap. |

Deadlock is checked in `SchedDiamond`, `IntEntry`, `Stack` and `DagCode`. In `SchedFaults` both vcpus may
have been stopped by exceptions; `Printf` ends when the text is terminated or in a fault. A barrier run ends after `MaxRound` barriers,
or with a vcpu whose wake-up is lost; a boot ends with vcpu 0 in `sched()`, and may stop in the wait of `BootIdt`; a console run ends when a vcpu has faulted inside `printf_`.

### 3.2 Bounds

* *Two vcpus* in the passing scheduler runs: one that adds work, wakes and wins, and one that is
  woken, halts or is kicked at any step of the other. What needs a third vcpu (two that contend for
  the CAS of the budget while a third is the target) is covered by the proofs: every safety property
  of `Sched` but `FreeExact` is proved for any pool, and `FreeExact`, which is about two vcpus, for any
  dag. `Lifecycle`, `InCountExact` and `WinnerAlone` are
  checked in `SchedDiamond` only, the smaller of the two, and proved for the faults of `SchedFaults`.
  The three-vcpu fork of `SchedRecovery` takes longer than the other runs (11.4 million states with
  symmetry); the safety invariants but `FreeExact` hold in it too.
* *Four functions with a join* is the smallest dag in which two vcpus finish predecessors of the
  same function at once; *two words* the smallest in which the scan can pass a word before a bit is
  set in it. The invocations are unbounded: the state space is cyclic and finite.
* *Four functions* in `DagCode`: the 334 dags with one start function, in every numbering, have forks,
  joins, edges to lower numbers and functions in both of the first words. With 4 functions and 6
  edges the largest index is 14, the last but one of a byte of 4 bits.
* *Directives* in `Printf`: an `l` in binary has up to 8 digits and overruns the buffer of 6, as 64
  digits do 32. Widths and precisions lie below and above the number of digits, and below the size of the
  buffer, at it, and one and two above; negative ones come by `*`. Each of the 256 fractions is printed
  with precision 0, 1 and 2, which has every case of the rounding: up, down, exact middle over odd and
  even digits, and carry; other numbers with precisions up to 9, where 8 is the last for which the
  local buffer takes all zeros in excess of the table.
* *One level of nesting* in `IntEntry` is forced by the code (`cli` in every entry, one request in
  service), and `TypeOK` says so: at most two contexts are saved.
* *Three vcpus* in `Boot`: a descriptor with a neighbour on both sides. *Two barriers in a row*: a fast
  vcpu can be in the second while a slow one leaves the first. *Two stack elements and size 2*: empty,
  full, and in between.

### 3.3 Fairness

* `Sched!FairSpec`: weak fairness of each vcpu's kernel steps (the host runs every vcpu, and the
  kernel never blocks but in `hlt`), of the user functions and of the VMM (they return), and of
  leaving `hlt` when a kick is pending. Nothing is assumed of a kick that may be lost: progress then
  rests on the vcpu that is awake.
* `VcpuBoot!FairSpec`: every vcpu keeps executing.
* `IntEntry!FairSpec`: the processor executes the entry code (weak fairness), and takes a pending
  interrupt before the next instruction whenever the flag allows (strong fairness: the flag goes off
  and on). `KickTaken` excepts a vcpu that the VMM leaves stopped.
* `Console!FairSpec`: vcpus inside `printf_` keep executing. Nothing forces a vcpu to call `printf_`,
  and the mutex is not fair: `SomeoneGetsIn` says that the mutex serves somebody, not everybody.

### 3.4 Where the code and what is said of it differ

* **Recovery of `num_free_vcpu`** (`sched.c:323-334`, run `SchedRecovery`): the test, the popcount and
  the store are separate; a vcpu that has just been kicked in between is no longer counted. The
  properties about the run queue hold all the same: the counter only decides how many vcpus are
  woken.
* **Wait for the IDT** (`boot.S:533-537`, run `BootIdt`): the test is inverted. A vcpu gets through
  because its own `xchg` has stored 0; if vcpu 0 stores 2 in between, it waits for ever. The IDT is
  nevertheless filled before any vcpu loads it (`IdtFilledBeforeUse`), because vcpu 0 starts the
  others after filling it.
* **8-bit indices** (`sched.c:126-129`, run `DagCodeFull`): `s`, `e` and `i` of `process_sched_dag` are
  `uint8_t`, and hold `2 * num_nodes + 1` plus a number of edges. They wrap as soon as that sum
  exceeds 255, which a chain of 86 functions does, although `MAX_FUNC` is 256. Successors are then
  skipped, and the invocation never completes.

Others are not shown by a run of their own:

* **`sfence` in `cond_set`** (`util.h:173`) does not keep the loads after the store. A vcpu that has
  read the old condition halts, the one that sets it has looked for halted vcpus before, and the wake-up
  is lost. `LostOnlyEarly` says that it is lost in no other way; it names the vcpu whose store was still on
  its way when it read `intent_cpus` for the last time. The earlier
  version of the loop, still there as a comment, has the `sfence` "because bsf could cause load which can be
  reordered before movq store" (`util.h:190-192`): the order was intended. `barrier()` has no caller at present.
* **Precision of a fraction** (`printf.c:383-389`). The loop that limits it to 9 stops when 32 zeros fill
  the local buffer; with a precision above 41 the index of `pow10` is still above 9, against the
  comment "limit precision to 9, cause a prec >= 10 can lead to overflow errors" (`printf.c:382`). The
  zeros fill the buffer, so that nothing of the number read there is printed
  (`OutsideNotPrinted`), but the read can fault.
* **Formatting.** `AsInC` says that these are all the departures from C in the instance; each has its
  operator in `PrintfC`. A number whose digits, zeros, prefix and sign exceed 32 characters is cut, the
  sign first (`%040d`; `TooLong`); the space of the flag ` ` is such a sign, so that `% 033d` and
  `% .32d` have none. `%-8.4d` prints no leading zeros, and `%-.1d` of 0 no digit at all (`LeftPrec`; the
  second was found when the converse was proved). `%#4x` of `0x1234`
  prints `0x34`, because digits that fill the field are taken for padding (`HashFills`). `%#.4o` has a
  0 too many, unless the precision is at least 32 and there is no room for it, and `%#.0o` of 0 none (`OctalPrec`). `%.1f` of 0.95 prints a wrong whole part and zeros up
  to 32 characters, because the product with 10 is exactly in the middle and its carry is not handled
  (`HalfwayCarry`). `%05f` of an infinity is not padded and `%+f` of a NaN has no sign
  (`SpecialFlags`). `%d` of the smallest `int` overflows, and a precision of `-1` given by `*` counts
  as 0 (`MayDepart`).
* **Work behind a stopped vcpu** (`sched.c:303`). A vcpu between its scan of the queue and the
  decrement of `num_free_vcpu` is still counted as free: a function inserted there wakes nobody, and
  relies on the vcpu that inserted it. If that vcpu is stopped by an exception in its next function,
  runnable functions stay behind while others sleep. Nothing promises otherwise, and
  `NoStrandedWork` excepts it.

A pool of 64 (`main.c:144`, `sched.c:39`): `1 << 64` is `1` on the
processor and the mask is empty; `BarrierWaitsForAll` holds for `PoolSz < WordBits` and fails when
they are equal. `printf_` is not reentrant (`printf.c:26-27`): a vcpu that faults inside it and prints
from the exception handler waits for itself; `Console` has the fault as an action and
`SomeoneGetsIn` excepts that case. `ipi.c` polls while `icrl == (1 < 12)`, that is `== 1`, not bit 12;
`reset_apic_bit_pack` of `apic.h` applies `^= ~mask`. Neither of the two has a caller.

## 4. What is proved

TLC checks a small instance; the theorems below hold for every value of the constants that the
named assumptions of the modules allow. A theorem that needs more than these says so in its
statement. Each proof has the same layout: the inductive invariant, one lemma per action or group of
actions, with one step per part of the invariant that the action can disturb, and `PTL` in the last
step only. The inductive invariants were checked by TLC on the instances of the runs before they were
proved.

### 4.1 The wake-up protocol (`SchedProofs`, part 1)

For every finite set of vcpus, every dag, every assignment of functions to words and every
combination of the four kinds of fault (`KickMayBeLost`, `SpuriousWakeUps`, `RekickThdPasses`,
`UserFaults`).

| Theorem | Statement | Argument |
|---|---|---|
| `TypeCorrect` | `Spec => []TypeOK` | `TypeOK` is inductive. Beyond types it says what the locals hold at a label: a scan starts at word 0 and stays in the queue, `cpuid` names a vcpu while it is kicked, a budget about to be stored is positive. |
| `WakeTokenKept` | `Spec => []WakeToken` | The right to set the number of wake-ups is in exactly one of three places: the variable `sig_wake_num_vcpu_is_0`, a vcpu between taking it and giving it back, or a positive `wake_num_vcpu`. `TypeOK` gives that the budget stored is positive; without it the right could vanish. |
| `WorkNeverStranded` | `Spec => []NoStrandedWork` | Unless a vcpu is stopped: a vcpu that inserts a function scans the queue afterwards; the function is only passed by a scan of its word, which finds the bit if it is set. |
| `SnapshotsDrain` | `Spec => []SnapshotDrains` | Every bit that keeps a snapshot from being replaced has somebody who will clear it. A vcpu that extracts a bit carries it in `cpuid` until it clears it. |

Assumptions: `CpuAssumption` (a finite set with vcpu 0, `NULL_FUNC` is no vcpu), `FnAssumption` (a
finite set; only the start function has no predecessor, `Null` is no function), `WordAssumption`
(functions lie in the words of `bm_run_fn`), `EnvAssumption` (the flags are Booleans). The last three
invariants are inductive together with `TypeOK`.

### 4.2 The run queue and the dag (`SchedProofs`, part 2)

Under the same assumptions, with `DagInv == Lifecycle /\ RunnableExact /\ InCountExact /\ WinnerAlone`.

| Theorem | Statement | Argument |
|---|---|---|
| `OneWay` | `Spec => []Lifecycle` | A function waits, is carried to the queue, is in it, is carried by a vcpu, runs, has edges to follow, or is counted in `num_fin_fn`: one of these, and with one vcpu at most. |
| `QueueCounted` | `Spec => []RunnableExact` | `runnable_tasks` is the cardinality of the run queue up to the vcpus between a `bts` or `btr` and the counter that goes with it. |
| `EdgesCounted` | `Spec => []InCountExact` | `dag_in_count` is the number of predecessors whose edge is pending; a `lock dec` makes one less of them. |
| `OneWinner` | `Spec => []WinnerAlone` | When `num_fin_fn` is the number of functions, all functions are in their last place, so that no other vcpu has one. |
| `ImplementsDag` | `Spec => RefinesDag` | Each step is a `Begin`, an `End` or the `Restart` of `DagRun`, or leaves its variables alone. `Begin` needs that a function in the queue has no pending edge, which is `Lifecycle` with `InCountExact`; `Restart` needs that all are done. |

None of the four invariants is inductive alone: that a function is not inserted twice needs its
counter to be exact, that a counter is exact needs that the winner resets it while nobody follows an
edge, and that the winner is alone needs that each function is counted once. Most of the actions move
no function: `Silent` is what these have in common, with one lemma for all.

### 4.3 The free vcpus (`SchedProofs`, part 3)

| Theorem | Statement | Argument |
|---|---|---|
| `FreeCounted` | `TwoVcpus => (Spec => []FreeExact)` | `num_free_vcpu` is the number of vcpus that look for work or have been kicked to do so, up to those between the change of their state and that of the counter. Each step changes that number by the weight of the vcpu that takes it, or of the one it kicks. |

`TwoVcpus` is a pool of at most two, an `hlt` that returns only when kicked, and no second kick of a
vcpu that has not woken up yet; the dag, the lost kicks and the functions stopped by exceptions are
arbitrary. The inductive invariant is `FreeInv == KickOK /\ KickerOK /\ RecoverOK /\ FreeExact`,
together with those of the first two parts. `KickOK`: a kick is pending only for a vcpu of
`bm_kicked_vcpus`, and `hlt_ts > kick_ts` singles out the vcpus that are asleep and not kicked.
`KickerOK`: a vcpu that is being kicked, and has been counted as free, sleeps until it is.
`RecoverOK`: the winner that stores a new `num_free_vcpu` is the only vcpu awake, so that its popcount
is still true when it is stored. The steps that change neither counter nor kicks have one lemma
(`Plain`).

The hypothesis is what the code needs. With three vcpus the third may kick the second between the
popcount and the store of the first (run `SchedRecovery`); a spurious wake-up or a second kick counts
a vcpu twice.

### 4.4 The other components

| Module | Theorems | Inductive invariant, and why it is needed |
|---|---|---|
| `VcpuBootProofs` | `TypeCorrect`, `IdtFilled`, `LtrRight`; for `PoolSz < WordBits`: `BarrierWaits` (`BarrierWaitsForAll`), `HandOver` (`HandsOver`) | `BootInv == TypeOK /\ Roles /\ TssOK /\ SegmentsOK /\ FreeOK`. `TypeCorrect` includes that exactly one vcpu fills the IDT. `Roles`: vcpu 0 fills the IDT before it starts the others, which is what makes the IDT right although the wait for it does not work. `TssOK`: from the clearing of its descriptor until after `ltr` a vcpu holds the mutex, and at `ltr` the descriptor is complete. `SegmentsOK`: a user segment is incomplete only while a vcpu rewrites it or before the first has done so. `BarrierOK`, for the last two theorems: a vcpu whose bit of `barrier_bm` is clear has arrived, and behind the barrier the inactive vcpus are those that are halted. |
| `BarrierProofs` | `BarrierSafe`, `TypeCorrect`, `NobodyLeavesEarly` (`Together`), `WakeUps` (`LostOnlyEarly`) | `BarrierInv == TypeOK /\ WordOK /\ RoundOK /\ BufferOK /\ (Filling \/ Draining)`. `barrier_word` is the number of the vcpus it counts (`WordOK`); a barrier either fills, with all vcpus in the same one, or drains, with those that have left one ahead of those still counted. A fast vcpu in the next barrier while a slow one leaves the first is the case that no smaller invariant covers. `WakeInv`: a vcpu about to halt although its condition was set is seen by a vcpu that set it (`HaltSeen`), or some vcpu's loads were `early`; a store is visible before the loads that follow it, or they are early (`StoreOK`). |
| `IntEntryProofs` | for `TableRight`: `TypeCorrect`, `FramesHaveOneForm` (`HandlerFrame`), `ContextsRestored` (`ContextRestored`), `SyscallsReturn` (`SyscallReturns`) | `EntryInv == EntryType /\ (Level0 \/ Level1 \/ Level2)` describes the stack slot by slot: the code of the base level, the activation that has interrupted it, the one that has interrupted the trampoline of that. Nothing less is inductive, because a word pushed at one level is popped by the code of the same level after others have used the stack above it. |
| `DagCodeProofs` | for `Fits`: `CodeAlways`, `TypesOfCode` (`TypeOK`), `ExecutedInOrder` (`InOrder`), `ExecutedCompletely` (`RunsAll`) | `CodeInv == IsDag(edge) /\ Fits /\ Types /\ QueueOK /\ RowOK /\ CountOK /\ FinishedOK`. The layout is a ranking of the edges: an edge stands behind the rows of lower functions and the lower successors of its own. So each index from the bounds of a row names one edge, none is missed or read twice (`RowOK`), and a count in `dag_in_count` is the number of predecessors whose edge lies ahead (`CountOK`). A function is active, that is queued, running or done, exactly when none does; if the queue is empty when a vcpu looks for work, each function not done has a predecessor not done, and a set of such functions is empty in a dag. |
| `PrintfProofs` | for `NtoaSize >= 4`: `TypeCorrect`, `OutsideUnseen` (`OutsideNotPrinted`), `BufferDelivered` (`Delivered`), `NothingBehind`, `StreamDelivered` (`StreamComplete`), `IntegersAndStrings` | `PrintfInv`: a number between two of its steps fits its buffer (`Conversion`), the caller's buffer holds what fits of the text so far, and the caller's function has had its characters but 0 (`Written`, `Kept`). `TypeCorrect` is about any width, precision, argument and integer types, and about whatever is read behind the powers of 10; `OutsideUnseen` says that then only the zeros of the precision reach the text; `NothingBehind` says that at no time is anything written at or behind the size given by the caller. |
| `PrintfProofs`, `IntegersAndStrings` | every character, string and integer that is `Exact` is printed as C says | `TextInv`, with `PrintfInv`: what `_ntoa_format` and then `_out_rev` are given, for the directive in hand, are its digits, zeros, sign and padding. `Exact` leaves out the cases in which the code departs from C (`TooLong`, `LeftPrec`, the smallest `int`, a precision of -1; section 3.4) and the prefixes of `#` (which `%d` and `%u` ignore). On the instance of the run it leaves out no other integer without prefix, but one whose space sign has no room and would be hidden by padding (`% 7.6d`, with a buffer of 6). What a recursive function returns is proved by the least natural number for which it would not (`UpTo`), not by an induction theorem. |
| `ConsoleProofs` | `TypeCorrect`, `LinesNotCut` (`LinesWhole`) | `ConsoleInv == TypeOK /\ LinesWhole /\ HolderOK`: a line that is begun and not ended belongs to the holder of the mutex, also when that vcpu has faulted and will never give it back. |
| `StackProofs` | `TypeCorrect`, `ArrayInBounds` (`InBounds`), `CallsLinearizable` (`Linearizable`) | `StackInv == TypeOK /\ MutexOK /\ HeadOK`: between lock and unlock a vcpu is alone, and at each label `head` is `n` or one off. A call takes effect in `BoundedStack` where it changes or reads `n`, or where its test fails. |

The assumptions are those of the modules: `PoolAssumption` (a pool is not empty and not larger than a
word), `BarrierAssumption`, `VectorAssumption` (vectors are bytes), `SizeAssumption` (of `DagCode`: a
byte is a whole number of words), `PrintfAssumption` and `CallAssumption` (calls are made of
directives, an output function and a size, the last being possibly 0; the argument of an unsigned
conversion, once cast, is a natural number), `ConsoleAssumption`, `StackAssumption` (the size is a natural number, `NO_CPU` is no vcpu).

The hypotheses of single theorems are facts about the program that the code decides:

* `PoolSz < WordBits`: a pool of 64 breaks the mask of the barrier (section 3.4).
* `TableRight`: `no_err_code` lists exactly the vectors without error code. It does for those of Intel
  processors; it does not for 29 and 30 of AMD's.
* `Fits`: the bounds of the last row are below the size of a byte, `2 * num_nodes + 1` and the edges
  together. Beyond, the 8-bit indices wrap (run `DagCodeFull`).
* `TwoVcpus`: see 4.3.
* `NtoaSize >= 4`: `-inf` fits a local buffer, where the model keeps it; the code gives it to `_out_rev`
  as a constant. The buffers of the code have 32 places.

### 4.5 What is only model-checked

* `AsInC` of `Printf` for fractions, prefixes and pointers, and its other half, that the listed cases
  do depart from C. These need what the digits of products, powers and divisions are; the provers have
  no facts about powers, and divide by constants only.
* `FreeExact` of `Sched` for more vcpus is not open but false (run `SchedRecovery`), and with two it is
  false under the faults that `TwoVcpus` excludes.
* Liveness: `DagProgress`, `SomeoneGetsIn`, `KickTaken`. The proof system does not reason
  about `ENABLED`, and so not about fairness.

## 5. What is not modelled

See the components marked `not_modelled` in `PROJECT.json`: the page-table walk and the APIC helpers
are single expressions on bit fields, mostly without a caller; the PIC is programmed by a fixed
sequence of port writes and then masked. Of `printf.c`, `_etoa` and `_ftoa`'s use of it are left out:
`_etoa` reads the exponent from the bits of a double and uses a chain of floating-point
approximations, which an integer model of doubles this small would not show.

Three hazards of modelled components are open: a spurious return from the `hlt` of `main()` before
`scheduler_init_pre` has run (`main.c:174`), data that the compiler keeps below the stack pointer when
an interrupt nests in the kernel (`interrupt.c:34`), and functions left behind a vcpu stopped by an
exception (`sched.c:303`, section 3.4).

## 6. Plan

1. **Start-up**: spurious wake-ups before `scheduler_init_pre`; readers of the user segments.
2. **Pure functions**: the page-table walk and the bounded poll of `ipi.c`, if they get callers.
3. **Proofs**: `AsInC` for prefixes, by the argument of `IntegersAndStrings` with the prefix between
   digits and sign; a bound on how far `num_free_vcpu` drifts with more than two vcpus.

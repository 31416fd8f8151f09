# TLA+ models of the cs61 problem sets

This directory holds TLA+ specifications of the programs under `src/`, the
TLC configurations that check them, and `PROJECT.json`, which records:

- `components`: the parts of the system, and which module models each one;
- `runs`: the TLC runs and what each shows;
- `mutants`: the mutants that show each property can fail;
- `map`: the source lines each definition translates;
- `findings`: what the runs found;
- `hazards`: what in this code is hard to test.

## The system and its parts

The repository is six independent programs. They do not interact with each
other, so each one gets its own module (or will get one).

| Part | Source | State | Operations | Concurrency |
|---|---|---|---|---|
| WeensyOS kernel (pset6) | `src/pset6/kernel.c` | `pageinfo[]` (owner, refcount of each physical page); `processes[]` (state, page table, saved registers); `current` | one `exception()` per interrupt or system call: panic, getpid, yield, page_alloc, timer, fork, exit, page fault; `schedule()`/`run()` | user processes interleave at every trap; interrupts are off inside the kernel, so one `exception()` is atomic |
| Kernel display | `kernel.c` `memshow_*` | none | drawing only | none |
| Ride dispatch (pset5) | `src/pset5/dispatch/dispatch.c` | bounded request queue, `total_rides`, `rides_done`, `dispatch_done`, `exit_drivers` | `dispatch`, `dispatcher_thread`, `driver_thread` | one dispatcher thread and N driver threads share a mutex and three condition variables |
| Ubler (pset5) | `src/pset5/ubler/ubler.c` | per-customer lock, picked-up flags of customers and meals | driver loop (unlocked pre-check, locked recheck, pick-up), `fix_mismatch` | driver threads race for customers and meals |
| Uber-pi (pset5) | `src/pset5/uber-pi/uber-pi.c` | `uber_locks[]`, `status[]`, `free_ubers`, `status_lock` | three passenger variants: lock-every-uber, status counter, trylock round robin | passenger threads race for ubers |
| io61 (pset3) | `src/pset3/io61.c` | 12 cache slots per file (active, offset, length, pos, age, bytes), current slot, the descriptor's offset | readc/read/writec/write/flush/seek/close | single-threaded |
| m61 (pset1) | `src/pset1/m61.c` | metadata list of live blocks, statistics, heavy-hitter table | malloc/free/realloc/calloc | single-threaded |
| sh61 (pset4) | `src/pset4/sh61.c` | parsed list/conditional/pipeline tree, zombie list, `interrupted` | `eval_line`, `run_list`, `start_command`, `reap_zombies` | forks child processes; SIGINT handler |

The hard behaviours in the kernel are these:

- Two processes share read-only pages after `fork`. A later `sys_exit`
  then has to give pages back correctly.
- `fork` can fail part way through, when it runs out of pages or process
  slots, and must clean up what it already took.
- A process that exits or breaks must never be resumed.

In pset5, the hard behaviours are lost condition-variable signals, unlocked
pre-checks, and busy-waiting.

## What is modelled

### `Kernel.tla`: the WeensyOS kernel

This module models the whole kernel: every case of `exception()`, with
`fork`, `sys_exit`, `copy_pagetable`, `process_setup` and `schedule`.

**State**

| Variable | Models |
|---|---|
| `pageinfo[pn]` | `[owner, refcount]`. The owner uses the C encoding: `PO_FREE = 0`, `PO_RESERVED = -1`, `PO_KERNEL = -2`, a positive number is a pid. |
| `processes[p]` | `[p_state, p_pagetable, eax, intno]` |
| `current` | the current process |
| `cpu` | one of three values: `"user"` (a process is running), `"idle"` (`schedule()` spins forever with no runnable process), or `"halted"` (after `panic`) |

A page table is an L1 page, an L2 page, and a map from user virtual page
numbers (`PROC_START_PN .. MEMSIZE_VIRTUAL_PN-1`) to a physical page and a
writable bit. The kernel's own low mappings are the same in every page
table, so they are left out.

Addresses are page numbers. `find_free_page` and `find_free_page_table`
choose the lowest free page. This is the order the code uses, and it matters:
the pages below `PROC_START` are the only ones a page table can get.

**Actions.** Each action is one whole call of `exception()`. The action
includes the return path: `run(current)` if the process is still runnable,
`schedule()` if it is not.

| Action | Code |
|---|---|
| `SysPanic` | `INT_SYS_PANIC` |
| `SysGetpid` | `INT_SYS_GETPID` |
| `SysYield` | `INT_SYS_YIELD` |
| `Timer` | `INT_TIMER` |
| `SysPageAlloc(v)` | `INT_SYS_PAGE_ALLOC` |
| `SysFork(e)` | `INT_SYS_FORK` |
| `SysExit` | `INT_SYS_EXIT` |
| `UserPageFault` | `INT_PAGEFAULT` |
| `VMCheckPanic` | a trap whose entry `virtual_memory_check()` fails an assertion: the kernel halts |
| `Spin` | stutters while the CPU is idle or halted |

`exception()` calls `virtual_memory_check()` on every trap from user mode.
In the model this is `virtual_memory_check`, a predicate over `pageinfo` and
the process table. Every handler action is guarded by `Entry`, which is
`cpu = "user" /\ virtual_memory_check`. When the check fails, only
`VMCheckPanic` is enabled.

`SysFork(e)` takes `e`, the value already in the caller's `%eax`, because
the code does not always overwrite it.

The loops in the code are RECURSIVE operators over the pages or pids.
Each operator maps a record `[pi, ps]` to a new one.

Boot runs the `fork` command, which sets up process 1 by `process_setup`.
The program image is a constant: a function from virtual page to writable.
Program loading is modelled from the spec. The loader is not under `src/`.

### `Dispatch.tla`: the ride dispatcher (pset5)

One dispatcher thread and the driver threads of
`src/pset5/dispatch/dispatch.c` share these variables:

- `queue`, the request queue as a sequence of ride numbers;
- `total_rides` and `rides_done`;
- `dispatch_done` and `exit_drivers`;
- `frees`, how many times `free(state->request_queue)` has run.

The pthread primitives are modelled like this:

| Primitive | Model |
|---|---|
| mutex | `lock`, the thread that holds it |
| condition variables | `waiting[cv]`, the set of threads parked in `pthread_cond_wait` |
| `Signal` | removes one waiter |
| `Broadcast` | removes all waiters |
| wake-up | the woken thread re-acquires the mutex in a step of its own (`DispatchResume`, `DoneResume`, `DriverWake`), as Mesa semantics require |

Each thread has a program counter `pc[t]`. A critical section that cannot
block is one step. This is sound because the mutex keeps every other
critical section out of it, and the steps outside the mutex (`GetLine`,
`Drive`) touch only the thread's own state.

The driver's queue test is the step `DriverWait` / `DriverExit` /
`DriverPop`, taken after the mutex is acquired. It is separate so that the
read of the queue is a state of its own.

Reading the queue after it is freed is undefined behaviour. It is modelled
by the constant `FreedQueueReads`:

- `"empty"`: `empty()` reports an empty queue, as when the freed bytes are
  untouched;
- `"garbage"`: it reports a non-empty queue, so `pop_front` follows a freed
  pointer and the process crashes (`crashed`).

The passing runs allow only `"empty"`; `dispatch_uaf` allows both.

Spurious wake-ups are not modelled. Every wait in the code sits in a
`while` loop that re-tests its condition, so a spurious wake-up only adds a
re-test. The `dispatch` run has three drivers, a two-slot queue and 0..6
input lines (`dispatch_uaf` keeps a one-slot queue and 0..3 lines). This
is enough for the dispatcher to wait on a full queue, for drivers to wait on
an empty one, and for the queue to be partly full while drivers pop and the
dispatcher pushes. The last ride can also finish before or after the input
ends, and every driver can be busy with a ride at once. One run checks the safety invariants and
termination together under `FairSpec`, so no symmetry reduction is used.

**Fairness.** Each thread's step relation is strongly fair. A thread
waiting for the mutex is repeatedly, not continuously, able to take it.
The runs assume the OS scheduler and the mutex do not starve a thread
forever.

### `Ubler.tla`: Ubler drivers (pset5)

An order is a customer and the customer's meal, linked by `customer->meal`
(`MealOf`) and `meal->customer` (`CustomerOf`). A driver thread runs this
loop:

1. `Receive` takes a request from `receive_request`.
2. `Precheck` follows the pointers to the other half of the order, and skips
   the request, without a lock, if both halves are picked up.
3. `Lock` locks the customer's mutex. For a meal request, this is the mutex
   of `meal->customer`.
4. `Recheck` tests both halves again under the lock.
5. `PickUp` drives to the source, picks up and unlocks.
6. `DropOff` drives to the destination, outside the lock.

The re-check and the pick-up are separate steps. When two drivers hold
different mutexes, another driver can run between them.

`receive_request` and the tracking helpers are not in the repository.
`receive_request` is modelled as handing out either half of any order not
yet served, possibly to several drivers, and as returning non-zero once
every order is served. `fix_mismatch` is not modelled, because nothing
calls it.

`MCUbler` runs three drivers and two orders that the restaurant keeps
straight (`MC_Straight`). The header comment of `ubler.c` says restaurants
sometimes mix orders up, with `meal->customer` naming the other order's
customer. With `CustomerOf` set to that mix-up, the meal path locks another
customer's mutex and `ExclusivePickup` fails; no run checks it (see "Not
the findings). Fairness is strong fairness per driver, for the same
reason as in Dispatch.

### `UberPi.tla`: passengers sharing ubers (pset5)

Each passenger thread takes `RIDES_PER_PASSENGER` rides. `main`'s argument
picks one of three functions (`Variant`); each is a group of actions:

| Code | Actions |
|---|---|
| `passenger` (argument 0): lock `uber_locks[0]`, drive, unlock, `break` | `LockStart`, `LockEnd` |
| `passenger_better_init` (argument 1): spin while `free_ubers == 0` without a lock; under `status_lock` claim the first `not_in_use` uber; drive; under `status_lock` give it back | `BISpin`, `BIClaim`, `BIRelease` |
| `passenger_trylock` (argument 2): `trylock` the ubers round robin from 0 | `TLStart`, `TLTry`, `TLEnd` |
| the loop test `k < RIDES_PER_PASSENGER`, `return` | `MoreRides`, `Finish` |

`seat[p]` is the uber the running `drive()` is in. `status_lock` is held only
inside critical sections that cannot block, so each is one step and the lock
is not a variable. The per-uber mutexes are holder variables.

When the claim finds no free uber, the C code skips the assignment and
`uber_id` keeps its value. On the first ride that value is indeterminate:
`BIClaim(p, g)` lets it be any uber or `OutOfRange`. On later rides it is
the previous ride's uber.

`main` starts every passenger with the function `argv[1]` selects, so
`Variant` is chosen once, in `Init`, from the constant `Variants`.
`MCUberPi` runs three passengers and two rides each. The passing run has
three ubers and all three variants; the violation run has two ubers and
`better_init` only. Fairness is strong fairness per passenger:
a passenger blocked on a mutex that is released from time to time gets it.

### `M61.tla`: the m61 debugging allocator (pset1)

The model is single-threaded. A client calls the four entry points in any
order, up to `MaxOps` calls. It may free or realloc any pointer m61 ever
returned, so double frees are included. Each call is one action, and the C
function is an operator from the allocator's state to its new state and
return value. This lets `m61_realloc` and `m61_calloc` apply `m61_malloc`
and `m61_free` in the order the code calls them.

| Code | Model |
|---|---|
| a block: the system chunk, with `m61_meta` at its front | an address `a` in `Addrs`; `meta[a]` holds `size`, `is_active`, `prev`, `next` |
| `root`, the list of active blocks (`prev` goes to older blocks) | `root`, `meta[..].prev/next` |
| chunks the system `malloc` handed out and `free` did not take back | `heap` |
| `malloc(new_sz)` in `m61_malloc` | the action's `a`: a chunk not in `heap`, or `NULL` (failure) |
| `total_stats` | `total_stats` (without `heap_min`/`heap_max`) |
| `m61_printleakreport` | `LeakReport`, the walk from `root` along `prev` |
| the `file` and `line` of a call | the action's `site` in `Sites`: the low 32 bits of the `__FILE__` pointer and the line |
| `hash_table`, chains of `heavy_stats` | `hash_table`: the non-NULL buckets, each a sequence in chain order |
| `hash`, `fill_heavy` | `hash` on 32-bit words, `Bucket`, `fill_heavy`, applied inside `m61_malloc` on success |

TLC's integers are 32-bit signed, so `hash` keeps a 32-bit `int` as two
16-bit halves (`W32`). It defines `^`, `<<`, `+`, `*` (all wrapping, as
gcc compiles the signed overflow) and the arithmetic `>>` on them, and
`CRem` is C's `%`, which takes the sign of the dividend. The operators were
compared with a C-semantics reference on sample keys. `allocs_at` is a
history variable, which counts the blocks handed out per site for
`HeavyCountsExact`.

Freed memory keeps the `m61_meta` bytes m61 last wrote, so a double free
reads `is_active = FALSE`. This holds until the system allocator reuses
the chunk, and then the bytes are those of the new block.

`size_t` has `W` bits and `int` has `IW` bits. All size arithmetic is taken
modulo `2^W`, and `(int) sz < 0` tests the low `IW` bits. `MCM61` uses:

- a 6-bit `size_t`, a 5-bit `int` and an `OVERHEAD` of 4;
- three chunks and five calls;
- sizes 0, 1 and 48 (48 casts to a negative `int`);
- calloc arguments `(2, 1)`, `(3, 22)` (wraps to 2, which is below 3, so
  it is caught) and `(2, 33)` (wraps to 2, which is not below 2, so it is
  missed);
- two sites in one file whose string is at an address with low bits
  `0x9a3c2010`, which is negative as an `int`. Lines 26 and 43 both land in
  bucket 783, so the second site's entry is chained behind the first.

`HeavyCountsExact` says that the bucket is always an index of
`hash_table`. For that, `hash` must never return a negative `int`, and it
never does: its last step, `key ^ (key >> 15)` with an arithmetic shift,
XORs two values with the same sign bit. With a logical shift there, or
without that step, half the keys would index below `hash_table`.

Left out:
- `m61_printheavyreport`, because it only prints. It has a flaw: for every
  entry of a chain it prints the head's `size * allocs` (line 365,
  `hash_table[i]` where `curr` is meant), so a chained site is reported
  with the first site's bytes.
- The `malloc` calls inside `fill_heavy` are assumed to succeed.
- `find_meta`, which only chooses the message for an invalid free.
- the header/footer wild-write check, because no client write is modelled;
- `heap_min`/`heap_max`. The `m61_free` updates of these (lines 251-256)
  never fire, because `pad` is 0 and `meta` is the start of the chunk.

### `Io61File.tla`, `Io61.tla`: the io61 cache (pset3)

`Io61File` is what an `io61_file` promises, taken from the comments above
each function of `io61.c`. A file is a sequence of bytes with a position.
`io61_readc` returns the byte at the position, or EOF. `io61_read` returns
up to `sz` bytes, and a short count only at the end of the file. `io61_seek`
moves the position. `io61_writec` and `io61_write` put the caller's next
bytes at the position. `io61_flush` and `io61_close` change nothing a caller
can see. Data is abstracted to positions. Byte `i` of the input is `i`, and
the `k`-th byte the caller writes is `k`, so a result shows exactly which
bytes came back and where each written byte landed. `call` records the last
call and its argument, so every concrete call must match the abstract call
of the same name.

`Io61` is the code. It models one open file of one of three kinds, chosen
in `Init`: a regular file read through `mmap`, a pipe read with `read()`,
or a regular file written with `write()`. Each call is one step, because
the library is single-threaded. The C functions are operators from the
file's state, a record, to the new record and the call's result. Their
loops and recursion are RECURSIVE operators.

| Code | Model |
|---|---|
| `f->cache[i]` | `cache[i]`: `is_active`, `pos`, `offset`, `buff_size`, `created_count`, and `buf`, the bytes `str_buf` points at or `arr_buf` holds |
| `f->curr_cache`, `f->cache_count` | `curr_cache`, `cache_count` |
| the descriptor's offset | `fdpos`: bytes taken from the pipe, or where the next `write()` lands |
| the file on disk | `disk` |
| `read()` on a pipe | returns any count from 1 to what was asked and is available. `chunks` lists the counts of one call's `read()`s. |
| `get_free_cache`, `fill_new_cache`, `find_cache_offset`, `io61_flush` | operators of the same names |
| the copy loops of `io61_read` and `io61_write` | `ReadLoop`, `WriteLoop`, with `size_t` arithmetic modulo `2^W` |
| `io61_seek` | `SeekReverse` (the reverse-reading heuristic, lines 427-444), then `SeekTo` (lines 446-457); on a written file, `lseek` then `io61_flush` |

The malloc'd `io61_file` starts with zeroed slots, as a fresh heap chunk
has. A loop that copies past the end of the caller's buffer is undefined
behaviour. The read loop still terminates, at end of file, so it is
followed to its return value. The write loop stops only when `nwritten`
wraps round to `sz`, so it is followed for `2^W` rounds, and after that the
call is taken never to return (`CRASH`).

**Refinement.** `Contract == INSTANCE Io61File WITH ...` maps the code's
state to the contract's:

- the read position is the current slot's `offset + pos`;
- the written file is the disk after an `io61_flush`, and its position is
  the descriptor's offset after that flush.

`IoRefinement == Contract!Spec` is checked as a PROPERTY. `CacheCoherent`
states that every active slot of a file being read holds the input's bytes
at the offsets it records, whatever `read()` returned and whichever slot
was evicted.

`MCIo61` uses two-byte slots, two slots, a 5-bit `size_t` and a five-byte
input. Reads cross slots, a third fill evicts the oldest slot, the last
slot of the file is short, and a pipe's `read()` can return one byte. Five
calls are enough to reach the refill of the reverse-reading heuristic:
`seek(3)`, `read(2)`, `seek(3)`.

The passing run keeps the inputs the code handles:

- reads of at most 2 bytes, so the copy loop runs at most twice;
- seeks to a byte of a file being read;
- no seek on a written file.

The three bugs below lie outside those inputs.

### `Sh61.tla`: the sh61 shell (pset4)

The input is `Script`, the lines of a script file run as `sh61 -q file`.
Each line is a sequence of the tokens `parse_shell_token` returns; that
tokenizer is not under `src/`, so tokens are the model's input.

| Code | Model |
|---|---|
| `eval_line`'s token loop (lines 496-591), with `command_alloc`, `conditional_alloc`, `command_list_alloc` and the `*_append_*` functions | `ParseTok`, folded over a line by `eval_line_parse`; the current list, conditional and command are always the last ones, so the parser state is the group, the `new_list`, `new_cond` and `new_pipe` flags, and the redirection whose file name comes next |
| `handle_rd` | `RdOk`: every redirection file opens; only the file `f` can be opened. If one cannot, the process that called `handle_rd` exits with status 1 |
| a process | a record in `procs`, indexed by pid. A shell carries `main`'s line counter, `eval_line`'s list index and `z.count`, and `run_list`'s `i`, `j`, `status` and `pid`. A fork appends a copy of the parent's record, as `fork()` copies the address space |
| `main`'s loop, `eval_line`'s list loop, `run_list`'s two loops | `ReadLine`; `RunList`, `Background`, `ListsDone`; `CondStart`, `RunListDone`, `CondDone` (with `Skip`, lines 458-463). `stop` is `eval_line`'s `stop_process`, local to one turn of the list loop: `RunList` clears it, and only the child of `Background` sets it |
| `start_command` | `RunCd` (`handle_rd` and chdir in the shell itself), `ForkExec` (the child exits 1 in `handle_rd`, or becomes a `cmd` process that only exits), `ForkNoExec` (execvp fails and the child returns into `run_list` with pid 0), `ForkFails` (fork returns -1) |
| `waitpid(pid)`, `waitpid(-1)`, `reap_zombies`'s `waitpid(0)` | `WaitChild`, `WaitAnyNone`/`WaitAnyReap`, `ReapDone`/`ReapNone`/`ReapOne` |

Words are `true` and `false` (programs that exit 0 and 1), `cd` with an
argument `dir` (which exists) or anything else, and any other word, which
`execvp` cannot find. `fork()` fails once `MaxProcs` processes exist. A
forked shell keeps its own copy of the lines not yet read, because the
first `fgets` reads the whole small script into the stdio buffer.
`FinalNewline` says whether the script's last line ends in a newline.
`main` runs `eval_line` only on a line that ends in `'\n'` (line 685), so
without one the last line is read and dropped.

`RunsAsPosix` compares the commands that run (`ran`, one entry per cd or
fork) with what a POSIX shell runs (`PosixRuns`, a RECURSIVE definition
written from the shell's rules, not from sh61.c). Each command must run at
most once, only if `&&` and `||` select it, and all of them once every
process has exited.

Not modelled: which file descriptor a redirection or a pipe replaces
(`dup2`, `pipe`, `close`), which moves data and not control; process groups and
`set_foreground`, whose `setpgid` calls fail because the group ids 1, 2, ...
are not groups of the shell's session; SIGINT and `interrupt_handler`,
because which processes receive it and whether `waitpid` restarts after it
depend on `set_foreground` and `handle_signal`, which are not in the
repository; and `fgets` errors.

### `MCKernel.tla`

This module gives the constants their model values. It also defines
`KernelView`, a VIEW that forgets values no step reads: the page table and
registers of a free slot (a free slot maps to one fixed record), and the
saved `%eax`/`intno` once they are dead.
Without it, the safety run has more than 37M states; with it, it has about
450k.
The violation runs do not use the VIEW, so that TLC can print their traces.
TLC's liveness checking does not work with a VIEW: it fails inside TLC.
Without the VIEW, the safety constants give more than 20M states. That is
why the liveness run is a run of its own, on smaller constants.

## Runs

| Run | Expect | Checks | What it shows |
|---|---|---|---|
| `kernel_safety` | pass | `TypeOK`, `FreeIffUnreferenced`, `ReferencedPagesHaveLiveOwner`, `WritablePagesPrivate`, `RunningIsRunnable`, `ForkCopyShareLaw` | Over every interleaving of the user processes' traps, `pageinfo` agrees with the page tables: refcount 0 exactly when free, and no referenced page owned by a freed slot. Writable memory stays private to its process. The CPU returns only to a runnable process. Each successful fork copies writable pages and shares read-only ones. |
| `kernel_liveness` | pass | `RunnableEventuallyRuns` | With a weakly fair timer, round robin reaches every runnable process. |
| `exit_dangling` | violation | `NoDanglingMapping` | `sys_exit` frees a page its parent owns while a child still maps it. |
| `dispatch` | pass | `TypeOK`, `RideConservation`, `NoEarlyShutdown`, `Termination` | No ride is lost or driven twice. `total_rides` and `rides_done` count what they claim. The exit handshake starts only after every ride is driven, and the queue is freed at most once. No deadlock, and under fair scheduling every thread returns: no signal is lost, and the final broadcast frees every parked driver. |
| `ubler` | pass | `TypeOK`, `ExclusivePickup`, `AllDelivered` | Drivers racing for both halves of a straight order never pick up both the customer and the meal, nor either one twice. Every order is delivered and every driver returns. |
| `uberpi` | pass | `TypeOK`, `ExclusiveRide`, `AllRidesTaken` | Under each of `passenger()`, `passenger_trylock()` and `passenger_better_init()` with as many ubers as passengers, no uber is shared and every passenger takes all its rides. |
| `uberpi_better_init` | violation | `ExclusiveRide` | With more passengers than ubers, a passenger that passed the unlocked `free_ubers` test rides in an uber already in use. |
| `m61` | pass | `TypeOK`, `LeakListExact`, `StatsMatch`, `HeavyCountsExact` | Through any five calls from two call sites, double frees, failed allocations and a `calloc` whose product wraps included, the leak report walks exactly the blocks m61 holds from the system, each once, linked both ways. `nactive` and `active_size` match them. The heavy-hitter table counts each site's blocks in one entry, in range, including the entry chained behind another site's. |
| `dispatch_uaf` | violation | `NoUseAfterFree` | The last driver frees the queue (line 150) while other drivers still test it (line 129). |
| `io61` | pass | `TypeOK`, `CacheCoherent`, `IoRefinement` | Over any five calls on a regular file being read, a pipe with short reads, or a file being written, every call returns what the contract promises, the bytes written land where the contract says, and every cached slot holds the bytes at its offsets. |
| `sh61_conditionals` | violation | `RunsAsPosix` | For `false && true && true`, `run_list` skips only the second conditional, so the third runs. |
| `io61_seek_write` | violation | `IoRefinement` | `io61_seek` on a written file with buffered bytes calls `lseek` before `io61_flush`, so the bytes land at the target and the position ends up past them. |

### Bounds and why they are enough

The runs use `NPROC = 3`: slot 0 is unused, as in the code, and there are two
user processes. This is the smallest number that has a parent, a child and a
full table.

`NPAGES = 12` gives:

- one reserved page;
- one kernel page;
- pages 2..8 below `PROC_START` (page 9), for page tables and early data;
- pages 9..11 above it.

The image has one read-only text page and one writable data page. Process 1
uses 2 page-table pages, 2 image pages and 1 stack page. A fork therefore
needs 2 page tables plus the pages it copies. With these bounds:

- the first fork succeeds;
- later page allocations can run memory out;
- a fork can fail in the middle of its clone loop.

All three failure paths of `fork` are reached: no slot, no page-table page,
and no data page. `EaxValues = {0, 1}` are the virtual page offsets a process
can pass to `sys_page_alloc`.

The liveness run uses a smaller, writable-only image to keep the product with
the Büchi automaton small.

### Fairness

`FairSpec` adds `WF_vars(Timer \/ VMCheckPanic)`. The hardware timer
interrupt fires periodically whenever a user process runs
(`timer_init(HZ)`, kernel.c:86), so a process that never traps is still
preempted. The interrupt enters `exception()`, which first runs
`virtual_memory_check`: if the check fails, the step the interrupt leads to
is the panic (`VMCheckPanic`), not `Timer`. No fairness is assumed for
system calls: a process may never make one.

## Findings

1. `sys_exit` frees every page the exiting pid owns, even a page shared with
   a child (kernel.c:227). The child keeps a mapping to a free page. That
   page can be reallocated as another process's page table. A later fork
   then shares it (kernel.c:288) and its refcount becomes 2, which
   `virtual_memory_check` rejects, and the kernel panics.
2. `fork` with a full table does not write `-1` into `%eax` (kernel.c:250).
   No run checks it now;
   `fork_full_table.cfg` reproduces it (`ForkReturnValue` fails).
3. In dispatch.c, the driver that completes the last ride frees the request
   queue (line 150). Another driver can lock the mutex before the dispatcher
   sets `exit_drivers`, and then calls `empty()` on the freed queue
   (line 129). Drivers woken by the final broadcast do the same. This is a
   use-after-free, and it crashes if the freed bytes read as non-empty.
4. In uber-pi.c, `passenger_better_init` tests `free_ubers` without
   `status_lock` (line 116). Two passengers can pass the test for one free
   uber. The loser finds every status `in_use` under the lock, skips the
   assignment (lines 119-130), and drives with `uber_id` unassigned: an
   indeterminate value on its first ride, or the uber of its last ride. It
   then rides in an uber another passenger holds. Its release marks that
   uber `not_in_use` and raises `free_ubers` past the real count. The comment
   at lines 95-99 says two threads can never be in one uber.
5. In io61.c, `io61_seek` on a file opened for writing calls `lseek`
   (line 423) before `io61_flush` (line 459). The bytes still buffered are
   written at the seek target, and the position ends up after them. TLC's
   trace is `io61_writec`, then `io61_seek(f, 0)`: the next byte goes to
   offset 1, not 0.

6. In sh61.c, `run_list` skips at most one conditional (lines 458-463).
   TLC's trace for `false && true && true`: `false` exits 1, the second
   conditional is skipped, and the third `true` runs. A POSIX shell skips
   every remaining pipeline of the `&&` chain. Chains of two are right,
   which is why the comment at line 457 reads as correct.

The Sh61 model reaches four more sh61 bugs. Set `Script <- MC_NoCmd`,
`Script <- MC_RedirCd`, `Script <- MC_Background` with `MaxProcs = 6`, or
`Script <- MC_OneLine` with `FinalNewline = FALSE`, in
`sh61_conditionals.cfg`, and `RunsAsPosix` fails:

- `nocmd`, then `true` on the next line. `execvp` fails, and the child
  returns from `start_command` with pid 0, takes status 0 and goes on as
  a second shell (line 360 has no `exit`). It runs the rest of the script
  while its parent waits for it, and then the parent runs it again.
- `true &`, then `false`. The child forked for the background list breaks
  out of `eval_line` (line 620) and returns to `main`'s loop, so both
  processes run the second line. The parent records no pid for it and
  never reaps it: `z.count++` runs in the child (line 340).
- `cd dir > nof`, then `true`. `cd` runs in the shell, so `handle_rd`'s
  `exit(1)` on the failed `open` (line 104) ends the shell itself, and the
  second line never runs. A POSIX shell fails only the `cd`.
- `true` as the only line of a file that does not end in a newline.
  `fgets` returns the line and sets end of file, but the test at line 685
  wants a `'\n'` (or a full buffer), so `eval_line` is never called, and
  `feof` then ends the loop. Nothing runs. A POSIX shell runs the last
  line.

The model reaches two more io61 bugs. No run of the project checks them.
To reproduce them, change `io61.cfg` as described, and `IoRefinement` fails:

- `ReadSizes = {4}` with `LEN = 7`. `io61_read`
  subtracts the running total `nread` from `total_char_left` on every round
  (line 251), not the bytes of the last round. A read that spans three slots
  copies past `buf[sz - 1]` and returns more than `sz`. On a regular file,
  `io61_read(f, buf, 4)` after an `io61_readc` returns 6. On a pipe whose
  `read()`s return one byte at a time, the first `io61_read(f, buf, 4)`
  returns 7. `io61_write` has the same
  loop (line 357).
- `SeekTargets = {5}`, a seek to end of file. `fill_new_cache` finds no
  bytes there and returns NULL, and `io61_seek` returns 0 (lines 449-451)
  without moving the position. The next `io61_readc` reads on from the old
  position and does not return EOF.

Restaurant mix-ups in ubler.c: the meal path locks the mutex of
`meal->customer` (line 167). For a mixed-up order, that is not the mutex
that guards the order's customer, so both halves are picked up. The header
comment says mix-ups must be repaired with `fix_mismatch`, and the code
never calls it. No run checks this case. To see it, set
`CustomerOf <- MC_Mixed` in `ubler.cfg`, and `ExclusivePickup` fails.

## Not modelled yet, and the plan

Order of work (later sittings):

1. **Dispatch**: done.
2. **Ubler**: done, except `fix_mismatch`, which nothing calls.
3. **UberPi**: done.
4. **Io61**: the cache is modelled. Still open: seeks on a pipe, `read()`
   and `write()` errors, `io61_eof`, and a reused `io61_file` chunk whose
   slots are not zero.
5. **M61**: the allocator's bookkeeping and the heavy-hitter table
   (`fill_heavy`, `hash`) are checked. Still open are properties
   of the client's view of the allocator, each of which the model already
   reaches:
   - a `calloc` whose product wraps returns a block smaller than
     `nmemb * sz` (m61.c:312);
   - a failed `realloc` frees the old block (m61.c:300);
   - a failed `calloc` counts two failures (m61.c:319);
   - a double free silently frees a reused chunk (m61.c:217).
6. **Sh61**: the control of `main`, `eval_line`, `run_list` and
   `start_command` and `handle_rd` is modelled. Still open: a passing run
   (termination of every process under fair scheduling), and SIGINT.
7. **Kernel, default boot:** four processes, which shows the global refcount
   decrement in `sys_exit` (kernel.c:231).
8. **An abstract page-allocator spec**, with `Kernel` shown to refine it.

Left out on purpose:

- the `memshow` display, console and keyboard;
- `io61_open_check`, `io61_filesize` and `m61_printheavyreport`: they only
  open, stat or print, and change no state another operation reads;
- the Monte-Carlo arithmetic of uber-pi;
- `parse_shell_token`, which is not under `src/`;
- the bytes of the x86 page-table format. Only which page maps where, and
  whether it is writable, is kept.

# TLA+ models of the libaio context (activemq-artemis-native)

This project verifies `src/src/main/c/org_apache_activemq_artemis_nativo_jlibaio_LibaioContext.c`
(below, "the C file"). The C file is the JNI layer of Artemis' native journal. It submits
asynchronous reads and writes to a Linux kernel AIO queue and harvests their completions,
either through a syscall or by reading the kernel's completion ring directly.

## 1. Inventory

### Components, their state and operations

| Component | Code | State | Operations |
|---|---|---|---|
| IOCB pool | `getIOCB`, `putIOCB` (400-438); fields of `struct io_control` (56-61) | `iocb[]` array, `iocbGet`, `iocbPut`, `used`, under `iocbLock` | take an iocb (fails when `used == queueSize`); put one back |
| Kernel AIO queue and completion ring | `struct aio_ring` (72-85); libaio's `io_submit` and `io_getevents`; the kernel | `ring->io_events[nr]`, `head` (written by the consumer), `tail` (written by the kernel), requests in flight | accept or refuse a request; complete a request into the ring at `tail`; the `io_getevents` syscall |
| Ring fast-path reader | `artemis_io_getevents` (96-147) | none of its own: it reads `head` and `tail`, copies events and writes `head` | user-space drain when `available >= min_nr`, otherwise the syscall |
| Submission | `submitWrite`, `submitRead` (665-717), `submit` (440-455) | `iocb->data` (a JNI global ref to the callback), `iocb->aio_fildes` | getIOCB, `io_prep_*`, `NewGlobalRef`, `io_submit`. On failure: `DeleteGlobalRef` and `putIOCB`, then throw |
| blockedPoll loop | `blockedPoll` (719-821) | holds `pollLock` while it runs; `lastFile` | loops on `artemis_io_getevents(1, queueSize)`. Per event: `onError` if `res < 0`, then `putIOCB`, `done`, `DeleteGlobalRef`. It leaves the loop on the dumb write. It retries on `EINTR` and throws on any other error |
| poll | `poll` (823-866) | none (**no lock**) | one `artemis_io_getevents(min, max)`. Per event: `onError`, hand the callback back, `DeleteGlobalRef`, `putIOCB` |
| Shutdown (deleteContext) | `deleteContext` (593-637) | | take an iocb and submit the "dumb write" (fd `dumbWriteHandler`, data `(void*)-1`). Lock and unlock `pollLock`. Drain once with `min 0, max 1`. Release the queue and free everything |
| Context creation | `newContext` (502-591), `iocb_destroy*` (472-497) | | `io_queue_init`, allocations, mutex init, with rollback on each failure |
| Process globals | `JNI_OnLoad`, `JNI_OnUnload`, `shutdownHook`, `closeDumbHandlers` (238-385) | `dumbWriteHandler`, `dumbPath`, `oneMegaBuffer`, `oneMegaMutex`, cached JNI classes and methods | create the scratch file, cache the JNI ids; close the scratch file |
| File and buffer helpers | `open`, `close`, `lock`, `getSize`, `getBlockSize*`, `fallocate`, `fill`, `verifyBuffer` (216-235), `newAlignedBuffer`, `freeBuffer`, `memsetBuffer`, `getNativeVersion` | `oneMegaBuffer`, allocated by the first `verifyBuffer` under `oneMegaMutex` | OS-call wrappers; `fill` writes zeroes from `oneMegaBuffer` |
| Error messages | `exceptionMessage`, `throw*` (171-214) | | formatting |

### How the components interact

- **Shared memory with the kernel.** The kernel writes `ring->tail` and the events. The
  engine writes `ring->head`, from the fast path, while the `io_getevents` syscall also
  reads and writes it.
- **The IOCB pool is shared.** Submitters call `getIOCB`; every harvester calls `putIOCB`
  (blockedPoll, poll, the final drain of deleteContext); `submit` calls it on failure.
- **Callbacks into Java.** `onError` and `LibaioContext.done` are called with the pool lock
  *not* held, after `putIOCB`, so the iocb may already be reused.
- **The sentinel protocol.** deleteContext stops blockedPoll with a dumb write, then
  synchronises with it through `pollLock`.

### What is hard

- **Concurrent access.** Any number of submitters run concurrently with a harvester.
  `poll` takes no lock, so nothing in the C file stops two harvesters from racing on
  `ring->head`.
- **Reading the ring.** The fast path reads `head` and `tail`, decides, copies, and
  publishes `head` in separate steps. `available` and the copy loop wrap around the end
  of the ring (`needMod`).
- **The kernel completes requests in any order.** The dumb write can land in the same batch
  as user writes, before or after them.
- **Shutdown.** It depends on blockedPoll seeing the dumb write, and on the lock/unlock of
  `pollLock` ordering the teardown after blockedPoll's exit.
- **Failures.** `io_submit` can fail (EAGAIN, EBADF, ...). `io_getevents` can return EINTR
  or an error. Allocations in `newContext` can fail.

### What makes each component correct

- **IOCB pool:** no iocb is ever owned twice (free in the pool and in flight, or in flight
  twice). `used` stays within `0..queueSize`.
- **Ring reader:** events leave the ring exactly once and in the kernel's order, across the
  wrap, on the fast path and on the syscall alike.
- **Submission and dispatch:** a callback is told `done` at most once, and only after its
  request completed. It gets `onError` exactly when the result is an error. Its global ref
  is deleted by then. A failed submit tells it nothing.
- **Harvesting:** every accepted request is eventually reported (or the context is
  destroyed). Every event that was harvested is reported.
- **Shutdown:** once the dumb write is submitted, deleteContext completes.

## 2. Modules

| Module | Models | Correspondence |
|---|---|---|
| `IocbPool` | the IOCB pool | variables `iocb`, `iocbPut`, `iocbGet`, `used` are the fields of `io_control`. `getIOCB(i)` and `putIOCB(i)` are the two functions (each one atomic step, since each runs under `iocbLock`). `PoolExhausted` is the NULL return. `FreeRegion` is the `queueSize - used` slots from `iocbGet` |
| `AioRing` | the kernel queue and its ring | `ring`, `head`, `tail` are `struct aio_ring`. `inflight` holds the requests the kernel accepted. `completions` is a history of every event published. `Available`, `Batch` and `NewHead` translate the arithmetic of `artemis_io_getevents`. The kernel actions (`KernelAccept`, `KernelComplete`, `SysGetEvents`) come from the spec's interface, because the kernel is not in `src/` |
| `LibaioContext` | one `io_control` and its threads | composes the two modules above through `INSTANCE`. There is one action per step of each C function; see the table below |
| `ProcessFds` | the process globals and the fd table | `openFds` is the fd table and `journalFds` holds the fds that `LibaioContext.open` returned. `dumbWriteHandler` is the global, set in `FdsInit` by JNI_OnLoad's `mkstemp`. `LowestFreeFd` is the kernel's rule for `open` and `mkstemp`, modelled from the OS interface. `OpenFile` is `LibaioContext.open`. `HookClearHandler` and `HookClose` are the two statements of `closeDumbHandlers` (lines 339 and 340), as run by `shutdownHook` |
| `PoolSet` | the descriptor pool as the spec describes it (section 2) | a set `free` and a count `taken`: `Acquire` takes a free descriptor, `Release` gives back one that is not free. `LibaioContext` maps `free <- Range(FreeRegion)` and `taken <- used`, and checks `AbstractPool!Spec` as `PoolRefinement` |
| `NewContext` | `newContext` and the release part of `deleteContext`, for several contexts of the process | per context, `step` is where its call is, `i` the member loop index, `blocks` the allocated blocks of its `io_control` (the struct, the kernel queue, the iocb array, the events buffer, the global ref) and `members` the allocated `iocb[i]`. `aioNr` is the kernel's `aio_nr`, the share of `fs.aio-max-nr` the process's queues hold. One action per allocation step (`MallocControl`, `io_queue_init`, `MallocIocbArray`, `MallocIocbMember`, `pthread_mutex_init` twice, `MallocEvents`, `NewGlobalRef`, `NewDirectByteBuffer`), each with its failure branch and the rollback the code does there; `iocb_destroy_members` is the loop of lines 472-476. `DeleteContextRelease` is lines 626-636. `Recreate` is the Java side calling `newContext` again. The ghost `badFree` records a free of a block the context did not hold |
| `FillBuffer` | `fill` and `verifyBuffer` with the globals `oneMegaBuffer` and `oneMegaMutex` | `oneMegaBuffer` is 0 or the alignment of the buffer's address (`posix_memalign` guarantees the requested alignment and may give more, a nondeterministic choice). Per filler thread, `pc` and the `alignment` argument. `FillStart` is the call up to `verifyBuffer`; `verifyBuffer` is the whole critical section under `oneMegaMutex`, with `posix_memalign` failing when `MemalignMayFail`; `FillWrite` is the lseek/write loop/lseek |
| `MCLibaioContext`, `MCNewContext`, `MCFillBuffer` | model values for TLC | |

Actions of `LibaioContext` and the code they stand for:

| Action | Code |
|---|---|
| `SubmitGetIOCB(s)` | `submitWrite`/`submitRead` up to the "Not enough space" throw |
| `SubmitIO(s)` | `io_prep_*` on one of the open journal fds, `NewGlobalRef`, `submit` (success, or the undo on failure; `SubmitRejected(f)` covers EAGAIN, EBADF on a closed fd, and other errors when `SubmitMayFail`) |
| `artemis_io_getevents(t)` | reads `head`/`tail` and chooses between returning 0, the fast path and the syscall. The zero-timeout branch is never taken, because every caller passes `timeout == NULL` |
| `FastCopy(t)` | the copy loop and the `ring->head` store |
| `SysCall(t)` | the `io_getevents` fallback, which blocks until `min_nr` events are there |
| `SysCallError(t)` | `io_getevents` returning an error other than EINTR (when `SysCallMayFail`). blockedPoll throws, leaves its loop and unlocks `pollLock` (750-754, 819); `poll` and the drain skip their loop |
| `BlockedPollLock(b)` | blockedPoll's `pthread_mutex_lock(&pollLock)` (733), taken when the thread starts unlocked (`PollerStartsLocked = FALSE`) |
| `BlockedPollDispatch(b)`, `BlockedPollLoop(b)` | the body of blockedPoll's `for` loop (one event per step), and the return to the top of the `while`. `IsDumbWrite` is the fd test of line 771. `Deliver(d, r)` is onError, done and DeleteGlobalRef; blockedPoll calls it whenever `data != NULL`, which is its only test |
| `PollStart`, `PollDispatch`, `PollReturn` | `poll` |
| `DeleteGetIOCB`, `DeleteSubmitDumb`, `DeleteWaitPoll`, `DeleteDrain`, `DeleteRelease` | the five stages of `deleteContext` |
| `Complete(i)` | the kernel completing request `i` with success or error |
| `FdStep` | `Fds!OpenFile`, `Fds!HookClearHandler`, `Fds!HookClose`, the steps of the process globals |

A step is one atomic region: a `getIOCB`/`putIOCB` under `iocbLock`, an `io_submit`, the
read of `head`/`tail`, the copy with its publication of `head`, a syscall, or the dispatch
of one event. The Java callbacks run outside any lock. The model records only what they
receive (`doneCnt`, `errCnt`, and `ref`, the state of the global ref). It also records
`jniFault`: a JNI call made on a data word that is not a live global ref. Such a call is
undefined behaviour, so the model does not try to say what follows it.

Abstractions:
- read and write are one operation; buffers, offsets and sizes are left out;
- a result is `"ok"` or `"err"`;
- the message text of exceptions is left out;
- `fdatasync` and `lastFile` in blockedPoll are left out, because they change no state
  the model observes;
- an `EINTR` return of the syscall is a stuttering step: blockedPoll just loops;
- the race on the global `dumbWriteHandler` is a C data race. It is modelled as
  either value being read: each read is atomic, and a reader sees the hook's write or
  does not;
- the shutdown hook runs at most once (a second `closeDumbHandlers` finds 0 and does
  nothing).

Caller contract (Java side, outside `src/`): no submit or poll starts once deleteContext
has begun, and deleteContext starts only when the caller's own submit and poll calls have
returned. The blockedPoll thread starts already inside its loop, holding `pollLock`,
when `PollerStartsLocked` is TRUE. Otherwise it starts before line 733.

## 3. Runs

| Run | cfg | Expect | What it shows |
|---|---|---|---|
| `bp_fastpath` | `MCBlockedPoll.cfg` | pass | blockedPoll on the user-space fast path, with 2 submitters and deleteContext: pool, callback, ordering and liveness properties hold, including for a batch that crosses the end of the ring |
| `bp_syscall` | `MCBlockedPollSyscall.cfg` | pass | the same on the `io_getevents` syscall, with blockedPoll started before it takes `pollLock`, with `io_submit` failures (for user requests and the dumb write) and `io_getevents` failures. `CompletionDelivered` is left out: after an `io_getevents` error blockedPoll leaves its loop and the requests still in flight are never reported, which the code accepts (the Java side is told by the exception). `HarvestInKernelOrder` is left out too: on this path every harvest is the kernel's own `io_getevents`, one atomic step of the model, so only the user-space copy of the fast-path runs can break it |
| `poll` | `MCPoll.cfg` | pass | one `poll` thread instead of blockedPoll, on both paths, with submit failures; `poll`'s `max` goes up to 3, above `queueSize = 2`, as the code allows |
| `poll_hook` | `MCPollHook.cfg` | pass | `poll` on the syscall path while `shutdownHook` closes fd 0 and a second journal file reuses it. The dumb write may fail with EBADF, and `io_getevents` may fail. The pool still refines the descriptor set, and callbacks are still told once |
| `two_pollers` | `MCTwoPollers.cfg` | violation | two threads in `poll` at once alias an iocb (`NoIocbAliasing`) |
| `delete_outstanding` | `MCDeleteOutstanding.cfg` | violation | blockedPoll drops events that follow the dumb write in its batch (`HarvestedEventDelivered`) |
| `hook_race` | `MCHookRace.cfg` | violation | `shutdownHook` runs while the dumb write is in flight, and blockedPoll calls Java on `(jobject)-1` (`NoInvalidJNICall`) |
| `fd_reuse` | `MCFdReuse.cfg` | violation | a journal file opened after the hook gets fd 0, and its completion stops blockedPoll (`SentinelOnlyStops`) |
| `new_context` | `MCNewContext.cfg` | pass | three contexts created, deleted and recreated concurrently; the kernel aio budget holds two queues, so `io_queue_init` fails while the other two contexts live, and every `malloc` and `pthread_mutex_init` may fail. Every failed call and every delete leaves nothing allocated (`CreateAllOrNothing`), and nothing is freed twice (`NoDoubleFree`) |
| `new_context_jni` | `MCNewContextJni.cfg` | violation | `NewDirectByteBuffer` fails at the end of `newContext` and the whole `io_control` leaks (`CreateAllOrNothing`) |
| `fill_align` | `MCFillAlign.cfg` | violation | a fill with alignment 4096 after one with 512 writes from the buffer allocated for 512 (`FillBufferAligned`) |
| `start_race` | `MCStartRace.cfg` | violation | deleteContext frees the context before a just-started blockedPoll takes `pollLock` (`NoUseAfterDestroy`) |

The properties are defined in `LibaioContext`:
- `TypeOK`.
- `NoIocbAliasing`: each iocb has at most one owner. The possible owners are a free pool
  slot, a thread between getIOCB and io_submit, the kernel, an unconsumed ring slot, and a
  reader's batch.
- `CallbackOnce`: `done` is told at most once, only after the request completed, with
  `onError` exactly for errors, and the global ref is deleted by then.
- `HarvestInKernelOrder`: the harvested events are a prefix of the kernel's publication
  order.
- `PoolRefinement`: the circular array implements the abstract descriptor set (`PoolSet`).
  Every `getIOCB` takes a free descriptor, and every `putIOCB` returns one that was taken.
- `NoInvalidJNICall`: no Java method is invoked, and no global ref deleted, on the
  sentinel or on a ref already deleted.
- `DeleteCompletes`: once the dumb write is submitted, deleteContext completes.
- `CompletionDelivered`: every accepted request is eventually reported, or the context is
  destroyed.
- `HarvestedEventDelivered`: every harvested event of a callback is reported. This is the
  `delete_outstanding` run's property. It also covers the final drain of deleteContext,
  which puts back the iocb of the event it takes but tells nobody.
- `SentinelOnlyStops`: blockedPoll leaves its loop normally only after harvesting the
  dumb write.
- `NoUseAfterDestroy`: when deleteContext frees the context, no other thread is inside a
  call on it.
`FillBuffer` states `FillBufferAligned`: whenever a fill writes from `oneMegaBuffer`, the
buffer is aligned to that fill's alignment.

The properties of `NewContext`:
- `TypeOK`.
- `CreateAllOrNothing`: a context `newContext` returned holds every block and every iocb
  member, its global ref included; a context whose `newContext` returned NULL, or that
  `deleteContext` released, holds no block and no iocb member.
- `NoDoubleFree`: every `free`, `io_queue_release` and `DeleteGlobalRef` of the rollbacks
  and of deleteContext is of a block the context holds.

### Bounds

- `queueSize = 2`, so the pool fills up and `getIOCB` fails.
- A ring of 3 slots. The kernel really allocates more slots than `queueSize`; 3 is the
  smallest ring that can take 2 requests. Three submit calls plus the dumb write put 4
  events through the ring, so `head` and `tail` wrap, and a fast-path batch crosses the
  end of the ring. A scratch check confirmed that this happens on the fast path and on
  the syscall path.
- 2 submitters.
- `poll` min `{0}` and max `{1, 3}`: 3 exceeds `queueSize`, the size of the events buffer, which the code does not check. With min 1, a poll with nothing outstanding would
  block forever; the caller is expected not to do that.

- Process globals: three standard fds, so `mkstemp` gives the scratch file fd 3 and the
  journal file fd 4. `MaxFiles = 2` allows one more `open`, which is what reusing the fd
  the hook closed takes.

- `NewContext`: three contexts and `queueSize = 3`, so the member loop runs three times
  and its rollback can free zero to three members; `AioMaxNr = 7` lets two queues exist
  at a time, so `io_queue_init` fails exactly when the two other contexts hold the
  budget.
  `NewContext` has no fairness: every call is the caller's choice. Deadlock is checked:
  a context can always be recreated.

Each passing run takes at most about 90 s: 8k to 450k distinct states.

### Fairness

An `io_getevents` error, the shutdown hook and `open` have no fairness: they are faults
or the environment's choice, and the weak fairness of the readers excludes the error
step. Weak fairness applies to every step of a call already in progress, to the kernel's
completion of each accepted request, and to every reader step. Those threads are OS
threads that run once scheduled, and the kernel completes every request.

The `poll` thread is *strongly* fair. It polls in a loop and is held back only while a
deleteContext call is running; deleteContext may fail and retry, which makes the poll
thread only intermittently enabled.

Starting a submit or a deleteContext is the caller's choice, so those steps have no
fairness.

## 4. Findings so far

- **`poll` takes no `pollLock` (line 832).** Spec §5 requires bounded polls to be
  serialised against each other and against blockedPoll. In the C file nothing does this.
  Two pollers read the same `head`, copy the same events and both `putIOCB` them. The pool
  then holds one iocb twice, so two later submissions share one iocb (`two_pollers`).
- **blockedPoll `break`s on the dumb write (line 778).** The events that follow the dumb
  write in the same batch have already left the ring, but they are never dispatched. Their
  callbacks never get `done`, and their global refs and iocbs leak. TLC's trace is short:
  the dumb write completes before a user write, and one `io_getevents` returns both.
  deleteContext's final drain cannot recover them (`delete_outstanding`).
- **The shutdown hook races deleteContext (line 339).** `closeDumbHandlers` sets
  `dumbWriteHandler = 0` while a dumb write that carries the old fd is in flight.
  blockedPoll then fails to recognise it at line 771 and calls `onError`/`done` and
  `DeleteGlobalRef` on `(jobject)-1`. It also keeps looping, so deleteContext waits on
  `pollLock` forever (`hook_race`).
- **The shutdown hook closes fd 0 (line 339-340).** Zeroing the handler *before*
  `close(dumbWriteHandler)` closes fd 0 and leaves the scratch file open. The next
  `LibaioContext.open` returns fd 0, and every completion on that file is taken for the
  dumb write: the callback is dropped, and blockedPoll leaves its loop (`fd_reuse`).
- **`newContext` does not check `NewDirectByteBuffer` (line 590).** Spec §6 says a failed
  `createContext` rolls back every partial allocation. When the JVM cannot allocate the
  buffer object, `newContext` returns NULL with the struct, the kernel queue (and its
  share of `fs.aio-max-nr`), the iocbs, the events buffer and the global ref still
  allocated, and nothing refers to them (`new_context_jni`). Likewise a NULL from
  `NewGlobalRef` (line 588) is stored unchecked, and the context returned carries a NULL
  `thisObject` that blockedPoll and poll later call Java through. Every earlier failure path
  rolls back correctly (`new_context`). `io_queue_release` on the failed `io_queue_init`
  is harmless: libaio stores NULL in the context before `io_setup`.
- **`oneMegaBuffer` keeps the first fill's alignment (line 219).** `verifyBuffer`
  allocates the buffer once with `posix_memalign(alignment)` of the first call and
  afterwards only checks that it exists. A later `fill` with a larger alignment (a
  journal on a file system with larger blocks) writes from a buffer that may not be
  aligned to it; on an `O_DIRECT` file the write fails with EINVAL (`fill_align`).
- **deleteContext does not wait for a blockedPoll that has not started (line 733).** Its
  lock/unlock of `pollLock` passes while the poller thread has not yet locked it. The
  context is freed under the thread (`start_race`).

## 5. Plan

Done, in order:
1. `IocbPool`, `AioRing`, and `LibaioContext` with submission, both harvesters and
   deleteContext.
2. `PoolSet` and the refinement of the pool; `ProcessFds` with the shutdown hook and
   `open`; blockedPoll's start and its error exit; the JNI-fault record.
3. `NewContext` (each step of `newContext` with its rollback, under a kernel aio budget
   shared by the contexts).
4. `FillBuffer` (`fill`, `verifyBuffer`, `oneMegaBuffer`); `CreateAllOrNothing` in place
   of a leak-only property, which also covers the unchecked `NewGlobalRef`; the late
   start of blockedPoll and its `io_getevents` errors folded into `bp_syscall`; three
   contexts and three iocbs in `new_context`.

Left open:
- A bound on what `poll` copies into `theControl->events` (line 832: `max` is not
  bounded by `queueSize`). With in-flight requests kept as a set of iocbs and a ring of
  `queueSize + 1` slots, the kernel side already caps a batch at `queueSize`, so such a
  property would hold whatever the pool does. It needs in-flight requests as a bag and a
  ring larger than the pool.
- An abstract FIFO harvester refined by the fast path and the syscall together (mapping
  `completions` minus `harvested`). It would add little beside `HarvestInKernelOrder`,
  which already states that the harvested events are a prefix of the kernel's order.
- Three iocbs and a second ring wrap in the `LibaioContext` runs. With the liveness
  properties these runs already take up to 90 s at two iocbs, and the state space grows
  by an order of magnitude per iocb.

## 6. Not modelled

- Of the file and buffer helpers, `open` (its fd matters to the dumb-write test) and
  `fill`/`verifyBuffer` (they share `oneMegaBuffer`) are modelled. The others (`close`, `lock`, `getSize`,
  `getBlockSize*`, `fallocate`, `newAlignedBuffer`, `freeBuffer`, `memsetBuffer`,
  `getNativeVersion`) are independent syscall wrappers with no shared state. (One of
  them has a plain leak a unit test reaches: `getBlockSize` returns on a `stat` failure
  without `ReleaseStringUTFChars`, line 946.)
- The JNI class and method caches of `JNI_OnLoad`/`JNI_OnUnload`: no operation of a
  context changes them or depends on them beyond their being loaded. `JNI_OnUnload` frees
  `oneMegaBuffer` when the class loader is collected, when no fill can be running.
- The exception and message formatting (including the stale `res` that the events
  failure message of line 580 prints).
- A second `deleteContext` on the same ByteBuffer: it reads the freed `io_control`, and
  what follows depends on the contents of freed memory.
- Mutexes as resources: with default attributes `pthread_mutex_destroy` frees nothing,
  so the failure paths that skip it (562-582) lose nothing.
- The memory-model reasoning behind the compiler-only barriers (lines 39-42). TLC checks
  sequentially consistent interleavings; the model keeps the order of the reads and the
  publication, not the hardware reorderings.
- The Java side (`SubmitInfo`, `LibaioContext.java`) beyond the caller contract above.

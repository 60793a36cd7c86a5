--------------------------- MODULE LibaioContext ---------------------------
(***************************************************************************)
(* One io_control (LibaioContext.c) and the threads that use it:          *)
(*   - Submitters call submitWrite / submitRead (identical but for the    *)
(*     opcode, which no property distinguishes);                          *)
(*   - BlockedPollers run blockedPoll: they hold pollLock and loop on     *)
(*     artemis_io_getevents(1, queueSize) until the dumb write arrives;   *)
(*   - Pollers call poll(min, max), which takes no lock;                  *)
(*   - Deleter calls deleteContext: it submits the dumb write, waits for  *)
(*     pollLock, drains once and releases the queue.                      *)
(* The kernel completes accepted requests in any order (AioRing).         *)
(*                                                                         *)
(* A step is what a thread does between two points where another thread  *)
(* can observe or change shared state: a getIOCB or putIOCB under         *)
(* iocbLock, an io_submit, a read of ring->head/tail, the copy and        *)
(* publication of ring->head, a syscall, the dispatch of one event.       *)
(***************************************************************************)
EXTENDS Integers, Sequences, FiniteSets, Functions

CONSTANTS
  Submitters,      \* threads calling submitWrite/submitRead
  BlockedPollers,  \* the thread in blockedPoll (at most one)
  Pollers,         \* threads calling poll
  Deleter,         \* the thread calling deleteContext
  QueueSize,       \* queueSize given to newContext
  RingSize,        \* ring->nr of the kernel queue
  MaxSubmits,      \* bound: number of submit calls (one callback each)
  PollMins,        \* min values poll is called with
  PollMaxes,       \* max values poll is called with
  SubmitMayFail,   \* whether io_submit may fail for reasons besides EAGAIN
  NStd,            \* fds open when the library loads (ProcessFds)
  MaxFiles,        \* bound: journal files LibaioContext.open may open
  HookRuns,        \* whether shutdownHook runs in the behaviours checked
  SysCallMayFail,  \* whether io_getevents may return an error besides EINTR
  PollerStartsLocked, \* whether blockedPoll has taken pollLock initially
  NoThread,        \* a model value: no thread holds pollLock
  RingUsable       \* the values has_usable_ring() may give for the queue

Threads == Submitters \cup BlockedPollers \cup Pollers \cup {Deleter}

ASSUME
  /\ Cardinality(BlockedPollers) <= 1
  /\ Deleter \notin Submitters \cup BlockedPollers \cup Pollers
  /\ MaxSubmits \in Nat
  /\ PollMins \subseteq Nat /\ PollMaxes \subseteq Nat \ {0}
  /\ SubmitMayFail \in BOOLEAN
  /\ RingUsable \subseteq BOOLEAN /\ RingUsable # {}
  /\ SysCallMayFail \in BOOLEAN /\ PollerStartsLocked \in BOOLEAN
  /\ NoThread \notin Submitters \cup BlockedPollers \cup Pollers \cup {Deleter}

VARIABLES
  iocb, iocbPut, iocbGet, used,             \* IocbPool
  ring, head, tail, inflight, completions,  \* AioRing
  ringUsable,  \* has_usable_ring(): magic and incompat_features as expected
  data,        \* iocb -> iocb->data: NULL, the sentinel (void*)-1 or a callback
  fildes,      \* iocb -> iocb->aio_fildes
  openFds, journalFds, dumbWriteHandler, hookPc,  \* ProcessFds
  jniFault,    \* a JNI call was made on a reference that is not a live global ref
  pollLock,    \* the thread holding pollLock, or NoThread
  pc,          \* thread -> program point
  cur,         \* thread -> iocb taken by getIOCB and not yet submitted
  hnd,         \* submitter -> callback of its current call
  req,         \* reader -> [min, max] of its artemis_io_getevents call
  snap,        \* reader -> [h, n]: head read and count decided by the fast path
  batch,       \* reader -> events in theControl->events not dispatched yet
  nextHandle,  \* the callback object of the next submit call
  ref,         \* callback -> "none" | "global" | "deleted" (its JNI global ref)
  doneCnt,     \* callback -> times done was delivered for it
  errCnt,      \* callback -> times onError was invoked on it
  harvested    \* history: every event taken out of the ring, in order

poolVars == <<iocb, iocbPut, iocbGet, used>>

fdVars == <<openFds, journalFds, dumbWriteHandler, hookPc>>

Pool == INSTANCE IocbPool
Fds == INSTANCE ProcessFds
Ring == INSTANCE AioRing WITH Iocbs <- Pool!Iocbs

vars == <<iocb, iocbPut, iocbGet, used, ring, head, tail, inflight,
          completions, ringUsable, data, fildes, openFds, journalFds,
          dumbWriteHandler, hookPc, jniFault, pollLock,
          pc, cur, hnd, req, snap, batch, nextHandle, ref, doneCnt, errCnt,
          harvested>>

Iocbs == Pool!Iocbs
Handles == 1 .. MaxSubmits
NULL == 0
SENTINEL == -1          \* (void *) -1, the iocb->data of the dumb write
Readers == BlockedPollers \cup Pollers \cup {Deleter}

Min2(a, b) == IF a < b THEN a ELSE b

\* The callback objects in iocb->data (neither NULL nor the sentinel).
IsCallback(d) == d \in Handles

Init ==
  /\ Pool!PoolInit
  /\ Ring!RingInit
  /\ ringUsable \in RingUsable
  /\ data = [i \in Iocbs |-> NULL]
  /\ fildes = [i \in Iocbs |-> NStd + 1]
  /\ Fds!FdsInit
  /\ jniFault = FALSE
  \* the blockedPoll thread has been started: it has taken pollLock and
  \* entered its loop, or has not reached pthread_mutex_lock yet
  /\ pollLock = IF BlockedPollers = {} \/ ~PollerStartsLocked THEN NoThread
                ELSE CHOOSE b \in BlockedPollers : TRUE
  /\ pc = [t \in Threads |->
             CASE t \in BlockedPollers /\ PollerStartsLocked -> "getevents"
               [] t \in BlockedPollers -> "start"
               [] OTHER -> "idle"]
  /\ cur = [t \in Threads |-> 0]
  /\ hnd = [t \in Threads |-> 0]
  /\ req = [t \in Threads |-> [min |-> 1, max |-> QueueSize]]
  /\ snap = [t \in Threads |-> [h |-> 0, n |-> 0]]
  /\ batch = [t \in Threads |-> <<>>]
  /\ nextHandle = 1
  /\ ref = [h \in Handles |-> "none"]
  /\ doneCnt = [h \in Handles |-> 0]
  /\ errCnt = [h \in Handles |-> 0]
  /\ harvested = <<>>

\* Callers do not call into a context whose deleteContext has begun.
ContextOpen == pc[Deleter] = "idle"

\* io_submit of a request on fd f fails: EAGAIN when the kernel has no
\* completion slot, EBADF when f is not open, or any other errno when the
\* configuration allows it.
SubmitRejected(f) == ~Ring!KernelHasRoom \/ f \notin openFds \/ SubmitMayFail

(***************************************************************************)
(* submitWrite / submitRead (and the static submit they call).             *)
(***************************************************************************)

\* getIOCB for a new call with a new callback object; on an exhausted
\* pool the call throws "Not enough space in libaio queue".
SubmitGetIOCB(s) ==
  /\ pc[s] = "idle"
  /\ ContextOpen
  /\ nextHandle <= MaxSubmits
  /\ nextHandle' = nextHandle + 1
  /\ \/ \E i \in Iocbs :
          /\ Pool!getIOCB(i)
          /\ cur' = [cur EXCEPT ![s] = i]
          /\ hnd' = [hnd EXCEPT ![s] = nextHandle]
          /\ pc' = [pc EXCEPT ![s] = "submit"]
     \/ /\ Pool!PoolExhausted
        /\ UNCHANGED <<poolVars, cur, hnd, pc>>
  /\ UNCHANGED <<ring, head, tail, inflight, completions, ringUsable, data,
                 fildes, fdVars, jniFault, pollLock, req, snap, batch, ref,
                 doneCnt, errCnt, harvested>>

\* io_prep_p{write,read}, iocb->data = NewGlobalRef(callback), io_submit;
\* on failure submit deletes the global ref and puts the iocb back.
SubmitIO(s) ==
  LET i == cur[s]
      h == hnd[s]
  IN /\ pc[s] = "submit"
     /\ data' = [data EXCEPT ![i] = h]
     /\ \E f \in journalFds :
          /\ fildes' = [fildes EXCEPT ![i] = f]
          /\ \/ /\ Ring!KernelAccept(i)
                /\ ref' = [ref EXCEPT ![h] = "global"]
                /\ UNCHANGED poolVars
             \/ /\ SubmitRejected(f)
                /\ ref' = [ref EXCEPT ![h] = "deleted"]
                /\ Pool!putIOCB(i)
                /\ UNCHANGED inflight
     /\ pc' = [pc EXCEPT ![s] = "idle"]
     /\ cur' = [cur EXCEPT ![s] = 0]
     /\ UNCHANGED <<ring, head, tail, completions, ringUsable, fdVars, jniFault,
                    pollLock, hnd, req, snap, batch, nextHandle, doneCnt,
                    errCnt, harvested>>

(***************************************************************************)
(* artemis_io_getevents, shared by every reader.                           *)
(***************************************************************************)

\* Reads ring->head and ring->tail and decides: return 0, copy in user
\* space, or fall back to the io_getevents syscall.  The zero-timeout
\* branch of the test never applies: every caller passes timeout NULL.
artemis_io_getevents(t) ==
  LET a == Ring!Available(head, tail)
  IN /\ pc[t] = "getevents"
     /\ \/ /\ ringUsable /\ a >= req[t].min /\ a = 0
           /\ batch' = [batch EXCEPT ![t] = <<>>]
           /\ pc' = [pc EXCEPT ![t] = "dispatch"]
           /\ UNCHANGED snap
        \/ /\ ringUsable /\ a >= req[t].min /\ a > 0
           /\ snap' = [snap EXCEPT ![t] = [h |-> head, n |-> Min2(a, req[t].max)]]
           /\ pc' = [pc EXCEPT ![t] = "copy"]
           /\ UNCHANGED batch
        \/ /\ ~ringUsable \/ a < req[t].min
           /\ pc' = [pc EXCEPT ![t] = "syscall"]
           /\ UNCHANGED <<snap, batch>>
     /\ UNCHANGED <<poolVars, ring, head, tail, inflight, completions,
                    ringUsable, data, fildes, fdVars, jniFault, pollLock, cur,
                    hnd, req, nextHandle, ref, doneCnt, errCnt, harvested>>

\* The fast path: copy the events from the head read earlier and publish
\* the new ring->head.
FastCopy(t) ==
  LET b == Ring!Batch(snap[t].h, snap[t].n)
  IN /\ pc[t] = "copy"
     /\ batch' = [batch EXCEPT ![t] = b]
     /\ head' = Ring!NewHead(snap[t].h, snap[t].n)
     /\ harvested' = harvested \o b
     /\ pc' = [pc EXCEPT ![t] = "dispatch"]
     /\ UNCHANGED <<poolVars, ring, tail, inflight, completions, ringUsable,
                    data, fildes, fdVars, jniFault, pollLock, cur, hnd, req,
                    snap, nextHandle, ref, doneCnt, errCnt>>

\* The fallback: io_getevents blocks until min events are there.  Its
\* EINTR return, after which blockedPoll loops, changes no state.
SysCall(t) ==
  /\ pc[t] = "syscall"
  /\ LET b == Ring!Batch(head, Ring!SysCount(req[t].max))
     IN /\ Ring!SysGetEvents(req[t].min, req[t].max)
        /\ batch' = [batch EXCEPT ![t] = b]
        /\ harvested' = harvested \o b
  /\ pc' = [pc EXCEPT ![t] = "dispatch"]
  /\ UNCHANGED <<poolVars, ringUsable, data, fildes, fdVars, jniFault,
                 pollLock, cur, hnd, req, snap, nextHandle, ref, doneCnt, errCnt>>

\* io_getevents returns an error other than EINTR (its EINTR return, on
\* which blockedPoll loops, is a step that changes nothing).  poll and
\* deleteContext's drain skip their loop on a negative result; blockedPoll
\* throws, breaks out of its loop and unlocks pollLock.
SysCallError(t) ==
  /\ SysCallMayFail
  /\ pc[t] = "syscall"
  /\ \/ /\ t \in BlockedPollers
        /\ pc' = [pc EXCEPT ![t] = "failed"]
        /\ pollLock' = NoThread
     \/ /\ t \notin BlockedPollers
        /\ pc' = [pc EXCEPT ![t] = "dispatch"]
        /\ UNCHANGED pollLock
  /\ batch' = [batch EXCEPT ![t] = <<>>]
  /\ UNCHANGED <<poolVars, ring, head, tail, inflight, completions, ringUsable,
                 data, fildes, fdVars, jniFault, cur, hnd, req, snap,
                 nextHandle, ref, doneCnt, errCnt, harvested>>

(***************************************************************************)
(* blockedPoll: the loop body after artemis_io_getevents(1, max).          *)
(***************************************************************************)

\* pthread_mutex_lock(&theControl->pollLock) on entry, then the loop.
BlockedPollLock(b) ==
  /\ pc[b] = "start"
  /\ pollLock = NoThread
  /\ pollLock' = b
  /\ pc' = [pc EXCEPT ![b] = "getevents"]
  /\ UNCHANGED <<poolVars, ring, head, tail, inflight, completions, ringUsable,
                 data, fildes, fdVars, jniFault, cur, hnd, req, snap, batch,
                 nextHandle, ref, doneCnt, errCnt, harvested>>

\* Mutant: the dumb write never recognised.
IsDumbWriteNever(i) == FALSE

\* blockedPoll recognises the dumb write by its fd alone.
IsDumbWrite(i) == fildes[i] = dumbWriteHandler

\* The Java calls of delivering a harvest of result r to data word d:
\* onError when r is an error, done, DeleteGlobalRef.  A word that is not
\* a live global ref (the sentinel, or a ref already deleted) makes these
\* JNI calls undefined behaviour, recorded in jniFault.
DeliverTo(d, r) ==
  /\ jniFault' = (jniFault \/ ~(IsCallback(d) /\ ref[d] = "global"))
  /\ errCnt' = IF r = "err" /\ IsCallback(d)
               THEN [errCnt EXCEPT ![d] = @ + 1] ELSE errCnt
  /\ doneCnt' = IF IsCallback(d) THEN [doneCnt EXCEPT ![d] = @ + 1] ELSE doneCnt

\* Mutant: DeleteGlobalRef forgotten.
DeliverKeepsRef(d, r) ==
  /\ DeliverTo(d, r)
  /\ UNCHANGED ref

\* Mutant: a failed request gets onError but not done nor DeleteGlobalRef.
DeliverOnlyOk(d, r) ==
  IF r = "ok" THEN /\ DeliverTo(d, r)
                   /\ ref' = IF IsCallback(d) THEN [ref EXCEPT ![d] = "deleted"] ELSE ref
  ELSE /\ jniFault' = (jniFault \/ ~(IsCallback(d) /\ ref[d] = "global"))
       /\ errCnt' = IF IsCallback(d) THEN [errCnt EXCEPT ![d] = @ + 1] ELSE errCnt
       /\ UNCHANGED <<doneCnt, ref>>

Deliver(d, r) ==
  /\ DeliverTo(d, r)
  /\ ref' = IF IsCallback(d) THEN [ref EXCEPT ![d] = "deleted"] ELSE ref

NoDelivery == UNCHANGED <<ref, doneCnt, errCnt, jniFault>>

\* One event of the batch.  The dumb write puts its iocb back and breaks
\* out of both loops: the events after it in theControl->events are left
\* there, and pollLock is unlocked.  Any other event: putIOCB, and when
\* data != NULL (the only test) onError, done and DeleteGlobalRef; the
\* fdatasync on a change of file changes no state modelled.
BlockedPollDispatch(b) ==
  LET e == Head(batch[b])
      i == e.obj
      d == data[i]
  IN /\ pc[b] = "dispatch"
     /\ batch[b] # <<>>
     /\ Pool!putIOCB(i)
     /\ \/ /\ IsDumbWrite(i)
           /\ batch' = [batch EXCEPT ![b] = <<>>]
           /\ pollLock' = NoThread
           /\ pc' = [pc EXCEPT ![b] = "done"]
           /\ NoDelivery
        \/ /\ ~IsDumbWrite(i)
           /\ IF d # NULL THEN Deliver(d, e.res) ELSE NoDelivery
           /\ batch' = [batch EXCEPT ![b] = Tail(@)]
           /\ UNCHANGED <<pollLock, pc>>
     /\ UNCHANGED <<ring, head, tail, inflight, completions, ringUsable, data,
                    fildes, fdVars, cur, hnd, req, snap, nextHandle, harvested>>

\* The batch is done (or was empty): loop to artemis_io_getevents.
BlockedPollLoop(b) ==
  /\ pc[b] = "dispatch"
  /\ batch[b] = <<>>
  /\ pc' = [pc EXCEPT ![b] = "getevents"]
  /\ UNCHANGED <<poolVars, ring, head, tail, inflight, completions, ringUsable,
                 data, fildes, fdVars, jniFault, pollLock, cur, hnd, req, snap,
                 batch, nextHandle, ref, doneCnt, errCnt, harvested>>

(***************************************************************************)
(* poll(callbacks, min, max): no pollLock.                                 *)
(***************************************************************************)

PollStart(p) ==
  /\ pc[p] = "idle"
  /\ ContextOpen
  /\ \E mn \in PollMins, mx \in PollMaxes :
       req' = [req EXCEPT ![p] = [min |-> mn, max |-> mx]]
  /\ pc' = [pc EXCEPT ![p] = "getevents"]
  /\ UNCHANGED <<poolVars, ring, head, tail, inflight, completions, ringUsable,
                 data, fildes, fdVars, jniFault, pollLock, cur, hnd, snap,
                 batch, nextHandle, ref, doneCnt, errCnt, harvested>>

\* poll hands a data word to Java only when it is neither NULL nor -1.
PollCalls(d) == d # NULL /\ d # SENTINEL

\* One event: onError, the hand-back of the callback in callbacks[i] and
\* DeleteGlobalRef when PollCalls; the iocb goes back to the pool in
\* every case.  Java calls done on the callbacks poll returned.
PollDispatch(p) ==
  LET e == Head(batch[p])
      d == data[e.obj]
  IN /\ pc[p] = "dispatch"
     /\ batch[p] # <<>>
     /\ IF PollCalls(d) THEN Deliver(d, e.res) ELSE NoDelivery
     /\ Pool!putIOCB(e.obj)
     /\ batch' = [batch EXCEPT ![p] = Tail(@)]
     /\ UNCHANGED <<ring, head, tail, inflight, completions, ringUsable, data,
                    fildes, fdVars, pollLock, pc, cur, hnd, req, snap,
                    nextHandle, harvested>>

PollReturn(p) ==
  /\ pc[p] = "dispatch"
  /\ batch[p] = <<>>
  /\ pc' = [pc EXCEPT ![p] = "idle"]
  /\ UNCHANGED <<poolVars, ring, head, tail, inflight, completions, ringUsable,
                 data, fildes, fdVars, jniFault, pollLock, cur, hnd, req, snap,
                 batch, nextHandle, ref, doneCnt, errCnt, harvested>>

(***************************************************************************)
(* deleteContext.                                                          *)
(***************************************************************************)

\* getIOCB for the dumb write; on an exhausted pool deleteContext throws
\* and returns with the context untouched.  The caller calls it once no
\* submit or poll of its own is running.
DeleteGetIOCB ==
  /\ pc[Deleter] = "idle"
  /\ \A t \in Submitters \cup Pollers : pc[t] = "idle"
  /\ \/ \E i \in Iocbs :
          /\ Pool!getIOCB(i)
          /\ cur' = [cur EXCEPT ![Deleter] = i]
          /\ pc' = [pc EXCEPT ![Deleter] = "submitDumb"]
     \/ /\ Pool!PoolExhausted
        /\ UNCHANGED <<poolVars, cur, pc>>
  /\ UNCHANGED <<ring, head, tail, inflight, completions, ringUsable, data,
                 fildes, fdVars, jniFault, pollLock, hnd, req, snap, batch,
                 nextHandle, ref, doneCnt, errCnt, harvested>>

\* io_prep_pwrite(iocb, dumbWriteHandler, 0, 0, 0), data = (void *) -1,
\* submit; when submit fails it has put the iocb back and deleteContext
\* returns.
DeleteSubmitDumb ==
  LET i == cur[Deleter]
  IN /\ pc[Deleter] = "submitDumb"
     /\ data' = [data EXCEPT ![i] = SENTINEL]
     /\ fildes' = [fildes EXCEPT ![i] = dumbWriteHandler]
     /\ \/ /\ Ring!KernelAccept(i)
           /\ pc' = [pc EXCEPT ![Deleter] = "waitPoll"]
           /\ UNCHANGED poolVars
        \/ /\ SubmitRejected(dumbWriteHandler)
           /\ Pool!putIOCB(i)
           /\ pc' = [pc EXCEPT ![Deleter] = "idle"]
           /\ UNCHANGED inflight
     /\ cur' = [cur EXCEPT ![Deleter] = 0]
     /\ UNCHANGED <<ring, head, tail, completions, ringUsable, fdVars, jniFault,
                    pollLock, hnd, req, snap, batch, nextHandle, ref, doneCnt,
                    errCnt, harvested>>

\* pthread_mutex_lock then unlock of pollLock: passes once no blockedPoll
\* holds it; then artemis_io_getevents(0, 1) "to return any pending IOCBs".
DeleteWaitPoll ==
  /\ pc[Deleter] = "waitPoll"
  /\ pollLock = NoThread
  /\ req' = [req EXCEPT ![Deleter] = [min |-> 0, max |-> 1]]
  /\ pc' = [pc EXCEPT ![Deleter] = "getevents"]
  /\ UNCHANGED <<poolVars, ring, head, tail, inflight, completions, ringUsable,
                 data, fildes, fdVars, jniFault, pollLock, cur, hnd, snap,
                 batch, nextHandle, ref, doneCnt, errCnt, harvested>>

\* The drained events only have their iocb put back.
DeleteDrain ==
  /\ pc[Deleter] = "dispatch"
  /\ batch[Deleter] # <<>>
  /\ Pool!putIOCB(Head(batch[Deleter]).obj)
  /\ batch' = [batch EXCEPT ![Deleter] = Tail(@)]
  /\ UNCHANGED <<ring, head, tail, inflight, completions, ringUsable, data,
                 fildes, fdVars, jniFault, pollLock, pc, cur, hnd, req, snap,
                 nextHandle, ref, doneCnt, errCnt, harvested>>

\* io_queue_release, the mutexes, the pool and the control are freed.
DeleteRelease ==
  /\ pc[Deleter] = "dispatch"
  /\ batch[Deleter] = <<>>
  /\ pc' = [pc EXCEPT ![Deleter] = "destroyed"]
  /\ UNCHANGED <<poolVars, ring, head, tail, inflight, completions, ringUsable,
                 data, fildes, fdVars, jniFault, pollLock, cur, hnd, req, snap,
                 batch, nextHandle, ref, doneCnt, errCnt, harvested>>

(***************************************************************************)
(* The kernel completes an accepted request while the queue exists.        *)
(***************************************************************************)

Complete(i) ==
  /\ pc[Deleter] # "destroyed"
  /\ \E r \in Ring!Results : Ring!KernelComplete(i, data[i], r)
  /\ UNCHANGED <<poolVars, ringUsable, data, fildes, fdVars, jniFault, pollLock,
                 pc, cur, hnd, req, snap, batch, nextHandle, ref, doneCnt,
                 errCnt, harvested>>

\* Nothing is left to do once the context is gone.
Terminated ==
  /\ pc[Deleter] = "destroyed"
  /\ UNCHANGED vars

\* A reader's steps that do not depend on a fault.
ReaderProgress(t) == artemis_io_getevents(t) \/ FastCopy(t) \/ SysCall(t)

ReaderStep(t) == ReaderProgress(t) \/ SysCallError(t)

\* The process-wide steps: LibaioContext.open and the shutdown hook.
FdStep ==
  /\ \/ Fds!OpenFile \/ Fds!HookClearHandler \/ Fds!HookClose
  /\ UNCHANGED <<poolVars, ring, head, tail, inflight, completions, ringUsable,
                 data, fildes, jniFault, pollLock, pc, cur, hnd, req, snap,
                 batch, nextHandle, ref, doneCnt, errCnt, harvested>>

Next ==
  \/ \E s \in Submitters : SubmitGetIOCB(s) \/ SubmitIO(s)
  \/ \E t \in Readers : ReaderStep(t)
  \/ \E b \in BlockedPollers :
       BlockedPollLock(b) \/ BlockedPollDispatch(b) \/ BlockedPollLoop(b)
  \/ \E p \in Pollers : PollStart(p) \/ PollDispatch(p) \/ PollReturn(p)
  \/ DeleteGetIOCB \/ DeleteSubmitDumb \/ DeleteWaitPoll \/ DeleteDrain
  \/ DeleteRelease
  \/ \E i \in Iocbs : Complete(i)
  \/ FdStep
  \/ Terminated

\* Every thread that has entered a call runs on (an io_getevents error is
\* a fault, never forced); the kernel completes every accepted request; a poll thread keeps polling, and is strongly
\* fair because it is held back only while a deleteContext call (which
\* returns) is running.  Starting a submit or a deleteContext is the
\* caller's choice and is not fair.
Fairness ==
  /\ \A s \in Submitters : WF_vars(SubmitIO(s))
  /\ \A t \in Readers : WF_vars(ReaderProgress(t))
  /\ \A b \in BlockedPollers :
       WF_vars(BlockedPollLock(b) \/ BlockedPollDispatch(b) \/ BlockedPollLoop(b))
  /\ \A p \in Pollers : SF_vars(PollStart(p) \/ PollDispatch(p) \/ PollReturn(p))
  /\ WF_vars(DeleteSubmitDumb \/ DeleteWaitPoll \/ DeleteDrain \/ DeleteRelease)
  /\ \A i \in Iocbs : WF_vars(Complete(i))

Spec == Init /\ [][Next]_vars /\ Fairness

(***************************************************************************)
(* Properties.                                                             *)
(***************************************************************************)

PCs == {"idle", "submit", "getevents", "copy", "syscall", "dispatch", "done",
        "submitDumb", "waitPoll", "destroyed", "start", "failed"}

TypeOK ==
  /\ Pool!PoolTypeOK
  /\ Ring!RingTypeOK
  /\ Fds!FdsTypeOK
  /\ jniFault \in BOOLEAN
  /\ data \in [Iocbs -> Handles \cup {NULL, SENTINEL}]
  /\ pollLock \in Threads \cup {NoThread}
  /\ pc \in [Threads -> PCs]
  /\ cur \in [Threads -> Iocbs \cup {0}]
  /\ nextHandle \in 1 .. MaxSubmits + 1
  /\ ref \in [Handles -> {"none", "global", "deleted"}]

\* The events a reader still has to dispatch, and those still in the ring
\* between ring->head and ring->tail.
Unconsumed == Ring!Batch(head, Ring!Available(head, tail))

\* How many owners iocb i has: a free slot of the pool, a thread between
\* getIOCB and io_submit, the kernel, an unconsumed ring slot, a reader's
\* undispatched batch.
Owners(i) ==
    Cardinality({k \in DOMAIN Pool!FreeRegion : Pool!FreeRegion[k] = i})
  + Cardinality({t \in Threads : pc[t] \in {"submit", "submitDumb"} /\ cur[t] = i})
  + (IF i \in inflight THEN 1 ELSE 0)
  + Cardinality({k \in DOMAIN Unconsumed : Unconsumed[k].obj = i})
  + Cardinality({<<t, k>> \in Threads \X (1 .. QueueSize) :
                   k \in DOMAIN batch[t] /\ batch[t][k].obj = i})

\* An iocb is never in two places at once: getIOCB never hands out an
\* iocb that is in flight or still being harvested, and no completion is
\* put back twice.  This is what the used counter, the wrap of iocbGet and
\* iocbPut, and the once-per-event putIOCB of every harvester must give.
NoIocbAliasing == \A i \in Iocbs : Owners(i) <= 1

\* The kernel's result for callback h, when it has completed it.
Completed(h) == {k \in DOMAIN completions : completions[k].data = h}

\* Every callback hears at most once that its request is done, only after
\* the kernel completed it, with onError exactly when the result was an
\* error, and its global ref is deleted by then; a callback whose submit
\* failed hears nothing (blockedPoll, poll, submit).
CallbackOnce ==
  \A h \in Handles :
    /\ doneCnt[h] <= 1
    /\ errCnt[h] <= doneCnt[h]
    /\ doneCnt[h] = 1 =>
         /\ ref[h] = "deleted"
         /\ \E k \in Completed(h) :
              errCnt[h] = (IF completions[k].res = "err" THEN 1 ELSE 0)

\* The harvesters take events out of the ring exactly in the order the
\* kernel published them, none twice and none skipped, across the wrap of
\* ring->head at ring->nr, whether by the user-space fast path or by the
\* io_getevents syscall.
HarvestInKernelOrder ==
  /\ Len(harvested) <= Len(completions)
  /\ harvested = SubSeq(completions, 1, Len(harvested))

\* Once deleteContext has submitted the dumb write, blockedPoll sees it,
\* leaves its loop and unlocks pollLock, and deleteContext completes.
DeleteCompletes == pc[Deleter] = "waitPoll" ~> pc[Deleter] = "destroyed"

\* Every request the kernel accepted is eventually reported to its
\* callback, unless the context is destroyed first.
CompletionDelivered ==
  \A h \in Handles :
    ref[h] = "global" ~> (doneCnt[h] = 1 \/ pc[Deleter] = "destroyed")

\* The pool as the descriptor set of spec section 2: the iocbs of the free
\* region of the array are the free descriptors, used counts the taken.
AbstractPool == INSTANCE PoolSet WITH Descriptors <- Iocbs,
                  free <- Range(Pool!FreeRegion), taken <- used

\* Every getIOCB takes an iocb that is in the pool and every putIOCB
\* (blockedPoll, poll, submit's undo, deleteContext's drain) returns one
\* that is out of it: the circular array with its used counter behaves as
\* a set of free descriptors, never holding one twice or losing one.
PoolRefinement == AbstractPool!Spec

\* An event some reader still holds in its batch.
Pending(e) == \E t \in Readers : \E k \in DOMAIN batch[t] : batch[t][k] = e

\* Spec 7: a callback receives done exactly once for every harvested
\* event.  Once a harvester has taken the event of a callback out of the
\* ring and is no longer holding it, the callback has been told.
HarvestedEventDelivered ==
  \A k \in DOMAIN harvested :
    LET e == harvested[k]
    IN IsCallback(e.data) /\ ~Pending(e) => doneCnt[e.data] = 1

\* No Java method is ever invoked, and no global ref deleted, on a data
\* word that is not the live global ref of a callback: neither the dumb
\* write's (void *) -1 nor a callback already delivered (blockedPoll
\* lines 802-813, poll lines 849-859).
NoInvalidJNICall == ~jniFault

\* blockedPoll leaves its loop normally only on the dumb write of a
\* deleteContext: when it is done, the sentinel has been harvested.
SentinelOnlyStops ==
  \A b \in BlockedPollers :
    pc[b] = "done" => \E k \in DOMAIN harvested : harvested[k].data = SENTINEL

\* deleteContext frees the io_control only when no other thread is still
\* inside a call on it (spec 4.5: teardown does not proceed until the
\* poll loop has exited).
NoUseAfterDestroy ==
  pc[Deleter] = "destroyed" =>
    \A t \in Threads \ {Deleter} : pc[t] \in {"idle", "done", "failed"}

=============================================================================

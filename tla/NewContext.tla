----------------------------- MODULE NewContext -----------------------------
(***************************************************************************)
(* The life of one io_control in LibaioContext.c: newContext allocates it *)
(* step by step (the struct, the kernel queue, the iocb array and its     *)
(* members, the two mutexes, the events buffer, the global ref to the     *)
(* LibaioContext object, the direct ByteBuffer handed to Java), each step  *)
(* may fail and then rolls back what the earlier steps made; the release   *)
(* part of deleteContext frees a live context.                            *)
(*                                                                         *)
(* Several contexts of the process are created and deleted concurrently.   *)
(* They share the kernel's aio budget (fs.aio-max-nr): io_setup, called   *)
(* by io_queue_init, fails with EAGAIN once the queues of the process     *)
(* would exceed it, and io_destroy gives the queue's share back.  The     *)
(* share of a queue is abstracted to queueSize.                           *)
(*                                                                         *)
(* A mutex with the default attributes holds no resource beyond the       *)
(* struct it lives in, so pthread_mutex_init failing is a failure branch   *)
(* and pthread_mutex_destroy changes nothing.                             *)
(***************************************************************************)
EXTENDS Naturals, FiniteSets

CONSTANTS
  Contexts,          \* the LibaioContext objects that call newContext
  QueueSize,         \* the queueSize argument (positive, checked in Java)
  AioMaxNr,          \* fs.aio-max-nr, the kernel's aio budget
  MallocMayFail,     \* whether malloc may return NULL
  MutexInitMayFail,  \* whether pthread_mutex_init may return an error
  JniMayFail         \* whether NewGlobalRef / NewDirectByteBuffer may fail

ASSUME
  /\ QueueSize \in Nat \ {0} /\ AioMaxNr \in Nat
  /\ {MallocMayFail, MutexInitMayFail, JniMayFail} \subseteq BOOLEAN

VARIABLES
  step,      \* context -> where its newContext / deleteContext call is
  i,         \* context -> the loop index of the iocb member loop
  blocks,    \* context -> the blocks of its io_control that are allocated
  members,   \* context -> the i with theControl->iocb[i] allocated
  badFree,   \* ghost: a free, io_queue_release or DeleteGlobalRef of a
             \* block the context did not hold
  aioNr      \* the kernel's aio_nr: the share of the budget in use

vars == <<step, i, blocks, members, badFree, aioNr>>

\* The blocks of an io_control: the struct, the kernel queue, the iocb
\* array, the events buffer and the global ref to thisObject.
Blocks == {"control", "ioctx", "iocb", "events", "globalRef"}

Steps == {"malloc", "queue_init", "iocb_array", "iocb_member", "iocb_lock",
          "poll_lock", "events", "global_ref", "buffer", "live", "failed",
          "destroyed"}

Init ==
  /\ step = [c \in Contexts |-> "malloc"]
  /\ i = [c \in Contexts |-> 0]
  /\ blocks = [c \in Contexts |-> {}]
  /\ members = [c \in Contexts |-> {}]
  /\ badFree = FALSE
  /\ aioNr = 0

Goto(c, s) == step' = [step EXCEPT ![c] = s]

Grant(c, b) == blocks' = [blocks EXCEPT ![c] = @ \cup {b}]

\* Frees the iocb members ms and the blocks bs of context c.
Release(c, ms, bs) ==
  /\ badFree' = (badFree \/ ~(ms \subseteq members[c]) \/ ~(bs \subseteq blocks[c]))
  /\ members' = [members EXCEPT ![c] = @ \ ms]
  /\ blocks' = [blocks EXCEPT ![c] = @ \ bs]
  /\ aioNr' = IF "ioctx" \in bs \cap blocks[c] THEN aioNr - QueueSize ELSE aioNr

\* A failure path: release, throw, return NULL.
Fail(c, ms, bs) ==
  /\ Release(c, ms, bs)
  /\ Goto(c, "failed")
  /\ UNCHANGED i

\* Mutant: the member loop of iocb_destroy_members stopping one early.
iocb_destroy_membersShort(upperBound) == 0 .. upperBound - 2

\* Mutant: the member loop running up to and including upperBound.
iocb_destroy_membersPastBound(upperBound) == 0 .. upperBound

\* iocb_destroy_members: free(theControl->iocb[i]) for i < upperBound.
iocb_destroy_members(upperBound) == 0 .. upperBound - 1

\* The blocks every rollback after the iocb array was allocated frees:
\* free(theControl->iocb) (iocb_destroy_bounded), io_queue_release and
\* free(theControl).
PoolQueueControl == {"iocb", "ioctx", "control"}

(***************************************************************************)
(* newContext(queueSize)                                                  *)
(***************************************************************************)

MallocControl(c) ==
  /\ step[c] = "malloc"
  /\ \/ Grant(c, "control") /\ Goto(c, "queue_init")
     \/ MallocMayFail /\ Goto(c, "failed") /\ UNCHANGED blocks
  /\ UNCHANGED <<i, members, badFree, aioNr>>

\* io_queue_init stores NULL in theControl->ioContext before io_setup,
\* so the io_queue_release of its failure path is an io_destroy(NULL)
\* that fails with EINVAL and frees nothing.
io_queue_init(c) ==
  /\ step[c] = "queue_init"
  /\ \/ /\ aioNr + QueueSize <= AioMaxNr
        /\ Grant(c, "ioctx")
        /\ aioNr' = aioNr + QueueSize
        /\ Goto(c, "iocb_array")
        /\ UNCHANGED <<i, members, badFree>>
     \/ /\ aioNr + QueueSize > AioMaxNr
        /\ Fail(c, {}, {"control"})

MallocIocbArray(c) ==
  /\ step[c] = "iocb_array"
  /\ \/ /\ Grant(c, "iocb")
        /\ i' = [i EXCEPT ![c] = 0]
        /\ Goto(c, "iocb_member")
        /\ UNCHANGED <<members, badFree, aioNr>>
     \/ MallocMayFail /\ Fail(c, {}, {"ioctx", "control"})

\* Mutant: the loop condition i <= queueSize.
IocbLoopRunsPastEnd(k) == k <= QueueSize

\* The condition of the member loop, i < queueSize.
IocbLoopRuns(k) == k < QueueSize

\* One round of for (i = 0; i < queueSize; i++): malloc theControl->iocb[i];
\* on NULL, iocb_destroy_bounded(theControl, i).
MallocIocbMember(c) ==
  /\ step[c] = "iocb_member"
  /\ \/ /\ members' = [members EXCEPT ![c] = @ \cup {i[c]}]
        /\ i' = [i EXCEPT ![c] = @ + 1]
        /\ Goto(c, IF IocbLoopRuns(i[c] + 1) THEN "iocb_member" ELSE "iocb_lock")
        /\ UNCHANGED <<blocks, badFree, aioNr>>
     \/ MallocMayFail /\ Fail(c, iocb_destroy_members(i[c]), PoolQueueControl)

\* pthread_mutex_init of iocbLock (from "iocb_lock") and of pollLock
\* (from "poll_lock"); on an error, iocb_destroy(theControl).
pthread_mutex_init(c, from, to) ==
  /\ step[c] = from
  /\ \/ Goto(c, to) /\ UNCHANGED <<i, blocks, members, badFree, aioNr>>
     \/ MutexInitMayFail /\ Fail(c, iocb_destroy_members(QueueSize), PoolQueueControl)

MallocEvents(c) ==
  /\ step[c] = "events"
  /\ \/ Grant(c, "events") /\ Goto(c, "global_ref") /\ UNCHANGED <<i, members, badFree, aioNr>>
     \/ MallocMayFail /\ Fail(c, iocb_destroy_members(QueueSize), PoolQueueControl)

\* theControl->thisObject = NewGlobalRef(thisObject); a NULL result (out
\* of memory) is stored and not checked.
NewGlobalRef(c) ==
  /\ step[c] = "global_ref"
  /\ \/ Grant(c, "globalRef")
     \/ JniMayFail /\ UNCHANGED blocks
  /\ Goto(c, "buffer")
  /\ UNCHANGED <<i, members, badFree, aioNr>>

\* return NewDirectByteBuffer(theControl): NULL, with an OutOfMemoryError
\* pending, when the JVM cannot allocate the buffer object.
NewDirectByteBuffer(c) ==
  /\ step[c] = "buffer"
  /\ \/ Goto(c, "live")
     \/ JniMayFail /\ Goto(c, "failed")
  /\ UNCHANGED <<i, blocks, members, badFree, aioNr>>

(***************************************************************************)
(* deleteContext, after the pollLock handshake and the drain:             *)
(* io_queue_release, the mutex destroys, iocb_destroy, DeleteGlobalRef     *)
(* (a no-op on the NULL ref), free(events), free(theControl).             *)
(***************************************************************************)
DeleteContextRelease(c) ==
  /\ step[c] = "live"
  /\ Release(c, iocb_destroy_members(QueueSize),
             {"ioctx", "iocb", "events", "control"} \cup (blocks[c] \cap {"globalRef"}))
  /\ Goto(c, "destroyed")
  /\ UNCHANGED i

\* Java calls newContext again on a context whose call failed or that
\* was deleted.
Recreate(c) ==
  /\ step[c] \in {"failed", "destroyed"}
  /\ Goto(c, "malloc")
  /\ UNCHANGED <<i, blocks, members, badFree, aioNr>>

Next ==
  \E c \in Contexts :
    \/ MallocControl(c)
    \/ io_queue_init(c)
    \/ MallocIocbArray(c)
    \/ MallocIocbMember(c)
    \/ pthread_mutex_init(c, "iocb_lock", "poll_lock")
    \/ pthread_mutex_init(c, "poll_lock", "events")
    \/ MallocEvents(c)
    \/ NewGlobalRef(c)
    \/ NewDirectByteBuffer(c)
    \/ DeleteContextRelease(c)
    \/ Recreate(c)

Spec == Init /\ [][Next]_vars

(***************************************************************************)
(* Properties                                                              *)
(***************************************************************************)

TypeOK ==
  /\ step \in [Contexts -> Steps]
  /\ i \in [Contexts -> 0 .. QueueSize]
  /\ blocks \in [Contexts -> SUBSET Blocks]
  /\ members \in [Contexts -> SUBSET (0 .. QueueSize - 1)]
  /\ badFree \in BOOLEAN
  /\ aioNr \in 0 .. AioMaxNr

\* createContext returns a Context or an error, with complete rollback
\* (spec section 6): a context newContext returned holds every block and
\* every iocb member (the global ref blockedPoll and poll call Java
\* through included), and a newContext call that returned NULL, like a
\* context deleteContext released, holds nothing, whichever of
\* newContext's steps failed and however the contexts interleave.
CreateAllOrNothing ==
  \A c \in Contexts :
    /\ step[c] = "live" => blocks[c] = Blocks /\ members[c] = 0 .. QueueSize - 1
    /\ step[c] \in {"failed", "destroyed"} => blocks[c] = {} /\ members[c] = {}

\* The rollbacks of newContext and the release of deleteContext free,
\* io_queue_release and DeleteGlobalRef only what the context holds: no
\* free of an iocb member the loop never allocated, no double free.
NoDoubleFree == ~badFree
=============================================================================

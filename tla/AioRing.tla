------------------------------ MODULE AioRing ------------------------------
(***************************************************************************)
(* The kernel AIO queue of one io_context_t and the completion ring it    *)
(* shares with user space (struct aio_ring, LibaioContext.c 72-85).       *)
(*                                                                         *)
(* The kernel side (io_submit accepting a request, completing it into the *)
(* ring, and the io_getevents syscall) is outside src/ and is modelled    *)
(* from the spec's interface; the user-space reader pieces               *)
(* (Available, Batch, NewHead) translate artemis_io_getevents.            *)
(***************************************************************************)
EXTENDS Integers, Sequences, FiniteSets

CONSTANTS
  RingSize,    \* ring->nr: number of io_event slots of the ring
  Iocbs        \* the iocbs requests can be submitted with

ASSUME RingSize \in Nat \ {0, 1}

VARIABLES
  ring,        \* ring->io_events: slot -> event
  head,        \* ring->head: written by the consumer
  tail,        \* ring->tail: written by the kernel
  inflight,    \* iocbs accepted by io_submit and not completed yet
  completions  \* history: every event the kernel published, in order

ringVars == <<ring, head, tail, inflight, completions>>

RingSlots == 0 .. RingSize - 1

\* A negative io_event.res is an errno, a non-negative one a byte count.
Results == {"ok", "err"}

\* What the kernel copies into an io_event: obj is the iocb, data its
\* aio_data (the callback reference or the sentinel), res the result.
NoEvent == [obj |-> 0, data |-> 0, res |-> "ok"]

RingInit ==
  /\ ring = [k \in RingSlots |-> NoEvent]
  /\ head = 0
  /\ tail = 0
  /\ inflight = {}
  /\ completions = <<>>

(***************************************************************************)
(* User-space reader (artemis_io_getevents).                               *)
(***************************************************************************)

\* available = tail - head, plus ring_nr when a wrap has occurred.
Available(h, t) == IF t - h < 0 THEN t - h + RingSize ELSE t - h

\* Mutant: the copy loop starting one slot past head.
BatchPastHead(h, n) == [k \in 1 .. n |-> ring[(h + k) % RingSize]]

\* The copy loop: n events starting at slot h.
Batch(h, n) == [k \in 1 .. n |-> ring[(h + k - 1) % RingSize]]

\* Mutant: needMod tested with > instead of >=.
NewHeadLateWrap(h, n) == IF h + n > RingSize THEN (h + n) % RingSize ELSE h + n

\* The head after the copy loop: the loop takes % ring_nr per step only
\* when needMod says the batch crosses the end of the ring.
NewHead(h, n) == IF h + n >= RingSize THEN (h + n) % RingSize ELSE h + n

(***************************************************************************)
(* Kernel side, from the spec's interface of the kernel AIO queue.         *)
(***************************************************************************)

\* The kernel reserves a completion slot for every accepted request and
\* refuses (EAGAIN) a request it has no slot for: a ring of nr slots
\* holds at most nr - 1 events, as head = tail means empty.
KernelHasRoom == Cardinality(inflight) + Available(head, tail) < RingSize - 1

\* io_submit accepts iocb i.
KernelAccept(i) ==
  /\ KernelHasRoom
  /\ inflight' = inflight \cup {i}
  /\ UNCHANGED <<ring, head, tail, completions>>

\* The kernel completes iocb i with result r: it writes the event at
\* tail and then publishes the new tail.
KernelComplete(i, d, r) ==
  LET e == [obj |-> i, data |-> d, res |-> r]
  IN /\ i \in inflight
     /\ ring' = [ring EXCEPT ![tail] = e]
     /\ tail' = (tail + 1) % RingSize
     /\ inflight' = inflight \ {i}
     /\ completions' = Append(completions, e)
     /\ UNCHANGED head

\* The number of events io_getevents takes when asked for at most max.
SysCount(max) == IF Available(head, tail) < max THEN Available(head, tail) ELSE max

\* The io_getevents syscall: under the kernel's ring lock it waits until
\* min_nr events are there, takes SysCount(max) of them (the events
\* Batch(head, SysCount(max))) from ring->head and writes ring->head back.
SysGetEvents(minNr, max) ==
  /\ Available(head, tail) >= minNr
  /\ head' = (head + SysCount(max)) % RingSize
  /\ UNCHANGED <<ring, tail, inflight, completions>>

RingTypeOK ==
  /\ ring \in [RingSlots -> [obj : Iocbs \cup {0}, data : Int, res : Results]]
  /\ head \in RingSlots
  /\ tail \in RingSlots
  /\ inflight \subseteq Iocbs
=============================================================================

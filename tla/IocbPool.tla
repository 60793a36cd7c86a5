------------------------------ MODULE IocbPool ------------------------------
(***************************************************************************)
(* The reusable pool of iocbs kept in one io_control (LibaioContext.c):   *)
(* a circular array iocb[0..queueSize-1] with a get index, a put index    *)
(* and a `used` counter that tells "all free" from "all taken" when the   *)
(* two indices meet.  getIOCB and putIOCB run under iocbLock, so each is  *)
(* one atomic step here.  The composing module LibaioContext declares the *)
(* same variables and uses these operators through INSTANCE.              *)
(***************************************************************************)
EXTENDS Integers, FiniteSets

CONSTANT QueueSize            \* the queueSize passed to newContext

ASSUME QueueSize \in Nat \ {0}

VARIABLES
  iocb,      \* the pool array: slot -> iocb (iocbs are numbered 1..QueueSize)
  iocbPut,   \* next slot putIOCB writes
  iocbGet,   \* next slot getIOCB reads
  used       \* number of iocbs taken out of the pool

poolVars == <<iocb, iocbPut, iocbGet, used>>

Slots == 0 .. QueueSize - 1

\* The iocb structs malloc'd one by one in newContext.
Iocbs == 1 .. QueueSize

\* newContext fills the array with queueSize fresh iocbs, all free.
PoolInit ==
  /\ iocb = [k \in Slots |-> k + 1]
  /\ iocbPut = 0
  /\ iocbGet = 0
  /\ used = 0

\* An index moved one slot on, wrapping to 0 at queueSize.
Advance(k) == IF k + 1 >= QueueSize THEN 0 ELSE k + 1

\* getIOCB on an exhausted pool returns NULL and changes nothing.
PoolExhausted == ~(used < QueueSize)

\* Mutant: getIOCB without the used < queueSize test.
getIOCBUnbounded(i) ==
  /\ i = iocb[iocbGet]
  /\ used' = used + 1
  /\ iocbGet' = Advance(iocbGet)
  /\ UNCHANGED <<iocb, iocbPut>>

\* getIOCB returning iocb i.
getIOCB(i) ==
  /\ used < QueueSize
  /\ i = iocb[iocbGet]
  /\ used' = used + 1
  /\ iocbGet' = Advance(iocbGet)
  /\ UNCHANGED <<iocb, iocbPut>>

\* Mutant: putIOCB that forgets iocbPut++.
putIOCBNoAdvance(i) ==
  /\ used' = used - 1
  /\ iocb' = [iocb EXCEPT ![iocbPut] = i]
  /\ UNCHANGED <<iocbPut, iocbGet>>

\* putIOCB(i): no check of its own, it trusts the caller to return an
\* iocb it took.
putIOCB(i) ==
  /\ used' = used - 1
  /\ iocb' = [iocb EXCEPT ![iocbPut] = i]
  /\ iocbPut' = Advance(iocbPut)
  /\ UNCHANGED iocbGet

\* The free iocbs in the order getIOCB will hand them out: the queueSize
\* - used slots starting at iocbGet.
FreeRegion == [k \in 1 .. QueueSize - used |-> iocb[(iocbGet + k - 1) % QueueSize]]

PoolTypeOK ==
  /\ iocb \in [Slots -> Iocbs]
  /\ iocbPut \in Slots
  /\ iocbGet \in Slots
  /\ used \in 0 .. QueueSize
=============================================================================

----------------------------- MODULE FillBuffer -----------------------------
(***************************************************************************)
(* LibaioContext.fill and the process-wide zero buffer it writes from.     *)
(* oneMegaBuffer is allocated by the first verifyBuffer, under             *)
(* oneMegaMutex, with posix_memalign and the alignment of that call, and   *)
(* kept for the life of the library; fill(fd, alignment, size) calls       *)
(* verifyBuffer(alignment), ignores its result, and writes size bytes of   *)
(* the buffer to the file, ONE_MEGA at a time.                             *)
(*                                                                         *)
(* The buffer is abstracted to the alignment its address has: 0 for NULL,  *)
(* otherwise the largest of Alignments dividing the address.               *)
(* posix_memalign(alignment) returns an address aligned to alignment and   *)
(* perhaps, by chance of the allocator, to more: a nondeterministic        *)
(* choice.  verifyBuffer runs under oneMegaMutex and is one step; sizes,   *)
(* the block/rest split and the file contents are left out.               *)
(***************************************************************************)
EXTENDS Naturals

CONSTANTS
  Fillers,          \* the threads that call fill
  Alignments,       \* the alignments fill is called with (block sizes)
  MemalignMayFail   \* whether posix_memalign may fail (ENOMEM)

ASSUME Alignments \subseteq Nat \ {0} /\ MemalignMayFail \in BOOLEAN

VARIABLES
  oneMegaBuffer,  \* 0, or the alignment of the buffer's address
  pc,             \* filler -> "idle", "verify" or "write"
  alignment       \* filler -> the alignment argument of its fill call

vars == <<oneMegaBuffer, pc, alignment>>

\* void * oneMegaBuffer = 0, set before JNI_OnLoad.
Init ==
  /\ oneMegaBuffer = 0
  /\ pc = [t \in Fillers |-> "idle"]
  /\ alignment = [t \in Fillers |-> CHOOSE a \in Alignments : TRUE]

\* The addresses posix_memalign(&p, a, ONE_MEGA) may return, by their
\* alignment.
AlignedTo(a) == {b \in Alignments : b % a = 0}

\* fill(fd, alignment, size): the call, up to verifyBuffer.
FillStart(t) ==
  /\ pc[t] = "idle"
  /\ \E a \in Alignments : alignment' = [alignment EXCEPT ![t] = a]
  /\ pc' = [pc EXCEPT ![t] = "verify"]
  /\ UNCHANGED oneMegaBuffer

\* verifyBuffer(alignment): under oneMegaMutex, allocate and zero the
\* buffer if there is none yet; on a posix_memalign failure print, unlock
\* and return -1, which fill ignores.
verifyBuffer(t) ==
  /\ pc[t] = "verify"
  /\ \/ /\ oneMegaBuffer = 0
        /\ \/ \E b \in AlignedTo(alignment[t]) : oneMegaBuffer' = b
           \/ MemalignMayFail /\ UNCHANGED oneMegaBuffer
     \/ /\ oneMegaBuffer # 0
        /\ UNCHANGED oneMegaBuffer
  /\ pc' = [pc EXCEPT ![t] = "write"]
  /\ UNCHANGED alignment

\* lseek to 0, write(fd, oneMegaBuffer, ...) for every block and the
\* rest, lseek to 0.  A write from a NULL buffer fails with EFAULT, one
\* from a buffer not aligned for an O_DIRECT file with EINVAL; either
\* ends fill with an IOException.
FillWrite(t) ==
  /\ pc[t] = "write"
  /\ pc' = [pc EXCEPT ![t] = "idle"]
  /\ UNCHANGED <<oneMegaBuffer, alignment>>

Next == \E t \in Fillers : FillStart(t) \/ verifyBuffer(t) \/ FillWrite(t)

Spec == Init /\ [][Next]_vars

TypeOK ==
  /\ oneMegaBuffer \in Alignments \cup {0}
  /\ pc \in [Fillers -> {"idle", "verify", "write"}]
  /\ alignment \in [Fillers -> Alignments]

\* fill writes zeroes "using a shared process-wide aligned zero buffer"
\* (spec section 6): whenever a fill writes from oneMegaBuffer, the buffer
\* is aligned to the alignment that fill was called with, which an
\* O_DIRECT file needs.  verifyBuffer allocates the buffer once, with the
\* alignment of the first call.
FillBufferAligned ==
  \A t \in Fillers :
    pc[t] = "write" /\ oneMegaBuffer # 0 => oneMegaBuffer % alignment[t] = 0
=============================================================================

----------------------------- MODULE ProcessFds -----------------------------
(***************************************************************************)
(* The process-wide state of LibaioContext.c that every context shares:   *)
(* the file descriptor table, the scratch file dumbWriteHandler that      *)
(* JNI_OnLoad creates with mkstemp for the dumb writes of deleteContext,  *)
(* the journal files the Java side opens with LibaioContext.open, and     *)
(* closeDumbHandlers, run by shutdownHook (and JNI_OnUnload).             *)
(*                                                                         *)
(* The kernel gives open() and mkstemp() the lowest fd not in use.        *)
(***************************************************************************)
EXTENDS Naturals, FiniteSets

CONSTANTS
  NStd,       \* fds open when the library loads (stdin, stdout, stderr)
  MaxFiles,   \* bound: journal files LibaioContext.open may open
  HookRuns    \* whether the JVM runs shutdownHook in the behaviours checked

ASSUME NStd \in Nat \ {0} /\ MaxFiles \in Nat \ {0} /\ HookRuns \in BOOLEAN

VARIABLES
  openFds,           \* the fds open in the process
  journalFds,        \* the fds LibaioContext.open returned
  dumbWriteHandler,  \* the global int dumbWriteHandler
  hookPc             \* closeDumbHandlers: "idle", "close" or "done"

fdVars == <<openFds, journalFds, dumbWriteHandler, hookPc>>

\* The fd open() or mkstemp() returns.
LowestFreeFd ==
  LET free == {f \in 0 .. Cardinality(openFds) : f \notin openFds}
  IN CHOOSE f \in free : \A g \in free : f <= g

\* JNI_OnLoad made dumbWriteHandler = mkstemp(dumbPath) after the standard
\* fds, and the journal file the submitters use was opened after it.
FdsInit ==
  /\ dumbWriteHandler = NStd
  /\ journalFds = {NStd + 1}
  /\ openFds = 0 .. NStd + 1
  /\ hookPc = "idle"

\* LibaioContext.open: open(path, O_RDWR | O_CREAT [| O_DIRECT]).
OpenFile ==
  /\ Cardinality(journalFds) < MaxFiles
  /\ openFds' = openFds \cup {LowestFreeFd}
  /\ journalFds' = journalFds \cup {LowestFreeFd}
  /\ UNCHANGED <<dumbWriteHandler, hookPc>>

\* closeDumbHandlers, first statement: if (dumbWriteHandler != 0)
\* dumbWriteHandler = 0.
HookClearHandler ==
  /\ HookRuns
  /\ hookPc = "idle"
  /\ \/ /\ dumbWriteHandler # 0
        /\ dumbWriteHandler' = 0
        /\ hookPc' = "close"
     \/ /\ dumbWriteHandler = 0
        /\ hookPc' = "done"
        /\ UNCHANGED dumbWriteHandler
  /\ UNCHANGED <<openFds, journalFds>>

\* close(dumbWriteHandler), which now reads 0; unlink(dumbPath) removes a
\* name and changes no fd.
HookClose ==
  /\ hookPc = "close"
  /\ openFds' = openFds \ {dumbWriteHandler}
  /\ hookPc' = "done"
  /\ UNCHANGED <<journalFds, dumbWriteHandler>>

FdsTypeOK ==
  /\ openFds \subseteq Nat
  /\ journalFds \subseteq openFds
  /\ dumbWriteHandler \in Nat
  /\ hookPc \in {"idle", "close", "done"}
=============================================================================

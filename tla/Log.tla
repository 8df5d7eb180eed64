--------------------------------- MODULE Log ---------------------------------
(***************************************************************************)
(* luat_log_log and luat_log_write, port/luat_log_idf5.c: every task       *)
(* formats its line in the one static log_printf_buff and hands the buffer *)
(* to printf, without a lock.                                              *)
(*                                                                         *)
(* Two tasks of the one core log: the Lua task (priority 10) and a task    *)
(* above it (the event task, 20), which takes the core whenever it is      *)
(* ready.  External: printf, which holds the lock of stdout until the line *)
(* is out and lets a task with text wait.  Each cell of the buffer is the  *)
(* task and the call that wrote it.  A line fits in the buffer.            *)
(***************************************************************************)
EXTENDS Integers

CONSTANTS
  LineLen,   \* cells of a line of each task, a function
  BufLen,    \* LOGLOG_SIZE
  MaxCalls   \* bound: lines of each task

LogTasks == {"lua", "event"}

ASSUME LogAssumption == /\ BufLen \in Nat /\ MaxCalls \in Nat
                        /\ LineLen \in [LogTasks -> 1..BufLen]

VARIABLES
  logPc,   \* per task: idle, format or write
  logPos,  \* per task: cells formatted, or put out
  logSeq,  \* per task: lines begun
  logBuf,  \* log_printf_buff: who wrote each cell, in which of its calls
  since,   \* lines the event task had begun when the Lua task began its own
  stdout,  \* who holds the lock
  mixed    \* a line came out with text that has no business there

logVars == <<logPc, logPos, logSeq, logBuf, since, stdout, mixed>>

LogInit == /\ logPc = [t \in LogTasks |-> "idle"]
           /\ logPos = [t \in LogTasks |-> 0]
           /\ logSeq = [t \in LogTasks |-> 0]
           /\ logBuf = [i \in 1..BufLen |-> [by |-> "lua", seq |-> 0]]
           /\ since = 0 /\ stdout = "nobody" /\ mixed = FALSE

Waits(t)   == logPc[t] = "write" /\ stdout \notin {"nobody", t}
HasCore(t) == t = "event" \/ logPc["event"] = "idle" \/ Waits("event")

\* luat_log_log of a line that the level lets through.
LogBegin(t) == /\ HasCore(t) /\ logPc[t] = "idle" /\ logSeq[t] < MaxCalls
               /\ logSeq' = [logSeq EXCEPT ![t] = @ + 1]
               /\ since' = IF t = "lua" THEN logSeq["event"] ELSE since
               /\ logPc' = [logPc EXCEPT ![t] = "format"]
               /\ UNCHANGED <<logPos, logBuf, stdout, mixed>>

\* One cell further; after the last of n the task goes on to the next phase.
Advance(t, n, next) ==
  LET over == logPos[t] + 1 >= n IN
  /\ logPos' = [logPos EXCEPT ![t] = IF over THEN 0 ELSE @ + 1]
  /\ logPc' = [logPc EXCEPT ![t] = IF over THEN next ELSE @]

\* The level, the tag, the text and the newline, cell by cell.
LogFormat(t) ==
  /\ HasCore(t) /\ logPc[t] = "format"
  /\ logBuf' = [logBuf EXCEPT ![logPos[t] + 1] = [by |-> t, seq |-> logSeq[t]]]
  /\ Advance(t, LineLen[t], "write")
  /\ UNCHANGED <<logSeq, since, stdout, mixed>>

\* The length handed to luat_log_write; the first form counts one too many.
LengthPast(t) == IF LineLen[t] < BufLen THEN LineLen[t] + 1 ELSE LineLen[t]
Length(t)     == LineLen[t]

\* Text of the call itself; in a line of the Lua task also that of a call
\* which preempted it.
Belongs(c, t) == IF c.by = t THEN c.seq = logSeq[t] ELSE t = "lua" /\ c.seq > since

LogWrite(t) ==
  /\ HasCore(t) /\ logPc[t] = "write" /\ stdout \in {"nobody", t}
  /\ mixed' = (mixed \/ ~Belongs(logBuf[logPos[t] + 1], t))
  /\ stdout' = IF logPos[t] + 1 >= Length(t) THEN "nobody" ELSE t
  /\ Advance(t, Length(t), "idle")
  /\ UNCHANGED <<logSeq, logBuf, since>>

LogNext == \E t \in LogTasks : LogBegin(t) \/ LogFormat(t) \/ LogWrite(t)

LogSpec == LogInit /\ [][LogNext]_logVars

-----------------------------------------------------------------------------

\* The one line buffer of luat_log_log: the lines of the task that nobody
\* preempts come out whole, although it formats them over a line of the Lua
\* task and may wait for stdout between formatting and writing; and no line
\* shows text of a call that was over before it began.  (A line of the Lua
\* task may show text of a call that preempted it.)
LinesAreWhole == ~mixed
=============================================================================

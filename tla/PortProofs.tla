----------------------------- MODULE PortProofs -----------------------------
(***************************************************************************)
(* Proofs about the small modules of the port, for every value of their    *)
(* constants: the raw flash calls, the files and their paged listing, the  *)
(* heap of the VM, the shared line buffer of the log, the watchdog, and    *)
(* the receive path of a UART.  The services share no state: each proof is *)
(* of the service's own specification, and the composition is shown to     *)
(* implement each.                                                         *)
(***************************************************************************)
EXTENDS Services, FiniteSetTheorems, SequenceTheorems, WellFoundedInduction, TLAPS

-----------------------------------------------------------------------------
(* The script partition.                                                   *)

\* The inductive invariant: what the calls report, and the shape of the chip.
FlashInv == /\ cells \in [Cells -> Contents] /\ believed \in [Cells -> Contents]
        /\ doubt \subseteq Cells
        /\ FlashAsReported

-----------------------------------------------------------------------------
(* Lemmas about the arithmetic of a call.                                  *)

\* The clamped length is a length, wrapped or not: the address is inside.
LEMMA ClampIsNat ==
  ASSUME NEW addr \in 0..Word - 1, NEW len \in 0..Word - 1, ~Refused(addr)
  PROVE  Clamp(addr, len) \in Nat
BY FlashAssumption DEF Refused, Clamp, Wrap

\* The cells the driver works on are the cells the caller asked for, all in
\* the partition, also when it stops early.
LEMMA CoveredIsAsked ==
  ASSUME NEW addr \in 0..Word - 1, ~Refused(addr), NEW n \in Nat, NEW grain,
         Accepted(Offset(addr), n, grain), NEW k \in 0..n
  PROVE  /\ Covered(Offset(addr), k) = Asked(addr, k)
         /\ Asked(addr, k) \subseteq Partition
<1>1. addr \in Int /\ addr >= Address /\ addr + n <= Address + Size
  BY FlashAssumption DEF Refused, Accepted, Offset
<1>2. \A c \in Cells : c \in Int BY FlashAssumption DEF Cells
<1>3. Address + Offset(addr) = addr BY <1>1, FlashAssumption DEF Offset
<1>4. Covered(Offset(addr), k) = Asked(addr, k) BY <1>3 DEF Covered, Asked
<1>5. ASSUME NEW c \in Asked(addr, k) PROVE c \in Partition
  BY <1>1, <1>2, FlashAssumption DEF Asked, Partition
<1> QED BY <1>4, <1>5

LEMMA FilledShape ==
  ASSUME NEW image \in [Cells -> Contents], NEW cs \in SUBSET Cells, NEW v \in Contents
  PROVE  /\ Filled(image, cs, v) \in [Cells -> Contents]
         /\ \A c \in Cells : Filled(image, cs, v)[c] = IF c \in cs THEN v ELSE image[c]
BY DEF Filled

LEMMA PartitionOnChip == Partition \subseteq Cells
BY FlashAssumption DEF Partition, Cells

-----------------------------------------------------------------------------
(* The calls, one lemma each.                                              *)

LEMMA FlashReadStep ==
  ASSUME FlashInv, NEW addr \in 0..Word - 1, NEW len \in 0..Word - 1, FlashRead(addr, len)
  PROVE  FlashInv'
<1> DEFINE n == Clamp(addr, len)
<1>1. /\ ~Refused(addr) /\ Accepted(Offset(addr), n, 1)
      /\ got' = [c \in Asked(addr, n) |-> cells[Address + Offset(addr) + (c - addr)]]
      /\ UNCHANGED <<cells, believed, doubt>>
  BY DEF FlashRead
<1>2. n \in Nat BY <1>1, ClampIsNat
<1>3. n \in 0..n BY <1>2
<1> HIDE DEF n
<1>4. Asked(addr, n) \subseteq Partition BY <1>1, <1>2, <1>3, CoveredIsAsked
<1>5. ASSUME NEW c \in Asked(addr, n) PROVE c \in Cells /\ got'[c] = cells[c]
  <2>1. c \in Cells BY DEF Asked
  <2>2. c \in Int BY <2>1, FlashAssumption DEF Cells
  <2>3. Address + Offset(addr) + (c - addr) = c BY <2>2, FlashAssumption DEF Offset
  <2> QED BY <1>1, <2>1, <2>3
<1>6. DOMAIN got' = Asked(addr, n) BY <1>1
<1>7. \A c \in DOMAIN got' \ doubt : got'[c] = believed[c]
  BY <1>5, <1>6 DEF FlashInv, FlashAsReported
<1>8. doubt \cup DOMAIN got' \subseteq Partition
  BY <1>4, <1>6 DEF FlashInv, FlashAsReported
<1> QED BY <1>1, <1>7, <1>8 DEF FlashInv, FlashAsReported

LEMMA FlashChangeStep ==
  ASSUME FlashInv, NEW addr \in 0..Word - 1, NEW len \in 0..Word - 1,
         NEW grain, NEW v \in Contents, FlashChanges(addr, len, grain, v)
  PROVE  FlashInv'
<1> DEFINE n == Clamp(addr, len)
<1>1. ~Refused(addr) /\ Accepted(Offset(addr), n, grain) /\ got' = Nothing
  BY DEF FlashChanges
<1>2. n \in Nat BY <1>1, ClampIsNat
<1>3. \/ /\ cells' = Filled(cells, Covered(Offset(addr), n), v)
         /\ believed' = Filled(believed, Asked(addr, n), v)
         /\ doubt' = doubt \ Asked(addr, n)
      \/ \E k \in 0..n : /\ cells' = Filled(cells, Covered(Offset(addr), k), v)
                         /\ doubt' = doubt \cup Asked(addr, k)
                         /\ UNCHANGED believed
  BY DEF FlashChanges
<1> HIDE DEF n
<1>4. DOMAIN got' = {} BY <1>1 DEF Nothing
<1>5. ASSUME NEW k \in 0..n
      PROVE  /\ Covered(Offset(addr), k) = Asked(addr, k)
             /\ Asked(addr, k) \subseteq Partition /\ Asked(addr, k) \subseteq Cells
  BY <1>1, <1>2, CoveredIsAsked, PartitionOnChip
<1>6. CASE /\ cells' = Filled(cells, Covered(Offset(addr), n), v)
           /\ believed' = Filled(believed, Asked(addr, n), v)
           /\ doubt' = doubt \ Asked(addr, n)
  <2> DEFINE A == Asked(addr, n)
  <2>1. n \in 0..n BY <1>2
  <2>2. cells' = Filled(cells, A, v) /\ A \subseteq Partition /\ A \subseteq Cells
    BY <1>5, <1>6, <2>1
  <2>3. believed' = Filled(believed, A, v) /\ doubt' = doubt \ A BY <1>6
  <2> HIDE DEF A
  <2>4. /\ cells' \in [Cells -> Contents]
        /\ \A c \in Cells : cells'[c] = IF c \in A THEN v ELSE cells[c]
    BY <2>2, FilledShape DEF FlashInv
  <2>5. /\ believed' \in [Cells -> Contents]
        /\ \A c \in Cells : believed'[c] = IF c \in A THEN v ELSE believed[c]
    BY <2>2, <2>3, FilledShape DEF FlashInv
  <2>6. FlashAsReported'
    BY <1>4, <2>2, <2>3, <2>4, <2>5 DEF FlashInv, FlashAsReported
  <2> QED BY <2>3, <2>4, <2>5, <2>6 DEF FlashInv
<1>7. ASSUME NEW k \in 0..n, cells' = Filled(cells, Covered(Offset(addr), k), v),
             doubt' = doubt \cup Asked(addr, k), UNCHANGED believed
      PROVE  FlashInv'
  <2> DEFINE A == Asked(addr, k)
  <2>1. /\ cells' = Filled(cells, A, v) /\ A \subseteq Partition /\ A \subseteq Cells
        /\ doubt' = doubt \cup A
    BY <1>5, <1>7
  <2> HIDE DEF A
  <2>2. /\ cells' \in [Cells -> Contents]
        /\ \A c \in Cells : cells'[c] = IF c \in A THEN v ELSE cells[c]
    BY <2>1, FilledShape DEF FlashInv
  <2>3. FlashAsReported' BY <1>4, <1>7, <2>1, <2>2 DEF FlashInv, FlashAsReported
  <2> QED BY <1>7, <2>1, <2>2, <2>3 DEF FlashInv
<1> QED BY <1>3, <1>6, <1>7

-----------------------------------------------------------------------------

LEMMA FlashInvInit == FlashInit => FlashInv
<1> SUFFICES ASSUME FlashInit PROVE FlashInv OBVIOUS
<1>1. cells \in [Cells -> Contents] BY DEF FlashInit, Contents
<1>2. DOMAIN got = {} BY DEF FlashInit, Nothing
<1>3. FlashAsReported BY <1>2 DEF FlashInit, FlashAsReported
<1> QED BY <1>1, <1>3 DEF FlashInit, FlashInv

LEMMA FlashInvStep == FlashInv /\ [FlashNext]_flashVars => FlashInv'
<1> SUFFICES ASSUME FlashInv, [FlashNext]_flashVars PROVE FlashInv' OBVIOUS
<1>1. CASE FsInit BY <1>1 DEF FsInit, FlashInv, FlashAsReported
<1>2. ASSUME NEW addr \in 0..Word - 1, NEW len \in 0..Word - 1, NEW grain,
             FlashRefuses(addr, len, grain)
      PROVE  FlashInv'
  <2>1. DOMAIN got' = {} BY <1>2 DEF FlashRefuses, Nothing
  <2> QED BY <1>2, <2>1 DEF FlashRefuses, FlashInv, FlashAsReported
<1>3. {"data", "erased"} \subseteq Contents BY DEF Contents
<1>4. CASE UNCHANGED flashVars BY <1>4 DEF flashVars, FlashInv, FlashAsReported
<1>5. CASE FlashNext
  BY <1>1, <1>2, <1>3, <1>5, FlashReadStep, FlashChangeStep DEF FlashNext
<1> QED BY <1>4, <1>5

\* The results of the raw flash calls can be relied on, for every partition
\* and every address and length the size_t arithmetic can produce.
THEOREM ReportedIsHeld == FlashSpec => []FlashAsReported
<1>1. FlashInv => FlashAsReported BY DEF FlashInv
<1> QED BY <1>1, FlashInvInit, FlashInvStep, PTL DEF FlashSpec

-----------------------------------------------------------------------------
(* The heap of the VM.                                                     *)

HeapInv == osize \in [Objs -> Nat] /\ block \in [Objs -> Nat] /\ ObjectsBacked

LEMMA HeapInvInit == HeapInit => HeapInv
BY HeapAssumption DEF HeapInit, HeapInv, ObjectsBacked, Ram

LEMMA SetShape ==
  ASSUME NEW f \in [Objs -> Nat], NEW o \in Objs, NEW n \in Nat
  PROVE  /\ Set(f, o, n) \in [Objs -> Nat]
         /\ \A p \in Objs : Set(f, o, n)[p] = IF p = o THEN n ELSE f[p]
BY DEF Set

LEMMA HeapInvStep == HeapInv /\ [HeapNext]_heapVars => HeapInv'
<1> SUFFICES ASSUME HeapInv, [HeapNext]_heapVars PROVE HeapInv' OBVIOUS
<1>1. CASE HeapOpen
  BY <1>1 DEF HeapOpen, HeapInv, ObjectsBacked
<1>2. ASSUME NEW o \in Objs, Free(o) PROVE HeapInv'
  <2>1. /\ osize' = Set(osize, o, 0) /\ UNCHANGED <<pool, panicked>>
        /\ block' = IF InRange(o) THEN Set(block, o, 0) ELSE block
    BY <1>2 DEF Free
  <2>2. /\ osize' \in [Objs -> Nat]
        /\ \A p \in Objs : osize'[p] = IF p = o THEN 0 ELSE osize[p]
    BY <2>1, SetShape DEF HeapInv
  <2>3. InRange(o) <=> o \in Ram BY DEF InRange
  <2>4. /\ block' \in [Objs -> Nat]
        /\ \A p \in Objs : block'[p] = IF p = o /\ o \in Ram THEN 0 ELSE block[p]
    <3>1. CASE o \in Ram
      <4>1. block' = Set(block, o, 0) /\ block \in [Objs -> Nat] BY <2>1, <2>3, <3>1 DEF HeapInv
      <4> QED BY <3>1, <4>1, SetShape
    <3>2. CASE o \notin Ram BY <2>1, <2>3, <3>2 DEF HeapInv
    <3> QED BY <3>1, <3>2
  <2>5. RomObjs \subseteq Objs /\ Ram = Objs \ RomObjs BY HeapAssumption DEF Ram
  <2>6. ObjectsBacked' BY <2>1, <2>2, <2>4, <2>5 DEF HeapInv, ObjectsBacked
  <2> QED BY <2>1, <2>2, <2>4, <2>6 DEF HeapInv
<1>3. ASSUME NEW o \in Ram, NEW n \in 1..PoolSize, UNCHANGED <<pool, panicked>>,
             osize' = Set(osize, o, n), block' = Set(block, o, n)
      PROVE  HeapInv'
  <2>1. o \in Objs /\ o \notin RomObjs /\ n \in Nat /\ n > 0 /\ RomObjs \subseteq Objs
    BY HeapAssumption DEF Ram
  <2>2. osize \in [Objs -> Nat] /\ block \in [Objs -> Nat] BY DEF HeapInv
  <2>3. /\ osize' \in [Objs -> Nat]
        /\ \A p \in Objs : osize'[p] = IF p = o THEN n ELSE osize[p]
    BY <1>3, <2>1, <2>2, SetShape
  <2>4. /\ block' \in [Objs -> Nat]
        /\ \A p \in Objs : block'[p] = IF p = o THEN n ELSE block[p]
    <3>1. block' = Set(block, o, n) BY <1>3
    <3> QED BY ONLY <2>1, <2>2, <3>1 DEF Set
  <2>5. ObjectsBacked' BY <1>3, <2>1, <2>2, <2>3, <2>4 DEF HeapInv, ObjectsBacked, Ram
  <2> QED BY <1>3, <2>3, <2>4, <2>5 DEF HeapInv
<1>4. ASSUME NEW o \in Objs, NEW n \in 1..PoolSize, ReallocFails(o, n) PROVE HeapInv'
  <2>1. /\ n \in Nat /\ n > 0 /\ osize[o] \in Nat /\ o \in Ram /\ RomObjs \subseteq Objs
        /\ osize \in [Objs -> Nat] /\ block \in [Objs -> Nat]
    BY <1>4, HeapAssumption DEF HeapInv, ReallocFails
  <2>2. /\ UNCHANGED <<pool, block>>
        /\ osize' = IF n <= osize[o] THEN Set(osize, o, n) ELSE osize
        /\ ~panicked'
    <3>1. Kept(o, n) <=> n <= osize[o] BY <2>1 DEF Kept
    <3>2. ~panicked /\ panicked' = (panicked \/ (n <= osize[o] /\ ~Kept(o, n)))
      BY <1>4 DEF ReallocFails, HeapInv, ObjectsBacked
    <3> QED BY <1>4, <3>1, <3>2 DEF ReallocFails
  <2>3. /\ osize' \in [Objs -> Nat]
        /\ \A p \in Objs : osize'[p] = IF p = o /\ n <= osize[o] THEN n ELSE osize[p]
    <3>1. CASE n <= osize[o] BY ONLY <2>1, <2>2, <3>1 DEF Set
    <3>2. CASE ~(n <= osize[o]) BY <2>1, <2>2, <3>2
    <3> QED BY <3>1, <3>2
  <2>4. ObjectsBacked' BY <2>1, <2>2, <2>3 DEF HeapInv, ObjectsBacked, Ram
  <2> QED BY <2>1, <2>2, <2>3, <2>4 DEF HeapInv
<1>5. ASSUME NEW o \in Objs, NEW n \in 1..PoolSize, Alloc(o, n) PROVE HeapInv'
  <2>1. CASE osize' = Set(osize, o, n) /\ block' = Set(block, o, n)
    BY <1>3, <1>5, <2>1 DEF Alloc
  <2>2. CASE UNCHANGED <<osize, block>>
    BY <1>5, <2>2 DEF Alloc, HeapInv, ObjectsBacked
  <2> QED BY <1>5, <2>1, <2>2 DEF Alloc
<1>6. ASSUME NEW o \in Objs, NEW n \in 1..PoolSize, ReallocWorks(o, n) PROVE HeapInv'
  BY <1>3, <1>6 DEF ReallocWorks
<1>7. CASE UNCHANGED heapVars
  BY <1>7 DEF heapVars, HeapInv, ObjectsBacked
<1> QED BY <1>1, <1>2, <1>4, <1>5, <1>6, <1>7 DEF HeapNext

\* The VM may rely on luat_heap_alloc as lua_Alloc asks: whatever bget refuses,
\* for any set of objects in the mapped script.
THEOREM ObjectsAreBacked == HeapSpec => []ObjectsBacked
<1>1. HeapInv => ObjectsBacked BY DEF HeapInv
<1> QED BY <1>1, HeapInvInit, HeapInvStep, PTL DEF HeapSpec

-----------------------------------------------------------------------------
(* The line buffer of the log.                                             *)

\* The bookkeeping of the two tasks: only a task that writes holds stdout, and
\* a line of the event task that preempts one of the Lua task is newer than
\* the mark the Lua task took.
LogShape ==
  /\ logPc \in [LogTasks -> {"idle", "format", "write"}]
  /\ logPos \in [LogTasks -> Nat] /\ logSeq \in [LogTasks -> Nat] /\ since \in Nat
  /\ logBuf \in [1..BufLen -> [by : LogTasks, seq : Nat]]
  /\ stdout \in LogTasks \cup {"nobody"}
  /\ \A t \in LogTasks : /\ stdout = t => logPc[t] = "write"
                         /\ logPc[t] = "idle" => logPos[t] = 0
                         /\ logPc[t] # "idle" => logPos[t] < LineLen[t]
  /\ logPc["lua"] # "idle" =>
       /\ since <= logSeq["event"]
       /\ logPc["event"] # "idle" => since < logSeq["event"]

\* What a task has formatted belongs to its line until it is out.
FormattedBelongs == \A t \in LogTasks :
  /\ logPc[t] = "format" => \A i \in 1..logPos[t] : Belongs(logBuf[i], t)
  /\ logPc[t] = "write"  => \A i \in 1..LineLen[t] : Belongs(logBuf[i], t)

LogInv == LogShape /\ FormattedBelongs /\ ~mixed

LEMMA LineFits == \A t \in LogTasks : LineLen[t] \in Nat /\ 1 <= LineLen[t] /\ LineLen[t] <= BufLen
BY LogAssumption

LEMMA LogInvInit == LogInit => LogInv
BY LineFits, LogAssumption
   DEF LogInit, LogInv, LogShape, FormattedBelongs, LogTasks

LEMMA AdvanceShape ==
  ASSUME LogShape, NEW t \in LogTasks, NEW n \in Nat, NEW next \in {"idle", "write"},
         Advance(t, n, next)
  PROVE  LET over == logPos[t] + 1 >= n IN
         /\ logPos' \in [LogTasks -> Nat]
         /\ logPc' \in [LogTasks -> {"idle", "format", "write"}]
         /\ \A u \in LogTasks : /\ logPos'[u] = IF u # t THEN logPos[u]
                                                ELSE IF over THEN 0 ELSE logPos[u] + 1
                                /\ logPc'[u] = IF u = t /\ over THEN next ELSE logPc[u]
<1>1. /\ logPos \in [LogTasks -> Nat]
      /\ logPc \in [LogTasks -> {"idle", "format", "write"}]
  BY DEF LogShape
<1> QED BY <1>1 DEF Advance

LEMMA LogBeginStep == ASSUME LogInv, NEW t \in LogTasks, LogBegin(t) PROVE LogInv'
<1>1. /\ logPc[t] = "idle" /\ logPos[t] = 0 /\ UNCHANGED <<logPos, logBuf, stdout, mixed>>
      /\ since' = IF t = "lua" THEN logSeq["event"] ELSE since
      /\ t = "lua" => logPc["event"] = "idle"
  BY DEF LogBegin, HasCore, Waits, LogInv, LogShape, LogTasks
<1>2. /\ logSeq' \in [LogTasks -> Nat]
      /\ \A u \in LogTasks : logSeq'[u] = IF u = t THEN logSeq[u] + 1 ELSE logSeq[u]
  BY DEF LogBegin, LogInv, LogShape
<1>3. /\ logPc' \in [LogTasks -> {"idle", "format", "write"}]
      /\ \A u \in LogTasks : logPc'[u] = IF u = t THEN "format" ELSE logPc[u]
  BY DEF LogBegin, LogInv, LogShape
<1>4. LogShape'
  <2>1. since' \in Nat BY <1>1 DEF LogInv, LogShape, LogTasks
  <2>2. \A u \in LogTasks : /\ stdout' = u => logPc'[u] = "write"
                            /\ logPc'[u] = "idle" => logPos'[u] = 0
                            /\ logPc'[u] # "idle" => logPos'[u] < LineLen[u]
    BY <1>1, <1>3, LineFits DEF LogInv, LogShape
  <2>3. logPc'["lua"] # "idle" =>
          /\ since' <= logSeq'["event"]
          /\ logPc'["event"] # "idle" => since' < logSeq'["event"]
    BY <1>1, <1>2, <1>3 DEF LogInv, LogShape, LogTasks
  <2> QED BY <1>1, <1>2, <1>3, <2>1, <2>2, <2>3 DEF LogInv, LogShape
<1>5. FormattedBelongs'
  <2> SUFFICES ASSUME NEW u \in LogTasks
               PROVE  /\ logPc'[u] = "format" => \A i \in 1..logPos'[u] : Belongs(logBuf[i], u)'
                      /\ logPc'[u] = "write"  => \A i \in 1..LineLen[u] : Belongs(logBuf[i], u)'
    BY DEF FormattedBelongs
  <2>1. CASE u = t BY <1>1, <1>3, <2>1
  <2>2. CASE u # t
    <3>1. logSeq'[u] = logSeq[u] /\ logPc'[u] = logPc[u] /\ logPos'[u] = logPos[u]
      BY <1>1, <1>2, <1>3, <2>2
    <3>2. u = "lua" => since' = since BY <1>1, <2>2
    <3>3. \A i : Belongs(logBuf[i], u) => Belongs(logBuf[i], u)'
      BY <1>1, <3>1, <3>2 DEF Belongs
    <3> QED BY <3>1, <3>3 DEF LogInv, FormattedBelongs
  <2> QED BY <2>1, <2>2
<1> QED BY <1>1, <1>4, <1>5 DEF LogInv

LEMMA LogFormatStep == ASSUME LogInv, NEW t \in LogTasks, LogFormat(t) PROVE LogInv'
<1> DEFINE cell == [by |-> t, seq |-> logSeq[t]]
           over == logPos[t] + 1 >= LineLen[t]
<1>1. /\ logPc[t] = "format" /\ UNCHANGED <<logSeq, since, stdout, mixed>>
      /\ logPos[t] \in Nat /\ logPos[t] + 1 \in 1..LineLen[t] /\ logPos[t] + 1 \in 1..BufLen
  <2>1. logPc[t] = "format" /\ UNCHANGED <<logSeq, since, stdout, mixed>> BY DEF LogFormat
  <2>2. logPos[t] \in Nat /\ logPos[t] < LineLen[t] BY <2>1 DEF LogInv, LogShape
  <2>3. LineLen[t] \in Nat /\ LineLen[t] <= BufLen /\ BufLen \in Nat BY LineFits, LogAssumption
  <2> QED BY <2>1, <2>2, <2>3
<1>2. /\ logBuf' \in [1..BufLen -> [by : LogTasks, seq : Nat]]
      /\ \A i \in 1..BufLen : logBuf'[i] = IF i = logPos[t] + 1 THEN cell ELSE logBuf[i]
  <2>1. cell \in [by : LogTasks, seq : Nat] BY DEF LogInv, LogShape
  <2>2. logBuf' = [logBuf EXCEPT ![logPos[t] + 1] = cell] BY DEF LogFormat
  <2> HIDE DEF cell
  <2> QED BY <1>1, <2>1, <2>2 DEF LogInv, LogShape
<1>3. /\ logPos' \in [LogTasks -> Nat]
      /\ logPc' \in [LogTasks -> {"idle", "format", "write"}]
      /\ \A u \in LogTasks : /\ logPos'[u] = IF u # t THEN logPos[u]
                                             ELSE IF over THEN 0 ELSE logPos[u] + 1
                             /\ logPc'[u] = IF u = t /\ over THEN "write" ELSE logPc[u]
  <2>1. LineLen[t] \in Nat /\ LogShape BY LineFits DEF LogInv
  <2>2. Advance(t, LineLen[t], "write") BY DEF LogFormat
  <2> QED BY <2>1, <2>2, AdvanceShape
\* The cell just written belongs to its own line, and to a line of the Lua
\* task that the event task preempted.
<1>4. Belongs(cell, t) /\ (t = "event" /\ logPc["lua"] # "idle" => Belongs(cell, "lua"))
  <2>1. t = "event" /\ logPc["lua"] # "idle" => cell.seq > since
    BY <1>1 DEF LogInv, LogShape, LogTasks
  <2> QED BY <2>1 DEF Belongs
\* While the event task has text of its own the Lua task does not format.
<1>5. t = "lua" => logPc["event"] = "idle"
  BY <1>1 DEF LogFormat, HasCore, Waits, LogInv, LogShape, LogTasks
<1>7. \A i, u : Belongs(logBuf[i], u)' <=> Belongs(logBuf'[i], u)
  BY <1>1 DEF Belongs
<1> HIDE DEF cell
<1>8. ASSUME NEW u \in LogTasks, logPc[u] # "idle", NEW i \in 1..LineLen[u],
             i # logPos[t] + 1 => Belongs(logBuf[i], u)
      PROVE  Belongs(logBuf[i], u)'
  <2>1. i \in 1..BufLen BY LineFits, LogAssumption
  <2>2. CASE i # logPos[t] + 1 BY <1>2, <1>7, <1>8, <2>1, <2>2
  <2>3. CASE i = logPos[t] + 1
    <3>1. logBuf'[i] = cell BY <1>2, <2>1, <2>3
    <3>2. u = t \/ (t = "event" /\ u = "lua") BY <1>5, <1>8 DEF LogTasks
    <3> QED BY <1>4, <1>7, <1>8, <3>1, <3>2
  <2> QED BY <2>2, <2>3
<1>9. FormattedBelongs'
  <2> SUFFICES ASSUME NEW u \in LogTasks
               PROVE  /\ logPc'[u] = "format" => \A i \in 1..logPos'[u] : Belongs(logBuf[i], u)'
                      /\ logPc'[u] = "write"  => \A i \in 1..LineLen[u] : Belongs(logBuf[i], u)'
    BY DEF FormattedBelongs
  <2>1. LineLen[u] \in Nat /\ logPos[u] \in Nat BY LineFits DEF LogInv, LogShape
  <2>2. CASE u = t
    <3>1. \A i \in 1..logPos[t] : Belongs(logBuf[i], t) BY <1>1 DEF LogInv, FormattedBelongs
    <3>2. \A i \in 1..logPos[t] + 1 : i \in 1..LineLen[t] /\ (i # logPos[t] + 1 => i \in 1..logPos[t])
      BY <1>1, <2>1, <2>2
    <3>3. \A i \in 1..logPos[t] + 1 : Belongs(logBuf[i], t)' BY <1>1, <1>8, <3>1, <3>2
    <3>4. CASE over
      <4>1. LineLen[t] = logPos[t] + 1 BY <1>1, <2>1, <2>2, <3>4
      <4> QED BY <1>3, <2>2, <3>3, <3>4, <4>1
    <3>5. CASE ~over BY <1>1, <1>3, <2>2, <3>3, <3>5
    <3> QED BY <3>4, <3>5
  <2>3. CASE u # t
    <3>1. logPc'[u] = logPc[u] /\ logPos'[u] = logPos[u] BY <1>3, <2>3
    <3>2. ASSUME logPc[u] = "format", NEW i \in 1..logPos[u] PROVE Belongs(logBuf[i], u)'
      <4>1. i \in 1..LineLen[u] BY <2>1, <3>2 DEF LogInv, LogShape
      <4>2. Belongs(logBuf[i], u) BY <3>2 DEF LogInv, FormattedBelongs
      <4> QED BY <1>8, <3>2, <4>1, <4>2
    <3>3. ASSUME logPc[u] = "write", NEW i \in 1..LineLen[u] PROVE Belongs(logBuf[i], u)'
      <4>1. Belongs(logBuf[i], u) BY <3>3 DEF LogInv, FormattedBelongs
      <4> QED BY <1>8, <3>3, <4>1
    <3> QED BY <3>1, <3>2, <3>3
  <2> QED BY <2>2, <2>3
<1>10. \A u \in LogTasks : /\ stdout' = u => logPc'[u] = "write"
                           /\ logPc'[u] = "idle" => logPos'[u] = 0
                           /\ logPc'[u] # "idle" => logPos'[u] < LineLen[u]
  <2> SUFFICES ASSUME NEW u \in LogTasks
               PROVE  /\ stdout' = u => logPc'[u] = "write"
                      /\ logPc'[u] = "idle" => logPos'[u] = 0
                      /\ logPc'[u] # "idle" => logPos'[u] < LineLen[u]
    OBVIOUS
  <2>1. LineLen[u] \in Nat /\ 1 <= LineLen[u] /\ logPos[u] \in Nat BY LineFits DEF LogInv, LogShape
  <2>2. CASE u = t BY <1>1, <1>3, <2>1, <2>2 DEF LogInv, LogShape
  <2>3. CASE u # t BY <1>1, <1>3, <2>3 DEF LogInv, LogShape
  <2> QED BY <2>2, <2>3
<1>11. logPc'["lua"] # "idle" => /\ since' <= logSeq'["event"]
                                 /\ logPc'["event"] # "idle" => since' < logSeq'["event"]
  BY <1>1, <1>3 DEF LogInv, LogShape, LogTasks
<1> QED BY <1>1, <1>2, <1>3, <1>9, <1>10, <1>11 DEF LogInv, LogShape

LEMMA LogWriteStep == ASSUME LogInv, NEW t \in LogTasks, LogWrite(t) PROVE LogInv'
<1> DEFINE over == logPos[t] + 1 >= LineLen[t]
<1>1. /\ logPc[t] = "write" /\ UNCHANGED <<logSeq, logBuf, since>>
      /\ logPos[t] + 1 \in 1..LineLen[t]
      /\ stdout' = IF over THEN "nobody" ELSE t
  BY LineFits DEF LogWrite, Length, LogInv, LogShape
<1>2. ~mixed'
  <2>1. Belongs(logBuf[logPos[t] + 1], t) BY <1>1 DEF LogInv, FormattedBelongs
  <2> QED BY <2>1 DEF LogWrite, LogInv
<1>3. /\ logPos' \in [LogTasks -> Nat]
      /\ logPc' \in [LogTasks -> {"idle", "format", "write"}]
      /\ \A u \in LogTasks : /\ logPos'[u] = IF u # t THEN logPos[u]
                                             ELSE IF over THEN 0 ELSE logPos[u] + 1
                             /\ logPc'[u] = IF u = t /\ over THEN "idle" ELSE logPc[u]
  <2>1. LineLen[t] \in Nat /\ LogShape BY LineFits DEF LogInv
  <2>2. Advance(t, LineLen[t], "idle") BY DEF LogWrite, Length
  <2> QED BY <2>1, <2>2, AdvanceShape
<1>4. \A i, u : Belongs(logBuf[i], u)' <=> Belongs(logBuf[i], u) BY <1>1 DEF Belongs
<1>5. FormattedBelongs' BY <1>1, <1>3, <1>4 DEF LogInv, FormattedBelongs
<1>6. stdout \in {"nobody", t} BY DEF LogWrite
<1>7. \A u \in LogTasks : /\ stdout' = u => logPc'[u] = "write"
                          /\ logPc'[u] = "idle" => logPos'[u] = 0
                          /\ logPc'[u] # "idle" => logPos'[u] < LineLen[u]
  <2> SUFFICES ASSUME NEW u \in LogTasks
               PROVE  /\ stdout' = u => logPc'[u] = "write"
                      /\ logPc'[u] = "idle" => logPos'[u] = 0
                      /\ logPc'[u] # "idle" => logPos'[u] < LineLen[u]
    OBVIOUS
  <2>1. LineLen[u] \in Nat /\ 1 <= LineLen[u] /\ logPos[u] \in Nat BY LineFits DEF LogInv, LogShape
  <2>2. stdout' = u => u = t /\ ~over BY <1>1 DEF LogTasks
  <2>3. CASE u = t BY <1>1, <1>3, <2>1, <2>2, <2>3 DEF LogInv, LogShape
  <2>4. CASE u # t BY <1>1, <1>3, <2>2, <2>4 DEF LogInv, LogShape
  <2> QED BY <2>3, <2>4
<1>8. stdout' \in LogTasks \cup {"nobody"} BY <1>1
<1>9. logPc'["lua"] # "idle" => /\ since' <= logSeq'["event"]
                                /\ logPc'["event"] # "idle" => since' < logSeq'["event"]
  BY <1>1, <1>3 DEF LogInv, LogShape, LogTasks
<1> QED BY <1>1, <1>2, <1>3, <1>5, <1>7, <1>8, <1>9 DEF LogInv, LogShape

LEMMA LogInvStep == LogInv /\ [LogNext]_logVars => LogInv'
<1> SUFFICES ASSUME LogInv, [LogNext]_logVars PROVE LogInv' OBVIOUS
<1>1. CASE LogNext BY <1>1, LogBeginStep, LogFormatStep, LogWriteStep DEF LogNext
<1>2. CASE UNCHANGED logVars
  BY <1>2 DEF logVars, LogInv, LogShape, FormattedBelongs, Belongs
<1> QED BY <1>1, <1>2

\* Whatever the lengths of the lines, the buffer and the number of calls: a
\* task nobody preempts puts out its own line, and no line shows text of a
\* call that was over before it began.
THEOREM LinesComeOutWhole == LogSpec => []LinesAreWhole
<1>1. LogInv => LinesAreWhole BY DEF LogInv, LinesAreWhole
<1> QED BY <1>1, LogInvInit, LogInvStep, PTL DEF LogSpec

-----------------------------------------------------------------------------
(* The receive path of a UART.                                             *)

UartShape ==
  /\ missed \in {0, 1} /\ recv \in {0, 1} /\ announced \in BOOLEAN
  /\ xQueue \in Seq(BOOLEAN) /\ bus \in Seq({"uart", "other"})
  /\ irq \in {"wait", "put", "reset"}
  /\ ~installed => ~announced /\ fifo = 0

\* Why xQueueReset may throw events away: the message that answers for their
\* data was put before, and the Lua task cannot have served it yet.
MessageIsOut ==
  irq = "reset" /\ missed = 0 => Somewhere("uart", bus) \/ lua = "callback"

UartInv == UartShape /\ MessageIsOut /\ NoLostWakeup

LEMMA UartInvInit == UartInit => UartInv
<1> SUFFICES ASSUME UartInit PROVE UartInv OBVIOUS
<1>1. announced \in BOOLEAN /\ ~announced BY Zenon DEF UartInit
<1>2. UartShape /\ MessageIsOut BY <1>1 DEF UartInit, UartShape, MessageIsOut
<1>3. NoLostWakeup BY <1>1, Zenon DEF NoLostWakeup
<1> QED BY <1>2, <1>3 DEF UartInv

\* What is somewhere in a queue stays there when something is appended, and
\* when something else is taken from its head.
LEMMA SomewhereAppend ==
  ASSUME NEW S, NEW q \in Seq(S), NEW m \in S
  PROVE  /\ Append(q, m) \in Seq(S) /\ Somewhere(m, Append(q, m))
         /\ \A x : Somewhere(x, q) => Somewhere(x, Append(q, m))
<1>1. /\ Append(q, m) \in Seq(S) /\ Len(Append(q, m)) = Len(q) + 1 /\ Len(q) \in Nat
      /\ \A i \in 1..Len(q) : Append(q, m)[i] = q[i]
      /\ Append(q, m)[Len(q) + 1] = m
  BY AppendProperties, LenProperties
<1>2. \A i \in 1..Len(q) : i \in 1..Len(q) + 1 BY <1>1
<1>3. Len(q) + 1 \in 1..Len(q) + 1 BY <1>1
<1> QED BY <1>1, <1>2, <1>3 DEF Somewhere

LEMMA SomewhereTail ==
  ASSUME NEW S, NEW q \in Seq(S), q # << >>
  PROVE  /\ Head(q) \in S /\ Tail(q) \in Seq(S)
         /\ \A x : Somewhere(x, q) /\ Head(q) # x => Somewhere(x, Tail(q))
<1>1. /\ Head(q) \in S /\ Tail(q) \in Seq(S) /\ Len(q) \in Nat /\ Len(Tail(q)) = Len(q) - 1
      /\ \A i \in 1..Len(Tail(q)) : Tail(q)[i] = q[i + 1]
      /\ Head(q) = q[1]
  BY HeadTailProperties, LenProperties
<1>2. ASSUME NEW x, NEW i \in 1..Len(q), q[i] = x, Head(q) # x
      PROVE  Somewhere(x, Tail(q))
  <2>1. i # 1 BY <1>1, <1>2
  <2>2. i - 1 \in 1..Len(Tail(q)) /\ (i - 1) + 1 = i BY <1>1, <2>1
  <2>3. Tail(q)[i - 1] = x BY <1>1, <1>2, <2>2
  <2> QED BY <2>2, <2>3 DEF Somewhere
<1> QED BY <1>1, <1>2 DEF Somewhere

LEMMA BusPutKeeps ==
  ASSUME NEW q \in Seq({"uart", "other"}), NEW m \in {"uart", "other"}
  PROVE  /\ BusPut(q, m) \in Seq({"uart", "other"})
         /\ \A x : Somewhere(x, q) => Somewhere(x, BusPut(q, m))
         /\ ~BusFull(q) => Somewhere(m, BusPut(q, m))
BY SomewhereAppend DEF BusPut

\* An event that finds a slot is in the queue, and none there is lost.
LEMMA QueuedShape ==
  ASSUME UartInv, NEW flag \in BOOLEAN, Queued(flag)
  PROVE  /\ xQueue' \in Seq(BOOLEAN)
         /\ Somewhere(TRUE, xQueue) => Somewhere(TRUE, xQueue)'
         /\ flag /\ ~(Len(xQueue) >= QueueSize) => Somewhere(TRUE, xQueue)'
<1>1. xQueue \in Seq(BOOLEAN) /\ Len(xQueue) \in Nat /\ QueueSize \in Nat
  BY LenProperties, UartAssumption DEF UartInv, UartShape
<1>2. /\ Append(xQueue, flag) \in Seq(BOOLEAN) /\ Somewhere(flag, Append(xQueue, flag))
      /\ \A x : Somewhere(x, xQueue) => Somewhere(x, Append(xQueue, flag))
  BY <1>1, SomewhereAppend
<1>3. CASE Len(xQueue) < QueueSize
  <2>1. xQueue' = Append(xQueue, flag) BY <1>3 DEF Queued
  <2>2. Somewhere(TRUE, xQueue)' <=> Somewhere(TRUE, Append(xQueue, flag)) BY <2>1 DEF Somewhere
  <2>3. flag => flag = TRUE BY Zenon
  <2> QED BY <1>2, <2>1, <2>2, <2>3
<1>4. CASE ~(Len(xQueue) < QueueSize)
  <2>1. xQueue' = xQueue BY <1>4 DEF Queued
  <2>2. Somewhere(TRUE, xQueue)' <=> Somewhere(TRUE, xQueue) BY <2>1 DEF Somewhere
  <2>3. Len(xQueue) >= QueueSize BY <1>1, <1>4
  <2> QED BY <1>1, <2>1, <2>2, <2>3
<1> QED BY <1>3, <1>4

LEMMA IsrStep == ASSUME UartInv, Isr PROVE UartInv'
<1>1. PICK flag \in BOOLEAN :
        /\ stash = 0 /\ fifo >= (IF flag THEN 1 ELSE Threshold)
        /\ fifo' = 0 /\ Queued(flag)
        /\ announced' = (announced \/ flag)
        /\ missed' = IF flag /\ Len(xQueue) >= QueueSize THEN 1 ELSE missed
        /\ UNCHANGED <<installed, irq, recv, bus, lua>>
  BY DEF Isr
<1>2. installed
  <2>1. fifo # 0 BY <1>1, UartAssumption
  <2> QED BY <2>1 DEF UartInv, UartShape
<1>3. /\ xQueue' \in Seq(BOOLEAN)
      /\ Somewhere(TRUE, xQueue) => Somewhere(TRUE, xQueue)'
      /\ flag /\ ~(Len(xQueue) >= QueueSize) => Somewhere(TRUE, xQueue)'
  BY <1>1, QueuedShape
<1>4. UartShape'
  <2>1. announced' \in BOOLEAN BY <1>1 DEF UartInv, UartShape
  <2>2. missed' \in {0, 1} BY <1>1 DEF UartInv, UartShape
  <2> QED BY <1>1, <1>2, <1>3, <2>1, <2>2 DEF UartInv, UartShape
<1>5. Somewhere("uart", bus)' <=> Somewhere("uart", bus) BY <1>1 DEF Somewhere
<1>6. missed' = 0 => missed = 0 BY <1>1, 1 # 0
<1>7. MessageIsOut' BY <1>1, <1>5, <1>6 DEF UartInv, MessageIsOut
<1>8. NoLostWakeup'
  <2> SUFFICES ASSUME announced', missed' = 0
               PROVE  \/ Somewhere(TRUE, xQueue)' \/ irq' = "put"
                      \/ Somewhere("uart", bus)' \/ lua' = "callback"
    BY DEF NoLostWakeup
  <2>1. CASE flag
    <3>1. ~(Len(xQueue) >= QueueSize)
      <4>1. 1 # 0 OBVIOUS
      <4> QED BY <1>1, <2>1, <4>1, Zenon
    <3> QED BY <1>3, <2>1, <3>1
  <2>2. CASE ~flag
    <3>1. announced BY <1>1, <2>2, Zenon
    <3> QED BY <1>1, <1>3, <1>5, <1>6, <3>1 DEF UartInv, NoLostWakeup
  <2> QED BY <2>1, <2>2
<1> QED BY <1>4, <1>7, <1>8 DEF UartInv

LEMMA OverflowStep == ASSUME UartInv, Overflow PROVE UartInv'
<1>1. PICK flag \in BOOLEAN :
        /\ Queued(flag) /\ fifo' = 0
        /\ UNCHANGED <<installed, irq, recv, bus, lua, announced, missed>>
  BY DEF Overflow
<1>2. xQueue' \in Seq(BOOLEAN) /\ (Somewhere(TRUE, xQueue) => Somewhere(TRUE, xQueue)')
  BY <1>1, QueuedShape
<1>3. Somewhere("uart", bus)' <=> Somewhere("uart", bus) BY <1>1 DEF Somewhere
<1> QED BY <1>1, <1>2, <1>3 DEF UartInv, UartShape, MessageIsOut, NoLostWakeup

LEMMA IrqStep == ASSUME UartInv, IrqTask PROVE UartInv'
<1>1. CASE Take
  <2>1. /\ irq = "wait" /\ xQueue # << >> /\ xQueue' = Tail(xQueue)
        /\ irq' = IF Head(xQueue) THEN "put" ELSE "wait"
        /\ UNCHANGED <<installed, fifo, recv, bus, lua, announced, missed>>
    BY <1>1 DEF Take
  <2>2. /\ Tail(xQueue) \in Seq(BOOLEAN) /\ Head(xQueue) \in BOOLEAN
        /\ Somewhere(TRUE, xQueue) /\ Head(xQueue) # TRUE => Somewhere(TRUE, Tail(xQueue))
    BY <2>1, SomewhereTail DEF UartInv, UartShape
  <2>3. Somewhere(TRUE, xQueue)' <=> Somewhere(TRUE, Tail(xQueue)) BY <2>1 DEF Somewhere
  <2>4. UartShape' /\ MessageIsOut' BY <2>1, <2>2 DEF UartInv, UartShape, MessageIsOut
  <2>5. NoLostWakeup'
    <3>1. CASE Head(xQueue) BY <2>1, <3>1 DEF NoLostWakeup
    <3>2. CASE ~Head(xQueue)
      <4>1. Somewhere(TRUE, xQueue) => Somewhere(TRUE, xQueue)' BY <2>2, <2>3, <3>2
      <4>2. irq' = "wait" BY <2>1, <3>2
      <4> QED BY <2>1, <4>1, <4>2 DEF UartInv, NoLostWakeup, Somewhere
    <3> QED BY <3>1, <3>2
  <2> QED BY <2>4, <2>5 DEF UartInv
<1>2. CASE PutMessage
  <2>1. /\ irq' = "reset" /\ UNCHANGED <<installed, fifo, xQueue, recv, lua, announced>>
        /\ bus' = IF recv = 1 THEN BusPut(bus, "uart") ELSE bus
        /\ missed' = IF recv = 0 \/ BusFull(bus) THEN 1 ELSE missed
    BY <1>2 DEF PutMessage
  <2>2. /\ bus \in Seq({"uart", "other"}) /\ recv \in {0, 1} /\ missed \in {0, 1}
    BY DEF UartInv, UartShape
  <2>3. /\ BusPut(bus, "uart") \in Seq({"uart", "other"})
        /\ ~BusFull(bus) => Somewhere("uart", BusPut(bus, "uart"))
    BY <2>2, BusPutKeeps
  <2>4. UartShape' BY <2>1, <2>2, <2>3 DEF UartInv, UartShape
  <2>5. missed' = 0 => Somewhere("uart", bus)'
    <3> SUFFICES ASSUME missed' = 0 PROVE Somewhere("uart", bus)' OBVIOUS
    <3>1. recv = 1 /\ ~BusFull(bus) BY <2>1, <2>2
    <3>2. Somewhere("uart", bus') BY <2>1, <2>3, <3>1
    <3> QED BY <3>2 DEF Somewhere
  <2> QED BY <2>1, <2>4, <2>5 DEF UartInv, MessageIsOut, NoLostWakeup
<1>3. CASE ResetQueue
  <2>1. /\ irq = "reset" /\ irq' = "wait" /\ xQueue' = << >>
        /\ UNCHANGED <<installed, fifo, recv, bus, lua, announced, missed>>
    BY <1>3 DEF ResetQueue
  <2>2. Somewhere("uart", bus)' <=> Somewhere("uart", bus) BY <2>1 DEF Somewhere
  <2>3. UartShape' /\ MessageIsOut' BY <2>1 DEF UartInv, UartShape, MessageIsOut
  <2>4. NoLostWakeup' BY <2>1, <2>2 DEF UartInv, MessageIsOut, NoLostWakeup
  <2> QED BY <2>3, <2>4 DEF UartInv
<1> QED BY <1>1, <1>2, <1>3 DEF IrqTask

\* What the Lua task does while it has the only core: the irq task waits, and
\* its queue is empty.
LEMMA LuaStep == ASSUME UartInv, ~DualCore, LuaTask \/ Script PROVE UartInv'
<1>1. CASE Receive
  <2>1. /\ irq = "wait" /\ lua = "loop" /\ bus # << >> /\ bus' = Tail(bus)
        /\ lua' = IF Head(bus) = "uart" THEN "callback" ELSE "loop"
        /\ UNCHANGED <<installed, fifo, xQueue, irq, recv, announced, missed>>
    BY <1>1 DEF Receive, LuaRuns
  <2>2. /\ Tail(bus) \in Seq({"uart", "other"})
        /\ Somewhere("uart", bus) /\ Head(bus) # "uart" => Somewhere("uart", Tail(bus))
    BY <2>1, SomewhereTail DEF UartInv, UartShape
  <2>3. Somewhere("uart", bus) => Somewhere("uart", bus)' \/ lua' = "callback"
    BY <2>1, <2>2 DEF Somewhere
  <2>4. Somewhere(TRUE, xQueue)' <=> Somewhere(TRUE, xQueue) BY <2>1 DEF Somewhere
  <2>5. UartShape' /\ MessageIsOut' BY <2>1, <2>2 DEF UartInv, UartShape, MessageIsOut
  <2> QED BY <2>1, <2>3, <2>4, <2>5 DEF UartInv, NoLostWakeup
<1>2. CASE ReadAll
  <2>1. announced' = FALSE /\ missed' = 0 /\ irq = "wait"
        /\ UNCHANGED <<installed, fifo, xQueue, irq, recv, bus>>
    BY <1>2 DEF ReadAll, LuaRuns
  <2>2. announced' \in BOOLEAN /\ ~announced' BY <2>1, Zenon
  <2> QED BY <2>1, <2>2 DEF UartInv, UartShape, MessageIsOut, NoLostWakeup
<1>3. CASE UartSetup
  <2>1. /\ ~installed /\ xQueue' = << >> /\ irq' = "wait"
        /\ UNCHANGED <<fifo, recv, bus, lua, announced, missed>>
    BY <1>3 DEF UartSetup
  <2>2. UartShape' /\ MessageIsOut' BY <2>1 DEF UartInv, UartShape, MessageIsOut
  <2>3. ~announced' BY <2>1, Zenon DEF UartInv, UartShape
  <2>4. NoLostWakeup' BY <2>3, Zenon DEF NoLostWakeup
  <2> QED BY <2>2, <2>4 DEF UartInv
<1>4. CASE SetupCb
  <2>1. recv' = 1 /\ UNCHANGED <<installed, fifo, xQueue, irq, bus, lua, announced, missed>>
    BY <1>4 DEF SetupCb
  <2> QED BY <2>1 DEF UartInv, UartShape, MessageIsOut, NoLostWakeup, Somewhere
<1>5. CASE UartClose
  <2>1. /\ fifo' = 0 /\ xQueue' = << >> /\ irq' = "wait" /\ announced' = FALSE /\ missed' = 0
        /\ UNCHANGED <<recv, bus, lua>>
    BY <1>5 DEF UartClose
  <2>2. announced' \in BOOLEAN /\ ~announced' BY <2>1, Zenon
  <2>3. UartShape' /\ MessageIsOut' BY <2>1, <2>2 DEF UartInv, UartShape, MessageIsOut
  <2>4. NoLostWakeup' BY <2>2, Zenon DEF NoLostWakeup
  <2> QED BY <2>3, <2>4 DEF UartInv
<1> QED BY <1>1, <1>2, <1>3, <1>4, <1>5 DEF LuaTask, Script

LEMMA UartInvStep == ASSUME ~DualCore PROVE UartInv /\ [UartNext]_uartVars => UartInv'
<1> SUFFICES ASSUME UartInv, [UartNext]_uartVars PROVE UartInv' OBVIOUS
<1>1. CASE Arrive
  <2>1. installed /\ UNCHANGED <<installed, xQueue, irq, recv, bus, lua, announced, missed>>
    BY <1>1 DEF Arrive
  <2> QED BY <2>1 DEF UartInv, UartShape, MessageIsOut, NoLostWakeup, Somewhere
<1>2. CASE OtherPut
  <2>1. /\ bus' = BusPut(bus, "other")
        /\ UNCHANGED <<installed, fifo, xQueue, irq, recv, lua, announced, missed>>
    BY <1>2 DEF OtherPut
  <2>2. /\ bus' \in Seq({"uart", "other"}) /\ (Somewhere("uart", bus) => Somewhere("uart", bus'))
    BY <2>1, BusPutKeeps DEF UartInv, UartShape
  <2>3. Somewhere("uart", bus)' <=> Somewhere("uart", bus') BY DEF Somewhere
  <2>4. Somewhere(TRUE, xQueue)' <=> Somewhere(TRUE, xQueue) BY <2>1 DEF Somewhere
  <2> QED BY <2>1, <2>2, <2>3, <2>4 DEF UartInv, UartShape, MessageIsOut, NoLostWakeup
<1>3. CASE UNCHANGED uartVars
  BY <1>3 DEF uartVars, UartInv, UartShape, MessageIsOut, NoLostWakeup, Somewhere
<1> QED BY <1>1, <1>2, <1>3, IsrStep, OverflowStep, IrqStep, LuaStep DEF UartNext

\* On one core no pause of the sender that the driver saw is left without a
\* callback to come, whatever the sizes of the queue, the FIFO, the ring and
\* the bus: xQueueReset throws away only events the message before it answers
\* for.
THEOREM WakeupIsNotLost ==
  ASSUME ~DualCore
  PROVE  UartInit /\ [][UartNext]_uartVars => []NoLostWakeup
<1>1. UartInv => NoLostWakeup BY DEF UartInv
<1>2. UartInv /\ [UartNext]_uartVars => UartInv' BY UartInvStep
<1> QED BY <1>1, <1>2, UartInvInit, PTL

-----------------------------------------------------------------------------
(* The files: the loop of luat_vfs_spiffs_lsdir.                           *)

\* What the loop holds after n entries, in closed form: it has skipped the
\* first of them and taken the next.
TakenBy(offset, len, n) ==
  IF n <= offset THEN 0 ELSE IF n - offset <= len THEN n - offset ELSE len

ScanAt(offset, len, n) ==
  [offset |-> IF n <= offset THEN offset - n ELSE 0,
   len |-> len - TakenBy(offset, len, n),
   ents |-> [j \in 1..TakenBy(offset, len, n) |-> dir[offset + j]]]

LEMMA AppendToListed ==
  ASSUME dir \in Seq(Names), NEW offset \in Nat, NEW k \in Nat, offset + k + 1 <= Len(dir)
  PROVE  Append([j \in 1..k |-> dir[offset + j]], dir[offset + k + 1])
           = [j \in 1..k + 1 |-> dir[offset + j]]
<1> DEFINE a == [j \in 1..k |-> dir[offset + j]]
           b == [j \in 1..k + 1 |-> dir[offset + j]]
           m == dir[offset + k + 1]
<1>1. Len(dir) \in Nat /\ (\A i \in 1..Len(dir) : dir[i] \in Names)
  BY ElementOfSeq, LenProperties
<1>2. \A j \in 1..k + 1 : offset + j \in 1..Len(dir) BY <1>1
<1>3. a \in Seq(Names) /\ Len(a) = k
  <2>1. \A j \in 1..k : dir[offset + j] \in Names BY <1>1, <1>2
  <2> QED BY <2>1
<1>4. b \in Seq(Names) /\ Len(b) = k + 1
  <2>1. \A j \in 1..k + 1 : dir[offset + j] \in Names BY <1>1, <1>2
  <2> QED BY <2>1
<1>5. m \in Names
  <2>1. offset + k + 1 \in 1..Len(dir) BY <1>1
  <2> QED BY <1>1, <2>1
<1>6. \A j \in 1..k : a[j] = dir[offset + j] OBVIOUS
<1>7. \A j \in 1..k + 1 : b[j] = dir[offset + j] OBVIOUS
<1> HIDE DEF a, b, m
<1>8. /\ Append(a, m) \in Seq(Names) /\ Len(Append(a, m)) = k + 1
      /\ \A i \in 1..k : Append(a, m)[i] = a[i]
      /\ Append(a, m)[k + 1] = m
  BY <1>3, <1>5, AppendProperties
<1>9. ASSUME NEW j \in 1..k + 1 PROVE Append(a, m)[j] = b[j]
  <2>1. CASE j = k + 1
    <3>1. offset + j = offset + k + 1 BY <2>1
    <3> QED BY <1>7, <1>8, <2>1, <3>1 DEF m
  <2>2. CASE j # k + 1
    <3>1. j \in 1..k BY <2>2
    <3> QED BY <1>6, <1>7, <1>8, <3>1
  <2> QED BY <2>1, <2>2
<1>10. Append(a, m) = b BY <1>4, <1>8, <1>9, SeqEqual
<1> QED BY <1>10 DEF a, b, m

\* One entry, on what the loop holds written out.
LEMMA EntryOf ==
  ASSUME NEW offset \in Nat, NEW len \in Nat, NEW ents, NEW f
  PROVE  Entry([offset |-> offset, len |-> len, ents |-> ents], f)
           = IF offset > 0 THEN [offset |-> offset - 1, len |-> len, ents |-> ents]
             ELSE IF len > 0 THEN [offset |-> offset, len |-> len - 1, ents |-> Append(ents, f)]
             ELSE [offset |-> offset, len |-> len, ents |-> ents]
<1> DEFINE s == [offset |-> offset, len |-> len, ents |-> ents]
<1>1. s.offset = offset /\ s.len = len /\ s.ents = ents OBVIOUS
<1>2. [s EXCEPT !.offset = @ - 1] = [offset |-> offset - 1, len |-> len, ents |-> ents] OBVIOUS
<1>3. [s EXCEPT !.ents = Append(@, f), !.len = @ - 1]
        = [offset |-> offset, len |-> len - 1, ents |-> Append(ents, f)]
  <2>1. [s EXCEPT !.ents = Append(@, f)]
          = [offset |-> offset, len |-> len, ents |-> Append(ents, f)]
    <3>1. [s EXCEPT !.ents = Append(@, f)] = [s EXCEPT !.ents = Append(ents, f)]
      BY <1>1, Zenon
    <3>2. \A x : [s EXCEPT !.ents = x] = [offset |-> offset, len |-> len, ents |-> x] OBVIOUS
    <3> QED BY <3>1, <3>2
  <2>2. [s EXCEPT !.ents = Append(@, f), !.len = @ - 1]
          = [[s EXCEPT !.ents = Append(@, f)] EXCEPT !.len = @ - 1] OBVIOUS
  <2>3. \A x, y : [[offset |-> offset, len |-> x, ents |-> y] EXCEPT !.len = @ - 1]
                    = [offset |-> offset, len |-> x - 1, ents |-> y] OBVIOUS
  <2> HIDE DEF s
  <2> QED BY <2>1, <2>2, <2>3
<1> QED BY <1>1, <1>2, <1>3, Zenon DEF Entry, Takes

\* The closed form takes the steps of the loop.
LEMMA ScanSteps ==
  ASSUME dir \in Seq(Names), NEW offset \in Nat, NEW len \in Nat
  PROVE  /\ ScanAt(offset, len, 0) = [offset |-> offset, len |-> len, ents |-> << >>]
         /\ \A n \in 1..Len(dir) :
              Entry(ScanAt(offset, len, n - 1), dir[n]) = ScanAt(offset, len, n)
<1>1. ScanAt(offset, len, 0) = [offset |-> offset, len |-> len, ents |-> << >>]
  <2>1. TakenBy(offset, len, 0) = 0 BY DEF TakenBy
  <2>2. [j \in 1..0 |-> dir[offset + j]] = << >> OBVIOUS
  <2> QED BY <2>1, <2>2 DEF ScanAt
<1>2. ASSUME NEW n \in 1..Len(dir)
      PROVE  Entry(ScanAt(offset, len, n - 1), dir[n]) = ScanAt(offset, len, n)
  <2> DEFINE k == TakenBy(offset, len, n - 1)
             ents == [j \in 1..k |-> dir[offset + j]]
             s == ScanAt(offset, len, n - 1)
  <2>0. Len(dir) \in Nat /\ n \in Nat /\ n <= Len(dir) /\ n >= 1 BY LenProperties
  <2>1. CASE n <= offset
    <3>1. k = 0 /\ TakenBy(offset, len, n) = 0 BY <2>0, <2>1 DEF TakenBy
    <3>2. s = [offset |-> offset - n + 1, len |-> len - 0, ents |-> ents]
      BY <2>0, <2>1, <3>1 DEF ScanAt
    <3>3. ScanAt(offset, len, n) = [offset |-> offset - n, len |-> len - 0, ents |-> ents]
      BY <2>0, <2>1, <3>1 DEF ScanAt
    <3>4. offset - n + 1 > 0 /\ offset - n + 1 - 1 = offset - n BY <2>0, <2>1
    <3> HIDE DEF ents, s
    <3>5. offset - n + 1 \in Nat /\ len - 0 \in Nat BY <2>0, <2>1
    <3>6. Entry(s, dir[n]) = [offset |-> offset - n + 1 - 1, len |-> len - 0, ents |-> ents]
      <4> DEFINE o == offset - n + 1
                 l == len - 0
      <4>1. o \in Nat /\ l \in Nat /\ o > 0 /\ s = [offset |-> o, len |-> l, ents |-> ents]
        BY <3>2, <3>4, <3>5
      <4> HIDE DEF o, l
      <4>2. Entry(s, dir[n]) = [offset |-> o - 1, len |-> l, ents |-> ents] BY <4>1, EntryOf
      <4> QED BY <4>2 DEF o, l
    <3> QED BY <3>3, <3>4, <3>6 DEF s
  <2>2. CASE n > offset /\ n - 1 - offset < len
    <3>1. k = n - 1 - offset /\ TakenBy(offset, len, n) = k + 1 /\ k \in Nat
      BY <2>0, <2>2 DEF TakenBy
    <3>2. s = [offset |-> 0, len |-> len - k, ents |-> ents]
      <4>1. (IF n - 1 <= offset THEN offset - (n - 1) ELSE 0) = 0 BY <2>0, <2>2
      <4> QED BY <4>1 DEF ScanAt
    <3>3. ScanAt(offset, len, n)
            = [offset |-> 0, len |-> len - (k + 1), ents |-> [j \in 1..k + 1 |-> dir[offset + j]]]
      <4>1. ~(n <= offset) BY <2>0, <2>2
      <4> QED BY <3>1, <4>1 DEF ScanAt
    <3>4. n = offset + k + 1 /\ offset + k + 1 <= Len(dir) BY <2>0, <2>2, <3>1
    <3>5. Append(ents, dir[n]) = [j \in 1..k + 1 |-> dir[offset + j]]
      BY <3>1, <3>4, AppendToListed
    <3>6. len - k > 0 /\ len - k - 1 = len - (k + 1) BY <2>0, <2>2, <3>1
    <3> HIDE DEF ents, s, k
    <3>7. Entry(s, dir[n])
            = [offset |-> 0, len |-> len - k - 1, ents |-> Append(ents, dir[n])]
      <4>1. len - k \in Nat BY <2>0, <2>2, <3>1 DEF k
      <4> DEFINE l == len - k
      <4>2. l \in Nat /\ l > 0 /\ s = [offset |-> 0, len |-> l, ents |-> ents] BY <3>2, <3>6, <4>1
      <4> HIDE DEF l
      <4>3. Entry(s, dir[n]) = [offset |-> 0, len |-> l - 1, ents |-> Append(ents, dir[n])]
        <5> DEFINE f == dir[n]
        <5>1. ~(0 > 0) /\ 0 \in Nat OBVIOUS
        <5> HIDE DEF f
        <5> QED BY <4>2, <5>1, EntryOf
      <4> QED BY <4>3 DEF l
    <3> QED BY <3>3, <3>5, <3>6, <3>7 DEF s
  <2>3. CASE n > offset /\ ~(n - 1 - offset < len)
    <3>1. k = len /\ TakenBy(offset, len, n) = len BY <2>0, <2>3 DEF TakenBy
    <3>2. s = [offset |-> 0, len |-> 0, ents |-> ents]
      <4>1. (IF n - 1 <= offset THEN offset - (n - 1) ELSE 0) = 0 BY <2>0, <2>3
      <4>2. len - k = 0 BY <3>1
      <4> QED BY <4>1, <4>2 DEF ScanAt
    <3>3. ScanAt(offset, len, n) = [offset |-> 0, len |-> 0, ents |-> ents]
      <4>1. ~(n <= offset) BY <2>0, <2>3
      <4>2. len - k = 0 BY <3>1
      <4> QED BY <3>1, <4>1, <4>2 DEF ScanAt
    <3> HIDE DEF ents, s, k
    <3>4. Entry(s, dir[n]) = s BY <3>2 DEF Entry, Takes
    <3> QED BY <3>2, <3>3, <3>4 DEF s
  <2> QED BY <2>0, <2>1, <2>2, <2>3
<1> QED BY <1>1, <1>2

\* A set of natural numbers has a least one: the induction over the entries.
LEMMA LeastNumber ==
  ASSUME NEW N \in Nat, NEW S \in SUBSET (0..N), S # {}
  PROVE  \E m \in S : \A k \in S : m <= k
<1> DEFINE segments == {0..m : m \in S}
<1>1. S \in SUBSET Nat OBVIOUS
<1>2. IsFiniteSet(0..N) BY FS_Interval
<1>3. segments \subseteq FiniteSubsetsOf(0..N)
  <2>1. \A m \in S : 0..m \in SUBSET (0..N) BY <1>1
  <2>2. FiniteSubsetsOf(0..N) = SUBSET (0..N) BY <1>2, FS_FiniteSubsetsOfFinite
  <2> QED BY <2>1, <2>2
<1>4. segments # {} OBVIOUS
<1> HIDE DEF segments
<1>5. PICK x \in segments : \A y \in segments : ~(<<y, x>> \in StrictSubsetOrdering(0..N))
  BY <1>3, <1>4, FS_StrictSubsetOrderingWellFounded, WFMin
<1>6. PICK n \in S : x = 0..n BY DEF segments
<1>7. ASSUME NEW m \in S, m < n PROVE FALSE
  <2>1. m \in Nat /\ n \in Nat BY <1>1
  <2>2. 0..m \in SUBSET (0..N) /\ 0..n \in SUBSET (0..N) BY <1>1
  <2>3. 0..m \subseteq 0..n /\ 0..m # 0..n
    <3>1. n \in 0..n /\ n \notin 0..m BY <2>1, <1>7
    <3> QED BY <2>1, <1>7, <3>1
  <2>4. <<0..m, 0..n>> \in StrictSubsetOrdering(0..N)
    BY <2>2, <2>3 DEF StrictSubsetOrdering
  <2> QED BY <1>5, <1>6, <2>4 DEF segments
<1>8. \A m \in S : n <= m BY <1>1, <1>7
<1> QED BY <1>8

\* The loop leaves the closed form.  A recursive function is some function
\* that takes its own steps: the closed form is one, and there is no other,
\* for the least entry at which one differed would follow from the one before.
LEMMA ScanIs ==
  ASSUME dir \in Seq(Names), NEW offset \in Nat, NEW len \in Nat
  PROVE  \A n \in 0..Len(dir) : Scan(offset, len)[n] = ScanAt(offset, len, n)
<1> DEFINE first == [offset |-> offset, len |-> len, ents |-> << >>]
           Steps(s) == s = [n \in 0..Len(dir) |-> IF n = 0 THEN first
                                                ELSE Entry(s[n - 1], dir[n])]
           closed == [n \in 0..Len(dir) |-> ScanAt(offset, len, n)]
           scan == Scan(offset, len)
<1>0. Len(dir) \in Nat BY LenProperties
<1>1. Steps(closed)
  <2>1. \A n \in 0..Len(dir) : n # 0 => n - 1 \in 0..Len(dir) /\ n \in 1..Len(dir) BY <1>0
  <2>2. ScanAt(offset, len, 0) = first BY ScanSteps
  <2>3. \A n \in 1..Len(dir) : Entry(ScanAt(offset, len, n - 1), dir[n]) = ScanAt(offset, len, n)
    BY ScanSteps
  <2>4. \A n \in 0..Len(dir) :
          closed[n] = IF n = 0 THEN first ELSE Entry(closed[n - 1], dir[n])
    BY <2>1, <2>2, <2>3
  <2> HIDE DEF first
  <2> QED BY <2>4
<1>2. scan = CHOOSE s : Steps(s) BY DEF Scan
<1> HIDE DEF Steps, closed
<1>3. Steps(scan) BY <1>1, <1>2
<1> HIDE DEF scan
<1>4. \A n \in 0..Len(dir) : scan[n] = IF n = 0 THEN first ELSE Entry(scan[n - 1], dir[n])
  BY <1>3 DEF Steps
<1> DEFINE Bad == {n \in 0..Len(dir) : scan[n] # ScanAt(offset, len, n)}
<1>5. Bad = {}
  <2> SUFFICES ASSUME Bad # {} PROVE FALSE OBVIOUS
  <2>1. Bad \in SUBSET (0..Len(dir)) OBVIOUS
  <2> HIDE DEF Bad
  <2>2. PICK n \in Bad : \A k \in Bad : n <= k BY <1>0, <2>1, LeastNumber
  <2>3. n \in 0..Len(dir) /\ scan[n] # ScanAt(offset, len, n) BY DEF Bad
  <2>4. n # 0 BY <1>4, <2>3, ScanSteps
  <2>5. n - 1 \in 0..Len(dir) /\ n \in 1..Len(dir) /\ n - 1 < n BY <1>0, <2>3, <2>4
  <2>6. n - 1 \notin Bad BY <2>2, <2>5
  <2>7. scan[n - 1] = ScanAt(offset, len, n - 1) BY <2>5, <2>6 DEF Bad
  <2>8. scan[n] = Entry(ScanAt(offset, len, n - 1), dir[n]) BY <1>4, <2>3, <2>4, <2>7
  <2> QED BY <2>3, <2>5, <2>8, ScanSteps
<1> QED BY <1>5 DEF scan

\* A page: the entries after the offset, at most len of them.
LEMMA PageIs ==
  ASSUME dir \in Seq(Names), NEW offset \in Nat, NEW len \in Nat
  PROVE  LET page == Lsdir(offset, len)
             k == TakenBy(offset, len, Len(dir))
         IN /\ k \in Nat /\ k <= len /\ page \in Seq(Names) /\ Len(page) = k
            /\ \A j \in 1..k : page[j] = dir[offset + j] /\ offset + j \in 1..Len(dir)
            /\ offset <= Len(dir) => /\ offset + k <= Len(dir)
                                     /\ k < len => offset + k = Len(dir)
<1> DEFINE k == TakenBy(offset, len, Len(dir))
           page == [j \in 1..k |-> dir[offset + j]]
<1>1. Len(dir) \in Nat /\ (\A i \in 1..Len(dir) : dir[i] \in Names)
  BY ElementOfSeq, LenProperties
<1>2. /\ k \in Nat /\ k <= len
      /\ k > 0 => offset + k <= Len(dir)
      /\ offset <= Len(dir) => /\ offset + k <= Len(dir)
                               /\ k < len => offset + k = Len(dir)
  BY <1>1 DEF TakenBy
<1>3. Lsdir(offset, len) = page
  <2>1. Len(dir) \in 0..Len(dir) BY <1>1
  <2>2. Scan(offset, len)[Len(dir)] = ScanAt(offset, len, Len(dir)) BY <2>1, ScanIs
  <2>3. ScanAt(offset, len, Len(dir)).ents = page BY DEF ScanAt
  <2> QED BY <2>2, <2>3 DEF Lsdir
<1> HIDE DEF k
<1>4. \A j \in 1..k : offset + j \in 1..Len(dir) BY <1>1, <1>2
<1>5. \A j \in 1..k : dir[offset + j] \in Names BY <1>1, <1>4
<1>6. page \in Seq(Names) /\ Len(page) = k BY <1>2, <1>5
<1> QED BY <1>2, <1>3, <1>4, <1>6 DEF k

LEMMA PrefixIs ==
  ASSUME NEW s \in Seq(Names), NEW t \in Seq(Names)
  PROVE  IsPrefix(s, t) <=> Len(s) <= Len(t) /\ \A i \in 1..Len(s) : s[i] = t[i]
<1>1. Len(s) \in Nat /\ Len(t) \in Nat BY LenProperties
<1>2. SUFFICES ASSUME Len(s) <= Len(t)
               PROVE  SubSeq(s, 1, Len(s)) = SubSeq(t, 1, Len(s)) <=> \A i \in 1..Len(s) : s[i] = t[i]
  BY DEF IsPrefix
<1>3. /\ SubSeq(s, 1, Len(s)) \in Seq(Names) /\ Len(SubSeq(s, 1, Len(s))) = Len(s)
      /\ \A i \in 1..Len(s) : SubSeq(s, 1, Len(s))[i] = s[i]
  <2>1. 1 \in 1..Len(s) + 1 /\ Len(s) \in 1 - 1..Len(s) BY <1>1
  <2> QED BY <1>1, <2>1, SubSeqProperties
<1>4. /\ SubSeq(t, 1, Len(s)) \in Seq(Names) /\ Len(SubSeq(t, 1, Len(s))) = Len(s)
      /\ \A i \in 1..Len(s) : SubSeq(t, 1, Len(s))[i] = t[i]
  <2>1. 1 \in 1..Len(t) + 1 /\ Len(s) \in 1 - 1..Len(t) BY <1>1, <1>2
  <2> QED BY <1>1, <2>1, SubSeqProperties
<1> QED BY <1>3, <1>4, SeqEqual

\* Continuing a listing with the page after it.
LEMMA NextPage ==
  ASSUME dir \in Seq(Names), NEW names \in Seq(Names), IsPrefix(names, dir)
  PROVE  LET page == Lsdir(Len(names), PageLen)
         IN  /\ IsPrefix(names \o page, dir)
             /\ ~(Len(page) >= PageLen) => names \o page = dir
<1> DEFINE page == Lsdir(Len(names), PageLen)
           offset == Len(names)
           k == TakenBy(offset, PageLen, Len(dir))
           both == names \o page
<1>0. Len(dir) \in Nat /\ offset \in Nat /\ PageLen \in Nat BY FilesAssumption, LenProperties
<1>1. offset <= Len(dir) /\ \A i \in 1..offset : names[i] = dir[i] BY PrefixIs
<1>2. /\ k \in Nat /\ k <= PageLen /\ page \in Seq(Names) /\ Len(page) = k
      /\ \A j \in 1..k : page[j] = dir[offset + j]
      /\ offset + k <= Len(dir)
      /\ k < PageLen => offset + k = Len(dir)
  BY <1>0, <1>1, PageIs
<1> HIDE DEF page, k
<1>3. /\ both \in Seq(Names) /\ Len(both) = offset + k
      /\ \A i \in 1..offset + k : both[i] = IF i <= offset THEN names[i] ELSE page[i - offset]
  BY <1>2, ConcatProperties
<1> HIDE DEF both
<1>4. ASSUME NEW i \in 1..offset + k PROVE both[i] = dir[i]
  <2>1. CASE i <= offset
    <3>1. i \in 1..offset BY <1>0, <2>1
    <3> QED BY <1>1, <1>3, <2>1, <3>1
  <2>2. CASE ~(i <= offset)
    <3>1. i - offset \in 1..k /\ offset + (i - offset) = i BY <1>0, <1>2, <2>2
    <3>2. page[i - offset] = dir[i] BY <1>2, <3>1
    <3> QED BY <1>3, <2>2, <3>2
  <2> QED BY <2>1, <2>2
<1>5. IsPrefix(both, dir) BY <1>2, <1>3, <1>4, PrefixIs
<1>6. ~(Len(page) >= PageLen) => both = dir
  <2> SUFFICES ASSUME ~(Len(page) >= PageLen) PROVE both = dir OBVIOUS
  <2>1. k < PageLen BY <1>0, <1>2
  <2>2. Len(both) = Len(dir) BY <1>2, <1>3, <2>1
  <2> QED BY <1>3, <1>4, <2>2, SeqEqual
<1> QED BY <1>5, <1>6 DEF both, page

LEMMA DirShapes ==
  ASSUME dir \in Seq(Names), NEW f \in Names
  PROVE  /\ \A i \in 1..Len(dir) + 1 : InsertAt(dir, i, f) \in Seq(Names)
         /\ \A i \in 1..Len(dir) : RemoveAt(dir, i) \in Seq(Names)
         /\ \A g \in Names : [i \in DOMAIN dir |-> IF dir[i] = f THEN g ELSE dir[i]] \in Seq(Names)
<1>1. Len(dir) \in Nat /\ DOMAIN dir = 1..Len(dir) /\ \A i \in 1..Len(dir) : dir[i] \in Names
  BY ElementOfSeq, LenProperties
<1>2. \A a \in 1..Len(dir) + 1, b \in 0..Len(dir) : SubSeq(dir, a, b) \in Seq(Names)
  BY <1>1, SubSeqProperties, SubSeqEmpty
<1>3. ASSUME NEW i \in 1..Len(dir) + 1 PROVE InsertAt(dir, i, f) \in Seq(Names)
  <2>1. SubSeq(dir, 1, i - 1) \in Seq(Names) /\ SubSeq(dir, i, Len(dir)) \in Seq(Names)
    <3>1. 1 \in 1..Len(dir) + 1 /\ i - 1 \in 0..Len(dir) /\ Len(dir) \in 0..Len(dir) BY <1>1
    <3> QED BY <1>2, <3>1
  <2>2. <<f>> \in Seq(Names) OBVIOUS
  <2> QED BY <2>1, <2>2, ConcatProperties DEF InsertAt
<1>4. ASSUME NEW i \in 1..Len(dir) PROVE RemoveAt(dir, i) \in Seq(Names)
  <2>1. SubSeq(dir, 1, i - 1) \in Seq(Names) /\ SubSeq(dir, i + 1, Len(dir)) \in Seq(Names)
    <3>1. /\ 1 \in 1..Len(dir) + 1 /\ i - 1 \in 0..Len(dir)
          /\ i + 1 \in 1..Len(dir) + 1 /\ Len(dir) \in 0..Len(dir)
      BY <1>1
    <3> QED BY <1>2, <3>1
  <2> QED BY <2>1, ConcatProperties DEF RemoveAt
<1>5. ASSUME NEW g \in Names
      PROVE  [i \in DOMAIN dir |-> IF dir[i] = f THEN g ELSE dir[i]] \in Seq(Names)
  <2>1. \A i \in 1..Len(dir) : (IF dir[i] = f THEN g ELSE dir[i]) \in Names BY <1>1
  <2> QED BY <1>1, <2>1
<1> QED BY <1>3, <1>4, <1>5

-----------------------------------------------------------------------------
(* The files: the descriptors, and the listing over the history of calls.  *)

FilesShape ==
  /\ dir \in Seq(Names)
  /\ listing \in [names : Seq(Names), more : BOOLEAN, stable : BOOLEAN]

\* Every query gives its descriptor back: those in use are the script's own.
DescriptorsCounted ==
  IsFiniteSet(held) /\ used = Cardinality(held) /\ used <= MaxFiles

FilesInv == FilesShape /\ DescriptorsCounted /\ EveryFileListed /\ FoundWhileRoom

LEMMA FilesInvInit == FilesInit => FilesInv
<1> SUFFICES ASSUME FilesInit PROVE FilesInv OBVIOUS
<1>1. FilesShape BY EmptySeq DEF FilesInit, FilesShape, NoListing
<1>2. DescriptorsCounted BY FS_EmptySet, FilesAssumption DEF FilesInit, DescriptorsCounted
<1>3. EveryFileListed
  <2>1. << >> \in Seq(Names) BY EmptySeq
  <2>2. IsPrefix(<< >>, << >>) BY DEF IsPrefix
  <2> QED BY <2>2 DEF FilesInit, EveryFileListed, NoListing
<1>4. FoundWhileRoom BY DEF FilesInit, FoundWhileRoom
<1> QED BY <1>1, <1>2, <1>3, <1>4 DEF FilesInv

\* A call that changes the directory spoils the listing, and only that.
LEMMA DirBecomesStep ==
  ASSUME FilesShape, NEW d \in Seq(Names), DirBecomes(d)
  PROVE  FilesShape' /\ EveryFileListed'
<1>1. dir' = d /\ listing' = [listing EXCEPT !.stable = FALSE] BY DEF DirBecomes
<1>2. /\ listing' \in [names : Seq(Names), more : BOOLEAN, stable : BOOLEAN]
      /\ listing'.stable = FALSE
  BY <1>1 DEF FilesShape
<1> QED BY <1>1, <1>2 DEF FilesShape, EveryFileListed

\* A query answered no: the file is there, so every descriptor is taken.
LEMMA QueryStep ==
  ASSUME FilesInv, NEW call, NEW f, Query(call, f, Reachable(f)), UNCHANGED dir,
         ~Reachable(f) => UNCHANGED held
  PROVE  FoundWhileRoom'
<1>1. last' = [call |-> call, name |-> f, ret |-> Reachable(f)] BY DEF Query
<1>2. last'.name = f /\ last'.ret = Reachable(f) BY <1>1
<1>3. SUFFICES ASSUME f \in Existing \ LongNames, ~Reachable(f) PROVE Cardinality(held') = MaxFiles
  BY <1>2 DEF FoundWhileRoom, Existing
<1>4. ~(used < MaxFiles) BY <1>3 DEF Reachable
<1>5. Cardinality(held) \in Nat /\ MaxFiles \in Nat
  BY FS_CardinalityType, FilesAssumption DEF FilesInv, DescriptorsCounted
<1>6. Cardinality(held) = MaxFiles BY <1>4, <1>5 DEF FilesInv, DescriptorsCounted
<1> QED BY <1>3, <1>6

LEMMA Opened ==
  ASSUME DescriptorsCounted, NEW f, f \notin held, used < MaxFiles,
         used' = used + 1, held' = held \cup {f}
  PROVE  DescriptorsCounted'
<1>1. IsFiniteSet(held \cup {f}) BY FS_AddElement DEF DescriptorsCounted
<1>2. Cardinality(held \cup {f}) = Cardinality(held) + 1 BY FS_AddElement DEF DescriptorsCounted
<1>3. Cardinality(held) \in Nat BY FS_CardinalityType DEF DescriptorsCounted
<1>4. used + 1 <= MaxFiles /\ used = Cardinality(held)
  BY <1>3, FilesAssumption DEF DescriptorsCounted
<1> QED BY <1>1, <1>2, <1>4 DEF DescriptorsCounted

LEMMA FilesInvStep == FilesInv /\ [FilesNext]_filesVars => FilesInv'
<1> SUFFICES ASSUME FilesInv, [FilesNext]_filesVars PROVE FilesInv' OBVIOUS
\* What a step that asks nothing, or leaves the directory alone, keeps.
<1>a. last' = NoQuery => FoundWhileRoom' BY DEF FoundWhileRoom
<1>b. UNCHANGED <<used, held>> => DescriptorsCounted' BY DEF FilesInv, DescriptorsCounted
<1>c. UNCHANGED <<dir, listing>> => FilesShape' /\ EveryFileListed'
  BY DEF FilesInv, FilesShape, EveryFileListed
<1>1. ASSUME NEW f \in Names, FopenRead(f) PROVE FilesInv'
  <2>1. FilesShape' /\ EveryFileListed' BY <1>c, <1>1 DEF FopenRead
  <2>2. FoundWhileRoom' BY <1>1, QueryStep DEF FopenRead
  <2>3. DescriptorsCounted'
    <3>1. CASE Reachable(f) BY <1>1, <3>1, Opened DEF FopenRead, Reachable, FilesInv
    <3>2. CASE ~Reachable(f) BY <1>b, <1>1, <3>2 DEF FopenRead
    <3> QED BY <3>1, <3>2
  <2> QED BY <2>1, <2>2, <2>3 DEF FilesInv
<1>2. ASSUME NEW f \in Names, FopenWrite(f) PROVE FilesInv'
  <2>1. DescriptorsCounted' BY <1>2, Opened DEF FopenWrite, FilesInv
  <2>2. FoundWhileRoom' BY <1>a, <1>2 DEF FopenWrite
  <2>3. FilesShape' /\ EveryFileListed'
    <3>1. CASE f \in Existing BY <1>c, <1>2, <3>1 DEF FopenWrite
    <3>2. CASE f \notin Existing
      <4>1. PICK i \in 1..Len(dir) + 1 : DirBecomes(InsertAt(dir, i, f))
        BY <1>2, <3>2 DEF FopenWrite
      <4>2. InsertAt(dir, i, f) \in Seq(Names) BY DirShapes DEF FilesInv, FilesShape
      <4> QED BY <4>1, <4>2, DirBecomesStep DEF FilesInv
    <3> QED BY <3>1, <3>2
  <2> QED BY <2>1, <2>2, <2>3 DEF FilesInv
<1>3. ASSUME NEW f \in Names, Fclose(f) PROVE FilesInv'
  <2>1. f \in held /\ used' = used - 1 /\ held' = held \ {f} /\ last' = NoQuery
        /\ UNCHANGED <<dir, listing>>
    BY <1>3 DEF Fclose
  <2>2. DescriptorsCounted'
    <3>1. IsFiniteSet(held \ {f}) BY FS_RemoveElement DEF FilesInv, DescriptorsCounted
    <3>2. Cardinality(held \ {f}) = Cardinality(held) - 1
      BY <2>1, FS_RemoveElement DEF FilesInv, DescriptorsCounted
    <3>3. Cardinality(held) \in Nat /\ MaxFiles \in Nat
      BY FS_CardinalityType, FilesAssumption DEF FilesInv, DescriptorsCounted
    <3>4. used = Cardinality(held) /\ used <= MaxFiles BY DEF FilesInv, DescriptorsCounted
    <3>5. used - 1 <= MaxFiles BY <3>3, <3>4
    <3> QED BY <2>1, <3>1, <3>2, <3>4, <3>5 DEF DescriptorsCounted
  <2> QED BY <1>a, <1>c, <2>1, <2>2 DEF FilesInv
<1>4. ASSUME NEW f \in Names, FexistFsize(f) PROVE FilesInv'
  <2>1. UNCHANGED <<used, held, dir, listing>> BY <1>4 DEF FexistFsize, QueryCloses
  <2>2. FoundWhileRoom' BY <1>4, <2>1, QueryStep DEF FexistFsize
  <2> QED BY <1>b, <1>c, <2>1, <2>2 DEF FilesInv
<1>5. ASSUME NEW f \in Names, RemoveFile(f) PROVE FilesInv'
  <2>1. last' = NoQuery /\ UNCHANGED <<used, held>> BY <1>5 DEF RemoveFile
  <2>2. FilesShape' /\ EveryFileListed'
    <3>1. CASE f \in Existing \ LongNames
      <4>1. PICK i \in 1..Len(dir) : DirBecomes(RemoveAt(dir, i)) BY <1>5, <3>1 DEF RemoveFile
      <4>2. RemoveAt(dir, i) \in Seq(Names) BY DirShapes DEF FilesInv, FilesShape
      <4> QED BY <4>1, <4>2, DirBecomesStep DEF FilesInv
    <3>2. CASE f \notin Existing \ LongNames BY <1>c, <1>5, <3>2 DEF RemoveFile
    <3> QED BY <3>1, <3>2
  <2> QED BY <1>a, <1>b, <2>1, <2>2 DEF FilesInv
<1>6. ASSUME NEW f \in Names, NEW g \in Names, Rename(f, g) PROVE FilesInv'
  <2>1. last' = NoQuery /\ UNCHANGED <<used, held>> BY <1>6 DEF Rename
  <2>2. DirBecomes([i \in DOMAIN dir |-> IF dir[i] = f THEN g ELSE dir[i]]) BY <1>6 DEF Rename
  <2>3. [i \in DOMAIN dir |-> IF dir[i] = f THEN g ELSE dir[i]] \in Seq(Names)
    BY DirShapes DEF FilesInv, FilesShape
  <2>4. FilesShape' /\ EveryFileListed' BY <2>2, <2>3, DirBecomesStep DEF FilesInv
  <2> QED BY <1>a, <1>b, <2>1, <2>4 DEF FilesInv
<1>7. CASE List
  <2> DEFINE start == IF listing.more THEN listing ELSE NoListing
             page == Lsdir(Len(start.names), PageLen)
  <2>1. last' = NoQuery /\ UNCHANGED <<used, held>> /\ dir' = dir BY <1>7 DEF List
  <2>2. listing' = [start EXCEPT !.names = @ \o page, !.more = Len(page) >= PageLen]
    BY <1>7 DEF List, ListFrom
  <2>3. /\ start \in [names : Seq(Names), more : BOOLEAN, stable : BOOLEAN]
        /\ dir \in Seq(Names)
    BY EmptySeq DEF FilesInv, FilesShape, NoListing
  <2>4. start.stable => IsPrefix(start.names, dir)
    <3>1. CASE listing.more BY <3>1 DEF FilesInv, EveryFileListed
    <3>2. CASE ~listing.more
      <4>1. start.names = << >> BY <3>2 DEF NoListing
      <4>2. << >> \in Seq(Names) /\ Len(<< >>) = 0 /\ Len(dir) \in Nat
        BY <2>3, EmptySeq, LenProperties
      <4>3. IsPrefix(<< >>, dir)
        <5>1. SubSeq(<< >>, 1, 0) = << >> /\ SubSeq(dir, 1, 0) = << >> BY SubSeqEmpty
        <5> QED BY <4>2, <5>1 DEF IsPrefix
      <4> QED BY <4>1, <4>3
    <3> QED BY <3>1, <3>2
  <2> HIDE DEF start
  <2>5. start.names \in Seq(Names) /\ start.stable \in BOOLEAN BY <2>3
  <2>6. page \in Seq(Names) /\ (Len(page) >= PageLen) \in BOOLEAN
    <3>1. Len(start.names) \in Nat /\ PageLen \in Nat BY <2>5, LenProperties, FilesAssumption
    <3> QED BY <2>3, <3>1, PageIs
  <2>7. start.stable => /\ IsPrefix(start.names \o page, dir)
                        /\ ~(Len(page) >= PageLen) => start.names \o page = dir
    BY <2>3, <2>4, <2>5, NextPage
  <2> HIDE DEF page
  <2>8. start.names \o page \in Seq(Names) BY <2>5, <2>6, ConcatProperties
  <2>9. listing' = [names |-> start.names \o page, more |-> Len(page) >= PageLen,
                    stable |-> start.stable]
    BY <2>2, <2>3
  <2>10. FilesShape' BY <2>1, <2>3, <2>5, <2>6, <2>8, <2>9 DEF FilesShape
  <2>11. /\ listing'.names = start.names \o page /\ listing'.stable = start.stable
         /\ listing'.more = (Len(page) >= PageLen)
    BY <2>9
  <2>12. EveryFileListed' BY <2>1, <2>7, <2>11 DEF EveryFileListed
  <2> QED BY <1>a, <1>b, <2>1, <2>10, <2>12 DEF FilesInv
<1>8. CASE UNCHANGED filesVars
  BY <1>8, <1>b, <1>c DEF filesVars, FilesInv, FoundWhileRoom, Existing
<1> QED BY <1>1, <1>2, <1>3, <1>4, <1>5, <1>6, <1>7, <1>8 DEF FilesNext

\* For any set of names, any number of descriptors and any page length: the
\* pages of luat_vfs_spiffs_lsdir are the directory, in order and each entry
\* once, and a query that misses a file does so only while the script holds
\* every descriptor.
THEOREM FilesAreAnsweredTruly == FilesSpec => []FilesAnswerTrue
<1>1. FilesInv => FilesAnswerTrue BY DEF FilesInv, FilesAnswerTrue
<1> QED BY <1>1, FilesInvInit, FilesInvStep, PTL DEF FilesSpec

-----------------------------------------------------------------------------
(* The watchdog: what its promise rests on.                                *)

\* The script hangs, and the port owes a reset.
Hung == script # "runs" /\ opened /\ ~wasClosed

\* From the return of luat_wdt_init to the first luat_wdt_close the watchdog
\* is there and watches the Lua task: until the close the task watchdog is the
\* one of the boot, and a call that adds the task finds it.
LuaIsWatched ==
  /\ opening => task_added = 0 /\ script = "runs"
  /\ ~wasClosed => twdt /\ (task_added # 0 => luaWatched)
  /\ opened => task_added # 0

LEMMA WatchStep == LuaIsWatched /\ [WdtNext]_wdtVars => LuaIsWatched'
<1> SUFFICES ASSUME LuaIsWatched, [WdtNext]_wdtVars PROVE LuaIsWatched' OBVIOUS
<1> USE DEF LuaIsWatched
<1>1. CASE WdtOpen BY <1>1, Zenon DEF WdtOpen, ScriptRuns
<1>2. CASE WdtAdd
  <2>1. 1 # 0 OBVIOUS
  <2> QED BY <1>2, <2>1, Zenon DEF WdtAdd, AddTask
<1>3. CASE WdtSetTimeout BY <1>3 DEF WdtSetTimeout
<1>4. CASE WdtFeed BY <1>4 DEF WdtFeed
<1>5. CASE WdtClose BY <1>5 DEF WdtClose, ScriptRuns
<1>6. CASE Hang BY <1>6 DEF Hang, ScriptRuns
<1>7. CASE Idle BY <1>7 DEF Idle
<1>8. CASE Tick BY <1>8 DEF Tick
<1>9. CASE UNCHANGED wdtVars BY <1>9 DEF wdtVars
<1> QED BY <1>1, <1>2, <1>3, <1>4, <1>5, <1>6, <1>7, <1>8, <1>9 DEF WdtNext

\* When a period ends in which the script hung, after luat_wdt_init returned
\* and before any luat_wdt_close, and had not fed, the chip is reset, whatever
\* the calls before.  (That periods end, and so HangIsCaught, takes fairness.)
THEOREM HungPeriodResets ==
  WdtInit /\ [][WdtNext]_wdtVars => [][Tick /\ Hung /\ ~fed => reset']_wdtVars
<1>1. WdtInit => LuaIsWatched BY DEF WdtInit, LuaIsWatched
<1>2. LuaIsWatched => (Tick /\ Hung /\ ~fed => reset')
  <2> SUFFICES ASSUME LuaIsWatched, Tick, Hung, ~fed PROVE reset' OBVIOUS
  <2>1. twdt /\ luaWatched BY Zenon DEF LuaIsWatched, Hung
  <2>2. reset' = (twdt /\ ((luaWatched /\ ~fed) \/ (idleWatched /\ ~idled))) BY DEF Tick
  <2> QED BY <2>1, <2>2, Zenon
<1> QED BY <1>1, <1>2, WatchStep, PTL

\* A script that hangs cannot make a period look well.
LEMMA NobodyFeedsForTheHung ==
  WdtInit /\ [][WdtNext]_wdtVars => [][Hung /\ ~fed => (Hung /\ ~fed)']_wdtVars
<1>1. WdtInit => LuaIsWatched BY DEF WdtInit, LuaIsWatched
<1>2. ASSUME LuaIsWatched, [WdtNext]_wdtVars, Hung, ~fed PROVE (Hung /\ ~fed)'
  <2>1. ~ScriptRuns /\ ~opening BY <1>2 DEF ScriptRuns, Hung, LuaIsWatched
  <2>2. CASE Tick BY <1>2, <2>2 DEF Tick, Hung
  <2>3. CASE Idle BY <1>2, <2>3 DEF Idle, Hung
  <2>4. CASE UNCHANGED wdtVars BY <1>2, <2>4 DEF wdtVars, Hung
  <2> QED BY <1>2, <2>1, <2>2, <2>3, <2>4
          DEF WdtNext, WdtOpen, WdtAdd, WdtSetTimeout, WdtFeed, WdtClose, Hang
<1> QED BY <1>1, <1>2, WatchStep, PTL

-----------------------------------------------------------------------------
(* The services side by side.                                              *)

\* A step of one service leaves the others alone.
LEMMA OneServes ==
  [Next]_vars => /\ [FlashNext]_flashVars /\ [FilesNext]_filesVars
                 /\ [HeapNext]_heapVars /\ [LogNext]_logVars
                 /\ [WdtNext]_wdtVars /\ [UartNext]_uartVars
<1> SUFFICES ASSUME [Next]_vars
             PROVE  /\ [FlashNext]_flashVars /\ [FilesNext]_filesVars
                    /\ [HeapNext]_heapVars /\ [LogNext]_logVars
                    /\ [WdtNext]_wdtVars /\ [UartNext]_uartVars
  OBVIOUS
<1>1. CASE ServeFlash BY <1>1 DEF ServeFlash
<1>2. CASE ServeFiles BY <1>2 DEF ServeFiles
<1>3. CASE ServeHeap BY <1>3 DEF ServeHeap
<1>4. CASE ServeLog BY <1>4 DEF ServeLog
<1>5. CASE ServeWdt BY <1>5 DEF ServeWdt, OnlyWdt
<1>6. CASE ServeUart BY <1>6 DEF ServeUart, OnlyUart
<1>7. CASE UNCHANGED vars BY <1>7 DEF vars
<1> QED BY <1>1, <1>2, <1>3, <1>4, <1>5, <1>6, <1>7 DEF Next

\* The composition the run checks implements the specification of each service
\* (of the watchdog and the UART, what they may do; fairness apart).
THEOREM ServicesImplementEach ==
  Spec => /\ FlashSpec /\ FilesSpec /\ HeapSpec /\ LogSpec
          /\ WdtInit /\ [][WdtNext]_wdtVars
          /\ UartInit /\ [][UartNext]_uartVars
<1>1. Init => FlashInit /\ FilesInit /\ HeapInit /\ LogInit /\ WdtInit /\ UartInit BY DEF Init
<1> QED BY <1>1, OneServes, PTL DEF Spec, FlashSpec, FilesSpec, HeapSpec, LogSpec

\* ... and so keeps what each of them promises.
THEOREM ServicesKeepTheirPromises ==
  Spec => [](FlashAsReported /\ FilesAnswerTrue /\ ObjectsBacked /\ LinesAreWhole)
BY ServicesImplementEach, ReportedIsHeld, FilesAreAnsweredTruly, ObjectsAreBacked,
   LinesComeOutWhole, PTL
=============================================================================

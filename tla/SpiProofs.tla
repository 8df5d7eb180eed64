------------------------------ MODULE SpiProofs ------------------------------
(***************************************************************************)
(* Proofs about Spi, for any number of devices, any chunk size and         *)
(* transfers of any length: whose the bus is, what was moved, and whose    *)
(* mode the plain calls read.                                              *)
(***************************************************************************)
EXTENDS Spi, TLAPS

\* A transfer without a failed chunk accounts for every byte at every chunk.
Accounted == ~Free /\ ~job.failed => job.moved + job.left = job.asked

\* The plain calls and the device calls never have the bus together: a
\* device setup that finds spi_bus = 1 does not ask the driver, but then the
\* bus has been the devices' since it came up.
BusHasOneSide == /\ handle["plain"] = "open" => busUp /\ spi_bus = 0
                 /\ \A d \in Devs : handle[d] = "open" => spi_bus = 1
                 /\ spi_bus = 1 => busUp

\* The inductive invariant.
IInv == /\ TypeOK /\ Accounted /\ BusHasOneSide /\ MovedInFull /\ PlainModeIsIts

LEMMA InitIInv == Init => IInv
<1> SUFFICES ASSUME Init PROVE IInv OBVIOUS
<1> USE DEF Init
<1>1. TypeOK
  <2>1. handle \in [Users -> {"none", "open", "stale"}] /\ duplex \in [Users -> Duplex]
    BY DEF Duplex
  <2>2. done \in [asked : Nat, moved : Nat, failed : BOOLEAN, ret : Int]
    OBVIOUS
  <2>3. job \in {NoJob} /\ selected \subseteq Devs
    OBVIOUS
  <2>4. busUp \in BOOLEAN /\ spi_bus \in {0, 1} /\ spi_config \in Duplex
    BY DEF Duplex
  <2> QED BY ONLY <2>1, <2>2, <2>3, <2>4 DEF TypeOK
<1>2. Accounted BY DEF Accounted, Free
<1>3. BusHasOneSide /\ PlainModeIsIts BY DEF BusHasOneSide, PlainModeIsIts, Users
<1>4. MovedInFull BY DEF MovedInFull
<1> QED BY <1>1, <1>2, <1>3, <1>4 DEF IInv

-----------------------------------------------------------------------------
(* The setups: they leave the transfer and its result alone.               *)

LEMMA SetupStep ==
  ASSUME IInv,
         \/ \E m \in Duplex : SpiSetup(m) \/ \E d \in Devs : DeviceSetup(d, m)
         \/ SpiClose \/ SpiChangeSpeed
         \/ \E d \in Devs : DeviceSetupFails(d) \/ DeviceClose(d)
  PROVE  IInv'
<1> USE DEF IInv, Users
<1>1. "plain" \in Users /\ \A d \in Devs : d \in Users /\ d # "plain"
  BY SpiAssumption
<1>2. job' = job /\ done' = done
  BY DEF SpiSetup, DeviceSetup, SpiClose, SpiChangeSpeed, DeviceSetupFails, DeviceClose, vars
<1>3. Accounted' /\ MovedInFull' BY <1>2 DEF Accounted, MovedInFull, Free
<1>4. ASSUME NEW m \in Duplex, SpiSetup(m) PROVE IInv'
  <2> USE <1>4 DEF SpiSetup
  <2>1. TypeOK'
    <3>1. /\ handle' \in [Users -> {"none", "open", "stale"}]
          /\ duplex' \in [Users -> Duplex]
      BY <1>1 DEF TypeOK
    <3>2. /\ busUp' \in BOOLEAN /\ spi_config' \in Duplex
      BY DEF TypeOK
    <3>3. UNCHANGED <<spi_bus, selected, job, done>> OBVIOUS
    <3> QED BY <3>1, <3>2, <3>3 DEF TypeOK
  <2>2. BusHasOneSide'
    <3>1. \A d \in Devs : handle'[d] = handle[d] BY <1>1 DEF TypeOK
    <3> QED BY <1>1, <3>1 DEF BusHasOneSide, TypeOK, MayInit
  <2>3. PlainModeIsIts' BY <1>1 DEF PlainModeIsIts, BusHasOneSide, TypeOK, MayInit
  <2> QED BY <1>3, <2>1, <2>2, <2>3
<1>5. ASSUME NEW d \in Devs, NEW m \in Duplex, DeviceSetup(d, m) PROVE IInv'
  <2> USE <1>5 DEF DeviceSetup
  <2>1. handle'["plain"] = handle["plain"] /\ duplex'["plain"] = duplex["plain"]
    BY <1>1 DEF TypeOK
  <2>2. handle["plain"] # "open" BY DEF BusHasOneSide, MayInit
  <2>3. TypeOK' BY <1>1 DEF TypeOK
  <2>4. BusHasOneSide' BY <2>1, <2>2 DEF BusHasOneSide
  <2>5. PlainModeIsIts' BY <2>1, <2>2 DEF PlainModeIsIts
  <2> QED BY <1>3, <2>3, <2>4, <2>5
<1>6. CASE SpiClose
  <2> USE <1>6 DEF SpiClose
  <2>1. handle'["plain"] # "open" BY <1>1 DEF TypeOK
  <2>2. TypeOK' BY <1>1 DEF TypeOK
  <2>3. \A d \in Devs : handle'[d] = handle[d] BY <1>1 DEF TypeOK
  <2>4. spi_bus = 0 BY DEF BusHasOneSide
  <2>5. BusHasOneSide' BY <2>1, <2>3, <2>4 DEF BusHasOneSide
  <2>6. PlainModeIsIts' BY <2>1 DEF PlainModeIsIts
  <2> QED BY <1>3, <2>2, <2>5, <2>6
<1>7. CASE SpiChangeSpeed
  <2> USE <1>7 DEF SpiChangeSpeed
  <2>1. TypeOK' BY <1>1 DEF TypeOK
  <2>2. \A d \in Devs : handle'[d] = handle[d] BY <1>1 DEF TypeOK
  <2>3. BusHasOneSide' /\ PlainModeIsIts' BY <2>2 DEF BusHasOneSide, PlainModeIsIts
  <2> QED BY <1>3, <2>1, <2>3
<1>8. ASSUME NEW d \in Devs, DeviceClose(d) PROVE IInv'
  <2> USE <1>8 DEF DeviceClose
  <2>1. handle'["plain"] = handle["plain"] BY <1>1 DEF TypeOK
  <2>2. TypeOK' BY <1>1 DEF TypeOK
  <2>3. \A x \in Devs : handle'[x] = "open" => handle[x] = "open"
    BY <1>1 DEF TypeOK
  <2>4. BusHasOneSide' /\ PlainModeIsIts' BY <2>1, <2>3 DEF BusHasOneSide, PlainModeIsIts
  <2> QED BY <1>3, <2>2, <2>4
<1>9. ASSUME NEW d \in Devs, DeviceSetupFails(d) PROVE IInv'
  BY <1>9 DEF DeviceSetupFails, vars, TypeOK, Accounted, BusHasOneSide, MovedInFull,
              PlainModeIsIts, Free
<1> QED BY <1>4, <1>5, <1>6, <1>7, <1>8, <1>9

-----------------------------------------------------------------------------
(* The transfers: they leave the setups alone.                             *)

LEMMA TransferStep == ASSUME IInv, Transfer PROVE IInv'
<1> USE DEF IInv
<1>1. UNCHANGED setup BY DEF Transfer, Begin, Chunk, Abort, ReadPhase, Finish, End, Return
<1>2. /\ UNCHANGED <<busUp, spi_bus, handle, duplex, spi_config>>
      /\ BusHasOneSide' /\ PlainModeIsIts'
  BY <1>1 DEF setup, BusHasOneSide, PlainModeIsIts
<1>3. ASSUME NEW u \in Users, NEW op \in Ops, NEW n \in 0..MaxLen, Begin(u, op, n)
      PROVE  IInv'
  <2> USE <1>3 DEF Begin
  <2>1. n \in Nat BY SpiAssumption
  <2>2. TypeOK' BY <1>2, <2>1 DEF TypeOK
  <2>3. Accounted' BY <2>1 DEF Accounted
  <2>4. MovedInFull' BY DEF MovedInFull
  <2> QED BY <1>2, <2>2, <2>3, <2>4
<1>4. CASE Chunk
  <2> USE <1>4 DEF Chunk
  <2> DEFINE k == IF job.left > Max THEN Max ELSE job.left
  <2>1. job \in [who : Users, op : Ops, asked : Nat, left : Nat, moved : Nat,
                 failed : BOOLEAN, ret : {-1, 0, 1}]
    BY DEF TypeOK, Free
  <2>2. k \in Nat /\ k <= job.left BY <2>1, SpiAssumption
  <2>3. PICK ok \in BOOLEAN :
          job' = [job EXCEPT !.left = Left(k), !.moved = IF ok THEN @ + k ELSE @,
                             !.failed = @ \/ ~ok, !.ret = IF ok THEN 0 ELSE 1]
    OBVIOUS
  <2> HIDE DEF k
  <2>4. job' = [who |-> job.who, op |-> job.op, asked |-> job.asked, left |-> job.left - k,
                moved |-> IF ok THEN job.moved + k ELSE job.moved,
                failed |-> job.failed \/ ~ok, ret |-> IF ok THEN 0 ELSE 1]
    BY <2>1, <2>3 DEF Left
  <2>5. TypeOK'
    <3>1. job.left - k \in Nat /\ job.moved + k \in Nat BY <2>1, <2>2
    <3>2. (IF ok THEN job.moved + k ELSE job.moved) \in Nat
          /\ (job.failed \/ ~ok) \in BOOLEAN /\ (IF ok THEN 0 ELSE 1) \in {-1, 0, 1}
      BY <2>1, <3>1
    <3>3. job' \in [who : Users, op : Ops, asked : Nat, left : Nat, moved : Nat,
                    failed : BOOLEAN, ret : {-1, 0, 1}]
      BY <2>1, <2>4, <3>1, <3>2
    <3> QED BY <1>2, <3>3 DEF TypeOK
  <2>6. Accounted'
    <3> SUFFICES ASSUME ~job'.failed PROVE job'.moved + job'.left = job'.asked
      BY DEF Accounted
    <3>1. ok /\ ~job.failed BY <2>4
    <3>2. job.moved + job.left = job.asked BY <3>1 DEF Accounted
    <3>3. /\ job'.moved = job.moved + k /\ job'.left = job.left - k
          /\ job'.asked = job.asked
      BY <2>4, <3>1
    <3>4. /\ job.moved \in Nat /\ job.left \in Nat /\ job.asked \in Nat
      BY <2>1
    <3> HIDE DEF Chunk, IInv
    <3> QED BY <2>2, <3>2, <3>3, <3>4
  <2>7. MovedInFull' BY DEF MovedInFull
  <2> QED BY <1>2, <2>5, <2>6, <2>7
<1>5. ASSUME Sent, NEW ret \in Int,
             done' = [asked |-> job.asked, moved |-> job.moved, failed |-> job.failed,
                      ret |-> ret],
             job' = NoJob, selected' \subseteq Devs
      PROVE  IInv'
  <2>1. job \in [who : Users, op : Ops, asked : Nat, left : Nat, moved : Nat,
                 failed : BOOLEAN, ret : {-1, 0, 1}]
    BY <1>5 DEF TypeOK, Free, Sent
  <2>2. TypeOK' BY <1>2, <1>5, <2>1 DEF TypeOK
  <2>3. Accounted' BY <1>5 DEF Accounted, Free
  <2>4. MovedInFull'
    <3>1. ~job.failed => job.moved = job.asked
      BY <1>5, <2>1 DEF Accounted, Sent
    <3> QED BY <1>5, <3>1 DEF MovedInFull
  <2> QED BY <1>2, <2>2, <2>3, <2>4
<1>6. CASE Abort
  <2> USE <1>6 DEF Abort, Return
  <2>1. selected' \subseteq Devs BY DEF TypeOK
  <2> QED BY <1>5, <2>1
<1>7. ASSUME NEW ret \in {-1, 0, 1}, Sent, End(ret) PROVE IInv'
  <2> USE <1>7 DEF End, Return
  <2>1. job.asked \in Nat BY DEF TypeOK, Sent, Free
  <2>2. selected' \subseteq Devs BY DEF TypeOK
  <2> QED BY <1>5, <2>1, <2>2
<1>8. CASE ReadPhase BY <1>7, <1>8 DEF ReadPhase
<1>9. CASE Finish
  <2>1. job.ret \in {-1, 0, 1} BY <1>9 DEF TypeOK, Finish, Sent, Free
  <2> QED BY <1>7, <1>9, <2>1 DEF Finish
<1> QED BY <1>3, <1>4, <1>6, <1>8, <1>9 DEF Transfer

-----------------------------------------------------------------------------

LEMMA StepIInv == IInv /\ [Next]_vars => IInv'
<1> SUFFICES ASSUME IInv, [Next]_vars PROVE IInv' OBVIOUS
<1>1. CASE Next BY <1>1, SetupStep, TransferStep DEF Next
<1>2. CASE UNCHANGED vars
  BY <1>2 DEF vars, IInv, TypeOK, Accounted, BusHasOneSide, MovedInFull,
              PlainModeIsIts, Free
<1> QED BY <1>1, <1>2

LEMMA Invariance == Spec => []IInv
BY InitIInv, StepIInv, PTL DEF Spec

\* The port's own record of the bus and every open handle, plain or of a
\* device, stand on a bus that is up, over any setups and closes that fail or
\* not: the plain close, which takes the bus down without clearing spi_bus,
\* only ever runs where the devices never had it.
THEOREM BusStaysUp == Spec => []BusIsUp
<1>1. IInv => BusIsUp BY DEF IInv, BusHasOneSide, BusIsUp, Users
<1> QED BY <1>1, Invariance, PTL

\* A transfer that reports its length without a failed chunk moved every
\* byte, for every length and every chunk size.
THEOREM AllBytesMoved == Spec => []MovedInFull
<1>1. IInv => MovedInFull BY DEF IInv
<1> QED BY <1>1, Invariance, PTL

\* The device setups never change the mode under an open plain handle.
THEOREM PlainModeKept == Spec => []PlainModeIsIts
<1>1. IInv => PlainModeIsIts BY DEF IInv
<1> QED BY <1>1, Invariance, PTL
=============================================================================

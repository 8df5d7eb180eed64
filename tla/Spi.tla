--------------------------------- MODULE Spi ---------------------------------
(***************************************************************************)
(* The SPI port, port/luat_spi_idf5.c, on one bus: the plain calls use the *)
(* bus alone, with the driver's chip select; the device calls share it and *)
(* drive a chip select of their own by GPIO.  Transfers are cut in chunks; *)
(* every driver call may fail.  The SPI driver is external.                *)
(*                                                                         *)
(* The script uses only what it set up: a call on a handle that is not     *)
(* open is left out.                                                       *)
(***************************************************************************)
EXTENDS Integers

CONSTANTS
  Devs,     \* SPI devices of the script on this bus
  Max,      \* SOC_SPI_MAXIMUM_BUFFER_SIZE
  MaxLen    \* bound: bytes of a transfer

ASSUME SpiAssumption == /\ Max \in Nat \ {0} /\ MaxLen \in Nat
                        /\ {"plain", "nobody"} \cap Devs = {}

Users  == Devs \cup {"plain"}
Duplex == {"half", "full"}
Ops    == {"transfer", "recv", "send"}

VARIABLES
  busUp,       \* the driver has initialized the bus
  spi_bus,     \* the port's own flag for that, used by the device calls
  handle,      \* spi_handle, and the handle in each device's user_data
  duplex,      \* what each was set up for
  spi_config,  \* the mode in the one spi_config of the bus
  selected,    \* devices whose chip select is low
  job,         \* the transfer the Lua task is in
  done         \* the last transfer: asked, moved, failed chunks, result

vars  == <<busUp, spi_bus, handle, duplex, spi_config, selected, job, done>>
setup == <<busUp, spi_bus, handle, duplex, spi_config>>

NoJob == [who |-> "nobody"]

Init == /\ busUp = FALSE /\ spi_bus = 0
        /\ handle = [u \in Users |-> "none"]
        /\ duplex = [u \in Users |-> "full"]
        /\ spi_config = "full"
        /\ selected = {}
        /\ job = NoJob
        /\ done = [asked |-> 0, moved |-> 0, failed |-> FALSE, ret |-> -1]

Free == job = NoJob

-----------------------------------------------------------------------------
(* luat_spi_setup, luat_spi_close, luat_spi_change_speed. *)

\* spi_bus_initialize refuses a bus that is up; the first form does not look.
MayInitAlways == TRUE
MayInit       == ~busUp

\* The bus, then the device; either may fail.  Over a handle that is open the
\* bus is up, and the setup ends there.
SpiSetup(m) ==
  /\ Free
  /\ \/ UNCHANGED <<busUp, handle, duplex, spi_config>>
     \/ /\ MayInit
        /\ busUp' = TRUE
        /\ spi_config' = m
        /\ \/ /\ handle' = [handle EXCEPT !["plain"] = "open"]
              /\ duplex' = [duplex EXCEPT !["plain"] = m]
           \/ UNCHANGED <<handle, duplex>>
  /\ UNCHANGED <<spi_bus, selected, job, done>>

\* spi_handle keeps its value; the bus goes down unless a device is on it.
SpiClose == /\ Free /\ handle["plain"] = "open"
            /\ handle' = [handle EXCEPT !["plain"] = "stale"]
            /\ busUp' = \E d \in Devs : handle[d] = "open"
            /\ UNCHANGED <<spi_bus, duplex, spi_config, selected, job, done>>

\* The device is removed and added again: when that fails the handle is stale.
SpiChangeSpeed == /\ Free /\ handle["plain"] = "open"
                  /\ \E h \in {"open", "stale"} :
                       handle' = [handle EXCEPT !["plain"] = h]
                  /\ UNCHANGED <<busUp, spi_bus, duplex, spi_config, selected, job, done>>

-----------------------------------------------------------------------------
(* luat_spi_device_setup, luat_spi_device_close. *)

\* No memory, or the bus refuses: nothing of an open device is touched.
DeviceSetupFails(d) == Free /\ UNCHANGED vars

\* spi_bus is the port's own record of the bus; the chip select goes high
\* whether or not the device was added.  The setup of an open device gives it
\* another handle; the first stays with the driver.
DeviceSetup(d, m) ==
  /\ Free
  /\ spi_bus = 0 => MayInit
  /\ busUp' = TRUE
  /\ spi_bus' = 1
  /\ spi_config' = m
  /\ \E h \in {"none", "open"} : handle' = [handle EXCEPT ![d] = h]
  /\ duplex' = [duplex EXCEPT ![d] = m]
  /\ selected' = selected \ {d}
  /\ UNCHANGED <<job, done>>

DeviceClose(d) == /\ Free /\ handle[d] = "open"
                  /\ handle' = [handle EXCEPT ![d] = "none"]
                  /\ UNCHANGED <<busUp, spi_bus, duplex, spi_config, selected, job, done>>

-----------------------------------------------------------------------------
(* The transfers. *)

\* The chip select of a device goes low; ret is -1 until the driver answers.
Begin(u, op, n) ==
  /\ Free /\ handle[u] = "open"
  /\ selected' = selected \cup ({u} \cap Devs)
  /\ job' = [who |-> u, op |-> op, asked |-> n, left |-> n, moved |-> 0,
             failed |-> FALSE, ret |-> -1]
  /\ UNCHANGED <<setup, done>>

\* What a chunk leaves to do; the first form stops after a full chunk.
LeftNone(k) == 0
Left(k)     == job.left - k

Chunk == /\ ~Free /\ job.left > 0
         /\ LET k == IF job.left > Max THEN Max ELSE job.left IN
            \E ok \in BOOLEAN :
              job' = [job EXCEPT !.left = Left(k),
                                 !.moved = IF ok THEN @ + k ELSE @,
                                 !.failed = @ \/ ~ok,
                                 !.ret = IF ok THEN 0 ELSE 1]
         /\ UNCHANGED <<setup, selected, done>>

Return(ret) == /\ done' = [asked |-> job.asked, moved |-> job.moved,
                           failed |-> job.failed, ret |-> ret]
               /\ job' = NoJob
               /\ UNCHANGED setup

Sent == ~Free /\ job.left = 0

\* A plain transfer in full duplex reads while it writes.
TwoPhases == job.op = "transfer" /\ (job.who = "plain" => spi_config = "half")

\* The write of a transfer failed, or there was none: -2, and the chip select
\* of a device stays low.
Abort == /\ Sent /\ job.op = "transfer" /\ job.ret # 0
         /\ Return(-2)
         /\ UNCHANGED selected

End(ret) == /\ Return(IF ret = 0 THEN job.asked ELSE -1)
            /\ selected' = selected \ {job.who}

\* The read of a transfer: one transmit of recv_length bytes, not cut in
\* chunks; how many bytes it brings is not followed.
ReadPhase == /\ Sent /\ TwoPhases /\ job.ret = 0
             /\ \E ret \in {0, 1} : End(ret)

Finish == /\ Sent /\ ~TwoPhases
          /\ job.op = "transfer" => job.ret = 0
          /\ End(job.ret)

Transfer == \/ \E u \in Users, op \in Ops, n \in 0..MaxLen : Begin(u, op, n)
            \/ Chunk \/ Abort \/ ReadPhase \/ Finish

Next == \/ \E m \in Duplex : SpiSetup(m) \/ \E d \in Devs : DeviceSetup(d, m)
        \/ SpiClose \/ SpiChangeSpeed
        \/ \E d \in Devs : DeviceSetupFails(d) \/ DeviceClose(d)
        \/ Transfer

Spec == Init /\ [][Next]_vars

-----------------------------------------------------------------------------

TypeOK ==
  /\ busUp \in BOOLEAN /\ spi_bus \in {0, 1}
  /\ handle \in [Users -> {"none", "open", "stale"}]
  /\ duplex \in [Users -> Duplex] /\ spi_config \in Duplex
  /\ selected \subseteq Devs
  /\ job \in {NoJob} \cup [who : Users, op : Ops, asked : Nat, left : Nat, moved : Nat,
                           failed : BOOLEAN, ret : {-1, 0, 1}]
  /\ done \in [asked : Nat, moved : Nat, failed : BOOLEAN, ret : Int]

\* Two users keep the bus in two records, the driver's and the port's own
\* spi_bus, which is never cleared while luat_spi_close takes the bus down: no
\* device setup relies on spi_bus, and no open handle on a bus, that is down.
BusIsUp == spi_bus = 1 \/ (\E u \in Users : handle[u] = "open") => busUp

\* A transfer that returns its length and saw no failed chunk has moved every
\* byte it was asked for, at every length around the chunk size.
MovedInFull == done.ret >= 0 /\ ~done.failed => done.moved = done.asked

\* The plain calls read half or full duplex from the spi_config that the
\* device setups of the same bus write too: it is still the mode the open
\* plain handle was set up with.
PlainModeIsIts == handle["plain"] = "open" => spi_config = duplex["plain"]
=============================================================================

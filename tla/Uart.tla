-------------------------------- MODULE Uart --------------------------------
(***************************************************************************)
(* The receive path of one UART, port/luat_uart_idf5.c: the driver's ISR   *)
(* fills the ring buffer and queues an event, uartN_irq_task turns the     *)
(* event into a bus message, and the Lua task calls the script's receive   *)
(* callback, which reads what the ring holds.  The irq task resets the     *)
(* event queue after each message: events that came meanwhile are thrown   *)
(* away, on the ground that the callback will read their data too.         *)
(*                                                                         *)
(* The driver, the scheduler and the callback are external.  The irq task  *)
(* (priority 12) runs before the Lua task (priority 10); when both share   *)
(* the only core, the Lua task runs only while the irq task waits.         *)
(***************************************************************************)
EXTENDS MsgBus

CONSTANTS
  QueueSize,  \* slots of xQueue (LUAT_UART_QUEUE_SIZE)
  RingCap,    \* bytes of the ring buffer
  FifoCap,    \* bytes of the hardware FIFO
  Threshold,  \* bytes at which the FIFO interrupts without waiting for silence
  DualCore    \* TRUE: ESP32 and ESP32-S3

\* The driver refuses a ring that is no longer than the FIFO.
ASSUME UartAssumption ==
  /\ QueueSize \in Nat \ {0} /\ RingCap \in Nat /\ FifoCap \in Nat /\ Threshold \in Nat
  /\ 0 < Threshold /\ Threshold <= FifoCap /\ FifoCap < RingCap /\ DualCore \in BOOLEAN

VARIABLES
  installed,  \* the driver, its queue and the irq task exist
  ring,       \* unread bytes
  fifo,       \* bytes still in the hardware FIFO
  stash,      \* bytes the ISR holds for which the ring had no room: until they
              \* are in the ring the receive interrupts are off
  xQueue,     \* events, oldest first: their timeout_flag
  irq,        \* where the irq task stands
  recv,       \* uart_port[].recv
  bus,        \* messages of this port and of others
  lua,        \* where the Lua task stands
  announced,  \* a pause of the sender was seen, and its bytes are unread (a history)
  missed      \* 1 once a pause was seen that no callback was promised for: no
              \* callback registered yet, or the event or the message found no slot

uartVars == <<installed, ring, fifo, stash, xQueue, irq, recv, bus, lua, announced, missed>>

UartInit == /\ installed = FALSE /\ ring = 0 /\ fifo = 0 /\ stash = 0 /\ xQueue = <<>>
            /\ irq = "wait" /\ recv = 0 /\ bus = <<>> /\ lua = "loop"
            /\ announced = FALSE /\ missed = 0

-----------------------------------------------------------------------------
(* The UART and its driver, external. *)

Arrive == /\ installed /\ fifo < FifoCap
          /\ fifo' = fifo + 1
          /\ UNCHANGED <<installed, ring, stash, xQueue, irq, recv, bus, lua, announced, missed>>

\* An event is queued for the irq task, or dropped.
Queued(timeout_flag) ==
  xQueue' = IF Len(xQueue) < QueueSize THEN Append(xQueue, timeout_flag) ELSE xQueue

\* The interrupt at the threshold, or after a pause of the sender: it empties
\* the FIFO either way (rx_always_timeout is off), so that no pause is seen
\* after a burst that ends on the threshold.
Isr == \E timeout_flag \in BOOLEAN :
  /\ stash = 0 /\ fifo >= (IF timeout_flag THEN 1 ELSE Threshold)
  /\ fifo' = 0
  /\ ring'  = IF ring + fifo <= RingCap THEN ring + fifo ELSE ring
  /\ stash' = IF ring + fifo <= RingCap THEN 0 ELSE fifo
  /\ Queued(timeout_flag)
  /\ announced' = (announced \/ timeout_flag)
  /\ missed' = IF timeout_flag /\ Len(xQueue) >= QueueSize THEN 1 ELSE missed
  /\ UNCHANGED <<installed, irq, recv, bus, lua>>

\* The FIFO overflows, is reset, and an event says so whose timeout_flag the
\* driver never sets.
Overflow == \E timeout_flag \in BOOLEAN :
  /\ fifo = FifoCap
  /\ fifo' = 0
  /\ Queued(timeout_flag)
  /\ UNCHANGED <<installed, ring, stash, irq, recv, bus, lua, announced, missed>>

\* Other tasks use the bus too.
OtherPut == /\ bus' = BusPut(bus, "other")
            /\ UNCHANGED <<installed, ring, fifo, stash, xQueue, irq, recv, lua, announced, missed>>

-----------------------------------------------------------------------------
(* uartN_irq_task. *)

\* The queue is reset after every event, not only after a message.
TakeResetAlways ==
  /\ installed /\ irq = "wait" /\ xQueue # <<>>
  /\ irq' = IF Head(xQueue) THEN "put" ELSE "wait"
  /\ xQueue' = IF Head(xQueue) THEN Tail(xQueue) ELSE <<>>
  /\ UNCHANGED <<installed, ring, fifo, stash, recv, bus, lua, announced, missed>>

\* xQueueReceive; an event without timeout_flag is passed over.  (Its size is
\* no more than the FIFO holds, and never above the 1848 of the other test.)
Take == /\ installed /\ irq = "wait" /\ xQueue # <<>>
        /\ irq' = IF Head(xQueue) THEN "put" ELSE "wait"
        /\ xQueue' = Tail(xQueue)
        /\ UNCHANGED <<installed, ring, fifo, stash, recv, bus, lua, announced, missed>>

PutMessage == /\ irq = "put"
              /\ bus' = IF recv = 1 THEN BusPut(bus, "uart") ELSE bus
              /\ missed' = IF recv = 0 \/ BusFull(bus) THEN 1 ELSE missed
              /\ irq' = "reset"
              /\ UNCHANGED <<installed, ring, fifo, stash, xQueue, recv, lua, announced>>

ResetQueue == /\ irq = "reset"
              /\ xQueue' = <<>>
              /\ irq' = "wait"
              /\ UNCHANGED <<installed, ring, fifo, stash, recv, bus, lua, announced, missed>>

IrqTask == Take \/ PutMessage \/ ResetQueue

-----------------------------------------------------------------------------
(* The Lua task: messages, and the calls of the script. *)

LuaRuns == DualCore \/ (irq = "wait" /\ xQueue = <<>>)

Receive == /\ LuaRuns /\ lua = "loop" /\ bus # <<>>
           /\ lua' = IF Head(bus) = "uart" THEN "callback" ELSE "loop"
           /\ bus' = Tail(bus)
           /\ UNCHANGED <<installed, ring, fifo, stash, xQueue, irq, recv, announced, missed>>

\* The script's callback calls luat_uart_read until nothing is left; the driver
\* puts what it stashed into the room this makes.
ReadAll == /\ LuaRuns /\ lua = "callback"
           /\ ring' = 0 /\ stash' = 0
           /\ announced' = FALSE /\ missed' = 0
           /\ lua' = "loop"
           /\ UNCHANGED <<installed, fifo, xQueue, irq, recv, bus>>

\* luat_uart_setup: the driver and the task are made once; a second call only
\* sets the line parameters.
UartSetup == /\ LuaRuns /\ lua = "loop" /\ ~installed
             /\ installed' = TRUE
             /\ xQueue' = <<>> /\ irq' = "wait"
             /\ UNCHANGED <<ring, fifo, stash, recv, bus, lua, announced, missed>>

\* luat_setup_cb.
SetupCb == /\ LuaRuns /\ lua = "loop" /\ recv = 0
           /\ recv' = 1
           /\ UNCHANGED <<installed, ring, fifo, stash, xQueue, irq, bus, lua, announced, missed>>

\* luat_uart_close: the task is deleted wherever it stands, then the driver.
UartClose == /\ LuaRuns /\ lua = "loop" /\ installed
             /\ installed' = FALSE
             /\ ring' = 0 /\ fifo' = 0 /\ stash' = 0 /\ xQueue' = <<>> /\ irq' = "wait"
             /\ announced' = FALSE /\ missed' = 0
             /\ UNCHANGED <<recv, bus, lua>>

LuaTask == Receive \/ ReadAll
Script  == UartSetup \/ SetupCb \/ UartClose

UartNext == Arrive \/ Isr \/ Overflow \/ OtherPut \/ IrqTask \/ LuaTask \/ Script

\* The irq task runs when it has work, and the Lua task whenever it is let; a
\* UART does not keep a core busy, its interrupts are a hundred bytes apart.
CoreIsLeft   == []<>LuaRuns
UartFairness == WF_uartVars(IrqTask) /\ SF_uartVars(LuaTask) /\ CoreIsLeft
UartSpec     == UartInit /\ [][UartNext]_uartVars /\ UartFairness

-----------------------------------------------------------------------------

Somewhere(x, q) == \E i \in 1..Len(q) : q[i] = x

\* No lost wakeup: once a pause of the sender was seen, something is on its way
\* that will make the script read the bytes, although the irq task throws the
\* events of later pauses away with xQueueReset - unless an event or a message
\* found its queue full or no callback was registered.  (Of bytes the driver
\* announces with a threshold event only, the code promises nothing.)
NoLostWakeup ==
  announced /\ missed = 0
    => \/ Somewhere(TRUE, xQueue) \/ irq = "put"
       \/ Somewhere("uart", bus) \/ lua = "callback"

\* ... and so the script reads them.
BytesAreRead == (announced /\ missed = 0) ~> (~announced \/ missed = 1)
=============================================================================

------------------------------ MODULE MsgBus ------------------------------
(***************************************************************************)
(* The LuatOS message bus, the only way from any other task to the Lua     *)
(* task.  It lives outside this repository; the port uses it through       *)
(* luat_msgbus_put(&msg, 0) (a copy of msg is queued, the caller never     *)
(* waits and never looks at the result) and receives the messages back as  *)
(* calls of msg.handler in the Lua task, one at a time and in order.       *)
(***************************************************************************)
EXTENDS Naturals, Sequences

CONSTANT BusCap   \* slots of the bus

ASSUME BusCapAssumption == BusCap \in Nat \ {0}

BusFull(q) == Len(q) >= BusCap

\* A bus that grows past its last slot.
BusPutUnbounded(q, m) == Append(q, m)

\* The last message put overtakes the ones that wait.
BusPutFront(q, m) == IF BusFull(q) THEN q ELSE <<m>> \o q

\* A put with timeout 0: the message is dropped when no slot is free.
BusPut(q, m) == IF BusFull(q) THEN q ELSE Append(q, m)
===========================================================================

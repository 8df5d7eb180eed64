-------------------------------- MODULE Mqtt --------------------------------
(***************************************************************************)
(* One MQTT object of legacy/luat_lib_mqtt.c: a Lua userdata that the MQTT *)
(* client task, the messages on the bus and the payload blocks point to.   *)
(* The userdata lives as long as the script or mqtt_ref holds it; close    *)
(* lets go of mqtt_ref through the bus, behind every other message.        *)
(*                                                                         *)
(* The client library and the Lua collector are external.  Assumed of the  *)
(* library: esp_mqtt_client_stop returns when the client task has left the *)
(* event handler, and no event is reported after that.                     *)
(***************************************************************************)
EXTENDS MsgBus, FiniteSets

CONSTANTS
  Clients,   \* the handles esp_mqtt_client_init may return
  Reconnect, \* TRUE: the script may call connect again
  HeapMax,   \* bound: payload blocks the heap has room for
  PubMax     \* bound: messages the script publishes

ASSUME MqttAssumption == /\ IsFiniteSet(Clients) /\ Clients # {} /\ "NULL" \notin Clients
                         /\ Reconnect \in BOOLEAN /\ HeapMax \in Nat /\ PubMax \in Nat

VARIABLES
  ctrl,       \* the userdata: none, alive or collected
  held,       \* the script can reach it
  mqtt_ref, mqtt_cb, mqtt_state,
  client,     \* mqtt_ctrl->client
  phase,      \* per handle: unused, running, stopping or destroyed
  link,       \* handles that are connected to the broker
  subs,       \* handles the broker has the script's subscription of
  outbox,     \* per handle: ids published and not acknowledged
  handling,   \* per handle: the event its task is handling
  bus,
  payloads,   \* payload blocks allocated
  lost,       \* 1 once a message found no slot
  lua,        \* where the Lua task stands: loop, stopping or publishing
  ids,        \* ids that publish has given out, ids it has returned
  closed,     \* close was called
  deaf,       \* it unsubscribed, or had no callback when told of a connection
  sent        \* ids the script's callback was told are sent

object  == <<ctrl, held, mqtt_ref, mqtt_cb, client>>
library == <<phase, link, subs, outbox>>
script  == <<ids, closed, deaf, sent>>
vars    == <<object, mqtt_state, library, handling, bus, payloads, lost, lua, script>>

Kinds == {"CONNECTED", "DISCONNECTED", "PUBLISHED", "DATA", "ERROR", "OTHER"}

Event(kind, id) == [kind |-> kind, id |-> id]
NoEvent         == Event("none", 0)

Init == /\ ctrl = "none" /\ held = FALSE /\ mqtt_ref = 0 /\ mqtt_cb = 0
        /\ client = "NULL" /\ mqtt_state = 0
        /\ phase = [c \in Clients |-> "unused"]
        /\ link = {} /\ subs = {} /\ outbox = [c \in Clients |-> {}]
        /\ handling = [c \in Clients |-> NoEvent]
        /\ bus = <<>> /\ payloads = 0 /\ lost = 0
        /\ lua = "loop" /\ closed = FALSE /\ deaf = FALSE /\ sent = {}
        /\ ids = [given |-> 0, returned |-> 0]

-----------------------------------------------------------------------------
(* The client task: mqtt_event_handler, up to its put and the put. *)

\* What the library reports of a session: its connection (a clean session,
\* without subscriptions), its end, an acknowledgement, data, an error.
Reports(c, e) ==
  CASE e.kind = "CONNECTED"    -> c \notin link
    [] e.kind = "PUBLISHED"    -> c \in link /\ e.id \in outbox[c]
    [] e.kind = "DATA"         -> c \in link /\ payloads < HeapMax
    [] OTHER                   -> TRUE

Handle(c, e) ==
  /\ phase[c] = "running" /\ handling[c] = NoEvent
  /\ Reports(c, e)
  /\ handling' = [handling EXCEPT ![c] = e]
  /\ link' = CASE e.kind = "CONNECTED" -> link \cup {c}
               [] e.kind = "DISCONNECTED" -> link \ {c}
               [] OTHER -> link
  /\ subs' = IF e.kind \in {"CONNECTED", "DISCONNECTED"} THEN subs \ {c} ELSE subs
  /\ outbox' = [outbox EXCEPT ![c] = IF e.kind = "PUBLISHED" THEN @ \ {e.id} ELSE @]
  /\ mqtt_state' = CASE e.kind = "CONNECTED" -> 1
                     [] e.kind \in {"DISCONNECTED", "ERROR"} -> 0
                     [] OTHER -> mqtt_state
  /\ payloads' = IF e.kind = "DATA" THEN payloads + 1 ELSE payloads
  /\ UNCHANGED <<object, phase, bus, lost, lua, script>>

\* A put that waits for a slot, and the put with timeout 0 of the code.
MayPutWaiting(q) == ~BusFull(q)
MayPut(q)        == TRUE

\* The events that become messages; the first form forgets one.
ReportedLess == {"PUBLISHED", "DATA"}
Reported     == {"CONNECTED", "PUBLISHED", "DATA"}

\* The callback is called at once, in the client task.
HandlerTells(c) ==
  /\ handling[c].kind \in Reported
  /\ sent' = IF handling[c].kind = "PUBLISHED" THEN sent \cup {handling[c].id} ELSE sent
  /\ handling' = [handling EXCEPT ![c] = NoEvent]
  /\ UNCHANGED <<object, mqtt_state, library, bus, payloads, lost, lua, ids, closed, deaf>>

HandlerPuts(c) ==
  /\ handling[c].kind \in Reported
  /\ MayPut(bus)
  /\ bus' = BusPut(bus, handling[c])
  /\ lost' = IF BusFull(bus) THEN 1 ELSE lost
  /\ handling' = [handling EXCEPT ![c] = NoEvent]
  /\ UNCHANGED <<object, mqtt_state, library, payloads, lua, script>>

HandlerReturns(c) ==
  /\ handling[c] # NoEvent /\ handling[c].kind \notin Reported
  /\ handling' = [handling EXCEPT ![c] = NoEvent]
  /\ UNCHANGED <<object, mqtt_state, library, bus, payloads, lost, lua, script>>

ClientTask(c) ==
  \/ \E kind \in Kinds, id \in 0..PubMax :
       (id > 0 <=> kind = "PUBLISHED") /\ Handle(c, Event(kind, id))
  \/ HandlerPuts(c) \/ HandlerReturns(c)

-----------------------------------------------------------------------------
(* The Lua task: l_mqtt_callback. *)

\* The block of a DATA message is freed only when a callback ran.
FreedIfTold(kind) == IF kind = "DATA" /\ mqtt_cb = 1 THEN 1 ELSE 0
Freed(kind)       == IF kind = "DATA" THEN 1 ELSE 0

\* esp_mqtt_client_subscribe fails unless the client is connected; the
\* result is ignored.
Subscribing == subs \cup ({client} \cap link)

\* The script subscribes when it is told "conack", as it must after every
\* connection.
Callback ==
  /\ lua = "loop" /\ bus # <<>>
  /\ LET e == Head(bus) IN
     /\ payloads' = payloads - Freed(e.kind)
     /\ mqtt_ref' = IF e.kind = "RELEASE" THEN 0 ELSE mqtt_ref
     /\ sent' = IF e.kind = "PUBLISHED" /\ mqtt_cb = 1 THEN sent \cup {e.id} ELSE sent
     /\ subs' = IF e.kind = "CONNECTED" /\ mqtt_cb = 1 THEN Subscribing ELSE subs
     /\ deaf' = (deaf \/ (e.kind = "CONNECTED" /\ mqtt_cb = 0))
  /\ bus' = Tail(bus)
  /\ UNCHANGED <<ctrl, held, mqtt_cb, client, mqtt_state, phase, link, outbox, handling,
                 lost, lua, ids, closed>>

-----------------------------------------------------------------------------
(* The Lua task: the calls of the script, and the collector. *)

Create == /\ lua = "loop" /\ ctrl = "none"
          /\ ctrl' = "alive" /\ held' = TRUE /\ mqtt_ref' = 1
          /\ UNCHANGED <<mqtt_cb, client, mqtt_state, library, handling, bus, payloads,
                         lost, lua, script>>

\* "After close the resources are released and it can no longer be used."
Usable == lua = "loop" /\ held /\ ~closed

On == /\ Usable
      /\ mqtt_cb' \in {0, 1}
      /\ UNCHANGED <<ctrl, held, mqtt_ref, client, mqtt_state, library, handling, bus,
                     payloads, lost, lua, script>>

Connect(c) == /\ Usable
              /\ Reconnect \/ client = "NULL"
              /\ phase[c] = "unused"
              /\ client' = c
              /\ phase' = [phase EXCEPT ![c] = "running"]
              /\ UNCHANGED <<ctrl, held, mqtt_ref, mqtt_cb, mqtt_state, link, subs, outbox,
                             handling, bus, payloads, lost, lua, script>>

\* l_mqtt_publish, quality 1: the library gives the message an id and sends
\* it; the acknowledgement may be handled before the call has returned the
\* id.  Without a client the call returns -1.
Publish == /\ Usable /\ client # "NULL" /\ ids.given < PubMax
           /\ ids' = [ids EXCEPT !.given = @ + 1]
           /\ outbox' = [outbox EXCEPT ![client] = @ \cup {ids'.given}]
           /\ lua' = "publishing"
           /\ UNCHANGED <<object, mqtt_state, phase, link, subs, handling, bus, payloads, lost,
                          closed, deaf, sent>>

PublishReturns == /\ lua = "publishing"
                  /\ ids' = [ids EXCEPT !.returned = ids.given]
                  /\ lua' = "loop"
                  /\ UNCHANGED <<object, mqtt_state, library, handling, bus, payloads, lost,
                                 closed, deaf, sent>>

\* l_mqtt_subscribe of the script's own accord.
Subscribe == /\ Usable
             /\ subs' = Subscribing
             /\ UNCHANGED <<object, mqtt_state, phase, link, outbox, handling, bus, payloads,
                            lost, lua, script>>

Unsubscribe == /\ Usable
               /\ subs' = subs \ {client}
               /\ deaf' = TRUE
               /\ UNCHANGED <<object, mqtt_state, phase, link, outbox, handling, bus, payloads,
                              lost, lua, ids, closed, sent>>

\* l_mqtt_close: esp_mqtt_client_stop ...
Close == /\ Usable
         /\ lua' = "stopping"
         /\ closed' = TRUE
         /\ phase' = [c \in Clients |-> IF c = client THEN "stopping" ELSE phase[c]]
         /\ UNCHANGED <<object, mqtt_state, link, subs, outbox, handling, bus, payloads, lost,
                        ids, deaf, sent>>

\* What the rest of close leaves of mqtt_ref.
ReleaseNow   == 0
ReleaseLater == mqtt_ref

\* ... which returns once the task is out of the handler; the client is
\* destroyed, the callback dropped, and mqtt_release puts its message.
CloseRest == /\ lua = "stopping"
             /\ \A c \in Clients : phase[c] = "stopping" => handling[c] = NoEvent
             /\ phase' = [c \in Clients |-> IF phase[c] = "stopping" THEN "destroyed"
                                            ELSE phase[c]]
             /\ link' = link \ {client}
             /\ subs' = subs \ {client}
             /\ mqtt_cb' = 0
             /\ mqtt_ref' = ReleaseLater
             /\ bus' = BusPut(bus, Event("RELEASE", 0))
             /\ lost' = IF BusFull(bus) THEN 1 ELSE lost
             /\ lua' = "loop"
             /\ UNCHANGED <<ctrl, held, client, mqtt_state, outbox, handling, payloads, script>>

\* The script forgets the object.
Forget == /\ lua = "loop" /\ held
          /\ held' = FALSE
          /\ UNCHANGED <<ctrl, mqtt_ref, mqtt_cb, client, mqtt_state, library, handling, bus,
                         payloads, lost, lua, script>>

Collect == /\ lua = "loop" /\ ctrl = "alive" /\ ~held /\ mqtt_ref = 0
           /\ ctrl' = "collected"
           /\ UNCHANGED <<held, mqtt_ref, mqtt_cb, client, mqtt_state, library, handling, bus,
                          payloads, lost, lua, script>>

LuaTask == Callback \/ PublishReturns \/ CloseRest
Script  == \/ Create \/ On \/ (\E c \in Clients : Connect(c))
           \/ Publish \/ Subscribe \/ Unsubscribe \/ Close \/ Forget \/ Collect

Next == (\E c \in Clients : ClientTask(c)) \/ LuaTask \/ Script

Finish(c) == HandlerPuts(c) \/ HandlerReturns(c)

\* Both tasks go on with what they began; no event, no call is owed.
Spec     == Init /\ [][Next]_vars
FairSpec == Spec /\ WF_vars(LuaTask) /\ (\A c \in Clients : WF_vars(Finish(c)))

-----------------------------------------------------------------------------

Count(kind, q) == Cardinality({i \in 1..Len(q) : q[i].kind = kind})
InHandler(kind) == Cardinality({c \in Clients : handling[c].kind = kind})

\* Nothing points to a collected object: neither a message on the bus, nor a
\* client task that may still call the handler.
NothingDangles ==
  ctrl = "collected" => /\ bus = <<>>
                        /\ \A c \in Clients : phase[c] \in {"unused", "destroyed"}

\* Every payload block is on its way to the callback that frees it, unless a
\* message was dropped: none is freed twice and none is forgotten.
PayloadsOwned ==
  /\ payloads >= Count("DATA", bus) + InHandler("DATA")
  /\ lost = 0 => payloads = Count("DATA", bus) + InHandler("DATA")

\* "sent" names a message the script knows: the callback is told an id only
\* after l_mqtt_publish returned it, although the client task may handle the
\* acknowledgement while the call is still under way.
SentAfterPublish == \A id \in sent : id <= ids.returned

\* A script that subscribes in its "conack" callback is subscribed whenever
\* it is connected and has handled its messages, through any number of lost
\* connections: no connection goes unreported and none is reported too early
\* to subscribe, unless the bus dropped a message, there was no callback, or
\* the script unsubscribed.
SubscribedWhenSettled ==
  (lost = 0 /\ ~deaf /\ client \in link /\ phase[client] = "running"
     /\ Count("CONNECTED", bus) = 0 /\ InHandler("CONNECTED") = 0)
  => client \in subs

\* close comes back: the client task it waits for never waits for the Lua task.
CloseReturns == lua = "stopping" ~> lua = "loop"

\* "After close the resources are released": no client is left running.
CloseReleases ==
  closed /\ lua = "loop" => \A c \in Clients : phase[c] \in {"unused", "destroyed"}
=============================================================================

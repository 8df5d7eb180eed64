-------------------------------- MODULE Wlan --------------------------------
(***************************************************************************)
(* The WiFi port, port/luat_wlan_idf5.c: the script's wlan calls and the   *)
(* message handler l_wlan_handler run in the Lua task, the three event     *)
(* handlers in the system event task, and the WiFi driver below both.      *)
(* Nothing is locked: the tasks share the flags and meet in two queues,    *)
(* the event queue evq and the message bus.                                *)
(*                                                                         *)
(* The driver is external.  What is assumed of it: every attempt and every *)
(* connection that ends, for whatever reason, is reported by exactly one   *)
(* DISC event; a post waits for room in evq; connect is refused unless the *)
(* station is up and idle.                                                 *)
(***************************************************************************)
EXTENDS MsgBus, FiniteSets

CONSTANTS
  EvqCap,   \* slots of the system event queue
  Script,   \* the wlan calls the script makes (a subset of Calls)
  LateIp    \* TRUE: a lease may still be reported between the loss of the
            \* link and the handling of the event that reports the loss

Calls == {"connect", "disconnect", "mode", "sc_start", "sc_stop", "ap_start", "ap_stop"}

ASSUME WlanAssumption == /\ EvqCap \in Nat
                         /\ Script \subseteq Calls
                         /\ LateIp \in BOOLEAN

VARIABLES
  \* the driver
  mode, started, sta, sc, evq,
  \* flags of the port written by the Lua task
  wlan_inited, auto_reconnection, smartconfig_state, wifiAP, call,
  \* flags of the port written by the event task
  wlan_is_ready, sta_connected_bssid, apLink, apNetif,
  \* the bus, and what the script was told last
  bus, linkLost, luaStatus

driver  == <<mode, started, sta, sc, evq>>
luaSide == <<wlan_inited, auto_reconnection, smartconfig_state, wifiAP, call>>
evtSide == <<wlan_is_ready, sta_connected_bssid, apLink, apNetif>>
feed    == <<bus, linkLost, luaStatus>>
vars    == <<driver, luaSide, evtSide, feed>>

Bit    == {0, 1}
Modes  == {"NULL", "STA", "AP", "APSTA"}
\* OTHER stands for the events that are only forwarded: STA_START, STA_STOP,
\* SCAN_DONE, AP_STACONNECTED, AP_STADISCONNECTED, AP_STAIPASSIGNED.
Events == {"CONN", "DISC", "BEACON", "AP_START", "AP_STOP", "OTHER",
           "GOT_IP", "SC_GOT", "SC_ACK"}

IsLink(e)  == e \in {"CONN", "DISC"}
LinkBit(e) == IF e = "CONN" THEN 1 ELSE 0
Linked     == IF sta = "connected" THEN 1 ELSE 0

StaUp(m, s) == s = 1 /\ m \in {"STA", "APSTA"}
ApUp(m, s)  == s = 1 /\ m \in {"AP", "APSTA"}

Init ==
  /\ mode = "NULL" /\ started = 0 /\ sta = "idle" /\ sc = "off" /\ evq = <<>>
  /\ wlan_inited = 0 /\ auto_reconnection = 0 /\ smartconfig_state = 0
  /\ wifiAP = 0 /\ call = "none"
  /\ wlan_is_ready = 0 /\ sta_connected_bssid = 0 /\ apLink = 0 /\ apNetif = 0
  /\ bus = <<>> /\ linkLost = 0 /\ luaStatus = 0

-----------------------------------------------------------------------------
(* The driver, external. *)

If(c, e) == IF c THEN <<e>> ELSE <<>>

Post(es) == /\ Len(evq) + Len(es) <= EvqCap
            /\ evq' = evq \o es

\* esp_wifi_set_mode, esp_wifi_start, esp_wifi_stop: interfaces go down and up.
Reconfigure(m, s) ==
  LET was == StaUp(mode, started)
      is  == StaUp(m, s)
  IN  /\ mode' = m
      /\ started' = s
      /\ sta' = IF is THEN sta ELSE "idle"
      /\ Post(   If(sta # "idle" /\ ~is, "DISC")
              \o If(was # is, "OTHER")
              \o If(ApUp(mode, started) /\ ~ApUp(m, s), "AP_STOP")
              \o If(~ApUp(mode, started) /\ ApUp(m, s), "AP_START"))

\* esp_wifi_connect: what becomes of a station in state s.
Connecting(s) == IF s = "idle" /\ StaUp(mode, started) THEN "connecting" ELSE s

\* The access point answers.
Associate == /\ sta = "connecting"
             /\ sta' = "connected"
             /\ Post(<<"CONN">>)
             /\ UNCHANGED <<mode, started, sc, luaSide, evtSide, feed>>

\* An attempt fails, or the connection is lost.
Drop == /\ sta # "idle"
        /\ sta' = "idle"
        /\ Post(<<"DISC">>)
        /\ UNCHANGED <<mode, started, sc, luaSide, evtSide, feed>>

\* The lease; the interface is up until DISC was handled.
Lease == /\ sta = "connected" \/ (LateIp /\ sta_connected_bssid = 1)
         /\ Post(<<"GOT_IP">>)
         /\ UNCHANGED <<mode, started, sta, sc, luaSide, evtSide, feed>>

\* Smartconfig heard the credentials; then it has acknowledged them.
Hear == /\ sc = "listening" /\ StaUp(mode, started)
        /\ sc' = "got"
        /\ Post(<<"SC_GOT">>)
        /\ UNCHANGED <<mode, started, sta, luaSide, evtSide, feed>>

Acknowledge == /\ sc = "got" /\ sta = "connected"
               /\ sc' = "acked"
               /\ Post(<<"SC_ACK">>)
               /\ UNCHANGED <<mode, started, sta, luaSide, evtSide, feed>>

\* Beacon losses; scans that end, stations of the AP that come and go.
Notice == /\ \/ sta = "connected" /\ Post(<<"BEACON">>)
             \/ started = 1 /\ Post(<<"OTHER">>)
          /\ UNCHANGED <<mode, started, sta, sc, luaSide, evtSide, feed>>

Driver == Associate \/ Drop \/ Lease \/ Hear \/ Acknowledge \/ Notice

-----------------------------------------------------------------------------
(* The system event task: wifi_event_handler, ip_event_handler,            *)
(* sc_event_handler.                                                       *)

\* What a link event leaves in sta_connected_bssid (1: an address).
BssidKept(e)  == IF e = "CONN" THEN 1 ELSE sta_connected_bssid
BssidAfter(e) == IF e = "CONN" THEN 1 ELSE IF e = "DISC" THEN 0 ELSE sta_connected_bssid

ReadyAfter(e)  == IF e = "GOT_IP" THEN 1 ELSE IF e = "DISC" THEN 0 ELSE wlan_is_ready

ForwardLinkOnly(e) == e \in {"CONN", "GOT_IP", "SC_GOT", "SC_ACK"}
Forwarded(e)       == e # "BEACON"

EventTask ==
  /\ evq # <<>>
  /\ LET e == Head(evq) IN
     /\ sta_connected_bssid' = BssidAfter(e)
     /\ wlan_is_ready' = ReadyAfter(e)
     /\ apLink' = CASE e = "AP_START" -> 1 [] e = "AP_STOP" -> 0 [] OTHER -> apLink
     /\ apNetif' = IF e = "AP_START" THEN wifiAP ELSE apNetif
     /\ bus' = IF Forwarded(e) THEN BusPut(bus, e) ELSE bus
     /\ linkLost' = IF IsLink(e) /\ BusFull(bus) THEN 1 ELSE linkLost
  /\ evq' = Tail(evq)
  /\ UNCHANGED <<mode, started, sta, sc, luaSide, luaStatus>>

-----------------------------------------------------------------------------
(* The Lua task: l_wlan_handler, called for each message in turn. *)

Receive(e) == /\ call = "none"
              /\ bus # <<>> /\ Head(bus) = e
              /\ bus' = Tail(bus)

OnConn == /\ Receive("CONN")
          /\ luaStatus' = 1
          /\ UNCHANGED <<driver, luaSide, evtSide, linkLost>>

ReconnectInSession == auto_reconnection = 1 /\ smartconfig_state # 0
ShouldReconnect == auto_reconnection = 1 /\ smartconfig_state = 0

OnDisc == /\ Receive("DISC")
          /\ luaStatus' = 0
          /\ sta' = IF ShouldReconnect THEN Connecting(sta) ELSE sta
          /\ UNCHANGED <<mode, started, sc, evq, luaSide, evtSide, linkLost>>

\* esp_wifi_disconnect, then esp_wifi_connect with the credentials heard.
OnGotSsid == /\ Receive("SC_GOT")
             /\ Post(If(sta # "idle", "DISC"))
             /\ sta' = Connecting("idle")
             /\ UNCHANGED <<mode, started, sc, luaSide, evtSide, linkLost, luaStatus>>

\* Only the flag is cleared.
OnAckDoneNoStop ==
  /\ Receive("SC_ACK")
  /\ smartconfig_state' = 0
  /\ UNCHANGED <<driver, wlan_inited, auto_reconnection, wifiAP, call, evtSide,
                 linkLost, luaStatus>>

OnAckDone == /\ Receive("SC_ACK")
             /\ sc' = "off"
             /\ smartconfig_state' = 0
             /\ UNCHANGED <<mode, started, sta, evq, wlan_inited, auto_reconnection,
                            wifiAP, call, evtSide, linkLost, luaStatus>>

OnOther == /\ \E e \in {"AP_START", "AP_STOP", "OTHER", "GOT_IP"} : Receive(e)
           /\ UNCHANGED <<driver, luaSide, evtSide, linkLost, luaStatus>>

Dispatch == OnConn \/ OnDisc \/ OnGotSsid \/ OnAckDone \/ OnOther

-----------------------------------------------------------------------------
(* The Lua task: the calls of the script. *)

\* luat_wlan_init; the other calls come after it.
WlanInit == /\ call = "none"
            /\ wlan_inited' = 1
            /\ Reconfigure(IF wlan_inited = 0 THEN "STA" ELSE mode, 1)
            /\ UNCHANGED <<sc, auto_reconnection, smartconfig_state, wifiAP, call,
                           evtSide, feed>>

Calling(c) == c \in Script /\ wlan_inited = 1 /\ call = "none"

WlanMode(m) == /\ Calling("mode")
               /\ Reconfigure(m, started)
               /\ UNCHANGED <<sc, luaSide, evtSide, feed>>

WlanConnect == /\ Calling("connect")
               /\ auto_reconnection' = 1
               /\ sta' = Connecting(sta)
               /\ UNCHANGED <<mode, started, sc, evq, wlan_inited, smartconfig_state,
                              wifiAP, call, evtSide, feed>>

WlanDisconnect == /\ Calling("disconnect")
                  /\ auto_reconnection' = 0
                  /\ sta' = "idle"
                  /\ Post(If(sta # "idle", "DISC"))
                  /\ UNCHANGED <<mode, started, sc, wlan_inited, smartconfig_state,
                                 wifiAP, call, evtSide, feed>>

\* esp_smartconfig_start fails when the station is down or a session runs.
SmartconfigStart ==
  /\ Calling("sc_start")
  /\ smartconfig_state = 0
  /\ sc' = IF sc = "off" /\ StaUp(mode, started) THEN "listening" ELSE sc
  /\ smartconfig_state' = 1
  /\ UNCHANGED <<mode, started, sta, evq, wlan_inited, auto_reconnection, wifiAP,
                 call, evtSide, feed>>

SmartconfigStop ==
  /\ Calling("sc_stop")
  /\ sc' = "off"
  /\ smartconfig_state' = 0
  /\ UNCHANGED <<mode, started, sta, evq, wlan_inited, auto_reconnection, wifiAP,
                 call, evtSide, feed>>

\* What luat_wlan_ap_start stops before it starts again; the first form
\* leaves a WiFi that runs as it is.
KeepsRunning == UNCHANGED <<mode, started, sta, evq>>
StopsFirst   == Reconfigure(mode, 0)

\* luat_wlan_ap_start up to esp_wifi_stop ...
ApStart == /\ Calling("ap_start")
           /\ StopsFirst
           /\ call' = "ap_start"
           /\ UNCHANGED <<sc, wlan_inited, auto_reconnection, smartconfig_state, wifiAP,
                          evtSide, feed>>

\* ... and from there; events are handled in between.
ApStartRest == /\ call = "ap_start"
               /\ wifiAP' = 1
               /\ Reconfigure(IF mode \in {"NULL", "STA"} THEN "APSTA" ELSE mode, 1)
               /\ call' = "none"
               /\ UNCHANGED <<sc, wlan_inited, auto_reconnection, smartconfig_state,
                              evtSide, feed>>

ApStop == /\ Calling("ap_stop")
          /\ Reconfigure(mode, 0)
          /\ UNCHANGED <<sc, luaSide, evtSide, feed>>

ScriptCall == \/ WlanInit \/ WlanConnect \/ WlanDisconnect
              \/ \E m \in Modes : WlanMode(m)
              \/ SmartconfigStart \/ SmartconfigStop
              \/ ApStart \/ ApStartRest \/ ApStop

Next == Driver \/ EventTask \/ Dispatch \/ ScriptCall

\* The event task is scheduled whenever it has work.  The Lua task returns
\* to its message loop between the calls of the script, however many these
\* are.  Nothing is owed by the driver or by the script.
Fairness == WF_vars(EventTask) /\ SF_vars(Dispatch) /\ WF_vars(ApStartRest)

Spec     == Init /\ [][Next]_vars
FairSpec == Spec /\ Fairness

-----------------------------------------------------------------------------
(* Properties. *)

\* Types, and that neither queue outgrows its slots: the put of the event
\* task (luat_msgbus_put with timeout 0) never waits and never overruns.
TypeOK ==
  /\ mode \in Modes /\ started \in Bit
  /\ sta \in {"idle", "connecting", "connected"}
  /\ sc \in {"off", "listening", "got", "acked"}
  /\ evq \in Seq(Events) /\ Len(evq) <= EvqCap
  /\ wlan_inited \in Bit /\ auto_reconnection \in Bit /\ smartconfig_state \in Bit
  /\ wifiAP \in Bit /\ call \in {"none", "ap_start"}
  /\ wlan_is_ready \in Bit /\ sta_connected_bssid \in Bit
  /\ apLink \in Bit /\ apNetif \in Bit
  /\ bus \in Seq(Events) /\ Len(bus) <= BusCap
  /\ linkLost \in Bit /\ luaStatus \in Bit

NoLink(q)   == \A i \in 1..Len(q) : ~IsLink(q[i])
Pending(e)  == \E q \in {evq, bus} : \E i \in 1..Len(q) : q[i] = e

\* Once the event task has caught up, sta_connected_bssid is set exactly
\* while the radio is connected, whatever the script and the radio did.
BssidFollowsLink == NoLink(evq) => sta_connected_bssid = Linked

\* Once both tasks have caught up, the last WLAN_STATUS published by
\* l_wlan_handler is the state of the link, unless the bus dropped a report.
StatusFollowsLink ==
  NoLink(evq) /\ NoLink(bus) /\ linkLost = 0 => luaStatus = Linked

\* "Is the wifi connected" (luat_wlan_ready): once no loss of the link waits
\* to be handled, wlan_is_ready holds only while the radio is connected.
ReadyMeansConnected ==
  wlan_is_ready = 1 /\ NoLink(evq) => sta = "connected"

\* l_wlan_handler publishes IP_READY only after it published that the
\* station is connected, and not after that it no longer is.
IpReadyInOrder ==
  [][ bus # <<>> /\ Head(bus) = "GOT_IP" /\ bus' = Tail(bus) /\ linkLost = 0
      => luaStatus = 1 ]_vars

\* smartconfig_state, "0 - idle, 1 - running", is 1 whenever the driver runs a
\* session, through credentials, acknowledgement, stop and restart: a session
\* the port does not know of would fight with the automatic reconnection and
\* refuse every later start.
SessionIsKnown == sc # "off" => smartconfig_state = 1

\* While the script wants to be connected, an idle station always has the
\* report that will make l_wlan_handler reconnect on its way.
ReconnectInFlight ==
  auto_reconnection = 1 /\ StaUp(mode, started) /\ sta = "idle" /\ linkLost = 0
    => Pending("DISC")

\* ... and so it does not stay idle, unless a report is dropped or the
\* script disconnects.
Reconnects ==
  (auto_reconnection = 1 /\ sta = "idle")
    ~> (sta # "idle" \/ linkLost = 1 \/ auto_reconnection = 0)

\* Once the event task has caught up, the AP adapter of the network layer is
\* up exactly while the radio's access point is, and has the interface that
\* luat_wlan_ap_start made, if it made one by now.  An access point that
\* luat_wlan_mode brought up before has none: its AP_START found wifiAP NULL;
\* the next luat_wlan_ap_start stops the WiFi, so that AP_START comes again.
ApLinkFollows ==
  (\A i \in 1..Len(evq) : evq[i] \notin {"AP_START", "AP_STOP"})
    => /\ apLink = (IF ApUp(mode, started) THEN 1 ELSE 0)
       /\ apLink = 1 /\ wifiAP = 1 => apNetif = 1

\* The link reports of a queue, oldest first: the k-th one is the last of the
\* shortest prefix that holds k.
Reports(q, n)  == Cardinality({i \in 1..n : IsLink(q[i])})
ReportAt(q, k) == CHOOSE i \in 1..Len(q) : IsLink(q[i]) /\ Reports(q, i) = k
LinkReports(q) == [k \in 1..Reports(q, Len(q)) |-> LinkBit(q[ReportAt(q, k)])]

Feed == INSTANCE LinkFeed WITH
  linked <- Linked, feed <- LinkReports(bus \o evq), told <- luaStatus, lost <- linkLost

\* The script is told every change of the link, once and in order: the port
\* implements the abstract feed.
ImplementsFeed == Feed!Spec
=============================================================================

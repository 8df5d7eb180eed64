----------------------------- MODULE WlanProofs -----------------------------
(***************************************************************************)
(* Proofs about Wlan, for every size of the two queues and every script.   *)
(*                                                                         *)
(* A queue of reports is followed from its two ends: Decides(q, on, off,   *)
(* b, a) says that a reader who believes b and applies the on and off of q *)
(* in order ends up believing a; Settles says so of the link reports.      *)
(* The event queue settles sta_connected_bssid on the link, and the bus    *)
(* settles the script on sta_connected_bssid.                              *)
(***************************************************************************)
EXTENDS Wlan, SequenceTheorems, FiniteSetTheorems, WellFoundedInduction, TLAPS

Decides(q, on, off, b, a) ==
  /\ (\A i \in 1..Len(q) : q[i] \notin {on, off}) => b = a
  /\ \A i \in 1..Len(q) :
       q[i] \in {on, off} /\ (\A j \in 1..Len(q) : j > i => q[j] \notin {on, off})
         => a = (IF q[i] = on THEN 1 ELSE 0)

Settles(q, b, a) == Decides(q, "CONN", "DISC", b, a)

EvqSettles == Settles(evq, sta_connected_bssid, Linked)
BusSettles == linkLost = 0 => Settles(bus, luaStatus, sta_connected_bssid)

\* The inductive invariant.
IInv == TypeOK /\ EvqSettles /\ BusSettles

\* What q decides is what the reports behind it start from.
LEMMA DecidesConcat ==
  ASSUME NEW S, NEW q \in Seq(S), NEW r \in Seq(S), NEW on, NEW off, NEW a, NEW b, NEW c,
         Decides(q, on, off, a, b), Decides(r, on, off, b, c)
  PROVE  Decides(q \o r, on, off, a, c)
<1> DEFINE p == q \o r
           In(e) == e \in {on, off}
<1>1. /\ Len(p) = Len(q) + Len(r)
      /\ Len(q) \in Nat /\ Len(r) \in Nat
      /\ \A i \in 1..Len(q) : p[i] = q[i]
      /\ \A i \in 1..Len(r) : p[Len(q) + i] = r[i]
  BY ConcatProperties, LenProperties
<1>2. \A i \in 1..Len(p) : i \in 1..Len(q) \/ (i - Len(q) \in 1..Len(r) /\ p[i] = r[i - Len(q)])
  BY <1>1
<1> HIDE DEF p
<1>3. (\A i \in 1..Len(p) : ~In(p[i])) => a = c
  <2>1. (\A i \in 1..Len(p) : ~In(p[i]))
          => (\A i \in 1..Len(q) : ~In(q[i])) /\ (\A i \in 1..Len(r) : ~In(r[i]))
    <3> HIDE DEF In
    <3>1. \A i \in 1..Len(q) : i \in 1..Len(p) BY <1>1
    <3>2. \A i \in 1..Len(r) : Len(q) + i \in 1..Len(p) BY <1>1
    <3> QED BY <1>1, <3>1, <3>2
  <2> QED BY <2>1 DEF Decides
<1>4. ASSUME NEW i \in 1..Len(p), In(p[i]),
             \A j \in 1..Len(p) : j > i => ~In(p[j])
      PROVE  c = (IF p[i] = on THEN 1 ELSE 0)
  <2>1. CASE i \in 1..Len(q)
    <3>1. \A k \in 1..Len(r) : ~In(r[k])
      <4> SUFFICES ASSUME NEW k \in 1..Len(r) PROVE ~In(r[k]) OBVIOUS
      <4>1. Len(q) + k \in 1..Len(p) /\ Len(q) + k > i BY <1>1, <2>1
      <4> HIDE DEF In
      <4> QED BY <4>1, <1>1, <1>4
    <3>2. b = (IF q[i] = on THEN 1 ELSE 0)
      <4>1. \A j \in 1..Len(q) : j > i => ~In(q[j]) BY <1>1, <1>4
      <4> QED BY <4>1, <1>1, <1>4, <2>1 DEF Decides
    <3> QED BY <3>1, <3>2, <2>1, <1>1 DEF Decides
  <2>2. CASE i - Len(q) \in 1..Len(r) /\ p[i] = r[i - Len(q)]
    <3> DEFINE k == i - Len(q)
    <3>1. \A j \in 1..Len(r) : j > k => ~In(r[j])
      <4> SUFFICES ASSUME NEW j \in 1..Len(r), j > k PROVE ~In(r[j]) OBVIOUS
      <4>1. Len(q) + j \in 1..Len(p) /\ Len(q) + j > i BY <1>1, <2>2
      <4> HIDE DEF In
      <4> QED BY <4>1, <1>1, <1>4
    <3>2. k \in 1..Len(r) /\ In(r[k]) BY <2>2, <1>4
    <3> QED BY <3>1, <3>2, <2>2 DEF Decides
  <2> QED BY <2>1, <2>2, <1>2
<1> QED BY <1>3, <1>4 DEF p, Decides

\* Taking the oldest report: the reader now believes what it says.
LEMMA DecidesTail ==
  ASSUME NEW S, NEW q \in Seq(S), q # <<>>, NEW on, NEW off, NEW b, NEW a,
         Decides(q, on, off, b, a)
  PROVE  Decides(Tail(q), on, off,
                 IF Head(q) \in {on, off} THEN (IF Head(q) = on THEN 1 ELSE 0) ELSE b, a)
<1> DEFINE t == Tail(q)
           In(e) == e \in {on, off}
           n == IF In(Head(q)) THEN (IF Head(q) = on THEN 1 ELSE 0) ELSE b
<1>1. /\ Len(q) \in Nat /\ Len(q) > 0
      /\ Len(t) = Len(q) - 1
      /\ \A i \in 1..Len(t) : t[i] = q[i + 1]
      /\ Head(q) = q[1]
  BY HeadTailProperties, EmptySeq, LenProperties
<1>2. \A i \in 1..Len(q) : i = 1 \/ (i - 1 \in 1..Len(t) /\ q[i] = t[i - 1])
  BY <1>1
<1> HIDE DEF t
<1>3. (\A i \in 1..Len(t) : ~In(t[i])) => n = a
  <2>1. CASE In(Head(q))
    <3>1. ASSUME \A i \in 1..Len(t) : ~In(t[i]) PROVE n = a
      <4>1. \A j \in 1..Len(q) : j > 1 => ~In(q[j])
        <5> HIDE DEF In
        <5> QED BY <1>1, <1>2, <3>1
      <4>2. 1 \in 1..Len(q) /\ In(q[1]) BY <1>1, <2>1
      <4> QED BY <1>1, <2>1, <4>1, <4>2 DEF Decides
    <3> QED BY <3>1
  <2>2. CASE ~In(Head(q))
    <3>1. (\A i \in 1..Len(t) : ~In(t[i])) => \A i \in 1..Len(q) : ~In(q[i])
      <4> HIDE DEF In
      <4> QED BY <1>1, <1>2, <2>2
    <3> QED BY <3>1, <2>2 DEF Decides
  <2> QED BY <2>1, <2>2
<1>4. ASSUME NEW i \in 1..Len(t), In(t[i]),
             \A j \in 1..Len(t) : j > i => ~In(t[j])
      PROVE  a = (IF t[i] = on THEN 1 ELSE 0)
  <2>1. i + 1 \in 1..Len(q) /\ q[i + 1] = t[i] BY <1>1
  <2>2. \A j \in 1..Len(q) : j > i + 1 => ~In(q[j])
    <3> HIDE DEF In
    <3> QED BY <1>2, <1>4, <1>1
  <2> QED BY <2>1, <2>2, <1>4 DEF Decides
<1> QED BY <1>3, <1>4 DEF t, Decides

\* One report, or none.
LEMMA DecidesIf ==
  ASSUME NEW c \in BOOLEAN, NEW e \in Events, NEW on, NEW off, NEW b, NEW a,
         c /\ e \in {on, off} => a = (IF e = on THEN 1 ELSE 0),
         ~(c /\ e \in {on, off}) => a = b
  PROVE  /\ If(c, e) \in Seq(Events)
         /\ Decides(If(c, e), on, off, b, a)
<1>1. CASE c
  <2>1. If(c, e) = <<e>> BY <1>1 DEF If
  <2>2. <<e>> \in Seq(Events) /\ Len(<<e>>) = 1 /\ <<e>>[1] = e OBVIOUS
  <2>3. \A i : i \in 1..1 <=> i = 1 OBVIOUS
  <2> QED BY <1>1, <2>1, <2>2, <2>3 DEF Decides
<1>2. CASE ~c
  <2>1. If(c, e) = << >> BY <1>2 DEF If
  <2>2. << >> \in Seq(Events) /\ Len(<< >>) = 0 /\ 1..0 = {} OBVIOUS
  <2> QED BY <1>2, <2>1, <2>2 DEF Decides
<1> QED BY <1>1, <1>2

\* The same of the link reports.
LEMMA SettlesConcat ==
  ASSUME NEW S, NEW q \in Seq(S), NEW r \in Seq(S), NEW a, NEW b, NEW c,
         Settles(q, a, b), Settles(r, b, c)
  PROVE  Settles(q \o r, a, c)
BY DecidesConcat DEF Settles

LEMMA SettlesTail ==
  ASSUME NEW S, NEW q \in Seq(S), q # <<>>, NEW b, NEW a, Settles(q, b, a)
  PROVE  Settles(Tail(q), IF IsLink(Head(q)) THEN LinkBit(Head(q)) ELSE b, a)
BY DecidesTail DEF Settles, IsLink, LinkBit

LEMMA SettlesIf ==
  ASSUME NEW c \in BOOLEAN, NEW e \in Events, NEW b, NEW a,
         c /\ IsLink(e) => a = LinkBit(e),
         ~(c /\ IsLink(e)) => a = b
  PROVE  /\ If(c, e) \in Seq(Events)
         /\ Settles(If(c, e), b, a)
BY DecidesIf DEF Settles, IsLink, LinkBit

\* A queue without link reports settles on what the reader believes.
LEMMA SettlesNone ==
  ASSUME NEW q, NEW b, NEW a, Settles(q, b, a), NoLink(q) PROVE b = a
BY DEF Settles, Decides, NoLink, IsLink

\* Posting reports that settle the old link on the new one.
LEMMA PostSettles ==
  ASSUME TypeOK, EvqSettles, NEW es \in Seq(Events), Post(es),
         Settles(es, Linked, Linked')
  PROVE  /\ evq' \in Seq(Events) /\ Len(evq') <= EvqCap
         /\ Settles(evq', sta_connected_bssid, Linked')
<1>1. evq \in Seq(Events) /\ evq' = evq \o es /\ Len(evq) + Len(es) <= EvqCap
  BY DEF TypeOK, Post
<1>2. evq' \in Seq(Events) /\ Len(evq') <= EvqCap BY <1>1, ConcatProperties
<1>3. Settles(evq \o es, sta_connected_bssid, Linked')
  BY <1>1, SettlesConcat DEF EvqSettles
<1> QED BY <1>1, <1>2, <1>3

\* esp_wifi_start, esp_wifi_stop and esp_wifi_set_mode report what they do.
LEMMA ReconfigureSettles ==
  ASSUME TypeOK, EvqSettles, NEW m \in Modes, NEW s \in Bit, Reconfigure(m, s)
  PROVE  /\ mode' \in Modes /\ started' \in Bit
         /\ sta' \in {"idle", "connecting", "connected"}
         /\ evq' \in Seq(Events) /\ Len(evq') <= EvqCap
         /\ Settles(evq', sta_connected_bssid, Linked')
<1> DEFINE was == StaUp(mode, started)
           is == StaUp(m, s)
           a1 == sta # "idle" /\ ~is
           a2 == was # is
           a3 == ApUp(mode, started) /\ ~ApUp(m, s)
           a4 == ~ApUp(mode, started) /\ ApUp(m, s)
           e1 == If(a1, "DISC")
           e2 == If(a2, "OTHER")
           e3 == If(a3, "AP_STOP")
           e4 == If(a4, "AP_START")
<1>1. /\ mode' = m /\ started' = s /\ sta' = IF is THEN sta ELSE "idle"
      /\ Post(e1 \o e2 \o e3 \o e4)
  BY DEF Reconfigure
<1>2. a1 \in BOOLEAN /\ a2 \in BOOLEAN /\ a3 \in BOOLEAN /\ a4 \in BOOLEAN
  BY DEF StaUp, ApUp
<1>3. {"DISC", "OTHER", "AP_STOP", "AP_START"} \subseteq Events BY DEF Events
<1>4. /\ (a1 => Linked' = 0) /\ (~a1 => Linked' = Linked)
  BY <1>1 DEF Linked, StaUp
<1>5. /\ IsLink("DISC") /\ LinkBit("DISC") = 0 /\ ~IsLink("OTHER")
      /\ ~IsLink("AP_STOP") /\ ~IsLink("AP_START")
  BY DEF IsLink, LinkBit
<1> HIDE DEF a1, a2, a3, a4
<1>6. e1 \in Seq(Events) /\ Settles(e1, Linked, Linked')
  BY <1>2, <1>3, <1>4, <1>5, SettlesIf
<1>7. e2 \in Seq(Events) /\ Settles(e2, Linked', Linked')
  BY <1>2, <1>3, <1>5, SettlesIf
<1>8. e3 \in Seq(Events) /\ Settles(e3, Linked', Linked')
  BY <1>2, <1>3, <1>5, SettlesIf
<1>9. e4 \in Seq(Events) /\ Settles(e4, Linked', Linked')
  BY <1>2, <1>3, <1>5, SettlesIf
<1> HIDE DEF e1, e2, e3, e4
<1>10. e1 \o e2 \in Seq(Events) /\ Settles(e1 \o e2, Linked, Linked')
  BY <1>6, <1>7, SettlesConcat, ConcatProperties
<1>11. e1 \o e2 \o e3 \in Seq(Events) /\ Settles(e1 \o e2 \o e3, Linked, Linked')
  BY <1>8, <1>10, SettlesConcat, ConcatProperties
<1>12. /\ e1 \o e2 \o e3 \o e4 \in Seq(Events)
       /\ Settles(e1 \o e2 \o e3 \o e4, Linked, Linked')
  BY <1>9, <1>11, SettlesConcat, ConcatProperties
<1>13. sta' \in {"idle", "connecting", "connected"} BY <1>1 DEF TypeOK
<1> QED BY <1>1, <1>12, <1>13, PostSettles

\* The initial state is settled: both queues are empty and nothing is linked.
LEMMA InitIInv == Init => IInv
<1> SUFFICES ASSUME Init PROVE IInv OBVIOUS
<1>1. TypeOK
  BY BusCapAssumption, WlanAssumption DEF Init, TypeOK, Modes, Bit
<1>2. Settles(<< >>, 0, 0)
  <2>1. Len(<< >>) = 0 /\ 1..0 = {} OBVIOUS
  <2> QED BY <2>1 DEF Settles, Decides
<1>3. EvqSettles /\ BusSettles BY <1>2 DEF Init, EvqSettles, BusSettles, Linked
<1> QED BY <1>1, <1>3 DEF IInv

\* A step that neither moves a report nor touches a belief about the link.
LEMMA SettledStays ==
  ASSUME IInv
  PROVE  /\ (UNCHANGED <<evq, sta_connected_bssid>> /\ Linked' = Linked) => EvqSettles'
         /\ UNCHANGED <<bus, linkLost, luaStatus, sta_connected_bssid>> => BusSettles'
BY DEF IInv, EvqSettles, BusSettles, Settles, Decides

\* The driver reports one event at a time.
LEMMA DriverKeeps == ASSUME IInv, Driver PROVE IInv'
<1> USE DEF IInv
<1>1. ASSUME NEW e \in Events, Post(<<e>>), UNCHANGED <<luaSide, evtSide, feed, mode, started>>,
             sta' \in {"idle", "connecting", "connected"},
             sc' \in {"off", "listening", "got", "acked"},
             IsLink(e) => Linked' = LinkBit(e), ~IsLink(e) => Linked' = Linked
      PROVE  IInv'
  <2>1. <<e>> \in Seq(Events) /\ Settles(<<e>>, Linked, Linked')
    BY <1>1, SettlesIf DEF If
  <2>2. EvqSettles' /\ evq' \in Seq(Events) /\ Len(evq') <= EvqCap
    BY <1>1, <2>1, PostSettles DEF EvqSettles, evtSide
  <2>3. BusSettles' BY <1>1, SettledStays DEF feed, evtSide
  <2>4. TypeOK' BY <1>1, <2>2 DEF TypeOK, luaSide, evtSide, feed
  <2> QED BY <2>2, <2>3, <2>4
<1>2. CASE Associate
  BY <1>1, <1>2 DEF Associate, Events, IsLink, LinkBit, Linked, TypeOK
<1>3. CASE Drop
  BY <1>1, <1>3 DEF Drop, Events, IsLink, LinkBit, Linked, TypeOK
<1>4. CASE Lease
  BY <1>1, <1>4 DEF Lease, Events, IsLink, Linked, TypeOK
<1>5. CASE Hear
  BY <1>1, <1>5 DEF Hear, Events, IsLink, Linked, TypeOK
<1>6. CASE Acknowledge
  BY <1>1, <1>6 DEF Acknowledge, Events, IsLink, Linked, TypeOK
<1>7. CASE Notice
  BY <1>1, <1>7 DEF Notice, Events, IsLink, Linked, TypeOK
<1> QED BY <1>2, <1>3, <1>4, <1>5, <1>6, <1>7 DEF Driver

\* The event task applies the oldest report to its flags and forwards it; a
\* link report for which the bus has no slot is remembered as lost.
LEMMA EventTaskKeeps == ASSUME IInv, EventTask PROVE IInv'
<1> USE DEF IInv
<1> DEFINE e == Head(evq)
<1>1. /\ evq \in Seq(Events) /\ evq # << >> /\ evq' = Tail(evq)
      /\ sta_connected_bssid' = BssidAfter(e) /\ e \in Events
      /\ UNCHANGED <<mode, started, sta, sc, luaSide, luaStatus>>
  BY HeadTailProperties DEF EventTask, TypeOK
<1>2. evq' \in Seq(Events) /\ Len(evq') <= EvqCap
  <2>1. evq' \in Seq(Events) /\ Len(evq') = Len(evq) - 1
    BY <1>1, HeadTailProperties
  <2>2. Len(evq) \in Nat /\ Len(evq) <= EvqCap BY <1>1, LenProperties DEF TypeOK
  <2> QED BY <2>1, <2>2, WlanAssumption
<1>3. BssidAfter(e) = IF IsLink(e) THEN LinkBit(e) ELSE sta_connected_bssid
  BY DEF BssidAfter, IsLink, LinkBit
<1>4. EvqSettles'
  <2>1. Settles(Tail(evq), IF IsLink(e) THEN LinkBit(e) ELSE sta_connected_bssid, Linked)
    BY <1>1, SettlesTail DEF EvqSettles
  <2>2. Linked' = Linked BY <1>1 DEF Linked
  <2> QED BY <1>1, <1>3, <2>1, <2>2 DEF EvqSettles
<1>5. /\ bus' = IF Forwarded(e) THEN BusPut(bus, e) ELSE bus
      /\ linkLost' = IF IsLink(e) /\ BusFull(bus) THEN 1 ELSE linkLost
  BY DEF EventTask
<1>6. bus \in Seq(Events) /\ Len(bus) <= BusCap /\ Len(bus) \in Nat
  BY LenProperties DEF TypeOK
<1>7. bus' \in Seq(Events) /\ Len(bus') <= BusCap
  <2>1. CASE bus' = bus BY <1>6, <2>1
  <2>2. CASE bus' = Append(bus, e) /\ ~BusFull(bus)
    BY <1>1, <1>6, <2>2, AppendProperties, BusCapAssumption DEF BusFull
  <2> QED BY <1>5, <2>1, <2>2 DEF BusPut
<1>8. BusSettles'
  <2> SUFFICES ASSUME linkLost' = 0 PROVE Settles(bus', luaStatus, sta_connected_bssid')
    BY <1>1 DEF BusSettles
  <2>1. linkLost = 0 /\ ~(IsLink(e) /\ BusFull(bus)) BY <1>5
  <2>2. Settles(bus, luaStatus, sta_connected_bssid) BY <2>1 DEF BusSettles
  <2>3. CASE bus' = bus /\ ~IsLink(e) BY <1>1, <1>3, <2>2, <2>3
  <2>4. CASE bus' = Append(bus, e)
    <3>1. Append(bus, e) = bus \o <<e>> BY <1>1, <1>6, AppendIsConcat
    <3>2. <<e>> \in Seq(Events) /\ Settles(<<e>>, sta_connected_bssid, sta_connected_bssid')
      BY <1>1, <1>3, SettlesIf DEF If
    <3> QED BY <1>6, <2>2, <2>4, <3>1, <3>2, SettlesConcat
  <2> QED BY <1>5, <2>1, <2>3, <2>4 DEF BusPut, Forwarded, IsLink
<1>9. TypeOK'
  <2>1. /\ sta_connected_bssid' \in Bit /\ wlan_is_ready' \in Bit /\ linkLost' \in Bit
        /\ apLink' \in Bit /\ apNetif' \in Bit
    BY DEF EventTask, TypeOK, BssidAfter, ReadyAfter, Bit
  <2> QED BY <1>1, <1>2, <1>7, <2>1 DEF TypeOK, luaSide
<1> QED BY <1>4, <1>8, <1>9

\* Receiving a message: the script believes the link report it carries.
LEMMA ReceiveSettles ==
  ASSUME IInv, NEW e, Receive(e), UNCHANGED <<linkLost, sta_connected_bssid>>,
         luaStatus' = IF IsLink(e) THEN LinkBit(e) ELSE luaStatus
  PROVE  /\ BusSettles'
         /\ bus' \in Seq(Events) /\ Len(bus') <= BusCap
         /\ luaStatus' \in Bit
<1> USE DEF IInv
<1>1. bus \in Seq(Events) /\ bus # << >> /\ Head(bus) = e /\ bus' = Tail(bus)
  BY DEF Receive, TypeOK
<1>2. bus' \in Seq(Events) /\ Len(bus') <= BusCap
  <2>1. bus' \in Seq(Events) /\ Len(bus') = Len(bus) - 1
    BY <1>1, HeadTailProperties
  <2>2. Len(bus) \in Nat /\ Len(bus) <= BusCap BY <1>1, LenProperties DEF TypeOK
  <2> QED BY <2>1, <2>2, BusCapAssumption
<1>3. BusSettles' BY <1>1, SettlesTail DEF BusSettles
<1>4. luaStatus' \in Bit BY DEF TypeOK, Bit, LinkBit
<1> QED BY <1>2, <1>3, <1>4

\* The message handler.
LEMMA DispatchKeeps == ASSUME IInv, Dispatch PROVE IInv'
<1> USE DEF IInv
<1>0. Linked' = Linked \/ sta' # sta BY DEF Linked
<1>1. CASE OnConn
  <2>1. BusSettles' /\ bus' \in Seq(Events) /\ Len(bus') <= BusCap /\ luaStatus' \in Bit
    BY <1>1, ReceiveSettles DEF OnConn, IsLink, LinkBit, evtSide
  <2>2. EvqSettles' BY <1>0, <1>1, SettledStays DEF OnConn, evtSide, driver
  <2>3. TypeOK' BY <1>1, <2>1 DEF OnConn, driver, luaSide, evtSide, TypeOK
  <2> QED BY <2>1, <2>2, <2>3
<1>2. CASE OnDisc
  <2>1. BusSettles' /\ bus' \in Seq(Events) /\ Len(bus') <= BusCap /\ luaStatus' \in Bit
    BY <1>2, ReceiveSettles DEF OnDisc, IsLink, LinkBit, evtSide
  <2>2. Linked' = Linked BY <1>2 DEF OnDisc, Connecting, Linked
  <2>3. EvqSettles' BY <1>2, <2>2, SettledStays DEF OnDisc, evtSide
  <2>4. sta' \in {"idle", "connecting", "connected"}
    BY <1>2 DEF OnDisc, Connecting, TypeOK
  <2>5. TypeOK' BY <1>2, <2>1, <2>4 DEF OnDisc, luaSide, evtSide, TypeOK
  <2> QED BY <2>1, <2>3, <2>5
<1>3. CASE OnGotSsid
  <2>1. BusSettles' /\ bus' \in Seq(Events) /\ Len(bus') <= BusCap /\ luaStatus' \in Bit
    BY <1>3, ReceiveSettles DEF OnGotSsid, IsLink, evtSide
  <2>2. Linked' = 0 /\ (sta = "idle" => Linked = 0) /\ sta' \in {"idle", "connecting"}
    BY <1>3 DEF OnGotSsid, Connecting, Linked
  <2>3. /\ If(sta # "idle", "DISC") \in Seq(Events)
        /\ Settles(If(sta # "idle", "DISC"), Linked, Linked')
    BY <2>2, SettlesIf DEF Events, IsLink, LinkBit
  <2>4. EvqSettles' /\ evq' \in Seq(Events) /\ Len(evq') <= EvqCap
    BY <1>3, <2>3, PostSettles DEF OnGotSsid, EvqSettles, evtSide
  <2>5. TypeOK' BY <1>3, <2>1, <2>2, <2>4 DEF OnGotSsid, luaSide, evtSide, TypeOK
  <2> QED BY <2>1, <2>4, <2>5
<1>4. CASE OnAckDone
  <2>1. BusSettles' /\ bus' \in Seq(Events) /\ Len(bus') <= BusCap /\ luaStatus' \in Bit
    BY <1>4, ReceiveSettles DEF OnAckDone, IsLink, evtSide
  <2>2. EvqSettles' BY <1>0, <1>4, SettledStays DEF OnAckDone, evtSide
  <2>3. TypeOK' BY <1>4, <2>1 DEF OnAckDone, evtSide, TypeOK, Bit
  <2> QED BY <2>1, <2>2, <2>3
<1>5. CASE OnOther
  <2>1. BusSettles' /\ bus' \in Seq(Events) /\ Len(bus') <= BusCap /\ luaStatus' \in Bit
    BY <1>5, ReceiveSettles DEF OnOther, IsLink, evtSide
  <2>2. EvqSettles' BY <1>0, <1>5, SettledStays DEF OnOther, evtSide, driver
  <2>3. TypeOK' BY <1>5, <2>1 DEF OnOther, driver, luaSide, evtSide, TypeOK
  <2> QED BY <2>1, <2>2, <2>3
<1> QED BY <1>1, <1>2, <1>3, <1>4, <1>5 DEF Dispatch

\* The calls of the script.
LEMMA ScriptCallKeeps == ASSUME IInv, ScriptCall PROVE IInv'
<1> USE DEF IInv
<1>1. ASSUME NEW m \in Modes, NEW s \in Bit, Reconfigure(m, s), UNCHANGED <<evtSide, feed>>,
             sc' \in {"off", "listening", "got", "acked"},
             wlan_inited' \in Bit, auto_reconnection' \in Bit, smartconfig_state' \in Bit,
             wifiAP' \in Bit, call' \in {"none", "ap_start"}
      PROVE  IInv'
  <2>1. /\ mode' \in Modes /\ started' \in Bit
        /\ sta' \in {"idle", "connecting", "connected"}
        /\ evq' \in Seq(Events) /\ Len(evq') <= EvqCap
        /\ Settles(evq', sta_connected_bssid, Linked')
    BY <1>1, ReconfigureSettles
  <2>2. EvqSettles' BY <1>1, <2>1 DEF EvqSettles, evtSide
  <2>3. BusSettles' BY <1>1, SettledStays DEF feed, evtSide
  <2>4. TypeOK' BY <1>1, <2>1 DEF TypeOK, evtSide, feed
  <2> QED BY <2>2, <2>3, <2>4
<1>2. mode \in Modes /\ started \in Bit /\ 0 \in Bit /\ 1 \in Bit
      /\ "STA" \in Modes /\ "APSTA" \in Modes
  BY DEF TypeOK, Modes, Bit
<1>3. CASE WlanInit
  BY <1>1, <1>2, <1>3 DEF WlanInit, TypeOK
<1>4. ASSUME NEW m \in Modes, WlanMode(m) PROVE IInv'
  BY <1>1, <1>2, <1>4 DEF WlanMode, luaSide, TypeOK
<1>5. CASE ApStart
  BY <1>1, <1>2, <1>5 DEF ApStart, StopsFirst, TypeOK
<1>6. CASE ApStartRest
  BY <1>1, <1>2, <1>6 DEF ApStartRest, TypeOK, Bit
<1>7. CASE ApStop
  BY <1>1, <1>2, <1>7 DEF ApStop, luaSide, TypeOK
<1>8. CASE WlanConnect
  <2>1. Linked' = Linked /\ sta' \in {"idle", "connecting", "connected"}
    BY <1>8 DEF WlanConnect, Connecting, Linked, TypeOK
  <2>2. EvqSettles' /\ BusSettles'
    BY <1>8, <2>1, SettledStays DEF WlanConnect, evtSide, feed
  <2>3. TypeOK' BY <1>8, <2>1 DEF WlanConnect, TypeOK, Bit, evtSide, feed
  <2> QED BY <2>2, <2>3
<1>9. CASE WlanDisconnect
  <2>1. Linked' = 0 /\ sta' = "idle" /\ (sta = "idle" => Linked = 0)
    BY <1>9 DEF WlanDisconnect, Linked
  <2>2. /\ If(sta # "idle", "DISC") \in Seq(Events)
        /\ Settles(If(sta # "idle", "DISC"), Linked, Linked')
    BY <2>1, SettlesIf DEF Events, IsLink, LinkBit
  <2>3. EvqSettles' /\ evq' \in Seq(Events) /\ Len(evq') <= EvqCap
    BY <1>9, <2>2, PostSettles DEF WlanDisconnect, EvqSettles, evtSide
  <2>4. BusSettles' BY <1>9, SettledStays DEF WlanDisconnect, evtSide, feed
  <2>5. TypeOK' BY <1>9, <2>1, <2>3 DEF WlanDisconnect, TypeOK, Bit, evtSide, feed
  <2> QED BY <2>3, <2>4, <2>5
<1>10. CASE SmartconfigStart
  <2>1. EvqSettles' /\ BusSettles'
    BY <1>10, SettledStays DEF SmartconfigStart, evtSide, feed, Linked
  <2>2. TypeOK' BY <1>10 DEF SmartconfigStart, TypeOK, Bit, evtSide, feed
  <2> QED BY <2>1, <2>2
<1>11. CASE SmartconfigStop
  <2>1. EvqSettles' /\ BusSettles'
    BY <1>11, SettledStays DEF SmartconfigStop, evtSide, feed, Linked
  <2>2. TypeOK' BY <1>11 DEF SmartconfigStop, TypeOK, Bit, evtSide, feed
  <2> QED BY <2>1, <2>2
<1> QED BY <1>3, <1>4, <1>5, <1>6, <1>7, <1>8, <1>9, <1>10, <1>11 DEF ScriptCall

\* Every step keeps the invariant.
LEMMA NextIInv == ASSUME IInv, [Next]_vars PROVE IInv'
<1>1. CASE Next
  BY <1>1, DriverKeeps, EventTaskKeeps, DispatchKeeps, ScriptCallKeeps DEF Next
<1>2. CASE UNCHANGED vars
  BY <1>2 DEF vars, driver, luaSide, evtSide, feed, IInv, TypeOK, EvqSettles, BusSettles,
              Settles, Decides, Linked
<1> QED BY <1>1, <1>2

THEOREM Invariance == Spec => []IInv
<1> QED BY InitIInv, NextIInv, PTL DEF Spec

\* Every flag keeps its type and neither queue outgrows its slots, for queues
\* of any size and any script.
THEOREM TypeCorrect == Spec => []TypeOK
<1>1. IInv => TypeOK BY DEF IInv
<1> QED BY <1>1, Invariance, PTL

\* Once the event task has caught up, sta_connected_bssid is set exactly while
\* the radio is connected.
THEOREM BssidIsTheLink == Spec => []BssidFollowsLink
<1>1. IInv => BssidFollowsLink
  BY SettlesNone DEF IInv, EvqSettles, BssidFollowsLink
<1> QED BY <1>1, Invariance, PTL

\* Once both tasks have caught up, the last WLAN_STATUS the script got is the
\* state of the link, unless a report found the bus full.
THEOREM StatusIsTheLink == Spec => []StatusFollowsLink
<1>1. IInv => StatusFollowsLink
  BY SettlesNone DEF IInv, EvqSettles, BusSettles, StatusFollowsLink
<1> QED BY <1>1, Invariance, PTL

-----------------------------------------------------------------------------
(* What one step does to the two queues.  Every step but the event task's  *)
(* adds to evq at most one event about the station, and then events about  *)
(* the interfaces, which tell what becomes of the access point; it leaves  *)
(* the bus alone or takes its oldest message.                              *)

ApBit == IF ApUp(mode, started) THEN 1 ELSE 0

Quiet(r) == \A i \in 1..Len(r) : r[i] \in {"OTHER", "AP_START", "AP_STOP"}

Posted(c, x, r) ==
  /\ evq' = evq \o (If(c, x) \o r)
  /\ Quiet(r)
  /\ Decides(r, "AP_START", "AP_STOP", ApBit, ApBit')
  /\ c => x \notin {"AP_START", "AP_STOP"}
  /\ c /\ x = "CONN" => Linked = 0 /\ Linked' = 1
  /\ c /\ x = "DISC" => Linked' = 0
  /\ ~(c /\ IsLink(x)) => Linked' = Linked
  /\ c /\ x = "GOT_IP" => Linked = 1 \/ LateIp

PostedSome == \E c \in BOOLEAN, x \in Events, r \in Seq(Events) : Posted(c, x, r)

\* The script is told what the message says.
Received(e) == /\ bus # <<>> /\ Head(bus) = e /\ bus' = Tail(bus)
               /\ luaStatus' = IF IsLink(e) THEN LinkBit(e) ELSE luaStatus
               /\ IsLink(e) => evq' = evq /\ Linked' = Linked

StepShape ==
  \/ EventTask
  \/ /\ PostedSome
     /\ UNCHANGED <<evtSide, linkLost>>
     /\ UNCHANGED <<bus, luaStatus>> \/ \E e \in Events : Received(e)

LEMMA NothingPosted ==
  ASSUME TypeOK, evq' = evq, Linked' = Linked, UNCHANGED <<mode, started>> PROVE PostedSome
<1>1. evq \in Seq(Events) BY DEF TypeOK
<1>2. If(FALSE, "OTHER") = << >> BY DEF If
<1>3. << >> \in Seq(Events) /\ Len(<< >>) = 0 /\ << >> \o << >> = << >> OBVIOUS
<1>4. evq \o << >> = evq BY <1>1, ConcatEmptySeq
<1>5. Quiet(<< >>) /\ Decides(<< >>, "AP_START", "AP_STOP", ApBit, ApBit')
  BY <1>3 DEF Quiet, Decides, ApBit
<1>6. evq' = evq \o (If(FALSE, "OTHER") \o << >>) BY <1>2, <1>3, <1>4
<1>7. Posted(FALSE, "OTHER", << >>) BY <1>5, <1>6 DEF Posted
<1>8. FALSE \in BOOLEAN /\ "OTHER" \in Events BY DEF Events
<1> QED BY <1>3, <1>7, <1>8 DEF PostedSome

LEMMA OnePosted ==
  ASSUME NEW c \in BOOLEAN, NEW x \in Events, Post(If(c, x)), UNCHANGED <<mode, started>>,
         c => x \notin {"AP_START", "AP_STOP"},
         c /\ x = "CONN" => Linked = 0 /\ Linked' = 1,
         c /\ x = "DISC" => Linked' = 0,
         ~(c /\ IsLink(x)) => Linked' = Linked,
         c /\ x = "GOT_IP" => Linked = 1 \/ LateIp
  PROVE  PostedSome
<1>1. If(c, x) \in Seq(Events) BY DEF If
<1>2. If(c, x) \o << >> = If(c, x) BY <1>1, ConcatEmptySeq
<1>3. << >> \in Seq(Events) /\ Len(<< >>) = 0 OBVIOUS
<1>4. Quiet(<< >>) /\ Decides(<< >>, "AP_START", "AP_STOP", ApBit, ApBit')
  BY <1>3 DEF Quiet, Decides, ApBit
<1>5. Posted(c, x, << >>) BY <1>2, <1>4 DEF Posted, Post
<1> QED BY <1>3, <1>5 DEF PostedSome

LEMMA QuietConcat ==
  ASSUME NEW q \in Seq(Events), NEW r \in Seq(Events), Quiet(q), Quiet(r)
  PROVE  q \o r \in Seq(Events) /\ Quiet(q \o r)
<1> DEFINE p == q \o r
<1>1. /\ p \in Seq(Events) /\ Len(p) = Len(q) + Len(r)
      /\ Len(q) \in Nat /\ Len(r) \in Nat
      /\ \A i \in 1..Len(p) : \/ i \in 1..Len(q) /\ p[i] = q[i]
                              \/ i - Len(q) \in 1..Len(r) /\ p[i] = r[i - Len(q)]
  BY ConcatProperties, LenProperties
<1> HIDE DEF p
<1> QED BY <1>1 DEF Quiet, p

LEMMA QuietIf ==
  ASSUME NEW c \in BOOLEAN, NEW e \in {"OTHER", "AP_START", "AP_STOP"}
  PROVE  If(c, e) \in Seq(Events) /\ Quiet(If(c, e))
<1>1. e \in Events BY DEF Events
<1>2. CASE c
  <2>1. If(c, e) = <<e>> BY <1>2 DEF If
  <2>2. <<e>> \in Seq(Events) /\ Len(<<e>>) = 1 /\ <<e>>[1] = e BY <1>1
  <2>3. \A i : i \in 1..1 <=> i = 1 OBVIOUS
  <2> QED BY <1>2, <2>1, <2>2, <2>3 DEF Quiet
<1>3. CASE ~c
  <2>1. If(c, e) = << >> BY <1>3 DEF If
  <2>2. << >> \in Seq(Events) /\ Len(<< >>) = 0 /\ 1..0 = {} OBVIOUS
  <2> QED BY <2>1, <2>2 DEF Quiet
<1> QED BY <1>2, <1>3

\* esp_wifi_set_mode, esp_wifi_start and esp_wifi_stop.
LEMMA ReconfigurePosts ==
  ASSUME TypeOK, NEW m \in Modes, NEW s \in Bit, Reconfigure(m, s) PROVE PostedSome
<1> DEFINE was == StaUp(mode, started)
           is == StaUp(m, s)
           a1 == sta # "idle" /\ ~is
           a2 == was # is
           a3 == ApUp(mode, started) /\ ~ApUp(m, s)
           a4 == ~ApUp(mode, started) /\ ApUp(m, s)
           e1 == If(a1, "DISC")
           e2 == If(a2, "OTHER")
           e3 == If(a3, "AP_STOP")
           e4 == If(a4, "AP_START")
           Ap(q, b, a) == Decides(q, "AP_START", "AP_STOP", b, a)
<1>1. /\ mode' = m /\ started' = s /\ sta' = IF is THEN sta ELSE "idle"
      /\ Post(e1 \o e2 \o e3 \o e4)
  BY DEF Reconfigure
<1>2. /\ a1 \in BOOLEAN /\ a2 \in BOOLEAN /\ a3 \in BOOLEAN /\ a4 \in BOOLEAN
  BY DEF StaUp, ApUp
<1>3. {"DISC", "OTHER", "AP_STOP", "AP_START"} \subseteq Events BY DEF Events
<1>4. /\ (a1 => Linked' = 0) /\ (~a1 => Linked' = Linked)
  BY <1>1 DEF Linked, StaUp
\* What lies between the two reports of the access point.
<1> DEFINE mid == IF a3 THEN 0 ELSE ApBit
<1>5. /\ a3 => mid = 0
      /\ ~a3 => mid = ApBit
      /\ a4 => ApBit' = 1
      /\ ~a4 => ApBit' = mid
  BY <1>1 DEF ApBit, ApUp
<1> HIDE DEF a1, a2, a3, a4, mid
<1>6. e1 \in Seq(Events) BY <1>2, <1>3 DEF If
<1>7. e2 \in Seq(Events) /\ Quiet(e2) /\ Ap(e2, ApBit, ApBit)
  BY <1>2, <1>3, QuietIf, DecidesIf
<1>8. e3 \in Seq(Events) /\ Quiet(e3) /\ Ap(e3, ApBit, mid)
  <2>1. /\ a3 /\ "AP_STOP" \in {"AP_START", "AP_STOP"}
                => mid = (IF "AP_STOP" = "AP_START" THEN 1 ELSE 0)
        /\ ~(a3 /\ "AP_STOP" \in {"AP_START", "AP_STOP"}) => mid = ApBit
    BY <1>2, <1>5
  <2>2. Ap(e3, ApBit, mid) BY <1>2, <1>3, <2>1, DecidesIf
  <2> QED BY <1>2, <2>2, QuietIf, <1>3 DEF If
<1>9. e4 \in Seq(Events) /\ Quiet(e4) /\ Ap(e4, mid, ApBit')
  <2>1. /\ a4 /\ "AP_START" \in {"AP_START", "AP_STOP"}
                => ApBit' = (IF "AP_START" = "AP_START" THEN 1 ELSE 0)
        /\ ~(a4 /\ "AP_START" \in {"AP_START", "AP_STOP"}) => ApBit' = mid
    BY <1>2, <1>5
  <2>2. Ap(e4, mid, ApBit') BY <1>2, <1>3, <2>1, DecidesIf
  <2> QED BY <1>2, <2>2, QuietIf, <1>3 DEF If
<1> HIDE DEF e2, e3, e4
<1> DEFINE r == (e2 \o e3) \o e4
<1>10. e2 \o e3 \in Seq(Events) /\ Quiet(e2 \o e3) /\ Ap(e2 \o e3, ApBit, mid)
  BY <1>7, <1>8, QuietConcat, DecidesConcat
<1>11. r \in Seq(Events) /\ Quiet(r) /\ Ap(r, ApBit, ApBit')
  BY <1>9, <1>10, QuietConcat, DecidesConcat
<1>12. e1 \o e2 \o e3 \o e4 = e1 \o r
  <2>1. (e1 \o e2) \o e3 = e1 \o (e2 \o e3) BY <1>6, <1>7, <1>8, ConcatAssociative
  <2>2. e2 \o e3 \in Seq(Events) /\ e4 \in Seq(Events) BY <1>9, <1>10
  <2>3. (e1 \o (e2 \o e3)) \o e4 = e1 \o r BY <1>6, <2>2, ConcatAssociative
  <2> QED BY <2>1, <2>3
<1>13. evq' = evq \o (e1 \o r) BY <1>1, <1>12 DEF Post
<1> HIDE DEF r
<1>14. Posted(a1, "DISC", r)
  BY <1>1, <1>4, <1>11, <1>13 DEF Posted, IsLink
<1> QED BY <1>2, <1>3, <1>11, <1>14 DEF PostedSome

LEMMA StepsAreShaped == ASSUME TypeOK, Next PROVE StepShape
<1>0. UNCHANGED feed => UNCHANGED <<bus, luaStatus, linkLost>> BY DEF feed
<1>1. CASE Driver
  <2>1. ASSUME NEW e \in Events, Post(<<e>>),
               UNCHANGED <<mode, started, evtSide, feed>>,
               e \notin {"AP_START", "AP_STOP"},
               e = "CONN" => Linked = 0 /\ Linked' = 1,
               e = "DISC" => Linked' = 0,
               ~IsLink(e) => Linked' = Linked,
               e = "GOT_IP" => Linked = 1 \/ LateIp
        PROVE  StepShape
    <3>1. If(TRUE, e) = <<e>> BY DEF If
    <3>2. PostedSome BY <2>1, <3>1, OnePosted
    <3> QED BY <1>0, <2>1, <3>2 DEF StepShape
  <2>2. CASE Associate BY <2>1, <2>2 DEF Associate, Events, IsLink, Linked
  <2>3. CASE Drop BY <2>1, <2>3 DEF Drop, Events, IsLink, Linked
  <2>4. CASE Lease BY <2>1, <2>4 DEF Lease, Events, IsLink, Linked
  <2>5. CASE Hear BY <2>1, <2>5 DEF Hear, Events, IsLink, Linked
  <2>6. CASE Acknowledge BY <2>1, <2>6 DEF Acknowledge, Events, IsLink, Linked
  <2>7. CASE Notice BY <2>1, <2>7 DEF Notice, Events, IsLink, Linked
  <2> QED BY <1>1, <2>2, <2>3, <2>4, <2>5, <2>6, <2>7 DEF Driver
<1>2. CASE EventTask BY <1>2 DEF StepShape
<1>3. CASE Dispatch
  <2>1. ASSUME NEW e \in Events, Receive(e), PostedSome, UNCHANGED <<evtSide, linkLost>>,
               luaStatus' = IF IsLink(e) THEN LinkBit(e) ELSE luaStatus,
               IsLink(e) => evq' = evq /\ Linked' = Linked
        PROVE  StepShape
    BY <2>1 DEF Receive, Received, StepShape
  <2>2. CASE OnConn
    <3>1. PostedSome BY <2>2, NothingPosted DEF OnConn, driver, Linked
    <3> QED BY <2>1, <2>2, <3>1 DEF OnConn, driver, Linked, Events, IsLink, LinkBit
  <2>3. CASE OnDisc
    <3>1. Linked' = Linked BY <2>3 DEF OnDisc, Connecting, Linked
    <3>2. PostedSome BY <2>3, <3>1, NothingPosted DEF OnDisc
    <3> QED BY <2>1, <2>3, <3>1, <3>2 DEF OnDisc, Events, IsLink, LinkBit
  <2>4. CASE OnGotSsid
    <3>1. Linked' = 0 /\ (sta = "idle" => Linked = 0)
      BY <2>4 DEF OnGotSsid, Connecting, Linked
    <3>2. Post(If(sta # "idle", "DISC")) BY <2>4 DEF OnGotSsid
    <3>3. PostedSome BY <2>4, <3>1, <3>2, OnePosted DEF OnGotSsid, Events, IsLink
    <3> QED BY <2>1, <2>4, <3>3 DEF OnGotSsid, Events, IsLink
  <2>5. CASE OnAckDone
    <3>1. PostedSome BY <2>5, NothingPosted DEF OnAckDone, Linked
    <3> QED BY <2>1, <2>5, <3>1 DEF OnAckDone, Events, IsLink
  <2>6. CASE OnOther
    <3>1. PostedSome BY <2>6, NothingPosted DEF OnOther, driver, Linked
    <3> QED BY <2>1, <2>6, <3>1 DEF OnOther, Events, IsLink
  <2> QED BY <1>3, <2>2, <2>3, <2>4, <2>5, <2>6 DEF Dispatch
<1>4. CASE ScriptCall
  <2>1. ASSUME PostedSome, UNCHANGED <<evtSide, feed>> PROVE StepShape
    BY <1>0, <2>1 DEF StepShape
  <2>2. mode \in Modes /\ started \in Bit /\ 0 \in Bit /\ 1 \in Bit
        /\ "STA" \in Modes /\ "APSTA" \in Modes
    BY DEF TypeOK, Modes, Bit
  <2>3. CASE WlanInit BY <2>1, <2>2, <2>3, ReconfigurePosts DEF WlanInit
  <2>4. ASSUME NEW m \in Modes, WlanMode(m) PROVE StepShape
    BY <2>1, <2>2, <2>4, ReconfigurePosts DEF WlanMode
  <2>5. CASE ApStart BY <2>1, <2>2, <2>5, ReconfigurePosts DEF ApStart, StopsFirst
  <2>6. CASE ApStartRest BY <2>1, <2>2, <2>6, ReconfigurePosts DEF ApStartRest
  <2>7. CASE ApStop BY <2>1, <2>2, <2>7, ReconfigurePosts DEF ApStop
  <2>8. CASE WlanConnect
    <3>1. PostedSome BY <2>8, NothingPosted DEF WlanConnect, Connecting, Linked
    <3> QED BY <2>1, <2>8, <3>1 DEF WlanConnect
  <2>9. CASE WlanDisconnect
    <3>1. Linked' = 0 /\ (sta = "idle" => Linked = 0) BY <2>9 DEF WlanDisconnect, Linked
    <3>2. Post(If(sta # "idle", "DISC")) BY <2>9 DEF WlanDisconnect
    <3>3. PostedSome BY <2>9, <3>1, <3>2, OnePosted DEF WlanDisconnect, Events, IsLink
    <3> QED BY <2>1, <2>9, <3>3 DEF WlanDisconnect
  <2>10. CASE SmartconfigStart
    <3>1. PostedSome BY <2>10, NothingPosted DEF SmartconfigStart, Linked
    <3> QED BY <2>1, <2>10, <3>1 DEF SmartconfigStart
  <2>11. CASE SmartconfigStop
    <3>1. PostedSome BY <2>11, NothingPosted DEF SmartconfigStop, Linked
    <3> QED BY <2>1, <2>11, <3>1 DEF SmartconfigStop
  <2> QED BY <1>4, <2>3, <2>4, <2>5, <2>6, <2>7, <2>8, <2>9, <2>10, <2>11 DEF ScriptCall
<1> QED BY <1>1, <1>2, <1>3, <1>4 DEF Next

\* The two kinds of post, seen by a reader of the queue: If(c, x) and then
\* reports that say nothing of the station.
LEMMA PostedProperties ==
  ASSUME NEW c \in BOOLEAN, NEW x \in Events, NEW r \in Seq(Events), Quiet(r)
  PROVE  /\ If(c, x) \in Seq(Events)
         /\ \A i \in 1..Len(If(c, x)) : c /\ i = 1 /\ If(c, x)[i] = x
         /\ c => Len(If(c, x)) = 1 /\ If(c, x)[1] = x
         /\ \A i \in 1..Len(r) : /\ r[i] \notin {"DISC", "GOT_IP"}
                                 /\ ~IsLink(r[i])
<1>1. CASE c
  <2>1. If(c, x) = <<x>> BY <1>1 DEF If
  <2>2. <<x>> \in Seq(Events) /\ Len(<<x>>) = 1 /\ <<x>>[1] = x OBVIOUS
  <2>3. \A i : i \in 1..1 <=> i = 1 OBVIOUS
  <2> QED BY <1>1, <2>1, <2>2, <2>3 DEF Quiet, IsLink
<1>2. CASE ~c
  <2>1. If(c, x) = << >> BY <1>2 DEF If
  <2>2. << >> \in Seq(Events) /\ Len(<< >>) = 0 /\ 1..0 = {} OBVIOUS
  <2> QED BY <1>2, <2>1, <2>2 DEF Quiet, IsLink
<1> QED BY <1>1, <1>2

\* The positions of a concatenation.
LEMMA Positions ==
  ASSUME NEW q \in Seq(Events), NEW r \in Seq(Events)
  PROVE  /\ q \o r \in Seq(Events) /\ Len(q \o r) = Len(q) + Len(r)
         /\ Len(q) \in Nat /\ Len(r) \in Nat
         /\ \A i \in 1..Len(q) : i \in 1..Len(q \o r) /\ (q \o r)[i] = q[i]
         /\ \A i \in 1..Len(r) : /\ Len(q) + i \in 1..Len(q \o r)
                                 /\ (q \o r)[Len(q) + i] = r[i]
         /\ \A i \in 1..Len(q \o r) :
              \/ i \in 1..Len(q) /\ (q \o r)[i] = q[i]
              \/ i - Len(q) \in 1..Len(r) /\ (q \o r)[i] = r[i - Len(q)]
BY ConcatProperties, LenProperties

LEMMA TailPositions ==
  ASSUME NEW q \in Seq(Events), q # << >>
  PROVE  /\ Tail(q) \in Seq(Events) /\ Len(Tail(q)) = Len(q) - 1
         /\ Len(q) \in Nat /\ Len(q) > 0 /\ Head(q) = q[1] /\ Head(q) \in Events
         /\ \A i \in 1..Len(Tail(q)) : i + 1 \in 1..Len(q) /\ Tail(q)[i] = q[i + 1]
         /\ \A i \in 1..Len(q) : \/ i = 1
                                 \/ i - 1 \in 1..Len(Tail(q)) /\ q[i] = Tail(q)[i - 1]
BY HeadTailProperties, EmptySeq, LenProperties

\* What a put on the bus leaves there.
LEMMA BusPutPositions ==
  ASSUME NEW q \in Seq(Events), NEW e \in Events
  PROVE  \/ BusPut(q, e) = q /\ BusFull(q)
         \/ /\ BusPut(q, e) = q \o <<e>> /\ ~BusFull(q)
            /\ <<e>> \in Seq(Events) /\ Len(<<e>>) = 1
            /\ \A i \in 1..Len(<<e>>) : i = 1 /\ <<e>>[i] = e
<1>1. <<e>> \in Seq(Events) /\ Len(<<e>>) = 1 /\ <<e>>[1] = e OBVIOUS
<1>2. \A i : i \in 1..1 <=> i = 1 OBVIOUS
<1>3. Append(q, e) = q \o <<e>> BY AppendIsConcat
<1> QED BY <1>1, <1>2, <1>3 DEF BusPut

LEMMA EventTaskFacts ==
  ASSUME TypeOK, EventTask
  PROVE  /\ evq \in Seq(Events) /\ evq # << >> /\ evq' = Tail(evq)
         /\ Head(evq) \in Events /\ Linked' = Linked
BY HeadTailProperties DEF EventTask, TypeOK, Linked

-----------------------------------------------------------------------------
(* The smartconfig session.                                                *)

\* smartconfig_state is 1 whenever the driver runs a session, whatever the
\* script calls: only luat_smartconfig_stop and the acknowledgement clear it,
\* and both end the session.
THEOREM SessionIsAlwaysKnown == Spec => []SessionIsKnown
<1>1. Init => SessionIsKnown BY DEF Init, SessionIsKnown
<1>2. ASSUME SessionIsKnown, [Next]_vars PROVE SessionIsKnown'
  <2>1. ASSUME UNCHANGED <<sc, smartconfig_state>> PROVE SessionIsKnown'
    BY <1>2, <2>1 DEF SessionIsKnown
  <2>2. CASE UNCHANGED vars BY <2>1, <2>2 DEF vars, driver, luaSide
  <2>3. CASE Driver
    BY <1>2, <2>3 DEF Driver, Associate, Drop, Lease, Hear, Acknowledge, Notice, luaSide,
                      SessionIsKnown
  <2>4. CASE EventTask BY <2>1, <2>4 DEF EventTask, luaSide
  <2>5. CASE Dispatch
    BY <1>2, <2>5 DEF Dispatch, OnConn, OnDisc, OnGotSsid, OnAckDone, OnOther, driver, luaSide,
                      SessionIsKnown
  <2>6. CASE ScriptCall
    <3>1. CASE SmartconfigStart \/ SmartconfigStop
      BY <1>2, <3>1 DEF SmartconfigStart, SmartconfigStop, SessionIsKnown
    <3>2. CASE WlanInit \/ WlanConnect \/ WlanDisconnect \/ ApStart \/ ApStartRest \/ ApStop
      BY <2>1, <3>2 DEF WlanInit, WlanConnect, WlanDisconnect, ApStart, ApStartRest, ApStop,
                        luaSide
    <3>3. ASSUME NEW m \in Modes, WlanMode(m) PROVE SessionIsKnown'
      BY <2>1, <3>3 DEF WlanMode, luaSide
    <3> QED BY <2>6, <3>1, <3>2, <3>3 DEF ScriptCall
  <2> QED BY <1>2, <2>2, <2>3, <2>4, <2>5, <2>6 DEF Next
<1> QED BY <1>1, <1>2, PTL DEF Spec

-----------------------------------------------------------------------------
(* The lease in order.  Ordered(q, b): a reader who believes b about the   *)
(* link and applies the reports of q in order believes that it is up       *)
(* whenever a lease comes.                                                 *)

Ordered(q, b) ==
  \A i \in 1..Len(q) : q[i] = "GOT_IP" =>
    /\ (\A j \in 1..Len(q) : j < i => ~IsLink(q[j])) => b = 1
    /\ \A k \in 1..Len(q) :
         k < i /\ IsLink(q[k]) /\ (\A j \in 1..Len(q) : k < j /\ j < i => ~IsLink(q[j]))
           => q[k] = "CONN"

LeasesOrdered == /\ Ordered(evq, sta_connected_bssid)
                 /\ linkLost = 0 => Ordered(bus, luaStatus)

LEMMA OrderedConcat ==
  ASSUME NEW q \in Seq(Events), NEW r \in Seq(Events), NEW a \in Bit, NEW b \in Bit,
         Ordered(q, a), Settles(q, a, b), Ordered(r, b)
  PROVE  Ordered(q \o r, a)
<1> DEFINE p == q \o r
<1>1. /\ Len(p) = Len(q) + Len(r) /\ Len(q) \in Nat /\ Len(r) \in Nat
      /\ \A i \in 1..Len(q) : i \in 1..Len(p) /\ p[i] = q[i]
      /\ \A i \in 1..Len(r) : Len(q) + i \in 1..Len(p) /\ p[Len(q) + i] = r[i]
      /\ \A i \in 1..Len(p) : \/ i \in 1..Len(q) /\ p[i] = q[i]
                              \/ i - Len(q) \in 1..Len(r) /\ p[i] = r[i - Len(q)]
  BY Positions
<1> HIDE DEF p
<1>2. SUFFICES ASSUME NEW i \in 1..Len(p), p[i] = "GOT_IP"
               PROVE  /\ (\A j \in 1..Len(p) : j < i => ~IsLink(p[j])) => a = 1
                      /\ \A k \in 1..Len(p) :
                           k < i /\ IsLink(p[k])
                             /\ (\A j \in 1..Len(p) : k < j /\ j < i => ~IsLink(p[j]))
                           => p[k] = "CONN"
  BY DEF p, Ordered
<1>3. CASE i \in 1..Len(q)
  <2>1. q[i] = "GOT_IP" BY <1>1, <1>2, <1>3
  <2>2. ASSUME \A j \in 1..Len(p) : j < i => ~IsLink(p[j]) PROVE a = 1
    <3>1. \A j \in 1..Len(q) : j < i => ~IsLink(q[j]) BY <1>1, <2>2
    <3> QED BY <1>3, <2>1, <3>1 DEF Ordered
  <2>3. ASSUME NEW k \in 1..Len(p), k < i, IsLink(p[k]),
               \A j \in 1..Len(p) : k < j /\ j < i => ~IsLink(p[j])
        PROVE  p[k] = "CONN"
    <3>1. k \in 1..Len(q) /\ p[k] = q[k] BY <1>1, <1>3, <2>3
    <3>2. \A j \in 1..Len(q) : k < j /\ j < i => ~IsLink(q[j]) BY <1>1, <2>3
    <3> QED BY <1>3, <2>1, <2>3, <3>1, <3>2 DEF Ordered
  <2> QED BY <2>2, <2>3
<1>4. CASE i - Len(q) \in 1..Len(r) /\ p[i] = r[i - Len(q)]
  <2> DEFINE n == i - Len(q)
  <2>1. r[n] = "GOT_IP" /\ n \in 1..Len(r) BY <1>2, <1>4
  <2>2. ASSUME \A j \in 1..Len(p) : j < i => ~IsLink(p[j]) PROVE a = 1
    <3>1. NoLink(q) BY <1>1, <1>4, <2>2 DEF NoLink
    <3>2. a = b BY <3>1, SettlesNone
    <3>3. ASSUME NEW j \in 1..Len(r), j < n PROVE ~IsLink(r[j])
      <4>1. Len(q) + j < i BY <1>1, <3>3
      <4> QED BY <1>1, <2>2, <4>1
    <3> QED BY <2>1, <3>2, <3>3 DEF Ordered
  <2>3. ASSUME NEW k \in 1..Len(p), k < i, IsLink(p[k]),
               \A j \in 1..Len(p) : k < j /\ j < i => ~IsLink(p[j])
        PROVE  p[k] = "CONN"
    <3>1. CASE k \in 1..Len(q) /\ p[k] = q[k]
      <4>1. \A j \in 1..Len(q) : j > k => ~IsLink(q[j]) BY <1>1, <1>4, <2>3
      <4>2. b = LinkBit(q[k]) BY <2>3, <3>1, <4>1 DEF Settles, Decides, IsLink, LinkBit
      <4>3. ASSUME NEW j \in 1..Len(r), j < n PROVE ~IsLink(r[j])
        <5>1. Len(q) + j < i /\ k < Len(q) + j BY <1>1, <3>1, <4>3
        <5> QED BY <1>1, <2>3, <5>1
      <4>4. b = 1 BY <2>1, <4>3 DEF Ordered
      <4> QED BY <2>3, <3>1, <4>2, <4>4 DEF IsLink, LinkBit
    <3>2. CASE k - Len(q) \in 1..Len(r) /\ p[k] = r[k - Len(q)]
      <4>1. ASSUME NEW j \in 1..Len(r), k - Len(q) < j, j < n PROVE ~IsLink(r[j])
        <5>1. Len(q) + j < i /\ k < Len(q) + j BY <1>1, <3>2, <4>1
        <5> QED BY <1>1, <2>3, <5>1
      <4>2. k - Len(q) < n BY <1>1, <1>4, <2>3, <3>2
      <4> QED BY <2>1, <2>3, <3>2, <4>1, <4>2 DEF Ordered
    <3> QED BY <1>1, <3>1, <3>2
  <2> QED BY <2>2, <2>3
<1> QED BY <1>1, <1>3, <1>4

LEMMA OrderedTail ==
  ASSUME NEW q \in Seq(Events), q # << >>, NEW b \in Bit, Ordered(q, b)
  PROVE  Ordered(Tail(q), IF IsLink(Head(q)) THEN LinkBit(Head(q)) ELSE b)
<1> DEFINE t == Tail(q)
           n == IF IsLink(Head(q)) THEN LinkBit(Head(q)) ELSE b
<1>1. /\ Len(q) \in Nat /\ Len(q) > 0 /\ Len(t) = Len(q) - 1 /\ Head(q) = q[1]
      /\ \A i \in 1..Len(t) : i + 1 \in 1..Len(q) /\ t[i] = q[i + 1]
      /\ \A i \in 1..Len(q) : i = 1 \/ (i - 1 \in 1..Len(t) /\ q[i] = t[i - 1])
  BY TailPositions
<1> HIDE DEF t
<1>2. SUFFICES ASSUME NEW i \in 1..Len(t), t[i] = "GOT_IP"
               PROVE  /\ (\A j \in 1..Len(t) : j < i => ~IsLink(t[j])) => n = 1
                      /\ \A k \in 1..Len(t) :
                           k < i /\ IsLink(t[k])
                             /\ (\A j \in 1..Len(t) : k < j /\ j < i => ~IsLink(t[j]))
                           => t[k] = "CONN"
  BY DEF t, n, Ordered
<1>3. i + 1 \in 1..Len(q) /\ q[i + 1] = "GOT_IP" /\ 1 \in 1..Len(q) BY <1>1, <1>2
<1>4. ASSUME \A j \in 1..Len(t) : j < i => ~IsLink(t[j]) PROVE n = 1
  <2>1. \A j \in 1..Len(q) : 1 < j /\ j < i + 1 => ~IsLink(q[j]) BY <1>1, <1>4
  <2>2. CASE IsLink(q[1])
    <3>1. q[1] = "CONN" BY <1>3, <2>1, <2>2 DEF Ordered
    <3> QED BY <1>1, <2>2, <3>1 DEF LinkBit
  <2>3. CASE ~IsLink(q[1])
    <3>1. \A j \in 1..Len(q) : j < i + 1 => ~IsLink(q[j]) BY <1>1, <2>1, <2>3
    <3>2. b = 1 BY <1>3, <3>1 DEF Ordered
    <3> QED BY <1>1, <2>3, <3>2
  <2> QED BY <2>2, <2>3
<1>5. ASSUME NEW k \in 1..Len(t), k < i, IsLink(t[k]),
             \A j \in 1..Len(t) : k < j /\ j < i => ~IsLink(t[j])
      PROVE  t[k] = "CONN"
  <2>1. k + 1 \in 1..Len(q) /\ q[k + 1] = t[k] /\ k + 1 < i + 1 BY <1>1, <1>5
  <2>2. ASSUME NEW j \in 1..Len(q), k + 1 < j, j < i + 1 PROVE ~IsLink(q[j])
    <3>1. j - 1 \in 1..Len(t) /\ q[j] = t[j - 1] /\ k < j - 1 /\ j - 1 < i BY <1>1, <2>2
    <3> QED BY <1>5, <3>1
  <2> QED BY <1>3, <1>5, <2>1, <2>2 DEF Ordered
<1> QED BY <1>4, <1>5

\* What the driver adds keeps a lease behind the report of its link.
LEMMA OrderedPosted ==
  ASSUME IInv, ~LateIp, Ordered(evq, sta_connected_bssid), PostedSome
  PROVE  Ordered(evq', sta_connected_bssid)
<1>1. PICK c \in BOOLEAN, x \in Events, r \in Seq(Events) : Posted(c, x, r)
  BY DEF PostedSome
<1> DEFINE d == If(c, x)
           e == d \o r
<1>2. /\ d \in Seq(Events)
      /\ \A i \in 1..Len(d) : c /\ i = 1 /\ d[i] = x
      /\ \A i \in 1..Len(r) : r[i] \notin {"DISC", "GOT_IP"} /\ ~IsLink(r[i])
  BY <1>1, PostedProperties DEF Posted
<1>3. /\ evq \in Seq(Events) /\ sta_connected_bssid \in Bit /\ Linked \in Bit
      /\ Settles(evq, sta_connected_bssid, Linked)
  BY DEF IInv, TypeOK, EvqSettles, Linked, Bit
<1>4. evq' = evq \o e BY <1>1 DEF Posted
<1> HIDE DEF d
<1>5. /\ e \in Seq(Events) /\ Len(d) \in Nat
      /\ \A i \in 1..Len(e) : \/ i \in 1..Len(d) /\ e[i] = d[i]
                              \/ i - Len(d) \in 1..Len(r) /\ e[i] = r[i - Len(d)]
  BY <1>2, Positions
<1> HIDE DEF e
<1>6. Ordered(e, Linked)
  <2>1. ASSUME NEW i \in 1..Len(e), e[i] = "GOT_IP"
        PROVE  /\ Linked = 1
               /\ \A k \in 1..Len(e) : ~(k < i /\ IsLink(e[k]))
    <3>1. i = 1 /\ c /\ x = "GOT_IP" BY <1>2, <1>5, <2>1
    <3>2. Linked = 1 BY <1>1, <3>1 DEF Posted
    <3> QED BY <3>1, <3>2, <1>5
  <2> QED BY <2>1 DEF Ordered
<1> QED BY <1>3, <1>4, <1>5, <1>6, OrderedConcat

\* The event task passes a lease on behind the report of its link.
LEMMA OrderedForwarded ==
  ASSUME IInv, LeasesOrdered, EventTask PROVE LeasesOrdered'
<1> DEFINE e == Head(evq)
<1>1. /\ evq \in Seq(Events) /\ evq # << >> /\ evq' = Tail(evq) /\ e \in Events
      /\ bus \in Seq(Events) /\ sta_connected_bssid \in Bit /\ luaStatus \in Bit
      /\ luaStatus' = luaStatus
  BY EventTaskFacts DEF IInv, TypeOK, EventTask
<1>2. sta_connected_bssid' = IF IsLink(e) THEN LinkBit(e) ELSE sta_connected_bssid
  BY DEF EventTask, BssidAfter, IsLink, LinkBit
<1>3. Ordered(evq', sta_connected_bssid') BY <1>1, <1>2, OrderedTail DEF LeasesOrdered
<1>4. ASSUME linkLost' = 0 PROVE Ordered(bus', luaStatus')
  <2>1. linkLost = 0 BY <1>4 DEF EventTask
  <2>2. Ordered(bus, luaStatus) /\ Settles(bus, luaStatus, sta_connected_bssid)
    BY <2>1 DEF LeasesOrdered, IInv, BusSettles
  <2>3. CASE bus' = bus BY <1>1, <2>2, <2>3
  <2>4. CASE bus' = bus \o <<e>> /\ <<e>> \in Seq(Events)
             /\ \A i \in 1..Len(<<e>>) : i = 1 /\ <<e>>[i] = e
    <3>1. e = "GOT_IP" => sta_connected_bssid = 1
      <4>1. 1 \in 1..Len(evq) /\ evq[1] = e /\ \A j \in 1..Len(evq) : ~(j < 1)
        BY <1>1, TailPositions
      <4> QED BY <4>1 DEF LeasesOrdered, Ordered
    <3>2. Ordered(<<e>>, sta_connected_bssid) BY <2>4, <3>1 DEF Ordered
    <3> QED BY <1>1, <2>2, <2>4, <3>2, OrderedConcat
  <2> QED BY <1>1, <2>3, <2>4, BusPutPositions DEF EventTask
<1> QED BY <1>3, <1>4 DEF LeasesOrdered

LEMMA LeasesStayOrdered ==
  ASSUME IInv, ~LateIp, LeasesOrdered, [Next]_vars PROVE LeasesOrdered'
<1>1. CASE UNCHANGED vars
  BY <1>1 DEF vars, driver, evtSide, feed, LeasesOrdered, Ordered
<1>2. CASE EventTask BY <1>2, OrderedForwarded
<1>3. ASSUME PostedSome, UNCHANGED <<evtSide, linkLost>>,
             UNCHANGED <<bus, luaStatus>> \/ \E e \in Events : Received(e)
      PROVE  LeasesOrdered'
  <2>1. Ordered(evq', sta_connected_bssid')
    BY <1>3, OrderedPosted DEF LeasesOrdered, evtSide
  <2>2. ASSUME linkLost' = 0 PROVE Ordered(bus', luaStatus')
    <3>1. /\ Ordered(bus, luaStatus) /\ bus \in Seq(Events) /\ luaStatus \in Bit
      BY <1>3, <2>2 DEF LeasesOrdered, IInv, TypeOK
    <3>2. CASE UNCHANGED <<bus, luaStatus>> BY <3>1, <3>2
    <3>3. ASSUME NEW e \in Events, Received(e) PROVE Ordered(bus', luaStatus')
      BY <3>1, <3>3, OrderedTail DEF Received
    <3> QED BY <1>3, <3>2, <3>3
  <2> QED BY <2>1, <2>2 DEF LeasesOrdered
<1> QED BY <1>1, <1>2, <1>3, StepsAreShaped DEF StepShape, IInv

\* If no lease is reported after the loss of the link (LateIp), the handler
\* publishes IP_READY only to a script that was told of the connection.
THEOREM IpReadyIsInOrder == ASSUME ~LateIp PROVE Spec => IpReadyInOrder
<1>1. Init => LeasesOrdered
  <2>1. Len(<< >>) = 0 /\ 1..0 = {} OBVIOUS
  <2> QED BY <2>1 DEF Init, LeasesOrdered, Ordered
<1>2. ASSUME IInv, LeasesOrdered, [Next]_vars PROVE LeasesOrdered'
  BY <1>2, LeasesStayOrdered
<1>3. ASSUME IInv, LeasesOrdered,
             bus # <<>>, Head(bus) = "GOT_IP", linkLost = 0
      PROVE  luaStatus = 1
  <2>1. bus \in Seq(Events) BY <1>3 DEF IInv, TypeOK
  <2>2. 1 \in 1..Len(bus) /\ bus[1] = "GOT_IP" /\ \A j \in 1..Len(bus) : ~(j < 1)
    BY <1>3, <2>1, TailPositions
  <2> QED BY <1>3, <2>2 DEF LeasesOrdered, Ordered
<1>4. IInv /\ LeasesOrdered =>
        (bus # <<>> /\ Head(bus) = "GOT_IP" /\ bus' = Tail(bus) /\ linkLost = 0 => luaStatus = 1)
  BY <1>3
<1> QED BY <1>1, <1>2, <1>4, Invariance, PTL DEF Spec, IpReadyInOrder

-----------------------------------------------------------------------------
(* The access point: the event queue settles the adapter on the radio, and *)
(* an adapter that is up without the interface luat_wlan_ap_start made has *)
(* a report of the access point to come.                                   *)

NoAp(q) == \A i \in 1..Len(q) : q[i] \notin {"AP_START", "AP_STOP"}

ApInv == /\ Decides(evq, "AP_START", "AP_STOP", apLink, ApBit)
         /\ apLink = 1 /\ wifiAP = 1 /\ apNetif = 0 => ~NoAp(evq)
         /\ call = "ap_start" => started = 0

\* Whoever calls luat_wlan_ap_start finds the WiFi stopped half-way, so that
\* starting it again brings the access point up and reports so.
LEMMA ApCalls ==
  ASSUME TypeOK, ApInv, Next
  PROVE  /\ call' = "ap_start" => started' = 0
         /\ wifiAP' = wifiAP \/ (ApBit = 0 /\ ApBit' = 1)
<1> USE DEF ApInv
<1>1. CASE Driver
  BY <1>1 DEF Driver, Associate, Drop, Lease, Hear, Acknowledge, Notice, luaSide
<1>2. CASE EventTask BY <1>2 DEF EventTask, luaSide
<1>3. CASE Dispatch
  BY <1>3 DEF Dispatch, OnConn, OnDisc, OnGotSsid, OnAckDone, OnOther, driver, luaSide
<1>4. CASE WlanInit BY <1>4 DEF WlanInit
<1>5. CASE WlanConnect \/ WlanDisconnect \/ SmartconfigStart \/ SmartconfigStop
  BY <1>5 DEF WlanConnect, WlanDisconnect, SmartconfigStart, SmartconfigStop
<1>6. CASE ApStart BY <1>6 DEF ApStart, StopsFirst, Reconfigure
<1>7. CASE ApStop BY <1>7 DEF ApStop, Calling, luaSide
<1>8. CASE ApStartRest
  <2>1. /\ started = 0 /\ started' = 1 /\ call' = "none"
        /\ mode' = IF mode \in {"NULL", "STA"} THEN "APSTA" ELSE mode
    BY <1>8 DEF ApStartRest, Reconfigure
  <2>2. mode' \in {"AP", "APSTA"} BY <2>1 DEF TypeOK, Modes
  <2> QED BY <2>1, <2>2 DEF ApBit, ApUp
<1>9. ASSUME NEW m \in Modes, WlanMode(m)
      PROVE  call' = call /\ wifiAP' = wifiAP /\ started' = started
  BY <1>9 DEF WlanMode, Reconfigure, luaSide
<1> QED BY <1>1, <1>2, <1>3, <1>4, <1>5, <1>6, <1>7, <1>8, <1>9 DEF Next, ScriptCall

\* A queue that brings a reader from down to up says so.
LEMMA UpIsSaid ==
  ASSUME NEW q, Decides(q, "AP_START", "AP_STOP", 0, 1) PROVE ~NoAp(q)
BY DEF Decides, NoAp

LEMMA ApInvNext == ASSUME TypeOK, ApInv, [Next]_vars PROVE ApInv'
<1>1. CASE UNCHANGED vars
  BY <1>1 DEF vars, driver, luaSide, evtSide, ApInv, Decides, NoAp, ApBit
<1>2. CASE EventTask
  <2>1. /\ evq \in Seq(Events) /\ evq # << >> /\ evq' = Tail(evq)
        /\ UNCHANGED <<mode, started, wifiAP, call>>
    BY <1>2, EventTaskFacts DEF EventTask, luaSide
  <2>2. apLink' = IF Head(evq) \in {"AP_START", "AP_STOP"}
                  THEN (IF Head(evq) = "AP_START" THEN 1 ELSE 0) ELSE apLink
    BY <1>2 DEF EventTask
  <2>3. Decides(evq', "AP_START", "AP_STOP", apLink', ApBit')
    BY <2>1, <2>2, DecidesTail DEF ApInv, ApBit
  <2>4. NoAp(evq') /\ Head(evq) \notin {"AP_START", "AP_STOP"} => NoAp(evq)
    BY <2>1, TailPositions DEF NoAp
  <2>5. apLink' = 1 /\ wifiAP' = 1 /\ apNetif' = 0 => ~NoAp(evq')
    BY <1>2, <2>1, <2>2, <2>4 DEF EventTask, ApInv
  <2> QED BY <2>1, <2>3, <2>5 DEF ApInv
<1>3. CASE Next /\ PostedSome /\ UNCHANGED evtSide
  <2>1. PICK c \in BOOLEAN, x \in Events, r \in Seq(Events) : Posted(c, x, r)
    BY <1>3 DEF PostedSome
  <2> DEFINE d == If(c, x)
             Ap(q, b, a) == Decides(q, "AP_START", "AP_STOP", b, a)
  <2>2. d \in Seq(Events) /\ Ap(d, ApBit, ApBit)
    BY <2>1, DecidesIf DEF Posted
  <2>3. evq \in Seq(Events) /\ evq' = evq \o (d \o r) /\ Ap(r, ApBit, ApBit')
    BY <2>1 DEF TypeOK, Posted
  <2> HIDE DEF d
  <2>4. d \o r \in Seq(Events) /\ Ap(d \o r, ApBit, ApBit')
    BY <2>2, <2>3, DecidesConcat, ConcatProperties
  <2>5. Ap(evq', apLink', ApBit')
    BY <1>3, <2>3, <2>4, DecidesConcat DEF ApInv, evtSide
  <2>6. \/ wifiAP' = wifiAP
        \/ ApBit = 0 /\ ApBit' = 1
    BY <1>3, ApCalls
  <2>7. ~NoAp(evq) \/ ~NoAp(d \o r) => ~NoAp(evq')
    <3>1. /\ \A i \in 1..Len(evq) : i \in 1..Len(evq') /\ evq'[i] = evq[i]
          /\ \A i \in 1..Len(d \o r) : /\ Len(evq) + i \in 1..Len(evq')
                                       /\ evq'[Len(evq) + i] = (d \o r)[i]
      BY <2>3, <2>4, Positions
    <3> QED BY <3>1 DEF NoAp
  <2>8. ApBit = 0 /\ ApBit' = 1 => ~NoAp(evq')
    <3>1. ApBit = 0 /\ ApBit' = 1 => ~NoAp(d \o r) BY <2>4, UpIsSaid
    <3> QED BY <2>7, <3>1
  <2>9. apLink' = 1 /\ wifiAP' = 1 /\ apNetif' = 0 => ~NoAp(evq')
    BY <1>3, <2>6, <2>7, <2>8 DEF ApInv, evtSide
  <2>10. call' = "ap_start" => started' = 0 BY <1>3, ApCalls
  <2> QED BY <2>5, <2>9, <2>10 DEF ApInv
<1> QED BY <1>1, <1>2, <1>3, StepsAreShaped DEF StepShape

\* For every script, luat_wlan_mode included, and any size of the queues: once
\* the event task has caught up, the AP adapter is up exactly while the access
\* point is, and has the interface that luat_wlan_ap_start made, if it did.
THEOREM ApLinkIsTheAp == Spec => []ApLinkFollows
<1>1. Init => ApInv
  <2>1. Len(<< >>) = 0 /\ 1..0 = {} OBVIOUS
  <2> QED BY <2>1 DEF Init, ApInv, Decides, ApBit, ApUp
<1>2. TypeOK /\ ApInv /\ [Next]_vars => ApInv' BY ApInvNext
<1>3. TypeOK /\ ApInv => ApLinkFollows
  BY DEF ApInv, Decides, NoAp, ApBit, ApLinkFollows, TypeOK, Bit
<1> QED BY <1>1, <1>2, <1>3, TypeCorrect, PTL DEF Spec

-----------------------------------------------------------------------------
(* Reconnecting.  A script that neither changes the mode, nor stops the    *)
(* access point, nor starts a smartconfig session leaves the station up    *)
(* whenever the Lua task is in its loop, so that every DISC received while *)
(* the script wants to be connected brings the station on the air.         *)

ReconnectInv ==
  /\ smartconfig_state = 0
  /\ wlan_inited = 0 => auto_reconnection = 0 /\ call = "none"
  /\ wlan_inited = 1 => mode \in {"STA", "APSTA"} /\ (call = "none" => started = 1)
  /\ auto_reconnection = 1 /\ sta = "idle" /\ linkLost = 0 => Pending("DISC")

Without(q, e) == \A i \in 1..Len(q) : q[i] # e

LEMMA PendingIs ==
  \A e : Pending(e) <=> ~Without(evq, e) \/ ~Without(bus, e)
BY DEF Pending, Without

\* A report stays in a queue that grows, and survives the one before it.
LEMMA WithConcat ==
  ASSUME NEW q \in Seq(Events), NEW r \in Seq(Events), NEW e
  PROVE  /\ ~Without(q, e) => ~Without(q \o r, e)
         /\ ~Without(r, e) => ~Without(q \o r, e)
<1> DEFINE p == q \o r
<1>1. /\ \A i \in 1..Len(q) : i \in 1..Len(p) /\ p[i] = q[i]
      /\ \A i \in 1..Len(r) : Len(q) + i \in 1..Len(p) /\ p[Len(q) + i] = r[i]
  BY Positions
<1> HIDE DEF p
<1> QED BY <1>1 DEF Without, p

LEMMA WithTail ==
  ASSUME NEW q \in Seq(Events), q # << >>, NEW e, ~Without(q, e), Head(q) # e
  PROVE  ~Without(Tail(q), e)
BY TailPositions DEF Without

\* Unless it is received or dropped, a DISC on its way stays on its way.
LEMMA DiscStays ==
  ASSUME TypeOK, Next, Pending("DISC"), linkLost' = 0,
         ~(bus # << >> /\ Head(bus) = "DISC" /\ bus' = Tail(bus))
  PROVE  Pending("DISC")'
<1>0. evq \in Seq(Events) /\ bus \in Seq(Events) BY DEF TypeOK
<1>1. ~Without(evq, "DISC") \/ ~Without(bus, "DISC") BY PendingIs
<1>2. Pending("DISC")' <=> ~Without(evq', "DISC") \/ ~Without(bus', "DISC")
  BY DEF Pending, Without
<1>3. CASE EventTask
  <2>1. evq # << >> /\ evq' = Tail(evq) /\ Head(evq) \in Events
    BY <1>3, EventTaskFacts
  <2>2. \/ bus' = bus /\ Head(evq) # "DISC"
        \/ bus' = bus \o <<Head(evq)>> /\ <<Head(evq)>> \in Seq(Events)
    BY <1>0, <1>3, <2>1, BusPutPositions DEF EventTask, Forwarded, IsLink
  <2>3. ~Without(bus, "DISC") => ~Without(bus', "DISC") BY <1>0, <2>2, WithConcat
  <2>4. CASE ~Without(evq, "DISC") /\ Head(evq) # "DISC"
    BY <1>0, <1>2, <2>1, <2>4, WithTail
  <2>5. CASE Head(evq) = "DISC"
    <3>1. ~Without(<<Head(evq)>>, "DISC")
      <4>1. Len(<<Head(evq)>>) = 1 /\ <<Head(evq)>>[1] = "DISC" /\ 1 \in 1..1 BY <2>5
      <4> QED BY <4>1 DEF Without
    <3> QED BY <1>0, <1>2, <2>2, <2>5, <3>1, WithConcat
  <2> QED BY <1>1, <1>2, <2>3, <2>4, <2>5
<1>4. CASE /\ PostedSome
           /\ bus' = bus \/ (bus # <<>> /\ bus' = Tail(bus))
  <2>1. PICK c \in BOOLEAN, x \in Events, r \in Seq(Events) : Posted(c, x, r)
    BY <1>4 DEF PostedSome
  <2>2. If(c, x) \o r \in Seq(Events) BY <2>1, PostedProperties, ConcatProperties DEF Posted
  <2>3. ~Without(evq, "DISC") => ~Without(evq', "DISC")
    BY <1>0, <2>1, <2>2, WithConcat DEF Posted
  <2>4. ~Without(bus, "DISC") => ~Without(bus', "DISC") BY <1>0, <1>4, WithTail
  <2> QED BY <1>1, <1>2, <2>3, <2>4
<1> QED BY <1>3, <1>4, StepsAreShaped DEF StepShape, Received

\* A reconfiguration takes the station off the air only with a DISC.
LEMMA ReconfigureDisc ==
  ASSUME TypeOK, NEW m \in Modes, NEW s \in Bit, Reconfigure(m, s),
         sta # "idle", sta' = "idle"
  PROVE  Pending("DISC")'
<1> DEFINE e1 == If(sta # "idle" /\ ~StaUp(m, s), "DISC")
           e2 == If(StaUp(mode, started) # StaUp(m, s), "OTHER")
           e3 == If(ApUp(mode, started) /\ ~ApUp(m, s), "AP_STOP")
           e4 == If(~ApUp(mode, started) /\ ApUp(m, s), "AP_START")
<1>1. /\ evq' = evq \o (e1 \o e2 \o e3 \o e4) /\ sta # "idle" /\ ~StaUp(m, s)
  BY DEF Reconfigure, Post
<1>2. /\ e2 \in Seq(Events) /\ e3 \in Seq(Events) /\ e4 \in Seq(Events)
      /\ evq \in Seq(Events)
  <2>1. \A c, e : e \in Events => If(c, e) \in Seq(Events) BY DEF If
  <2>2. {"OTHER", "AP_STOP", "AP_START"} \subseteq Events BY DEF Events
  <2> QED BY <2>1, <2>2 DEF TypeOK
<1>3. e1 = <<"DISC">> BY <1>1 DEF If
<1>4. <<"DISC">> \in Seq(Events) /\ ~Without(<<"DISC">>, "DISC")
  <2>1. Len(<<"DISC">>) = 1 /\ <<"DISC">>[1] = "DISC" /\ 1 \in 1..1 OBVIOUS
  <2> QED BY <2>1 DEF Without, Events
<1> HIDE DEF e1, e2, e3, e4
<1>5. e1 \o e2 \in Seq(Events) /\ ~Without(e1 \o e2, "DISC")
  BY <1>2, <1>3, <1>4, WithConcat, ConcatProperties
<1>6. e1 \o e2 \o e3 \in Seq(Events) /\ ~Without(e1 \o e2 \o e3, "DISC")
  BY <1>2, <1>5, WithConcat, ConcatProperties
<1>7. e1 \o e2 \o e3 \o e4 \in Seq(Events) /\ ~Without(e1 \o e2 \o e3 \o e4, "DISC")
  BY <1>2, <1>6, WithConcat, ConcatProperties
<1>8. ~Without(evq', "DISC") BY <1>1, <1>2, <1>7, WithConcat
<1> QED BY <1>8 DEF Pending, Without

\* A post of a DISC alone.
LEMMA PostDisc ==
  ASSUME TypeOK, Post(<<"DISC">>) PROVE Pending("DISC")'
<1>1. evq \in Seq(Events) /\ evq' = evq \o <<"DISC">> BY DEF TypeOK, Post
<1>2. <<"DISC">> \in Seq(Events) /\ ~Without(<<"DISC">>, "DISC")
  <2>1. Len(<<"DISC">>) = 1 /\ <<"DISC">>[1] = "DISC" /\ 1 \in 1..1 OBVIOUS
  <2> QED BY <2>1 DEF Without, Events
<1>3. ~Without(evq', "DISC") BY <1>1, <1>2, WithConcat
<1> QED BY <1>3 DEF Pending, Without

LEMMA ReconnectStays ==
  ASSUME TypeOK, Script \cap {"mode", "sc_start", "ap_stop"} = {},
         ReconnectInv, [Next]_vars
  PROVE  ReconnectInv'
<1> USE DEF ReconnectInv
<1>1. CASE UNCHANGED vars
  BY <1>1 DEF vars, driver, luaSide, feed, Pending
\* What is left to show of a step: the flags, and the station that idles.
<1>2. ASSUME Next,
             /\ smartconfig_state' = 0
             /\ wlan_inited' = 0 => auto_reconnection' = 0 /\ call' = "none"
             /\ wlan_inited' = 1 => /\ mode' \in {"STA", "APSTA"}
                                    /\ call' = "none" => started' = 1,
             ~(bus # << >> /\ Head(bus) = "DISC" /\ bus' = Tail(bus)),
             auto_reconnection' = 1 => auto_reconnection = 1 \/ sta' # "idle",
             sta # "idle" /\ sta' = "idle" => Pending("DISC")'
      PROVE  ReconnectInv'
  <2>1. linkLost' = 0 => linkLost = 0
    BY <1>2, StepsAreShaped DEF StepShape, EventTask
  <2>2. ASSUME auto_reconnection' = 1, sta' = "idle", linkLost' = 0
        PROVE  Pending("DISC")'
    BY <1>2, <2>1, <2>2, DiscStays
  <2> QED BY <1>2, <2>2
<1>3. \A q : q \in Seq(Events) /\ q # << >> => Tail(q) # q
  BY TailPositions
<1>4. bus \in Seq(Events) /\ mode \in Modes /\ started \in Bit /\ wlan_inited \in Bit
  BY DEF TypeOK
<1>5. CASE Driver
  <2>1. UNCHANGED <<luaSide, mode, started>> /\ bus' = bus
    BY <1>5 DEF Driver, Associate, Drop, Lease, Hear, Acknowledge, Notice, feed
  <2>2. sta # "idle" /\ sta' = "idle" => Pending("DISC")'
    BY <1>5, PostDisc DEF Driver, Associate, Drop, Lease, Hear, Acknowledge, Notice
  <2> QED BY <1>2, <1>3, <1>4, <1>5, <2>1, <2>2 DEF Next, luaSide
<1>6. CASE EventTask
  <2>1. UNCHANGED <<mode, started, sta, luaSide>> BY <1>6 DEF EventTask
  <2>2. ~(bus # << >> /\ bus' = Tail(bus))
    <3>1. evq \in Seq(Events) /\ Head(evq) \in Events BY <1>6, EventTaskFacts
    <3>2. bus' = bus \/ bus' = Append(bus, Head(evq)) BY <1>6 DEF EventTask, BusPut
    <3>3. bus # << >> => Len(Tail(bus)) < Len(bus) BY <1>4, TailPositions
    <3>4. Len(Append(bus, Head(evq))) = Len(bus) + 1 /\ Len(bus) \in Nat
      BY <1>4, <3>1, AppendProperties, LenProperties
    <3> QED BY <3>2, <3>3, <3>4
  <2> QED BY <1>2, <1>6, <2>1, <2>2 DEF Next, luaSide
<1>7. CASE Dispatch
  <2>0. wlan_inited = 1 => started = 1 \/ call # "none" OBVIOUS
  <2>1. CASE OnDisc
    <3>1. UNCHANGED <<mode, started, luaSide>> /\ call = "none"
      BY <2>1 DEF OnDisc, Receive
    <3>2. ASSUME auto_reconnection = 1 PROVE sta' # "idle"
      <4>1. ShouldReconnect /\ StaUp(mode, started)
        BY <1>4, <3>1, <3>2 DEF ShouldReconnect, StaUp, Bit
      <4> QED BY <2>1, <4>1 DEF OnDisc, Connecting
    <3> QED BY <3>1, <3>2 DEF luaSide
  <2>2. CASE OnConn
    BY <1>2, <1>7, <2>2 DEF OnConn, Receive, Next, driver, luaSide
  <2>3. CASE OnOther
    BY <1>2, <1>7, <2>3 DEF OnOther, Receive, Next, driver, luaSide
  <2>4. CASE OnAckDone
    BY <1>2, <1>7, <2>4 DEF OnAckDone, Receive, Next
  <2>5. CASE OnGotSsid
    <3>1. UNCHANGED <<mode, started, luaSide>> /\ call = "none"
      BY <2>5 DEF OnGotSsid, Receive
    <3>2. ASSUME wlan_inited = 1 PROVE sta' # "idle"
      <4>1. StaUp(mode, started) BY <3>1, <3>2 DEF StaUp
      <4> QED BY <2>5, <4>1 DEF OnGotSsid, Connecting
    <3> QED BY <1>4, <3>1, <3>2 DEF luaSide, Bit
  <2> QED BY <1>7, <2>1, <2>2, <2>3, <2>4, <2>5 DEF Dispatch
<1>8. CASE ScriptCall
  <2>1. UNCHANGED feed => ~(bus # << >> /\ bus' = Tail(bus)) BY <1>3, <1>4 DEF feed
  <2>2. /\ \A m \in Modes : ~WlanMode(m)
        /\ ~SmartconfigStart /\ ~ApStop
    BY DEF WlanMode, SmartconfigStart, ApStop, Calling
  <2>3. "STA" \in Modes /\ "APSTA" \in Modes /\ 0 \in Bit /\ 1 \in Bit BY DEF Modes, Bit
  <2>4. CASE WlanInit
    <3>1. PICK m \in Modes : /\ m = IF wlan_inited = 0 THEN "STA" ELSE mode
                             /\ Reconfigure(m, 1)
      BY <1>4, <2>3, <2>4 DEF WlanInit
    <3>2. sta # "idle" /\ sta' = "idle" => Pending("DISC")'
      BY <2>3, <3>1, ReconfigureDisc
    <3>3. m \in {"STA", "APSTA"} /\ mode' = m /\ started' = 1
      BY <1>4, <3>1 DEF Reconfigure, Bit
    <3> QED BY <1>2, <1>8, <2>1, <2>4, <3>2, <3>3 DEF WlanInit, Next
  <2>5. CASE WlanConnect
    <3>1. sta' # "idle"
      <4>1. StaUp(mode, started) BY <2>5 DEF WlanConnect, Calling, StaUp
      <4> QED BY <2>5, <4>1 DEF WlanConnect, Connecting
    <3> QED BY <1>2, <1>8, <2>1, <2>5, <3>1 DEF WlanConnect, Calling, Next
  <2>6. CASE WlanDisconnect BY <2>6 DEF WlanDisconnect, Calling
  <2>7. CASE ApStart
    <3>1. sta # "idle" /\ sta' = "idle" => Pending("DISC")'
      BY <1>4, <2>3, <2>7, ReconfigureDisc DEF ApStart, StopsFirst
    <3> QED BY <1>2, <1>8, <2>1, <2>7, <3>1
            DEF ApStart, StopsFirst, Calling, Reconfigure, Next
  <2>8. CASE ApStartRest
    <3>1. PICK m \in Modes : /\ m = IF mode \in {"NULL", "STA"} THEN "APSTA" ELSE mode
                             /\ Reconfigure(m, 1)
      BY <1>4, <2>3, <2>8 DEF ApStartRest
    <3>2. sta # "idle" /\ sta' = "idle" => Pending("DISC")'
      BY <2>3, <3>1, ReconfigureDisc
    <3>3. wlan_inited = 1 BY <1>4, <2>8 DEF ApStartRest, Bit
    <3>4. m \in {"STA", "APSTA"} /\ mode' = m /\ started' = 1
      BY <3>1, <3>3 DEF Reconfigure
    <3> QED BY <1>2, <1>8, <2>1, <2>8, <3>2, <3>3, <3>4 DEF ApStartRest, Next
  <2>9. CASE SmartconfigStop BY <1>2, <1>8, <2>1, <2>9 DEF SmartconfigStop, Next
  <2> QED BY <1>8, <2>2, <2>4, <2>5, <2>6, <2>7, <2>8, <2>9 DEF ScriptCall
<1> QED BY <1>1, <1>5, <1>6, <1>7, <1>8 DEF Next

\* While a script that neither changes the mode, nor stops the access point,
\* nor starts a smartconfig session wants to be connected, an idle station
\* always has the DISC on its way that will make l_wlan_handler reconnect,
\* unless the bus dropped one.
THEOREM ReconnectIsInFlight ==
  ASSUME Script \cap {"mode", "sc_start", "ap_stop"} = {}
  PROVE  Spec => []ReconnectInFlight
<1>1. Init => ReconnectInv BY DEF Init, ReconnectInv
<1>2. ASSUME TypeOK, ReconnectInv, [Next]_vars PROVE ReconnectInv'
  BY <1>2, ReconnectStays
<1>3. ReconnectInv => ReconnectInFlight BY DEF ReconnectInv, ReconnectInFlight
<1> QED BY <1>1, <1>2, <1>3, TypeCorrect, PTL DEF Spec

-----------------------------------------------------------------------------
(* The refinement.  LinkReports of a concatenation is the concatenation of *)
(* the LinkReports, so that an event that moves from one queue to the next *)
(* changes nothing, and one that is added, taken or dropped changes one    *)
(* report at the place where it stands.                                    *)

LEMMA LeastNumber ==
  ASSUME NEW N \in Nat, NEW S \in SUBSET (0..N), S # {}
  PROVE  \E m \in S : \A k \in S : m <= k
<1> DEFINE segments == {0..m : m \in S}
<1>1. S \in SUBSET Nat OBVIOUS
<1>2. IsFiniteSet(0..N) BY FS_Interval
<1>3. segments \subseteq FiniteSubsetsOf(0..N)
  <2>1. \A m \in S : 0..m \in SUBSET (0..N) BY <1>1
  <2>2. FiniteSubsetsOf(0..N) = SUBSET (0..N) BY <1>2, FS_FiniteSubsetsOfFinite
  <2> QED BY <2>1, <2>2
<1>4. segments # {} OBVIOUS
<1> HIDE DEF segments
<1>5. PICK x \in segments : \A y \in segments : ~(<<y, x>> \in StrictSubsetOrdering(0..N))
  BY <1>3, <1>4, FS_StrictSubsetOrderingWellFounded, WFMin
<1>6. PICK n \in S : x = 0..n BY DEF segments
<1>7. ASSUME NEW m \in S, m < n PROVE FALSE
  <2>1. m \in Nat /\ n \in Nat BY <1>1
  <2>2. 0..m \in SUBSET (0..N) /\ 0..n \in SUBSET (0..N) BY <1>1
  <2>3. 0..m \subseteq 0..n /\ 0..m # 0..n
    <3>1. n \in 0..n /\ n \notin 0..m BY <2>1, <1>7
    <3> QED BY <2>1, <1>7, <3>1
  <2>4. <<0..m, 0..n>> \in StrictSubsetOrdering(0..N)
    BY <2>2, <2>3 DEF StrictSubsetOrdering
  <2> QED BY <1>5, <1>6, <2>4 DEF segments
<1>8. \A m \in S : n <= m BY <1>1, <1>7
<1> QED BY <1>8

LEMMA ReportsFinite ==
  ASSUME NEW q, NEW n \in Nat PROVE IsFiniteSet({i \in 1..n : IsLink(q[i])})
<1>1. IsFiniteSet(1..n) BY FS_Interval
<1> QED BY <1>1, FS_Subset

LEMMA ReportsType ==
  ASSUME NEW q
  PROVE  /\ \A n \in Nat : Reports(q, n) \in Nat
         /\ Reports(q, 0) = 0
<1>1. ASSUME NEW n \in Nat PROVE Reports(q, n) \in Nat
  BY ReportsFinite, FS_CardinalityType DEF Reports
<1>2. {i \in 1..0 : IsLink(q[i])} = {} OBVIOUS
<1>3. Reports(q, 0) = 0 BY <1>2, FS_EmptySet DEF Reports
<1> QED BY <1>1, <1>3

\* One more event of the queue.
LEMMA ReportsStep ==
  ASSUME NEW q, NEW n \in Nat \ {0}
  PROVE  Reports(q, n) = Reports(q, n - 1) + (IF IsLink(q[n]) THEN 1 ELSE 0)
<1> DEFINE A == {i \in 1..n : IsLink(q[i])}
           B == {i \in 1..(n - 1) : IsLink(q[i])}
<1>1. IsFiniteSet(B) BY ReportsFinite
<1>2. n \notin B OBVIOUS
<1>3. CASE IsLink(q[n])
  <2>1. A = B \cup {n} BY <1>3
  <2> HIDE DEF A, B
  <2>2. Cardinality(A) = Cardinality(B) + 1 BY <1>1, <1>2, <2>1, FS_AddElement
  <2> QED BY <1>3, <2>2 DEF Reports, A, B
<1>4. CASE ~IsLink(q[n])
  <2>1. A = B BY <1>4
  <2>2. Reports(q, n) = Reports(q, n - 1) BY <2>1 DEF Reports
  <2>3. Reports(q, n - 1) \in Nat BY ReportsType
  <2> QED BY <1>4, <2>2, <2>3
<1> QED BY <1>3, <1>4

LEMMA ReportsMonotone ==
  ASSUME NEW q, NEW n \in Nat, NEW m \in 0..n
  PROVE  Reports(q, m) <= Reports(q, n)
<1> DEFINE A == {i \in 1..n : IsLink(q[i])}
           B == {i \in 1..m : IsLink(q[i])}
<1>1. IsFiniteSet(A) /\ B \in SUBSET A BY ReportsFinite
<1> HIDE DEF A, B
<1>2. Cardinality(B) <= Cardinality(A) BY <1>1, FS_Subset
<1> QED BY <1>2 DEF Reports, A, B

\* Every report has its place, and no two share one.
LEMMA ReportFound ==
  ASSUME NEW q \in Seq(Events), NEW k \in 1..Reports(q, Len(q))
  PROVE  \E i \in 1..Len(q) : IsLink(q[i]) /\ Reports(q, i) = k
<1> DEFINE S == {i \in 0..Len(q) : Reports(q, i) >= k}
<1>1. Len(q) \in Nat BY LenProperties
<1>2. \A i \in 0..Len(q) : Reports(q, i) \in Nat
  <2>1. \A i \in 0..Len(q) : i \in Nat BY <1>1
  <2> QED BY <2>1, ReportsType
<1>3. Len(q) \in S BY <1>1, <1>2
<1>4. PICK m \in S : \A i \in S : m <= i BY <1>1, <1>3, LeastNumber
<1>5. m # 0 BY <1>1, ReportsType
<1>6. m - 1 \in 0..Len(q) /\ m - 1 \notin S BY <1>1, <1>4, <1>5
<1>7. Reports(q, m) = Reports(q, m - 1) + (IF IsLink(q[m]) THEN 1 ELSE 0)
  BY <1>1, <1>5, ReportsStep
<1>8. IsLink(q[m]) /\ Reports(q, m) = k BY <1>2, <1>6, <1>7
<1> QED BY <1>1, <1>5, <1>8

LEMMA ReportUnique ==
  ASSUME NEW q \in Seq(Events), NEW i \in 1..Len(q), NEW j \in 1..Len(q),
         IsLink(q[i]), IsLink(q[j]), Reports(q, i) = Reports(q, j)
  PROVE  i = j
<1>1. Len(q) \in Nat BY LenProperties
<1>2. ASSUME NEW a \in 1..Len(q), NEW b \in 1..Len(q), a < b, IsLink(q[b])
      PROVE  Reports(q, a) < Reports(q, b)
  <2>1. Reports(q, b) = Reports(q, b - 1) + 1 BY <1>1, <1>2, ReportsStep
  <2>2. Reports(q, a) <= Reports(q, b - 1) BY <1>1, <1>2, ReportsMonotone
  <2>3. Reports(q, a) \in Nat /\ Reports(q, b - 1) \in Nat
    <3>1. a \in Nat /\ b - 1 \in Nat BY <1>1
    <3> QED BY <3>1, ReportsType
  <2> QED BY <2>1, <2>2, <2>3
<1>3. Reports(q, i) \in Nat
  <2>1. i \in Nat BY <1>1
  <2> QED BY <2>1, ReportsType
<1> QED BY <1>1, <1>2, <1>3

LEMMA ReportsOf ==
  ASSUME NEW q \in Seq(Events)
  PROVE  /\ LinkReports(q) \in Seq(Bit)
         /\ Len(LinkReports(q)) = Reports(q, Len(q))
         /\ Reports(q, Len(q)) \in Nat
         /\ \A i \in 1..Len(q) : IsLink(q[i]) =>
              /\ Reports(q, i) \in 1..Reports(q, Len(q))
              /\ LinkReports(q)[Reports(q, i)] = LinkBit(q[i])
<1>1. Len(q) \in Nat /\ Reports(q, Len(q)) \in Nat BY LenProperties, ReportsType
<1>2. \A k \in 1..Reports(q, Len(q)) : LinkBit(q[ReportAt(q, k)]) \in Bit
  BY DEF LinkBit, Bit
<1>3. LinkReports(q) \in Seq(Bit) /\ Len(LinkReports(q)) = Reports(q, Len(q))
  BY <1>1, <1>2 DEF LinkReports
<1>4. ASSUME NEW i \in 1..Len(q), IsLink(q[i])
      PROVE  /\ Reports(q, i) \in 1..Reports(q, Len(q))
             /\ LinkReports(q)[Reports(q, i)] = LinkBit(q[i])
  <2>1. Reports(q, i) <= Reports(q, Len(q)) BY <1>1, ReportsMonotone
  <2>2. Reports(q, i) = Reports(q, i - 1) + 1 /\ Reports(q, i - 1) \in Nat
    BY <1>1, <1>4, ReportsStep, ReportsType
  <2>3. Reports(q, i) \in 1..Reports(q, Len(q)) BY <1>1, <2>1, <2>2
  <2>4. ReportAt(q, Reports(q, i)) = i
    <3>1. \A j \in 1..Len(q) : IsLink(q[j]) /\ Reports(q, j) = Reports(q, i) => j = i
      BY <1>4, ReportUnique
    <3> QED BY <1>4, <3>1 DEF ReportAt
  <2> QED BY <2>3, <2>4 DEF LinkReports
<1> QED BY <1>1, <1>3, <1>4

LEMMA ReportsConcat ==
  ASSUME NEW q \in Seq(Events), NEW r \in Seq(Events)
  PROVE  /\ \A n \in 0..Len(q) : Reports(q \o r, n) = Reports(q, n)
         /\ \A n \in 0..Len(r) :
              Reports(q \o r, Len(q) + n) = Reports(q, Len(q)) + Reports(r, n)
<1> DEFINE p == q \o r
<1>1. /\ Len(p) = Len(q) + Len(r) /\ Len(q) \in Nat /\ Len(r) \in Nat
      /\ \A i \in 1..Len(q) : p[i] = q[i]
      /\ \A i \in 1..Len(r) : p[Len(q) + i] = r[i]
  BY Positions
<1> HIDE DEF p
<1>2. ASSUME NEW n \in 0..Len(q) PROVE Reports(p, n) = Reports(q, n)
  <2>1. {i \in 1..n : IsLink(p[i])} = {i \in 1..n : IsLink(q[i])} BY <1>1
  <2> QED BY <2>1 DEF Reports
<1>3. ASSUME NEW n \in 0..Len(r)
      PROVE  Reports(p, Len(q) + n) = Reports(q, Len(q)) + Reports(r, n)
  <2> DEFINE A == {i \in 1..Len(q) : IsLink(q[i])}
             B == {i \in 1..n : IsLink(r[i])}
             C == {i \in (Len(q) + 1)..(Len(q) + n) : IsLink(p[i])}
             f == [i \in B |-> Len(q) + i]
  <2>1. IsFiniteSet(A) /\ IsFiniteSet(B) BY <1>1, ReportsFinite
  <2>2. f \in Bijection(B, C)
    <3>1. \A i \in B : f[i] \in C BY <1>1
    <3>2. \A i, j \in B : f[i] = f[j] => i = j BY <1>1
    <3>3. \A c \in C : c - Len(q) \in B /\ f[c - Len(q)] = c BY <1>1
    <3> QED BY <3>1, <3>2, <3>3 DEF Bijection, Injection, Surjection, IsInjective
  <2>3. IsFiniteSet(C) /\ Cardinality(C) = Cardinality(B)
    BY <2>1, <2>2, FS_Bijection DEF ExistsBijection
  <2>4. {i \in 1..(Len(q) + n) : IsLink(p[i])} = A \cup C BY <1>1
  <2>5. A \cap C = {} BY <1>1
  <2>6. Reports(q, Len(q)) = Cardinality(A) /\ Reports(r, n) = Cardinality(B)
    BY DEF Reports
  <2>7. Cardinality(A) \in Nat /\ Cardinality(C) \in Nat
    BY <2>1, <2>3, FS_CardinalityType
  <2> HIDE DEF A, B, C
  <2>8. Cardinality(A \cup C) = Cardinality(A) + Cardinality(C)
    <3>1. Cardinality(A \cup C) = Cardinality(A) + Cardinality(C) - Cardinality(A \cap C)
      BY <2>1, <2>3, FS_Union
    <3>2. Cardinality(A \cap C) = 0 BY <2>5, FS_EmptySet
    <3> HIDE DEF f
    <3> QED BY <2>7, <3>1, <3>2
  <2> QED BY <2>3, <2>4, <2>6, <2>8 DEF Reports
<1> QED BY <1>2, <1>3 DEF p

LEMMA LinkReportsConcat ==
  ASSUME NEW q \in Seq(Events), NEW r \in Seq(Events)
  PROVE  LinkReports(q \o r) = LinkReports(q) \o LinkReports(r)
<1> DEFINE p == q \o r
           Q == LinkReports(q)
           R == LinkReports(r)
<1>1. /\ p \in Seq(Events) /\ Len(p) = Len(q) + Len(r)
      /\ Len(q) \in Nat /\ Len(r) \in Nat
      /\ \A i \in 1..Len(q) : i \in 1..Len(p) /\ p[i] = q[i]
      /\ \A i \in 1..Len(r) : Len(q) + i \in 1..Len(p) /\ p[Len(q) + i] = r[i]
  BY Positions
<1>2. /\ \A n \in 0..Len(q) : Reports(p, n) = Reports(q, n)
      /\ \A n \in 0..Len(r) : Reports(p, Len(q) + n) = Reports(q, Len(q)) + Reports(r, n)
  BY ReportsConcat
<1>3. /\ Q \in Seq(Bit) /\ R \in Seq(Bit)
      /\ Len(Q) = Reports(q, Len(q)) /\ Len(R) = Reports(r, Len(r))
      /\ Len(Q) \in Nat /\ Len(R) \in Nat
  BY ReportsOf
<1>4. /\ LinkReports(p) \in Seq(Bit) /\ Len(LinkReports(p)) = Len(Q) + Len(R)
  <2>1. Reports(p, Len(p)) = Reports(q, Len(q)) + Reports(r, Len(r))
    <3>1. Len(r) \in 0..Len(r) BY <1>1
    <3> QED BY <1>1, <1>2, <3>1
  <2>2. LinkReports(p) \in Seq(Bit) /\ Len(LinkReports(p)) = Reports(p, Len(p))
    BY <1>1, ReportsOf
  <2> QED BY <1>3, <2>1, <2>2
<1>5. /\ Q \o R \in Seq(Bit) /\ Len(Q \o R) = Len(Q) + Len(R)
      /\ \A k \in 1..(Len(Q) + Len(R)) :
           (Q \o R)[k] = IF k <= Len(Q) THEN Q[k] ELSE R[k - Len(Q)]
  BY <1>3, ConcatProperties
<1>6. \A i \in 1..Len(p) : IsLink(p[i]) => LinkReports(p)[Reports(p, i)] = LinkBit(p[i])
  BY <1>1, ReportsOf
<1>7. \A i \in 1..Len(q) : IsLink(q[i]) => Q[Reports(q, i)] = LinkBit(q[i])
  BY ReportsOf
<1>8. \A i \in 1..Len(r) : IsLink(r[i]) => R[Reports(r, i)] = LinkBit(r[i])
  BY ReportsOf
<1> HIDE DEF p, Q, R
<1>9. ASSUME NEW k \in 1..(Len(Q) + Len(R)) PROVE LinkReports(p)[k] = (Q \o R)[k]
  <2>1. CASE k <= Len(Q)
    <3>1. PICK i \in 1..Len(q) : IsLink(q[i]) /\ Reports(q, i) = k
      BY <1>3, <2>1, ReportFound
    <3>2. i \in 0..Len(q) /\ Reports(p, i) = k BY <1>1, <1>2, <3>1
    <3>3. LinkReports(p)[k] = LinkBit(q[i]) BY <1>1, <1>6, <3>1, <3>2
    <3>4. Q[k] = LinkBit(q[i]) BY <1>7, <3>1
    <3> QED BY <1>5, <2>1, <3>3, <3>4
  <2>2. CASE k > Len(Q)
    <3>0. k - Len(Q) \in 1..Reports(r, Len(r)) BY <1>3, <2>2
    <3>1. PICK i \in 1..Len(r) : IsLink(r[i]) /\ Reports(r, i) = k - Len(Q)
      BY <3>0, ReportFound
    <3>2. Reports(p, Len(q) + i) = k BY <1>1, <1>2, <1>3, <3>1
    <3>3. LinkReports(p)[k] = LinkBit(r[i]) BY <1>1, <1>6, <3>1, <3>2
    <3>4. R[k - Len(Q)] = LinkBit(r[i]) BY <1>8, <3>1
    <3> QED BY <1>3, <1>5, <2>2, <3>3, <3>4
  <2> QED BY <1>3, <2>1, <2>2
<1>10. LinkReports(p) = Q \o R BY <1>4, <1>5, <1>9, SeqEqual
<1> QED BY <1>10 DEF p, Q, R

LEMMA LinkReportsNone ==
  ASSUME NEW q \in Seq(Events), NoLink(q) PROVE LinkReports(q) = << >>
<1>1. Len(q) \in Nat BY LenProperties
<1>2. {i \in 1..Len(q) : IsLink(q[i])} = {} BY DEF NoLink
<1>3. Len(LinkReports(q)) = 0 /\ LinkReports(q) \in Seq(Bit)
  BY <1>2, FS_EmptySet, ReportsOf DEF Reports
<1> QED BY <1>3, EmptySeq

LEMMA LinkReportsOne ==
  ASSUME NEW e \in Events
  PROVE  /\ <<e>> \in Seq(Events)
         /\ LinkReports(<<e>>) = IF IsLink(e) THEN <<LinkBit(e)>> ELSE << >>
<1>1. /\ <<e>> \in Seq(Events) /\ Len(<<e>>) = 1 /\ <<e>>[1] = e OBVIOUS
<1>2. CASE IsLink(e)
  <2>1. Reports(<<e>>, 1) = 1
    <3>1. Reports(<<e>>, 1) = Reports(<<e>>, 1 - 1) + 1 BY <1>1, <1>2, ReportsStep
    <3>2. Reports(<<e>>, 0) = 0 /\ 1 - 1 = 0 BY ReportsType
    <3> QED BY <3>1, <3>2
  <2>2. /\ LinkReports(<<e>>) \in Seq(Bit) /\ Len(LinkReports(<<e>>)) = 1
        /\ LinkReports(<<e>>)[1] = LinkBit(e)
    <3> DEFINE s == <<e>>
    <3>1. s \in Seq(Events) /\ Len(s) = 1 /\ 1 \in 1..Len(s) /\ s[1] = e BY <1>1
    <3>2. Reports(s, Len(s)) = 1 /\ Reports(s, 1) = 1 BY <2>1, <3>1
    <3> HIDE DEF s
    <3>3. LinkReports(s) \in Seq(Bit) /\ Len(LinkReports(s)) = 1 BY <3>1, <3>2, ReportsOf
    <3>4. LinkReports(s)[Reports(s, 1)] = LinkBit(s[1]) BY <1>2, <3>1, ReportsOf
    <3> QED BY <3>1, <3>2, <3>3, <3>4 DEF s
  <2>3. <<LinkBit(e)>> \in Seq(Bit) /\ Len(<<LinkBit(e)>>) = 1
        /\ <<LinkBit(e)>>[1] = LinkBit(e)
    BY DEF LinkBit, Bit
  <2>4. \A i \in 1..1 : LinkReports(<<e>>)[i] = <<LinkBit(e)>>[i] BY <2>2, <2>3
  <2>5. LinkReports(<<e>>) = <<LinkBit(e)>> BY <2>2, <2>3, <2>4, SeqEqual
  <2> QED BY <1>1, <1>2, <2>5
<1>3. CASE ~IsLink(e)
  <2>1. NoLink(<<e>>) BY <1>1, <1>3 DEF NoLink
  <2> QED BY <1>1, <1>3, <2>1, LinkReportsNone
<1> QED BY <1>2, <1>3

LEMMA RemoveMiddle ==
  ASSUME NEW A \in Seq(Bit), NEW b \in Bit, NEW B \in Seq(Bit)
  PROVE  /\ Len(A) + 1 \in DOMAIN ((A \o <<b>>) \o B)
         /\ Feed!RemoveAt((A \o <<b>>) \o B, Len(A) + 1) = A \o B
<1> DEFINE s == (A \o <<b>>) \o B
           u == SubSeq(s, 1, (Len(A) + 1) - 1)
           v == SubSeq(s, (Len(A) + 1) + 1, Len(s))
<1>1. /\ <<b>> \in Seq(Bit) /\ Len(<<b>>) = 1
      /\ Len(A) \in Nat /\ Len(B) \in Nat
  BY LenProperties
<1>2. /\ A \o <<b>> \in Seq(Bit) /\ Len(A \o <<b>>) = Len(A) + 1
      /\ \A i \in 1..Len(A) : (A \o <<b>>)[i] = A[i]
  BY <1>1, ConcatProperties
<1>3. /\ s \in Seq(Bit) /\ Len(s) = Len(A) + 1 + Len(B)
      /\ \A i \in 1..(Len(A) + 1 + Len(B)) :
           s[i] = IF i <= Len(A) + 1 THEN (A \o <<b>>)[i] ELSE B[i - (Len(A) + 1)]
  BY <1>1, <1>2, ConcatProperties
<1> HIDE DEF s
<1>4. \A i \in 1..Len(s) : s[i] \in Bit BY <1>3, ElementOfSeq
<1>5. u = A
  <2>1. (Len(A) + 1) - 1 = Len(A) /\ 1 \in Int /\ Len(A) \in Int BY <1>1
  <2>2. \A i \in 1..Len(A) : s[i] \in Bit BY <1>1, <1>3, <1>4
  <2>3. /\ u \in Seq(Bit) /\ Len(u) = IF 1 <= Len(A) THEN Len(A) - 1 + 1 ELSE 0
        /\ \A i \in 1..(Len(A) - 1 + 1) : u[i] = s[1 + i - 1]
    BY <2>1, <2>2, SubSeqProperties
  <2>4. Len(u) = Len(A) BY <1>1, <2>3
  <2>5. \A i \in 1..Len(A) : u[i] = A[i] BY <1>1, <1>2, <1>3, <2>3
  <2> HIDE DEF u
  <2> QED BY <2>3, <2>4, <2>5, SeqEqual
<1>6. v = B
  <2> DEFINE m == (Len(A) + 1) + 1
  <2>1. m \in Int /\ Len(s) \in Int /\ Len(s) - m + 1 = Len(B) BY <1>1, <1>3
  <2>2. \A i \in m..Len(s) : s[i] \in Bit BY <1>1, <1>4
  <2>3. /\ v \in Seq(Bit) /\ Len(v) = IF m <= Len(s) THEN Len(s) - m + 1 ELSE 0
        /\ \A i \in 1..(Len(s) - m + 1) : v[i] = s[m + i - 1]
    BY <2>1, <2>2, SubSeqProperties
  <2>4. Len(v) = Len(B) BY <1>1, <1>3, <2>1, <2>3
  <2>5. ASSUME NEW i \in 1..Len(B) PROVE v[i] = B[i]
    <3>1. v[i] = s[m + i - 1] BY <2>1, <2>3
    <3>2. m + i - 1 \in 1..(Len(A) + 1 + Len(B)) /\ ~(m + i - 1 <= Len(A) + 1)
          /\ m + i - 1 - (Len(A) + 1) = i
      BY <1>1
    <3> QED BY <1>3, <3>1, <3>2
  <2> HIDE DEF v
  <2> QED BY <2>3, <2>4, <2>5, SeqEqual
<1>7. Len(A) + 1 \in DOMAIN s BY <1>1, <1>3, LenProperties
<1> QED BY <1>5, <1>6, <1>7 DEF s, Feed!RemoveAt

\* The reports of an event that stands between two queues.
LEMMA LinkReportsAround ==
  ASSUME NEW q \in Seq(Events), NEW e \in Events, NEW r \in Seq(Events)
  PROVE  LinkReports((q \o <<e>>) \o r)
           = IF IsLink(e) THEN (LinkReports(q) \o <<LinkBit(e)>>) \o LinkReports(r)
                          ELSE LinkReports(q) \o LinkReports(r)
<1>1. <<e>> \in Seq(Events) /\ LinkReports(q) \in Seq(Bit) BY LinkReportsOne, ReportsOf
<1>2. LinkReports((q \o <<e>>) \o r)
        = (LinkReports(q) \o LinkReports(<<e>>)) \o LinkReports(r)
  <2> DEFINE s == <<e>>
  <2>1. s \in Seq(Events) BY <1>1
  <2> HIDE DEF s
  <2>2. q \o s \in Seq(Events) BY <2>1, ConcatProperties
  <2>3. LinkReports(q \o s) = LinkReports(q) \o LinkReports(s) BY <2>1, LinkReportsConcat
  <2>4. LinkReports((q \o s) \o r) = LinkReports(q \o s) \o LinkReports(r)
    BY <2>2, LinkReportsConcat
  <2> QED BY <2>3, <2>4 DEF s
<1>3. LinkReports(q) \o << >> = LinkReports(q) BY <1>1, ConcatEmptySeq
<1> QED BY <1>2, <1>3, LinkReportsOne

\* A queue is its oldest event and the rest.
LEMMA HeadThenTail ==
  ASSUME NEW q \in Seq(Events), q # << >>
  PROVE  q = <<Head(q)>> \o Tail(q)
<1>1. /\ <<Head(q)>> \in Seq(Events) /\ Len(<<Head(q)>>) = 1 /\ <<Head(q)>>[1] = Head(q)
      /\ Tail(q) \in Seq(Events) /\ Len(Tail(q)) = Len(q) - 1 /\ Len(q) \in Nat /\ Len(q) > 0
      /\ Head(q) = q[1]
      /\ \A i \in 1..Len(Tail(q)) : Tail(q)[i] = q[i + 1]
  BY TailPositions
<1> DEFINE p == <<Head(q)>> \o Tail(q)
<1>2. /\ p \in Seq(Events) /\ Len(p) = Len(q)
      /\ \A i \in 1..Len(q) : p[i] = IF i <= 1 THEN <<Head(q)>>[i] ELSE Tail(q)[i - 1]
  BY <1>1, ConcatProperties
<1> HIDE DEF p
<1>3. ASSUME NEW i \in 1..Len(q) PROVE q[i] = p[i]
  <2>1. CASE i = 1 BY <1>1, <1>2, <2>1
  <2>2. CASE i > 1
    <3>1. i - 1 \in 1..Len(Tail(q)) /\ (i - 1) + 1 = i BY <1>1, <2>2
    <3> QED BY <1>1, <1>2, <2>2, <3>1
  <2> QED BY <1>1, <2>1, <2>2
<1> QED BY <1>2, <1>3, SeqEqual DEF p

LEMMA FeedAfterEventTask ==
  ASSUME TypeOK, EventTask PROVE [Feed!Next]_Feed!vars
<1> DEFINE h == Head(evq)
           t == Tail(evq)
<1>1. /\ evq \in Seq(Events) /\ bus \in Seq(Events) /\ evq # << >> /\ evq' = t
      /\ h \in Events /\ t \in Seq(Events) /\ Linked' = Linked /\ luaStatus' = luaStatus
      /\ <<h>> \in Seq(Events)
  BY EventTaskFacts, HeadTailProperties DEF TypeOK, EventTask
<1>2. bus \o evq = (bus \o <<h>>) \o t
  BY <1>1, HeadThenTail, ConcatAssociative
<1>3. /\ bus' = IF Forwarded(h) THEN BusPut(bus, h) ELSE bus
      /\ linkLost' = IF IsLink(h) /\ BusFull(bus) THEN 1 ELSE linkLost
  BY DEF EventTask
<1> HIDE DEF h, t
<1>4. CASE bus' = bus \o <<h>> /\ linkLost' = linkLost
  <2>1. LinkReports(bus' \o evq') = LinkReports(bus \o evq) BY <1>1, <1>2, <1>4
  <2> QED BY <1>1, <1>4, <2>1 DEF Feed!vars
<1>5. CASE bus' = bus /\ ~IsLink(h)
  <2>1. LinkReports(bus \o evq) = LinkReports(bus) \o LinkReports(t)
    BY <1>1, <1>2, <1>5, LinkReportsAround
  <2>2. LinkReports(bus' \o evq') = LinkReports(bus) \o LinkReports(t)
    BY <1>1, <1>5, LinkReportsConcat
  <2>3. linkLost' = linkLost BY <1>3, <1>5
  <2> QED BY <1>1, <2>1, <2>2, <2>3 DEF Feed!vars
<1>6. CASE bus' = bus /\ IsLink(h) /\ linkLost' = 1
  <2> DEFINE A == LinkReports(bus)
             B == LinkReports(t)
             b == LinkBit(h)
  <2>1. A \in Seq(Bit) /\ B \in Seq(Bit) /\ b \in Bit
    BY <1>1, ReportsOf DEF LinkBit, Bit
  <2>2. LinkReports(bus \o evq) = (A \o <<b>>) \o B
    BY <1>1, <1>2, <1>6, LinkReportsAround
  <2>3. LinkReports(bus' \o evq') = A \o B BY <1>1, <1>6, LinkReportsConcat
  <2> HIDE DEF A, B, b
  <2>4. \E i \in DOMAIN LinkReports(bus \o evq) :
          LinkReports(bus' \o evq') = Feed!RemoveAt(LinkReports(bus \o evq), i)
    BY <2>1, <2>2, <2>3, RemoveMiddle
  <2> QED BY <1>1, <1>6, <2>4 DEF Feed!Next, Feed!Drop
<1>7. /\ Forwarded(h) \/ ~IsLink(h)
      /\ \/ BusPut(bus, h) = bus /\ BusFull(bus)
         \/ BusPut(bus, h) = bus \o <<h>> /\ ~BusFull(bus)
  <2>1. Forwarded(h) \/ ~IsLink(h) BY DEF Forwarded, IsLink
  <2>2. Append(bus, h) = bus \o <<h>> BY <1>1, AppendIsConcat
  <2> QED BY <2>1, <2>2 DEF BusPut
<1>8. CASE ~IsLink(h) BY <1>3, <1>4, <1>5, <1>7, <1>8
<1>9. CASE IsLink(h) BY <1>3, <1>4, <1>6, <1>7, <1>9
<1> QED BY <1>8, <1>9

LEMMA FeedAfterPost ==
  ASSUME TypeOK, PostedSome, UNCHANGED <<linkLost, luaStatus>>, bus' \in Seq(Events),
         LinkReports(bus' \o evq) = LinkReports(bus \o evq)
  PROVE  [Feed!Next]_Feed!vars
<1>1. PICK c \in BOOLEAN, x \in Events, r \in Seq(Events) : Posted(c, x, r)
  BY DEF PostedSome
<1> DEFINE d == If(c, x)
           p == bus' \o evq
           F == LinkReports(p)
<1>2. /\ d \in Seq(Events)
      /\ \A i \in 1..Len(r) : ~IsLink(r[i])
      /\ c => d = <<x>>
      /\ ~c => d = << >>
  BY <1>1, PostedProperties DEF Posted, If
<1>3. /\ evq \in Seq(Events) /\ bus' \in Seq(Events) /\ evq' = evq \o (d \o r)
  BY <1>1 DEF TypeOK, Posted
<1> HIDE DEF d
<1>4. p \in Seq(Events) /\ d \o r \in Seq(Events) /\ bus' \o evq' = p \o (d \o r)
  <2>1. p \in Seq(Events) /\ d \o r \in Seq(Events) BY <1>2, <1>3, ConcatProperties
  <2>2. (bus' \o evq) \o (d \o r) = bus' \o (evq \o (d \o r))
    BY <1>3, <2>1, ConcatAssociative
  <2> QED BY <1>3, <2>1, <2>2
<1>5. F \in Seq(Bit) BY <1>4, ReportsOf
<1>6. LinkReports(d \o r) = LinkReports(d)
  <2>1. LinkReports(r) = << >> BY <1>2, LinkReportsNone DEF NoLink
  <2>2. LinkReports(d) \in Seq(Bit) BY <1>2, ReportsOf
  <2> QED BY <1>2, <2>1, <2>2, LinkReportsConcat, ConcatEmptySeq
<1>7. LinkReports(bus' \o evq') = F \o LinkReports(d)
  BY <1>2, <1>4, <1>6, LinkReportsConcat
<1> HIDE DEF p, F
<1>8. CASE c /\ IsLink(x)
  <2>1. LinkReports(d) = <<LinkBit(x)>> BY <1>2, <1>8, LinkReportsOne
  <2>2. LinkBit(x) \in {0, 1} /\ LinkBit(x) \in Bit BY DEF LinkBit, Bit
  <2>3. F \o <<LinkBit(x)>> = Append(F, LinkBit(x)) BY <1>5, <2>2, AppendIsConcat
  <2>4. Linked' = LinkBit(x) /\ (LinkBit(x) = 1 => Linked = 0)
    BY <1>1, <1>8 DEF Posted, IsLink, LinkBit
  <2>5. Feed!Report(LinkBit(x))
    BY <1>7, <2>1, <2>3, <2>4 DEF Feed!Report, F, p
  <2> QED BY <2>2, <2>5 DEF Feed!Next
<1>9. CASE ~(c /\ IsLink(x))
  <2>1. LinkReports(d) = << >>
    <3>1. CASE c BY <1>2, <1>9, <3>1, LinkReportsOne
    <3>2. CASE ~c
      <4>1. NoLink(<< >>) /\ << >> \in Seq(Events)
        <5>1. Len(<< >>) = 0 /\ 1..0 = {} OBVIOUS
        <5> QED BY <5>1 DEF NoLink
      <4> QED BY <1>2, <3>2, <4>1, LinkReportsNone
    <3> QED BY <3>1, <3>2
  <2>2. LinkReports(bus' \o evq') = F BY <1>5, <1>7, <2>1, ConcatEmptySeq
  <2>3. Linked' = Linked BY <1>1, <1>9 DEF Posted
  <2> QED BY <2>2, <2>3 DEF Feed!vars, F, p
<1> QED BY <1>8, <1>9

LEMMA FeedAfterReceive ==
  ASSUME TypeOK, PostedSome, linkLost' = linkLost, NEW e \in Events, Received(e)
  PROVE  [Feed!Next]_Feed!vars
<1> DEFINE t == Tail(bus)
<1>1. /\ evq \in Seq(Events) /\ bus \in Seq(Events) /\ bus # << >> /\ bus' = t
      /\ t \in Seq(Events) /\ <<e>> \in Seq(Events) /\ bus = <<e>> \o t
  BY HeadThenTail, HeadTailProperties DEF TypeOK, Received
<1> HIDE DEF t
<1>2. t \o evq \in Seq(Events) /\ bus \o evq = <<e>> \o (t \o evq)
  BY <1>1, ConcatProperties, ConcatAssociative
<1>3. LinkReports(bus \o evq) = LinkReports(<<e>>) \o LinkReports(t \o evq)
  BY <1>1, <1>2, LinkReportsConcat
<1>4. CASE IsLink(e)
  <2> DEFINE G == LinkReports(t \o evq)
             b == LinkBit(e)
  <2>1. LinkReports(bus \o evq) = <<b>> \o G /\ LinkReports(bus' \o evq') = G
    BY <1>1, <1>3, <1>4, LinkReportsOne DEF Received
  <2>2. G \in Seq(Bit) /\ b \in Bit BY <1>2, ReportsOf DEF LinkBit, Bit
  <2>3. Linked' = Linked /\ luaStatus' = b BY <1>4 DEF Received
  <2> HIDE DEF G, b
  <2>4. <<b>> \o G # << >> /\ Head(<<b>> \o G) = b /\ Tail(<<b>> \o G) = G
    BY <2>2
  <2> QED BY <2>1, <2>3, <2>4 DEF Feed!Next, Feed!Tell
<1>5. CASE ~IsLink(e)
  <2>1. LinkReports(bus \o evq) = LinkReports(t \o evq)
    BY <1>2, <1>3, <1>5, LinkReportsOne, ReportsOf, ConcatEmptySeq
  <2>2. luaStatus' = luaStatus BY <1>5 DEF Received
  <2>3. bus' \in Seq(Events) /\ LinkReports(bus' \o evq) = LinkReports(bus \o evq)
    BY <1>1, <2>1
  <2> QED BY <2>2, <2>3, FeedAfterPost
<1> QED BY <1>4, <1>5

LEMMA FeedNext == ASSUME TypeOK, [Next]_vars PROVE [Feed!Next]_Feed!vars
<1>1. CASE UNCHANGED vars
  BY <1>1 DEF vars, driver, feed, Feed!vars, Linked
<1>2. CASE EventTask BY <1>2, FeedAfterEventTask
<1>3. CASE PostedSome /\ UNCHANGED <<bus, luaStatus, linkLost>>
  BY <1>3, FeedAfterPost DEF TypeOK
<1>4. ASSUME PostedSome, linkLost' = linkLost, NEW e \in Events, Received(e)
      PROVE  [Feed!Next]_Feed!vars
  BY <1>4, FeedAfterReceive
<1> QED BY <1>1, <1>2, <1>3, <1>4, StepsAreShaped DEF StepShape

\* The port implements the abstract feed: the script is told every change of
\* the link once and in order, unless the bus had no slot for a report.
THEOREM PortImplementsFeed == Spec => ImplementsFeed
<1>1. Init => Feed!Init
  <2>1. << >> \in Seq(Events) /\ Len(<< >>) = 0 /\ 1..0 = {} /\ << >> \o << >> = << >>
    OBVIOUS
  <2>2. LinkReports(<< >>) = << >> BY <2>1, LinkReportsNone DEF NoLink
  <2> QED BY <2>1, <2>2 DEF Init, Feed!Init, Linked
<1>2. TypeOK /\ [Next]_vars => [Feed!Next]_Feed!vars BY FeedNext
<1> QED BY <1>1, <1>2, TypeCorrect, PTL DEF Spec, ImplementsFeed, Feed!Spec
=============================================================================

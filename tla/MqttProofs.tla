----------------------------- MODULE MqttProofs -----------------------------
(***************************************************************************)
(* Proofs about Mqtt, for any number of slots of the bus, of handles, of   *)
(* payload blocks and of published messages.                               *)
(***************************************************************************)
EXTENDS Mqtt, SequenceTheorems, FiniteSetTheorems, TLAPS

Messages == [kind : Kinds \cup {"RELEASE", "none"}, id : Nat]
Phases   == {"unused", "running", "stopping", "destroyed"}

TypeInv ==
  /\ ctrl \in {"none", "alive", "collected"}
  /\ held \in BOOLEAN /\ closed \in BOOLEAN /\ deaf \in BOOLEAN
  /\ mqtt_ref \in {0, 1} /\ mqtt_cb \in {0, 1} /\ lost \in {0, 1}
  /\ lua \in {"loop", "stopping", "publishing"}
  /\ client \in Clients \cup {"NULL"}
  /\ phase \in [Clients -> Phases]
  /\ link \subseteq Clients /\ subs \subseteq Clients
  /\ outbox \in [Clients -> SUBSET Nat]
  /\ handling \in [Clients -> Messages]
  /\ bus \in Seq(Messages)
  /\ payloads \in Int
  /\ ids \in [given : Nat, returned : Nat]
  /\ sent \subseteq Nat

LEMMA EventIsMessage ==
  ASSUME NEW kind \in Kinds \cup {"RELEASE", "none"}, NEW id \in Nat
  PROVE  /\ Event(kind, id) \in Messages
         /\ Event(kind, id).kind = kind /\ Event(kind, id).id = id
BY DEF Event, Messages

LEMMA NoEventIsMessage == NoEvent \in Messages /\ NoEvent.kind = "none"
BY EventIsMessage DEF NoEvent

LEMMA BusPutType ==
  ASSUME NEW q \in Seq(Messages), NEW m \in Messages
  PROVE  /\ BusPut(q, m) \in Seq(Messages)
         /\ BusPut(q, m) = IF BusFull(q) THEN q ELSE Append(q, m)
BY DEF BusPut

LEMMA TypeInit == Init => TypeInv
<1> SUFFICES ASSUME Init PROVE TypeInv OBVIOUS
<1>1. handling \in [Clients -> Messages] BY NoEventIsMessage DEF Init
<1>2. ids \in [given : Nat, returned : Nat] /\ bus \in Seq(Messages) BY DEF Init
<1>3. phase \in [Clients -> Phases] /\ outbox \in [Clients -> SUBSET Nat]
  BY DEF Init, Phases
<1>4. held \in BOOLEAN /\ closed \in BOOLEAN /\ deaf \in BOOLEAN BY DEF Init
<1>5. /\ ctrl \in {"none", "alive", "collected"} /\ client \in Clients \cup {"NULL"}
      /\ mqtt_ref \in {0, 1} /\ mqtt_cb \in {0, 1} /\ lost \in {0, 1}
      /\ lua \in {"loop", "stopping", "publishing"}
      /\ link \subseteq Clients /\ subs \subseteq Clients
      /\ payloads \in Int /\ sent \subseteq Nat
  BY DEF Init
<1> QED BY <1>1, <1>2, <1>3, <1>4, <1>5 DEF TypeInv

\* What the client task leaves alone, and what it adds.
LEMMA TypeClientTask ==
  ASSUME TypeInv, NEW c \in Clients, ClientTask(c) PROVE TypeInv'
<1>1. ASSUME NEW kind \in Kinds, NEW id \in 0..PubMax, Handle(c, Event(kind, id))
      PROVE  TypeInv'
  <2>1. Event(kind, id) \in Messages BY MqttAssumption, EventIsMessage
  <2> DEFINE e == Event(kind, id)
  <2> HIDE DEF e
  <2>2. Handle(c, e) /\ e \in Messages BY <1>1, <2>1 DEF e
  <2>3. handling' \in [Clients -> Messages] BY <2>2 DEF Handle, TypeInv
  <2>4. outbox' \in [Clients -> SUBSET Nat] BY <2>2 DEF Handle, TypeInv
  <2>5. link' \subseteq Clients /\ subs' \subseteq Clients BY <2>2 DEF Handle, TypeInv
  <2>6. payloads' \in Int BY <2>2 DEF Handle, TypeInv
  <2> QED BY <2>2, <2>3, <2>4, <2>5, <2>6 DEF Handle, TypeInv, object, script
<1>2. CASE HandlerPuts(c)
  <2>1. handling[c] \in Messages BY DEF TypeInv
  <2>2. bus' \in Seq(Messages) BY <1>2, <2>1, BusPutType DEF HandlerPuts, TypeInv
  <2>3. handling' \in [Clients -> Messages]
    BY <1>2, NoEventIsMessage DEF HandlerPuts, TypeInv
  <2> QED BY <1>2, <2>2, <2>3 DEF HandlerPuts, TypeInv, object, library, script
<1>3. CASE HandlerReturns(c)
  <2>1. handling' \in [Clients -> Messages]
    BY <1>3, NoEventIsMessage DEF HandlerReturns, TypeInv
  <2> QED BY <1>3, <2>1 DEF HandlerReturns, TypeInv, object, library, script
<1> QED BY <1>1, <1>2, <1>3 DEF ClientTask

LEMMA TypeLua == ASSUME TypeInv, LuaTask PROVE TypeInv'
<1>1. CASE Callback
  <2> DEFINE e == Head(bus)
  <2>1. e \in Messages /\ bus' \in Seq(Messages)
    BY <1>1, HeadTailProperties DEF Callback, TypeInv
  <2>2. e.id \in Nat BY <2>1 DEF Messages
  <2>3. /\ sent' = IF e.kind = "PUBLISHED" /\ mqtt_cb = 1 THEN sent \cup {e.id} ELSE sent
        /\ payloads' = payloads - Freed(e.kind)
        /\ mqtt_ref' = IF e.kind = "RELEASE" THEN 0 ELSE mqtt_ref
        /\ subs' = IF e.kind = "CONNECTED" /\ mqtt_cb = 1 THEN Subscribing ELSE subs
        /\ deaf' = (deaf \/ (e.kind = "CONNECTED" /\ mqtt_cb = 0))
    BY <1>1 DEF Callback
  <2>4. Freed(e.kind) \in Int BY DEF Freed
  <2> HIDE DEF e
  <2>5. /\ sent' \subseteq Nat
        /\ payloads' \in Int
        /\ mqtt_ref' \in {0, 1}
    <3>1. sent' \subseteq Nat BY <2>2, <2>3 DEF TypeInv
    <3>2. payloads' \in Int BY <2>3, <2>4 DEF TypeInv
    <3>3. mqtt_ref' \in {0, 1} BY <2>3 DEF TypeInv
    <3> QED BY <3>1, <3>2, <3>3
  <2>6. subs' \subseteq Clients BY <2>3 DEF TypeInv, Subscribing
  <2>7. deaf' \in BOOLEAN BY <2>3 DEF TypeInv
  <2> QED BY <1>1, <2>1, <2>5, <2>6, <2>7 DEF Callback, TypeInv
<1>2. CASE PublishReturns
  <2>1. ids' \in [given : Nat, returned : Nat] BY <1>2 DEF PublishReturns, TypeInv
  <2> QED BY <1>2, <2>1 DEF PublishReturns, TypeInv, object, library
<1>3. CASE CloseRest
  <2>1. bus' \in Seq(Messages)
    <3>1. Event("RELEASE", 0) \in Messages BY EventIsMessage
    <3> QED BY <1>3, <3>1, BusPutType DEF CloseRest, TypeInv
  <2>2. phase' \in [Clients -> Phases] BY <1>3 DEF CloseRest, TypeInv, Phases
  <2> QED BY <1>3, <2>1, <2>2 DEF CloseRest, TypeInv, ReleaseLater, script
<1> QED BY <1>1, <1>2, <1>3 DEF LuaTask

LEMMA TypeScript == ASSUME TypeInv, Script PROVE TypeInv'
<1>1. CASE Create BY <1>1 DEF Create, TypeInv, library, script
<1>2. CASE On BY <1>2 DEF On, TypeInv, library, script
<1>3. ASSUME NEW c \in Clients, Connect(c) PROVE TypeInv'
  <2>1. phase' \in [Clients -> Phases] BY <1>3 DEF Connect, TypeInv, Phases
  <2> QED BY <1>3, <2>1 DEF Connect, TypeInv, script
<1>4. CASE Publish
  <2>1. ids' \in [given : Nat, returned : Nat] /\ ids'.given \in Nat
    BY <1>4 DEF Publish, TypeInv
  <2>2. outbox' \in [Clients -> SUBSET Nat] BY <1>4, <2>1 DEF Publish, TypeInv
  <2> QED BY <1>4, <2>1, <2>2 DEF Publish, TypeInv, object
<1>5. CASE Subscribe BY <1>5 DEF Subscribe, Subscribing, TypeInv, object, script
<1>6. CASE Unsubscribe BY <1>6 DEF Unsubscribe, TypeInv, object
<1>7. CASE Close
  <2>1. phase' \in [Clients -> Phases] BY <1>7 DEF Close, TypeInv, Phases
  <2> QED BY <1>7, <2>1 DEF Close, TypeInv, object
<1>8. CASE Forget BY <1>8 DEF Forget, TypeInv, library, script
<1>9. CASE Collect BY <1>9 DEF Collect, TypeInv, library, script
<1> QED BY <1>1, <1>2, <1>3, <1>4, <1>5, <1>6, <1>7, <1>8, <1>9 DEF Script

\* Every variable keeps its type.
THEOREM TypeCorrect == Spec => []TypeInv
<1>1. ASSUME TypeInv, [Next]_vars PROVE TypeInv'
  <2>1. CASE UNCHANGED vars BY <1>1, <2>1 DEF vars, object, library, script, TypeInv
  <2> QED BY <1>1, <2>1, TypeClientTask, TypeLua, TypeScript DEF Next
<1> QED BY <1>1, TypeInit, PTL DEF Spec

-----------------------------------------------------------------------------
(* The ids of published messages.                                          *)

\* No id is anywhere before publish gave it out, and while the Lua task is in
\* its loop, every id given out was returned.
IdsInv ==
  /\ ids.returned <= ids.given
  /\ lua # "publishing" => ids.returned = ids.given
  /\ \A c \in Clients : /\ \A id \in outbox[c] : id <= ids.given
                        /\ handling[c].kind = "PUBLISHED" => handling[c].id <= ids.given
  /\ \A i \in 1..Len(bus) : bus[i].kind = "PUBLISHED" => bus[i].id <= ids.given
  /\ SentAfterPublish

LEMMA IdsStay == ASSUME TypeInv, IdsInv, [Next]_vars PROVE IdsInv'
<1>0. /\ ids.given \in Nat /\ ids.returned \in Nat /\ bus \in Seq(Messages)
      /\ handling \in [Clients -> Messages] /\ outbox \in [Clients -> SUBSET Nat]
  BY DEF TypeInv
<1>1. ASSUME UNCHANGED <<ids, outbox, handling, bus, sent>>, lua = "publishing" => lua' = lua
      PROVE  IdsInv'
  BY <1>1 DEF IdsInv, SentAfterPublish
<1>2. CASE UNCHANGED vars BY <1>1, <1>2 DEF vars, library, script
<1>3. ASSUME NEW c \in Clients, ClientTask(c) PROVE IdsInv'
  <2>1. ASSUME NEW kind \in Kinds, NEW id \in 0..PubMax, Handle(c, Event(kind, id))
        PROVE  IdsInv'
    <3>1. Event(kind, id).kind = kind /\ Event(kind, id).id = id
      BY MqttAssumption, EventIsMessage
    <3> DEFINE e == Event(kind, id)
    <3> HIDE DEF e
    <3>2. Handle(c, e) /\ e.kind = kind /\ e.id = id BY <2>1, <3>1 DEF e
    <3>3. e.kind = "PUBLISHED" => e.id <= ids.given
      BY <3>2 DEF Handle, Reports, IdsInv
    <3>4. \A d \in Clients : outbox'[d] \subseteq outbox[d] BY <1>0, <3>2 DEF Handle
    <3>5. \A d \in Clients : handling'[d] = IF d = c THEN e ELSE handling[d]
      BY <1>0, <3>2 DEF Handle
    <3>6. UNCHANGED <<ids, lua, bus, sent>> BY <3>2 DEF Handle, script
    <3> QED BY <3>3, <3>4, <3>5, <3>6 DEF IdsInv, SentAfterPublish
  <2>2. CASE HandlerPuts(c) \/ HandlerReturns(c)
    <3>1. \A d \in Clients : handling'[d] = IF d = c THEN NoEvent ELSE handling[d]
      BY <1>0, <2>2 DEF HandlerPuts, HandlerReturns
    <3>2. UNCHANGED <<ids, lua, outbox, sent>>
      BY <2>2 DEF HandlerPuts, HandlerReturns, script, library
    <3>3. handling[c] \in Messages BY <1>0
    <3>4. bus' = bus \/ bus' = Append(bus, handling[c])
      BY <2>2 DEF HandlerPuts, HandlerReturns, BusPut
    <3>5. \A i \in 1..Len(bus') : bus'[i].kind = "PUBLISHED" => bus'[i].id <= ids.given
      <4>1. CASE bus' = bus BY <4>1 DEF IdsInv
      <4>2. CASE bus' = Append(bus, handling[c])
        <5>1. \A i \in 1..Len(bus') : \/ i \in 1..Len(bus) /\ bus'[i] = bus[i]
                                      \/ bus'[i] = handling[c]
          BY <1>0, <3>3, <4>2, AppendProperties, LenProperties
        <5> QED BY <5>1 DEF IdsInv
      <4> QED BY <3>4, <4>1, <4>2
    <3> QED BY <3>1, <3>2, <3>5, NoEventIsMessage DEF IdsInv, SentAfterPublish
  <2> QED BY <1>3, <2>1, <2>2 DEF ClientTask
<1>4. CASE LuaTask
  <2>1. CASE Callback
    <3>1. UNCHANGED <<ids, lua, outbox, handling>> /\ lua = "loop" /\ bus # << >>
          /\ bus' = Tail(bus)
      BY <2>1 DEF Callback
    <3>2. \A i \in 1..Len(bus') : i + 1 \in 1..Len(bus) /\ bus'[i] = bus[i + 1]
      BY <1>0, <3>1, HeadTailProperties, LenProperties
    <3>3. 1 \in 1..Len(bus) /\ Head(bus) = bus[1]
      BY <1>0, <3>1, EmptySeq, LenProperties
    <3>4. Head(bus).kind = "PUBLISHED" => Head(bus).id <= ids.returned
      BY <3>1, <3>3 DEF IdsInv
    <3>5. SentAfterPublish' BY <2>1, <3>1, <3>4 DEF Callback, IdsInv, SentAfterPublish
    <3> QED BY <3>1, <3>2, <3>5 DEF IdsInv
  <2>2. CASE PublishReturns
    <3>1. ids'.given = ids.given /\ ids'.returned = ids.given
      BY <1>0, <2>2 DEF PublishReturns, TypeInv
    <3>2. UNCHANGED <<outbox, handling, bus, sent>> BY <2>2 DEF PublishReturns, library
    <3>3. \A id \in sent : id <= ids'.returned
      <4>1. sent \subseteq Nat BY DEF TypeInv
      <4>2. ids.returned <= ids'.returned BY <1>0, <3>1 DEF IdsInv
      <4>3. \A id \in sent : id \in Nat /\ id <= ids.returned
        BY <4>1 DEF IdsInv, SentAfterPublish
      <4> QED BY <1>0, <3>1, <4>2, <4>3
    <3> QED BY <1>0, <3>1, <3>2, <3>3 DEF IdsInv, SentAfterPublish
  <2>3. CASE CloseRest
    <3>1. UNCHANGED <<ids, outbox, handling, sent>> /\ lua = "stopping"
      BY <2>3 DEF CloseRest, script
    <3>2. Event("RELEASE", 0) \in Messages /\ Event("RELEASE", 0).kind # "PUBLISHED"
      BY EventIsMessage
    <3>3. bus' = bus \/ bus' = Append(bus, Event("RELEASE", 0)) BY <2>3 DEF CloseRest, BusPut
    <3>4. \A i \in 1..Len(bus') : \/ i \in 1..Len(bus) /\ bus'[i] = bus[i]
                                  \/ bus'[i] = Event("RELEASE", 0)
      BY <1>0, <3>2, <3>3, AppendProperties, LenProperties
    <3> QED BY <3>1, <3>2, <3>4 DEF IdsInv, SentAfterPublish
  <2> QED BY <1>4, <2>1, <2>2, <2>3 DEF LuaTask
<1>5. CASE Script
  <2>1. CASE Publish
    <3>1. ids'.given = ids.given + 1 /\ ids'.returned = ids.returned /\ lua' = "publishing"
      BY <1>0, <2>1 DEF Publish, TypeInv
    <3>2. UNCHANGED <<handling, bus, sent>> BY <2>1 DEF Publish
    <3>3. \A c \in Clients : outbox'[c] \subseteq outbox[c] \cup {ids'.given}
      BY <1>0, <2>1 DEF Publish
    <3>4. \A c \in Clients : \A id \in outbox'[c] : id <= ids'.given
      BY <1>0, <3>1, <3>3 DEF IdsInv
    <3>5. \A c \in Clients : handling[c].id \in Nat BY <1>0 DEF Messages
    <3>6. \A i \in 1..Len(bus) : bus[i].id \in Nat
      <4>1. \A i \in 1..Len(bus) : bus[i] \in Messages BY <1>0, ElementOfSeq
      <4> QED BY <4>1 DEF Messages
    <3>7. \A c \in Clients : handling[c].kind = "PUBLISHED" => handling[c].id <= ids'.given
      BY <1>0, <3>1, <3>5 DEF IdsInv
    <3>8. \A i \in 1..Len(bus) : bus[i].kind = "PUBLISHED" => bus[i].id <= ids'.given
      BY <1>0, <3>1, <3>6 DEF IdsInv
    <3>9. ids'.returned <= ids'.given BY <1>0, <3>1 DEF IdsInv
    <3> QED BY <3>1, <3>2, <3>4, <3>7, <3>8, <3>9 DEF IdsInv, SentAfterPublish
  <2>2. CASE Create \/ On \/ (\E c \in Clients : Connect(c)) \/ Subscribe
             \/ Unsubscribe \/ Close \/ Forget \/ Collect
    BY <1>1, <2>2 DEF Create, On, Connect, Subscribe, Unsubscribe, Close, Forget, Collect,
                      Usable, library, script
  <2> QED BY <1>5, <2>1, <2>2 DEF Script
<1> QED BY <1>2, <1>3, <1>4, <1>5 DEF Next

\* The callback is told that a message was sent only after l_mqtt_publish
\* returned its id, although the client task may handle the acknowledgement
\* while the call is still under way.
THEOREM SentIsAfterPublish == Spec => []SentAfterPublish
<1>1. Init => IdsInv
  <2>1. Len(<< >>) = 0 /\ 1..0 = {} OBVIOUS
  <2> QED BY <2>1, NoEventIsMessage DEF Init, IdsInv, SentAfterPublish
<1>2. ASSUME TypeInv, IdsInv, [Next]_vars PROVE IdsInv' BY <1>2, IdsStay
<1>3. IdsInv => SentAfterPublish BY DEF IdsInv
<1> QED BY <1>1, <1>2, <1>3, TypeCorrect, PTL DEF Spec

-----------------------------------------------------------------------------
(* Counting messages.                                                      *)

LEMMA KindsFinite ==
  ASSUME NEW q \in Seq(Messages), NEW kind
  PROVE  IsFiniteSet({i \in 1..Len(q) : q[i].kind = kind})
<1>1. IsFiniteSet(1..Len(q)) BY FS_Interval, LenProperties
<1> QED BY <1>1, FS_Subset

LEMMA CountType ==
  ASSUME NEW q \in Seq(Messages), NEW kind
  PROVE  /\ Count(kind, q) \in Nat
         /\ Count(kind, q) = 0 => \A i \in 1..Len(q) : q[i].kind # kind
<1> DEFINE A == {i \in 1..Len(q) : q[i].kind = kind}
<1>1. IsFiniteSet(A) BY KindsFinite
<1>2. Cardinality(A) \in Nat /\ (Cardinality(A) = 0 => A = {})
  <2> HIDE DEF A
  <2> QED BY <1>1, FS_CardinalityType, FS_EmptySet
<1> QED BY <1>2 DEF Count

LEMMA CountAppend ==
  ASSUME NEW q \in Seq(Messages), NEW m \in Messages, NEW kind
  PROVE  Count(kind, Append(q, m)) = Count(kind, q) + (IF m.kind = kind THEN 1 ELSE 0)
<1> DEFINE p == Append(q, m)
           A == {i \in 1..Len(q) : q[i].kind = kind}
           B == {i \in 1..Len(p) : p[i].kind = kind}
           n == Len(q) + 1
<1>1. /\ Len(q) \in Nat /\ Len(p) = n /\ p[n] = m
      /\ \A i \in 1..Len(q) : p[i] = q[i]
  BY AppendProperties, LenProperties
<1>2. IsFiniteSet(A) /\ n \notin A
  <2>1. n \notin 1..Len(q) BY <1>1
  <2> QED BY <2>1, KindsFinite
<1>3. B = IF m.kind = kind THEN A \cup {n} ELSE A
  <2> HIDE DEF p
  <2> QED BY <1>1
<1>4. Count(kind, q) = Cardinality(A) /\ Count(kind, p) = Cardinality(B) BY DEF Count
<1>5. Cardinality(A) \in Nat BY <1>2, FS_CardinalityType
<1> HIDE DEF A, B, n
<1>6. Cardinality(A \cup {n}) = Cardinality(A) + 1 BY <1>2, FS_AddElement
<1> QED BY <1>3, <1>4, <1>5, <1>6

LEMMA CountTail ==
  ASSUME NEW q \in Seq(Messages), q # << >>, NEW kind
  PROVE  Count(kind, q) = Count(kind, Tail(q)) + (IF Head(q).kind = kind THEN 1 ELSE 0)
<1> DEFINE t == Tail(q)
           A == {i \in 1..Len(t) : t[i].kind = kind}
           B == {i \in 1..Len(q) : q[i].kind = kind}
           C == {i \in 2..Len(q) : q[i].kind = kind}
           f == [i \in A |-> i + 1]
<1>1. /\ Len(q) \in Nat /\ Len(q) > 0 /\ t \in Seq(Messages) /\ Len(t) = Len(q) - 1
      /\ Head(q) = q[1]
      /\ \A i \in 1..Len(t) : t[i] = q[i + 1]
  BY HeadTailProperties, EmptySeq, LenProperties
<1>2. IsFiniteSet(A) BY <1>1, KindsFinite
<1>3. f \in Bijection(A, C)
  <2> HIDE DEF t
  <2>1. \A i \in A : f[i] \in C BY <1>1
  <2>2. \A i, j \in A : f[i] = f[j] => i = j BY <1>1
  <2>3. \A c \in C : c - 1 \in A /\ f[c - 1] = c BY <1>1
  <2> QED BY <2>1, <2>2, <2>3 DEF Bijection, Injection, Surjection, IsInjective
<1>4. IsFiniteSet(C) /\ Cardinality(C) = Cardinality(A)
  BY <1>2, <1>3, FS_Bijection DEF ExistsBijection
<1>5. 1 \notin C /\ B = IF Head(q).kind = kind THEN C \cup {1} ELSE C BY <1>1
<1>6. Count(kind, t) = Cardinality(A) /\ Count(kind, q) = Cardinality(B) BY DEF Count
<1>7. Cardinality(C) \in Nat BY <1>4, FS_CardinalityType
<1> HIDE DEF A, B, C, t, f
<1>8. Cardinality(C \cup {1}) = Cardinality(C) + 1 BY <1>4, <1>5, FS_AddElement
<1>9. Count(kind, q) = Count(kind, t) + (IF Head(q).kind = kind THEN 1 ELSE 0)
  BY <1>4, <1>5, <1>6, <1>7, <1>8
<1> QED BY <1>9 DEF t

LEMMA InHandlerFinite ==
  ASSUME NEW kind PROVE IsFiniteSet({c \in Clients : handling[c].kind = kind})
BY MqttAssumption, FS_Subset

LEMMA InHandlerType ==
  ASSUME NEW kind
  PROVE  /\ InHandler(kind) \in Nat
         /\ InHandler(kind) = 0 => \A c \in Clients : handling[c].kind # kind
<1> DEFINE A == {c \in Clients : handling[c].kind = kind}
<1>1. IsFiniteSet(A) BY InHandlerFinite
<1>2. Cardinality(A) \in Nat /\ (Cardinality(A) = 0 => A = {})
  <2> HIDE DEF A
  <2> QED BY <1>1, FS_CardinalityType, FS_EmptySet
<1> QED BY <1>2 DEF InHandler

\* One task goes from one event to another.
LEMMA InHandlerStep ==
  ASSUME TypeInv, NEW kind, NEW c \in Clients, NEW m \in Messages,
         handling' = [handling EXCEPT ![c] = m]
  PROVE  InHandler(kind)' = InHandler(kind) - (IF handling[c].kind = kind THEN 1 ELSE 0)
                                            + (IF m.kind = kind THEN 1 ELSE 0)
<1> DEFINE A == {d \in Clients : handling[d].kind = kind}
           B == {d \in Clients : handling'[d].kind = kind}
           R == A \ {c}
<1>1. \A d \in Clients : handling'[d] = IF d = c THEN m ELSE handling[d] BY DEF TypeInv
<1>2. IsFiniteSet(A) BY InHandlerFinite
<1>3. c \in A <=> handling[c].kind = kind OBVIOUS
<1>4. B = IF m.kind = kind THEN R \cup {c} ELSE R BY <1>1
<1>5. InHandler(kind) = Cardinality(A) /\ InHandler(kind)' = Cardinality(B) BY DEF InHandler
<1> HIDE DEF A, B
<1>6. IsFiniteSet(R) /\ Cardinality(R) = IF c \in A THEN Cardinality(A) - 1 ELSE Cardinality(A)
  BY <1>2, FS_RemoveElement
<1>7. c \notin R /\ Cardinality(R) \in Nat /\ Cardinality(A) \in Nat
  BY <1>2, <1>6, FS_CardinalityType
<1> HIDE DEF R
<1>8. Cardinality(B) = Cardinality(R) + (IF m.kind = kind THEN 1 ELSE 0)
  <2>1. Cardinality(R \cup {c}) = Cardinality(R) + 1 BY <1>6, <1>7, FS_AddElement
  <2> QED BY <1>4, <1>7, <2>1
<1> QED BY <1>3, <1>5, <1>6, <1>7, <1>8

-----------------------------------------------------------------------------
(* The payload blocks.                                                     *)

LEMMA PayloadsStay == ASSUME TypeInv, PayloadsOwned, [Next]_vars PROVE PayloadsOwned'
<1> DEFINE N == Count("DATA", bus)
           H == InHandler("DATA")
           one(m) == IF m.kind = "DATA" THEN 1 ELSE 0
<1>0. /\ N \in Nat /\ H \in Nat /\ payloads \in Int /\ lost \in {0, 1}
      /\ bus \in Seq(Messages) /\ handling \in [Clients -> Messages]
  BY CountType, InHandlerType DEF TypeInv
<1>01. payloads >= N + H /\ (lost = 0 => payloads = N + H) BY DEF PayloadsOwned
<1>1. ASSUME UNCHANGED <<payloads, lost, bus, handling>> PROVE PayloadsOwned'
  BY <1>1 DEF PayloadsOwned, InHandler
<1>2. CASE UNCHANGED vars BY <1>1, <1>2 DEF vars
<1>3. ASSUME NEW c \in Clients, NEW kind \in Kinds, NEW id \in 0..PubMax,
             Handle(c, Event(kind, id))
      PROVE  PayloadsOwned'
  <2> DEFINE e == Event(kind, id)
  <2>1. e \in Messages BY MqttAssumption, EventIsMessage
  <2> HIDE DEF e
  <2>2. Handle(c, e) BY <1>3 DEF e
  <2>3. /\ handling' = [handling EXCEPT ![c] = e] /\ handling[c].kind # "DATA"
        /\ bus' = bus /\ lost' = lost
        /\ payloads' = payloads + one(e)
    BY <1>0, <2>2, NoEventIsMessage DEF Handle
  <2>4. InHandler("DATA")' = H - 0 + one(e) BY <2>1, <2>3, InHandlerStep
  <2>5. Count("DATA", bus)' = N BY <2>3 DEF Count
  <2> HIDE DEF N, H
  <2>6. one(e) \in Nat OBVIOUS
  <2> HIDE DEF one
  <2> QED BY <1>0, <1>01, <2>3, <2>4, <2>5, <2>6 DEF PayloadsOwned
<1>4. ASSUME NEW c \in Clients, HandlerPuts(c) PROVE PayloadsOwned'
  <2> DEFINE m == handling[c]
  <2>1. /\ m \in Messages /\ handling' = [handling EXCEPT ![c] = NoEvent]
        /\ bus' = IF BusFull(bus) THEN bus ELSE Append(bus, m)
        /\ lost' = IF BusFull(bus) THEN 1 ELSE lost
        /\ payloads' = payloads
    BY <1>0, <1>4 DEF HandlerPuts, BusPut
  <2>2. InHandler("DATA")' = H - one(m) + 0 BY <2>1, NoEventIsMessage, InHandlerStep
  <2>3. Count("DATA", bus)' = IF BusFull(bus) THEN N ELSE N + one(m)
    BY <1>0, <2>1, CountAppend
  <2>4. one(m) \in Nat OBVIOUS
  <2> HIDE DEF one, m, N, H
  <2> QED BY <1>0, <1>01, <2>1, <2>2, <2>3, <2>4 DEF PayloadsOwned
<1>5. ASSUME NEW c \in Clients, HandlerReturns(c) PROVE PayloadsOwned'
  <2>1. /\ handling' = [handling EXCEPT ![c] = NoEvent] /\ handling[c].kind # "DATA"
        /\ bus' = bus /\ lost' = lost /\ payloads' = payloads
    BY <1>5 DEF HandlerReturns, Reported
  <2>2. InHandler("DATA")' = H - 0 + 0 BY <2>1, NoEventIsMessage, InHandlerStep
  <2>3. Count("DATA", bus)' = N BY <2>1 DEF Count
  <2> HIDE DEF N, H
  <2> QED BY <1>0, <1>01, <2>1, <2>2, <2>3 DEF PayloadsOwned
<1>6. CASE Callback
  <2> DEFINE e == Head(bus)
  <2>1. /\ bus # << >> /\ bus' = Tail(bus) /\ payloads' = payloads - one(e)
        /\ lost' = lost /\ handling' = handling
    BY <1>6 DEF Callback, Freed
  <2>2. N = Count("DATA", bus') + one(e) BY <1>0, <2>1, CountTail
  <2>3. Count("DATA", bus') \in Nat /\ one(e) \in Nat
    BY <1>0, <2>1, CountType, HeadTailProperties
  <2>4. InHandler("DATA")' = H BY <2>1 DEF InHandler
  <2> HIDE DEF N, H, one, e
  <2> QED BY <1>0, <1>01, <2>1, <2>2, <2>3, <2>4 DEF PayloadsOwned
<1>7. CASE CloseRest
  <2> DEFINE m == Event("RELEASE", 0)
  <2>1. m \in Messages /\ m.kind # "DATA" BY EventIsMessage
  <2>2. /\ bus' = IF BusFull(bus) THEN bus ELSE Append(bus, m)
        /\ lost' = IF BusFull(bus) THEN 1 ELSE lost
        /\ handling' = handling /\ payloads' = payloads
    BY <1>7 DEF CloseRest, BusPut
  <2> HIDE DEF m
  <2>3. Count("DATA", bus)' = N + 0 \/ Count("DATA", bus)' = N
    BY <1>0, <2>1, <2>2, CountAppend
  <2>4. InHandler("DATA")' = H BY <2>2 DEF InHandler
  <2> HIDE DEF N, H
  <2> QED BY <1>0, <1>01, <2>2, <2>3, <2>4 DEF PayloadsOwned
<1>8. CASE PublishReturns BY <1>1, <1>8 DEF PublishReturns
<1>9. CASE Script
  BY <1>1, <1>9 DEF Script, Create, On, Connect, Publish, Subscribe, Unsubscribe, Close,
                    Forget, Collect
<1> QED BY <1>2, <1>3, <1>4, <1>5, <1>6, <1>7, <1>8, <1>9 DEF Next, ClientTask, LuaTask

\* Every payload block is on its way to the callback that frees it, unless a
\* message was dropped: none is freed twice and none is forgotten, for any
\* number of blocks, slots and handles.
THEOREM PayloadsAreOwned == Spec => []PayloadsOwned
<1>1. Init => PayloadsOwned
  <2> SUFFICES ASSUME Init PROVE PayloadsOwned OBVIOUS
  <2>1. {i \in 1..Len(bus) : bus[i].kind = "DATA"} = {}
    <3>1. Len(<< >>) = 0 /\ 1..0 = {} OBVIOUS
    <3> QED BY <3>1 DEF Init
  <2>2. {c \in Clients : handling[c].kind = "DATA"} = {} BY NoEventIsMessage DEF Init
  <2>3. Count("DATA", bus) = 0 /\ InHandler("DATA") = 0
    BY <2>1, <2>2, FS_EmptySet DEF Count, InHandler
  <2> QED BY <2>3 DEF Init, PayloadsOwned
<1>2. ASSUME TypeInv, PayloadsOwned, [Next]_vars PROVE PayloadsOwned'
  BY <1>2, PayloadsStay
<1> QED BY <1>1, <1>2, TypeCorrect, PTL DEF Spec

-----------------------------------------------------------------------------
(* The subscription.                                                       *)

\* A connected client without its subscription has its CONNECTED on the way.
SubsInv ==
  /\ \A c \in Clients : phase[c] = "unused" => c \notin link
  /\ \A c \in link :
       phase[c] = "running" /\ c = client /\ c \notin subs /\ lost = 0 /\ ~deaf
         => \/ handling[c].kind = "CONNECTED"
            \/ \E i \in 1..Len(bus) : bus[i].kind = "CONNECTED"

LEMMA SubsStay == ASSUME TypeInv, SubsInv, [Next]_vars PROVE SubsInv'
<1>0. /\ link \subseteq Clients /\ client \in Clients \cup {"NULL"}
      /\ phase \in [Clients -> Phases] /\ handling \in [Clients -> Messages]
      /\ bus \in Seq(Messages) /\ lost \in {0, 1} /\ "NULL" \notin Clients
      /\ deaf \in BOOLEAN /\ mqtt_cb \in {0, 1}
  BY MqttAssumption DEF TypeInv
\* A step that changes neither the connections, nor the messages.
<1>1. ASSUME UNCHANGED <<client, phase, link, lost, handling, bus>>,
             subs \subseteq subs', deaf => deaf'
      PROVE  SubsInv'
  BY <1>1 DEF SubsInv
<1>2. CASE UNCHANGED vars BY <1>1, <1>2 DEF vars, object, library, script
<1>3. ASSUME NEW c \in Clients, NEW kind \in Kinds, NEW id \in 0..PubMax,
             Handle(c, Event(kind, id))
      PROVE  SubsInv'
  <2> DEFINE e == Event(kind, id)
  <2>1. e \in Messages BY MqttAssumption, EventIsMessage
  <2> HIDE DEF e
  <2>2. Handle(c, e) BY <1>3 DEF e
  <2>3. /\ handling' = [handling EXCEPT ![c] = e] /\ handling[c].kind # "CONNECTED"
        /\ phase[c] = "running"
        /\ UNCHANGED <<client, phase, bus, lost, deaf>>
    BY <2>2, NoEventIsMessage DEF Handle, object, script
  <2>4. \A d \in Clients : handling'[d] = IF d = c THEN e ELSE handling[d]
    BY <1>0, <2>3
  <2>5. /\ \A d \in Clients : d # c => (d \in link' <=> d \in link) /\ (d \in subs' <=> d \in subs)
        /\ c \in link' /\ e.kind # "CONNECTED" => c \in link /\ (c \in subs' <=> c \in subs)
        /\ link' \subseteq Clients
    BY <1>0, <2>2 DEF Handle
  <2> QED BY <2>3, <2>4, <2>5 DEF SubsInv
<1>4. ASSUME NEW c \in Clients, HandlerPuts(c) PROVE SubsInv'
  <2>1. /\ UNCHANGED <<client, phase, link, subs, deaf>>
        /\ handling' = [handling EXCEPT ![c] = NoEvent]
        /\ bus' = IF BusFull(bus) THEN bus ELSE Append(bus, handling[c])
        /\ lost' = IF BusFull(bus) THEN 1 ELSE lost
    BY <1>4 DEF HandlerPuts, BusPut, object, library, script
  <2>2. \A d \in Clients : d # c => handling'[d] = handling[d] BY <1>0, <2>1
  <2>3. CASE BusFull(bus) BY <2>1, <2>3 DEF SubsInv
  <2>4. CASE ~BusFull(bus)
    <3>1. handling[c] \in Messages BY <1>0
    <3>2. /\ \A i \in 1..Len(bus) : i \in 1..Len(bus') /\ bus'[i] = bus[i]
          /\ Len(bus) + 1 \in 1..Len(bus') /\ bus'[Len(bus) + 1] = handling[c]
      BY <1>0, <2>1, <2>4, <3>1, AppendProperties, LenProperties
    <3> QED BY <1>0, <2>1, <2>2, <2>4, <3>2 DEF SubsInv
  <2> QED BY <2>3, <2>4
<1>5. ASSUME NEW c \in Clients, HandlerReturns(c) PROVE SubsInv'
  <2>1. /\ UNCHANGED <<client, phase, link, subs, deaf, bus, lost>>
        /\ handling' = [handling EXCEPT ![c] = NoEvent] /\ handling[c].kind # "CONNECTED"
    BY <1>5 DEF HandlerReturns, Reported, object, library, script
  <2>2. \A d \in Clients : d # c => handling'[d] = handling[d] BY <1>0, <2>1
  <2> QED BY <1>0, <2>1, <2>2 DEF SubsInv
<1>6. CASE Callback
  <2> DEFINE e == Head(bus)
  <2>1. /\ UNCHANGED <<client, phase, link, handling, lost>>
        /\ bus # << >> /\ bus' = Tail(bus)
        /\ subs' = IF e.kind = "CONNECTED" /\ mqtt_cb = 1 THEN Subscribing ELSE subs
        /\ deaf' = (deaf \/ (e.kind = "CONNECTED" /\ mqtt_cb = 0))
    BY <1>6 DEF Callback
  <2>2. CASE e.kind = "CONNECTED"
    <3>1. CASE mqtt_cb = 1
      <4>1. subs' = subs \cup ({client} \cap link) BY <2>1, <2>2, <3>1 DEF Subscribing
      <4>2. \A c \in link' : c = client' => c \in subs' BY <2>1, <4>1
      <4> QED BY <2>1, <4>2 DEF SubsInv
    <3>2. CASE mqtt_cb = 0
      <4>1. deaf' BY <2>1, <2>2, <3>2
      <4> QED BY <2>1, <4>1 DEF SubsInv
    <3> QED BY <1>0, <3>1, <3>2
  <2>3. CASE e.kind # "CONNECTED"
    <3>1. /\ Head(bus) = bus[1]
          /\ \A i \in 1..Len(bus) : i = 1 \/ (i - 1 \in 1..Len(bus') /\ bus'[i - 1] = bus[i])
      BY <1>0, <2>1, HeadTailProperties, LenProperties
    <3>2. (\E i \in 1..Len(bus) : bus[i].kind = "CONNECTED")
            => \E i \in 1..Len(bus') : bus'[i].kind = "CONNECTED"
      BY <2>3, <3>1
    <3>3. subs' = subs BY <2>1, <2>3
    <3>4. deaf' <=> deaf BY <1>0, <2>1, <2>3
    <3> QED BY <2>1, <3>2, <3>3, <3>4 DEF SubsInv
  <2> QED BY <2>2, <2>3
<1>7. CASE CloseRest
  <2>1. /\ client' = client /\ link' = link \ {client} /\ phase \in [Clients -> Phases]
        /\ \A c \in Clients : phase'[c] = "unused" => phase[c] = "unused"
    BY <1>0, <1>7 DEF CloseRest
  <2> QED BY <1>0, <2>1 DEF SubsInv
<1>8. CASE PublishReturns BY <1>1, <1>8 DEF PublishReturns, object, library
<1>9. ASSUME NEW c \in Clients, Connect(c) PROVE SubsInv'
  <2>1. /\ phase[c] = "unused" /\ client' = c /\ UNCHANGED <<link, subs>>
        /\ \A d \in Clients : phase'[d] = IF d = c THEN "running" ELSE phase[d]
    BY <1>0, <1>9 DEF Connect
  <2>2. c \notin link BY <2>1 DEF SubsInv
  <2> QED BY <1>0, <2>1, <2>2 DEF SubsInv
<1>10. CASE Close
  <2>1. /\ UNCHANGED <<client, link, subs>>
        /\ \A c \in Clients : phase'[c] = IF c = client THEN "stopping" ELSE phase[c]
    BY <1>0, <1>10 DEF Close, object
  <2> QED BY <1>0, <2>1 DEF SubsInv
<1>11. CASE Unsubscribe
  <2>1. deaf' /\ UNCHANGED <<phase, link>> BY <1>11 DEF Unsubscribe
  <2> QED BY <2>1 DEF SubsInv
<1>12. CASE Subscribe BY <1>1, <1>12 DEF Subscribe, Subscribing, object, script
<1>13. CASE Create \/ On \/ Publish \/ Forget \/ Collect
  BY <1>1, <1>13 DEF Create, On, Publish, Forget, Collect, object, library, script
<1> QED BY <1>2, <1>3, <1>4, <1>5, <1>6, <1>7, <1>8, <1>9, <1>10, <1>11, <1>12, <1>13
        DEF Next, ClientTask, LuaTask, Script

\* A script that subscribes in its "conack" callback is subscribed whenever
\* it is connected and has handled its messages, for any number of handles
\* and whether or not it connects again.
THEOREM SubscribedAtRest == Spec => []SubscribedWhenSettled
<1>1. Init => SubsInv BY DEF Init, SubsInv
<1>2. ASSUME TypeInv, SubsInv, [Next]_vars PROVE SubsInv' BY <1>2, SubsStay
<1>3. ASSUME TypeInv, SubsInv PROVE SubscribedWhenSettled
  <2> SUFFICES ASSUME lost = 0, ~deaf, client \in link, phase[client] = "running",
                      Count("CONNECTED", bus) = 0, InHandler("CONNECTED") = 0
               PROVE  client \in subs
    BY DEF SubscribedWhenSettled
  <2>1. bus \in Seq(Messages) /\ client \in Clients BY <1>3 DEF TypeInv
  <2>2. \A i \in 1..Len(bus) : bus[i].kind # "CONNECTED" BY <2>1, CountType
  <2>3. handling[client].kind # "CONNECTED" BY <2>1, InHandlerType
  <2> QED BY <1>3, <2>2, <2>3 DEF SubsInv
<1> QED BY <1>1, <1>2, <1>3, TypeCorrect, PTL DEF Spec

-----------------------------------------------------------------------------
(* The life of the object.  A script that connects once has one client; no *)
(* client is left once close is through, and the message that lets go of   *)
(* mqtt_ref is then the last one on the bus.                               *)

Gone(c)  == phase[c] \in {"unused", "destroyed"}
Quiet    == closed /\ lua = "loop" /\ \A c \in Clients : Gone(c)

LifeInv ==
  /\ ctrl = "none" => mqtt_ref = 0 /\ bus = << >> /\ client = "NULL" /\ ~closed /\ lua = "loop"
  /\ held => ctrl = "alive"
  /\ ctrl = "collected" => mqtt_ref = 0
  /\ ctrl # "none" /\ mqtt_ref = 0 => bus = << >> /\ Quiet
  /\ client = "NULL" => \A c \in Clients : phase[c] = "unused"
  /\ \A c \in Clients : /\ phase[c] = "running" => c = client /\ ~closed
                        /\ phase[c] = "stopping" => lua = "stopping" /\ closed
                        /\ handling[c] # NoEvent => ~Gone(c)
  /\ lua = "stopping" => ctrl = "alive" /\ closed
  /\ lua = "publishing" => ~closed
  /\ \A i \in 1..Len(bus) : bus[i].kind = "RELEASE" => i = Len(bus) /\ Quiet

LEMMA LifeClientTask ==
  ASSUME TypeInv, LifeInv, NEW c \in Clients, ClientTask(c) PROVE LifeInv'
<1>0. /\ phase \in [Clients -> Phases] /\ handling \in [Clients -> Messages]
      /\ bus \in Seq(Messages) /\ "NULL" \notin Clients
  BY MqttAssumption DEF TypeInv
<1>1. ASSUME NEW kind \in Kinds, NEW id \in 0..PubMax, Handle(c, Event(kind, id))
      PROVE  LifeInv'
  <2> DEFINE e == Event(kind, id)
  <2> HIDE DEF e
  <2>1. Handle(c, e) BY <1>1 DEF e
  <2>2. /\ phase[c] = "running"
        /\ UNCHANGED <<ctrl, held, mqtt_ref, client, phase, bus, lua, closed>>
        /\ \A d \in Clients : d # c => handling'[d] = handling[d]
    BY <1>0, <2>1 DEF Handle, object, script
  <2>3. ~Gone(c)' BY <2>2 DEF Gone
  <2>4. \A d \in Clients : handling'[d] # NoEvent => ~Gone(d)'
    BY <2>2, <2>3 DEF LifeInv, Gone
  <2> QED BY <2>2, <2>4 DEF LifeInv, Quiet, Gone
\* The put of a handler: its task is not gone, so that no RELEASE is on the
\* bus and mqtt_ref still holds the object.
<1>2. CASE HandlerPuts(c)
  <2>1. /\ UNCHANGED <<ctrl, held, mqtt_ref, client, phase, lua, closed>>
        /\ handling[c].kind \in Reported
        /\ \A d \in Clients : handling'[d] = IF d = c THEN NoEvent ELSE handling[d]
        /\ bus' = bus \/ bus' = Append(bus, handling[c])
    BY <1>0, <1>2 DEF HandlerPuts, BusPut, object, library, script
  <2>2. handling[c] # NoEvent /\ handling[c].kind # "RELEASE"
    BY <2>1, NoEventIsMessage DEF Reported
  <2>3. ~Gone(c) /\ ~Quiet BY <2>2 DEF LifeInv, Quiet
  <2>4. ctrl # "none" /\ mqtt_ref # 0
    <3>1. client # "NULL" BY <2>3 DEF LifeInv, Gone
    <3> QED BY <2>3, <3>1 DEF LifeInv
  <2>5. \A i \in 1..Len(bus') : bus'[i].kind # "RELEASE"
    <3>1. \A i \in 1..Len(bus) : bus[i].kind # "RELEASE" BY <2>3 DEF LifeInv
    <3>2. handling[c] \in Messages BY <1>0
    <3>3. \A i \in 1..Len(bus') : \/ i \in 1..Len(bus) /\ bus'[i] = bus[i]
                                  \/ bus'[i] = handling[c]
      BY <1>0, <2>1, <3>2, AppendProperties, LenProperties
    <3> QED BY <2>2, <3>1, <3>3
  <2>6. \A d \in Clients : handling'[d] # NoEvent => ~Gone(d)'
    BY <2>1 DEF LifeInv, Gone
  <2> QED BY <2>1, <2>4, <2>5, <2>6 DEF LifeInv
<1>3. CASE HandlerReturns(c)
  <2>1. /\ UNCHANGED <<ctrl, held, mqtt_ref, client, phase, bus, lua, closed>>
        /\ \A d \in Clients : handling'[d] = IF d = c THEN NoEvent ELSE handling[d]
    BY <1>0, <1>3 DEF HandlerReturns, object, library, script
  <2> QED BY <2>1 DEF LifeInv, Quiet, Gone
<1> QED BY <1>1, <1>2, <1>3 DEF ClientTask

LEMMA LifeLua == ASSUME TypeInv, LifeInv, LuaTask PROVE LifeInv'
<1>0. /\ phase \in [Clients -> Phases] /\ handling \in [Clients -> Messages]
      /\ bus \in Seq(Messages) /\ "NULL" \notin Clients
  BY MqttAssumption DEF TypeInv
<1>1. CASE Callback
  <2>1. /\ UNCHANGED <<ctrl, held, client, phase, handling, lua, closed>>
        /\ bus # << >> /\ bus' = Tail(bus)
        /\ mqtt_ref' = IF Head(bus).kind = "RELEASE" THEN 0 ELSE mqtt_ref
    BY <1>1 DEF Callback
  <2>2. /\ Len(bus) \in Nat /\ Len(bus) > 0 /\ Len(bus') = Len(bus) - 1 /\ Head(bus) = bus[1]
        /\ bus' \in Seq(Messages)
        /\ \A i \in 1..Len(bus') : i + 1 \in 1..Len(bus) /\ bus'[i] = bus[i + 1]
    BY <1>0, <2>1, HeadTailProperties, EmptySeq, LenProperties
  <2>3. Quiet' <=> Quiet BY <2>1 DEF Quiet, Gone
  <2>4. ctrl # "none" /\ mqtt_ref # 0 BY <2>1 DEF LifeInv
  <2>5. CASE Head(bus).kind = "RELEASE"
    <3>1. 1 = Len(bus) /\ Quiet BY <2>2, <2>5 DEF LifeInv
    <3>2. bus' = << >>
      <4>1. Len(bus') = Len(bus) - 1 /\ Len(bus) = 1 BY <2>2, <3>1
      <4>2. Len(bus') = 0 BY ONLY <4>1
      <4>3. bus' \in Seq(Messages) BY <2>2
      <4> QED BY ONLY <4>2, <4>3, EmptySeq
    <3>3. mqtt_ref' = 0 /\ lua' = "loop" /\ 1..Len(bus') = {}
      BY <2>1, <2>2, <2>5, <3>1 DEF Quiet
    <3> QED BY <2>1, <2>3, <2>4, <3>1, <3>2, <3>3 DEF LifeInv, Gone
  <2>6. CASE Head(bus).kind # "RELEASE"
    <3>1. mqtt_ref' = mqtt_ref BY <2>1, <2>6
    <3>2. \A i \in 1..Len(bus') : bus'[i].kind = "RELEASE" => i = Len(bus') /\ Quiet'
      <4> SUFFICES ASSUME NEW i \in 1..Len(bus'), bus'[i].kind = "RELEASE"
                   PROVE  i = Len(bus') /\ Quiet'
        OBVIOUS
      <4>1. i + 1 = Len(bus) /\ Quiet BY <2>2 DEF LifeInv
      <4> QED BY <2>2, <2>3, <4>1
    <3> QED BY <2>1, <2>4, <3>1, <3>2 DEF LifeInv, Gone
  <2> QED BY <2>5, <2>6
<1>2. CASE PublishReturns
  <2>1. /\ UNCHANGED <<ctrl, held, mqtt_ref, client, phase, handling, bus, closed>>
        /\ lua = "publishing" /\ lua' = "loop"
    BY <1>2 DEF PublishReturns, object, library
  <2> QED BY <2>1 DEF LifeInv, Quiet, Gone
<1>3. CASE CloseRest
  <2> DEFINE m == Event("RELEASE", 0)
  <2>1. /\ UNCHANGED <<ctrl, held, client, mqtt_ref, handling, closed>>
        /\ lua = "stopping" /\ lua' = "loop"
        /\ bus' = bus \/ bus' = Append(bus, m)
        /\ \A c \in Clients :
             phase'[c] = IF phase[c] = "stopping" THEN "destroyed" ELSE phase[c]
        /\ \A c \in Clients : phase[c] = "stopping" => handling[c] = NoEvent
    BY <1>0, <1>3 DEF CloseRest, BusPut, ReleaseLater, script
  <2>2. ctrl = "alive" /\ mqtt_ref # 0 /\ ~Quiet /\ closed BY <2>1 DEF LifeInv, Quiet
  <2>3. \A c \in Clients : phase[c] # "running" BY <2>2 DEF LifeInv
  <2>4. \A c \in Clients : Gone(c)' BY <1>0, <2>1, <2>3 DEF Gone, Phases
  <2>5. \A c \in Clients : handling[c] = NoEvent
    <3>1. \A c \in Clients : handling[c] # NoEvent => phase[c] \in {"running", "stopping"}
      BY <1>0 DEF LifeInv, Gone, Phases
    <3> QED BY <2>1, <2>3, <3>1
  <2>6. Quiet' BY <2>1, <2>2, <2>4 DEF Quiet
  <2>7. \A i \in 1..Len(bus') : bus'[i].kind = "RELEASE" => i = Len(bus')
    <3>1. \A i \in 1..Len(bus) : bus[i].kind # "RELEASE" BY <2>2 DEF LifeInv
    <3>2. m \in Messages BY EventIsMessage
    <3> HIDE DEF m
    <3>3. \A i \in 1..Len(bus') : \/ i \in 1..Len(bus) /\ bus'[i] = bus[i]
                                  \/ i = Len(bus')
      BY <1>0, <2>1, <3>2, AppendProperties, LenProperties
    <3> QED BY <3>1, <3>3
  <2>8. client = "NULL" => \A c \in Clients : phase'[c] = "unused"
    BY <2>1 DEF LifeInv
  <2>9. \A c \in Clients : phase'[c] \notin {"running", "stopping"} BY <2>4 DEF Gone
  <2> HIDE DEF m
  <2> QED BY <2>1, <2>2, <2>5, <2>6, <2>7, <2>8, <2>9 DEF LifeInv
<1> QED BY <1>1, <1>2, <1>3 DEF LuaTask

LEMMA LifeScript ==
  ASSUME TypeInv, LifeInv, ~Reconnect, Script PROVE LifeInv'
<1>0. /\ phase \in [Clients -> Phases] /\ "NULL" \notin Clients
  BY MqttAssumption DEF TypeInv
\* While the script can use the object, nothing of close has begun.
<1>1. Usable => /\ ctrl = "alive" /\ mqtt_ref # 0 /\ ~Quiet
                /\ \A i \in 1..Len(bus) : bus[i].kind # "RELEASE"
                /\ \A c \in Clients : phase[c] # "stopping"
  BY DEF Usable, LifeInv, Quiet
<1>2. CASE Create BY <1>2 DEF Create, LifeInv, Quiet, Gone, library, script
<1>3. CASE On \/ Subscribe \/ Unsubscribe
  <2>1. UNCHANGED <<ctrl, held, mqtt_ref, client, phase, handling, bus, lua, closed>>
    BY <1>3 DEF On, Subscribe, Unsubscribe, object, library, script
  <2> QED BY <2>1 DEF LifeInv, Quiet, Gone
<1>4. ASSUME NEW c \in Clients, Connect(c) PROVE LifeInv'
  <2>1. /\ UNCHANGED <<ctrl, held, mqtt_ref, handling, bus, lua, closed>>
        /\ Usable /\ client = "NULL" /\ client' = c /\ ~closed /\ lua = "loop"
        /\ \A d \in Clients : phase'[d] = IF d = c THEN "running" ELSE phase[d]
    BY <1>0, <1>4 DEF Connect, Usable, script
  <2>2. \A d \in Clients : phase[d] = "unused" /\ handling[d] = NoEvent
    BY <2>1 DEF LifeInv, Gone
  <2>3. \A d \in Clients : d # c => phase'[d] = "unused" BY <2>1, <2>2
  <2>4. phase'[c] = "running" BY <2>1
  <2> QED BY <1>0, <1>1, <2>1, <2>2, <2>3, <2>4 DEF LifeInv
<1>5. CASE Publish
  <2>1. /\ UNCHANGED <<ctrl, held, mqtt_ref, client, phase, handling, bus, closed>>
        /\ Usable /\ ~closed /\ lua' = "publishing"
    BY <1>5 DEF Publish, Usable, object
  <2> QED BY <1>1, <2>1 DEF LifeInv, Gone
<1>6. CASE Close
  <2>1. /\ UNCHANGED <<ctrl, held, mqtt_ref, client, handling, bus>>
        /\ Usable /\ closed' /\ lua' = "stopping"
        /\ \A c \in Clients : phase'[c] = IF c = client THEN "stopping" ELSE phase[c]
    BY <1>0, <1>6 DEF Close, Usable, object
  <2>2. \A c \in Clients : phase'[c] # "running" BY <2>1 DEF LifeInv
  <2>3. \A c \in Clients : Gone(c)' => Gone(c) \/ c # client BY <2>1 DEF Gone
  <2>4. \A c \in Clients : Gone(c)' => c # client BY <2>1 DEF Gone
  <2>5. \A c \in Clients : handling'[c] # NoEvent => ~Gone(c)'
    BY <2>1, <2>4 DEF LifeInv, Gone
  <2>6. client' = "NULL" => \A c \in Clients : phase'[c] = "unused"
    BY <1>0, <2>1 DEF LifeInv
  <2> QED BY <1>1, <2>1, <2>2, <2>5, <2>6 DEF LifeInv
<1>7. CASE Forget
  <2>1. /\ UNCHANGED <<ctrl, mqtt_ref, client, phase, handling, bus, lua, closed>>
        /\ held' = FALSE
    BY <1>7 DEF Forget, library, script
  <2> QED BY <2>1 DEF LifeInv, Quiet, Gone
<1>8. CASE Collect
  <2>1. /\ UNCHANGED <<held, mqtt_ref, client, phase, handling, bus, lua, closed>>
        /\ ctrl = "alive" /\ ctrl' = "collected" /\ ~held /\ mqtt_ref = 0 /\ lua = "loop"
    BY <1>8 DEF Collect, library, script
  <2> QED BY <2>1 DEF LifeInv, Quiet, Gone
<1> QED BY <1>2, <1>3, <1>4, <1>5, <1>6, <1>7, <1>8 DEF Script

LEMMA LifeInit == Init => LifeInv
<1>1. Len(<< >>) = 0 /\ 1..0 = {} OBVIOUS
<1> QED BY <1>1 DEF Init, LifeInv, Gone

LEMMA LifeStays == ASSUME TypeInv, LifeInv, ~Reconnect, [Next]_vars PROVE LifeInv'
<1>1. CASE UNCHANGED vars
  BY <1>1 DEF vars, object, library, script, LifeInv, Quiet, Gone
<1> QED BY <1>1, LifeClientTask, LifeLua, LifeScript DEF Next

\* In a script that connects once, nothing points to a collected object:
\* neither a message on the bus, nor a client task that may still call the
\* handler.
THEOREM NothingIsLeftDangling == ASSUME ~Reconnect PROVE Spec => []NothingDangles
<1>1. ASSUME TypeInv, LifeInv, [Next]_vars PROVE LifeInv' BY <1>1, LifeStays
<1>2. LifeInv => NothingDangles BY DEF LifeInv, NothingDangles, Quiet, Gone
<1> QED BY <1>1, <1>2, LifeInit, TypeCorrect, PTL DEF Spec

\* The documented promise of close, in a script that connects once: once close
\* has returned, no client is left.  (A second connect breaks it.)
THEOREM CloseDoesRelease == ASSUME ~Reconnect PROVE Spec => []CloseReleases
<1>1. ASSUME TypeInv, LifeInv, [Next]_vars PROVE LifeInv' BY <1>1, LifeStays
<1>2. TypeInv /\ LifeInv => CloseReleases
  BY DEF TypeInv, LifeInv, CloseReleases, Phases
<1> QED BY <1>1, <1>2, LifeInit, TypeCorrect, PTL DEF Spec
=============================================================================

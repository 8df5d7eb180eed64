----------------------------- MODULE HttpProofs -----------------------------
(***************************************************************************)
(* Proofs about Http, for any number of requests, any size of the bus and  *)
(* bodies of any length: who owns a control block, what is answered and    *)
(* freed, and the arithmetic of the body buffer.                           *)
(***************************************************************************)
EXTENDS Http, SequenceTheorems, TLAPS

\* A request has at most one message on the bus.
OnePerRequest == \A i, j \in 1..Len(bus) : bus[i].req = bus[j].req => i = j

\* Who has the control block of r: nobody yet, its task, or the message.
Ownership(r) ==
  /\ stage[r] # "ended" => close_state[r] = 0 /\ ~Waiting(r) /\ answers[r] = <<>>
  /\ stage[r] = "new" => owned[r] = {} /\ received[r] = 0 /\ resp[r].offset = 0
  /\ stage[r] = "running" \/ Waiting(r) => "ctrl" \in owned[r] /\ answers[r] = <<>>

\* The recorded length is never more than the room, though it may be less,
\* and the offset counts what came.
Buffer(r) ==
  /\ resp[r].len <= resp[r].room /\ resp[r].offset <= resp[r].room
  /\ r \notin Download \cup failed
       => /\ resp[r].offset = received[r]
          /\ stage[r] = "running" /\ "resp_buff" \notin owned[r] => received[r] = 0

\* What an answer says and leaves behind.
Outcome(r) ==
  \/ answers[r] = <<>>
  \/ answers[r] = <<Error>> /\ owned[r] \subseteq {"resp_headers"}
  \/ answers[r] = <<resp[r].offset>> /\ owned[r] = {}

Good(r) == Ownership(r) /\ Buffer(r) /\ Outcome(r)

\* A message of success comes of a request that has a client.
SuccessHasClient ==
  \A i \in 1..Len(bus) : bus[i].arg1 = OK => "client" \in owned[bus[i].req]

\* The inductive invariant.
IInv == TypeOK /\ OnePerRequest /\ SuccessHasClient /\ \A r \in Reqs : Good(r)

-----------------------------------------------------------------------------
(* The bus, and what a step leaves alone. *)

LEMMA PutMessage ==
  ASSUME TypeOK, OnePerRequest, NEW m \in Messages, bus' = BusPut(bus, m), ~Waiting(m.req)
  PROVE  /\ bus' \in Seq(Messages)
         /\ OnePerRequest'
         /\ \A s \in Reqs : s # m.req => (Waiting(s)' <=> Waiting(s))
         /\ \A i \in 1..Len(bus') : bus'[i] = m \/ (i \in 1..Len(bus) /\ bus'[i] = bus[i])
<1>1. bus \in Seq(Messages) BY DEF TypeOK
<1>2. CASE BusFull(bus)
  <2>1. bus' = bus BY <1>2 DEF BusPut
  <2> QED BY <1>1, <2>1 DEF OnePerRequest, Waiting
<1>3. CASE ~BusFull(bus)
  <2>1. bus' = Append(bus, m) BY <1>3 DEF BusPut
  <2>2. /\ bus' \in Seq(Messages) /\ Len(bus') = Len(bus) + 1 /\ Len(bus) \in Nat
        /\ \A i \in 1..Len(bus) : bus'[i] = bus[i]
        /\ bus'[Len(bus) + 1] = m
    BY <1>1, <2>1, AppendProperties, LenProperties
  <2>3. \A i \in 1..Len(bus') : i \in 1..Len(bus) \/ i = Len(bus) + 1 BY <2>2
  <2>4. \A i \in 1..Len(bus) : i \in 1..Len(bus') BY <2>2
  <2>5. OnePerRequest' BY <2>2, <2>3 DEF OnePerRequest, Waiting
  <2>6. ASSUME NEW s \in Reqs, s # m.req PROVE Waiting(s)' <=> Waiting(s)
    BY <2>2, <2>3, <2>4, <2>6 DEF Waiting
  <2> QED BY <2>2, <2>3, <2>5, <2>6
<1> QED BY <1>2, <1>3

LEMMA TakeMessage ==
  ASSUME TypeOK, OnePerRequest, bus # <<>>, bus' = Tail(bus),
         NEW r, Head(bus).req = r
  PROVE  /\ bus' \in Seq(Messages)
         /\ OnePerRequest'
         /\ Waiting(r) /\ ~Waiting(r)'
         /\ \A s \in Reqs : s # r => (Waiting(s)' <=> Waiting(s))
         /\ \A i \in 1..Len(bus') : i + 1 \in 1..Len(bus) /\ bus'[i] = bus[i + 1]
<1>1. bus \in Seq(Messages) BY DEF TypeOK
<1>2. /\ bus' \in Seq(Messages) /\ Len(bus) \in Nat /\ Len(bus) >= 1
      /\ Len(bus') = Len(bus) - 1 /\ Head(bus) = bus[1]
      /\ \A i \in 1..Len(bus') : bus'[i] = bus[i + 1]
  BY <1>1, HeadTailProperties, LenProperties, EmptySeq
<1>3. bus[1].req = r BY <1>2
<1>4. \A i \in 1..Len(bus') : i + 1 \in 1..Len(bus) /\ i + 1 # 1 BY <1>2
<1>5. OnePerRequest' BY <1>2, <1>4 DEF OnePerRequest
<1>6. Waiting(r) BY <1>2, <1>3 DEF Waiting
<1>7. ~Waiting(r)'
  <2> SUFFICES ASSUME NEW i \in 1..Len(bus'), bus'[i].req = r PROVE FALSE
    BY DEF Waiting
  <2>1. i + 1 \in 1..Len(bus) /\ 1 \in 1..Len(bus) /\ bus[i + 1].req = bus[1].req
    BY <1>2, <1>3, <1>4
  <2> QED BY <2>1, <1>4 DEF OnePerRequest
<1>8. ASSUME NEW s \in Reqs, s # r PROVE Waiting(s)' <=> Waiting(s)
  <2>1. Waiting(s)' => Waiting(s) BY <1>2, <1>4 DEF Waiting
  <2>2. ASSUME NEW i \in 1..Len(bus), bus[i].req = s PROVE Waiting(s)'
    <3>1. i - 1 \in 1..Len(bus') /\ bus'[i - 1] = bus[i] BY <1>2, <1>3, <1>8, <2>2
    <3> QED BY <3>1, <2>2 DEF Waiting
  <2> QED BY <2>1, <2>2 DEF Waiting
<1> QED BY <1>2, <1>4, <1>5, <1>6, <1>7, <1>8

\* A request that a step does not touch stays as good as it was.
LEMMA Untouched ==
  ASSUME NEW s, Good(s), Waiting(s)' <=> Waiting(s),
         stage'[s] = stage[s], owned'[s] = owned[s], resp'[s] = resp[s],
         received'[s] = received[s], s \in failed' <=> s \in failed,
         close_state'[s] = close_state[s], answers'[s] = answers[s]
  PROVE  Good(s)'
BY DEF Good, Ownership, Buffer, Outcome

\* No step takes the client of a request whose message is out.
LEMMA SuccessKept ==
  ASSUME TypeOK, SuccessHasClient, bus' = bus,
         \A s \in Reqs : Waiting(s) => owned'[s] = owned[s]
  PROVE  SuccessHasClient'
<1> SUFFICES ASSUME NEW i \in 1..Len(bus), bus[i].arg1 = OK
             PROVE  "client" \in owned'[bus[i].req]
  BY DEF SuccessHasClient
<1>1. bus[i] \in Messages BY DEF TypeOK
<1>2. bus[i].req \in Reqs /\ Waiting(bus[i].req) BY <1>1 DEF Messages, Waiting
<1> QED BY <1>2 DEF SuccessHasClient

LEMMA InitIInv == Init => IInv
<1> SUFFICES ASSUME Init PROVE IInv OBVIOUS
<1>1. bus = <<>> /\ Len(bus) = 0 BY DEF Init
<1>2. \A r \in Reqs : ~Waiting(r) BY <1>1 DEF Waiting
<1>3. TypeOK
  <2>1. panicked \in BOOLEAN BY Zenon DEF Init
  <2> QED BY <2>1 DEF Init, TypeOK, Blocks
<1>4. OnePerRequest /\ SuccessHasClient BY <1>1 DEF OnePerRequest, SuccessHasClient
<1>5. \A r \in Reqs : Good(r)
  BY <1>2 DEF Init, Good, Ownership, Buffer, Outcome
<1> QED BY <1>3, <1>4, <1>5 DEF IInv
-----------------------------------------------------------------------------
(* The steps of request r, and of the Lua task. *)

\* A request starts, or is refused before anybody knows of it.
LEMMA RequestStep ==
  ASSUME IInv, NEW r \in Reqs, RequestFails(r) \/ RequestStarts(r)
  PROVE  IInv'
<1> USE DEF IInv
<1>1. bus' = bus /\ panicked' = panicked BY DEF RequestFails, RequestStarts
<1>2. \A s \in Reqs : Waiting(s)' <=> Waiting(s) BY <1>1 DEF Waiting
<1>3. ASSUME NEW s \in Reqs, s # r PROVE Good(s)' /\ owned'[s] = owned[s]
  BY <1>2, <1>3, Untouched DEF RequestFails, RequestStarts, TypeOK, Answer
<1>4. /\ stage[r] = "new" /\ answers[r] = <<>> /\ owned[r] = {} /\ ~Waiting(r)
      /\ received[r] = 0 /\ resp[r].offset = 0 /\ close_state[r] = 0 /\ Good(r)
  BY DEF RequestFails, RequestStarts, New, Good, Ownership
<1>5. OnePerRequest' /\ SuccessHasClient'
  <2>1. \A s \in Reqs : Waiting(s) => owned'[s] = owned[s] BY <1>3, <1>4
  <2> QED BY <1>1, <2>1, SuccessKept DEF OnePerRequest
<1>6. CASE RequestFails(r)
  <2>1. /\ answers' = [answers EXCEPT ![r] = <<Error>>]
        /\ stage' = [stage EXCEPT ![r] = "ended"]
        /\ UNCHANGED <<owned, resp, received, failed, close_state, bus, lost>>
    BY <1>4, <1>6 DEF RequestFails, Answer
  <2>2. TypeOK' BY <1>1, <2>1 DEF TypeOK, Error
  <2>3. answers'[r] = <<Error>> /\ stage'[r] = "ended" BY <2>1 DEF TypeOK
  <2>4. Good(r)' BY <1>2, <1>4, <2>1, <2>3 DEF Good, Ownership, Buffer, Outcome
  <2> QED BY <1>5, <1>3, <2>2, <2>4
<1>7. CASE RequestStarts(r)
  <2>1. PICK some \in SUBSET {"client", "req_body"} :
          owned' = [owned EXCEPT ![r] = {"ctrl"} \cup some
                                     \cup (IF r \in Download THEN {"dst"} ELSE {})]
    BY <1>7 DEF RequestStarts
  <2>2. /\ stage' = [stage EXCEPT ![r] = "running"]
        /\ UNCHANGED <<resp, received, failed, close_state, bus, lost, answers>>
    BY <1>7 DEF RequestStarts
  <2>3. TypeOK' BY <1>1, <2>1, <2>2 DEF TypeOK, Blocks
  <2>4. stage'[r] = "running" /\ "ctrl" \in owned'[r]
    BY <2>1, <2>2 DEF TypeOK
  <2>5. Good(r)' BY <1>2, <1>4, <2>2, <2>4 DEF Good, Ownership, Buffer, Outcome
  <2> QED BY <1>5, <1>3, <2>3, <2>5
<1> QED BY <1>6, <1>7

\* The buffer holds what was copied, with the recorded length left behind.
LEMMA CopiedFits ==
  ASSUME NEW b \in [len : Nat, room : Nat, offset : Nat], NEW n \in Nat,
         b.len <= b.room, b.offset <= b.room
  PROVE  /\ Copied(b, n) \in [len : Nat, room : Nat, offset : Nat]
         /\ Copied(b, n).len <= Copied(b, n).room
         /\ Copied(b, n).offset <= Copied(b, n).room
         /\ Copied(b, n).offset = b.offset + n
<1>1. CASE Grow(b, n)
  <2>1. Resized(b, n) = [b EXCEPT !.room = b.offset + n] BY <1>1 DEF Resized
  <2>2. Resized(b, n) = [len |-> b.len, room |-> b.offset + n, offset |-> b.offset]
    BY <2>1
  <2>3. Copied(b, n) = [len |-> b.len, room |-> b.offset + n, offset |-> b.offset + n]
    BY <2>2 DEF Copied
  <2>4. b.offset + n > b.len BY <1>1 DEF Grow
  <2>5. b.len \in Nat /\ b.offset \in Nat BY SMT
  <2> QED BY <2>3, <2>4, <2>5
<1>2. CASE ~Grow(b, n)
  <2>1. Resized(b, n) = b BY <1>2 DEF Resized
  <2>2. Copied(b, n) = [len |-> b.len, room |-> b.room, offset |-> b.offset + n]
    BY <2>1 DEF Copied
  <2>3. ~(b.offset + n > b.len) BY <1>2 DEF Grow
  <2>4. b.len \in Nat /\ b.room \in Nat /\ b.offset \in Nat BY SMT
  <2> QED BY <2>2, <2>3, <2>4
<1> QED BY <1>1, <1>2

\* The events of the client: headers, and chunks kept, stored or dropped.
LEMMA DataStep ==
  ASSUME IInv, NEW r \in Reqs,
         OnHeader(r) \/ OnDataFails(r) \/ OnDataToFile(r) \/ OnDataToBuff(r)
  PROVE  IInv'
<1> USE HttpAssumption DEF IInv
<1>1. /\ UNCHANGED <<stage, close_state, bus, lost, answers, panicked>>
      /\ stage[r] = "running"
  BY DEF OnHeader, OnDataFails, OnDataToFile, OnDataToBuff, Arrives, Served, Running
<1>2. \A s \in Reqs : Waiting(s)' <=> Waiting(s) BY <1>1 DEF Waiting
<1>3. ASSUME NEW s \in Reqs, s # r PROVE Good(s)' /\ owned'[s] = owned[s]
  BY <1>1, <1>2, <1>3, Untouched
     DEF OnHeader, OnDataFails, OnDataToFile, OnDataToBuff, Arrives, TypeOK
<1>4. answers[r] = <<>> /\ "ctrl" \in owned[r] /\ ~Waiting(r)
      /\ close_state[r] = 0 /\ Good(r)
  BY <1>1 DEF Good, Ownership
<1>5. OnePerRequest' /\ SuccessHasClient'
  <2>1. \A s \in Reqs : Waiting(s) => owned'[s] = owned[s] BY <1>3, <1>4
  <2> QED BY <1>1, <2>1, SuccessKept DEF OnePerRequest
<1>6. CASE OnHeader(r)
  <2>1. /\ owned' = [owned EXCEPT ![r] = @ \cup {"resp_headers"}]
        /\ UNCHANGED <<resp, received, failed>>
    BY <1>6 DEF OnHeader
  <2>2. TypeOK' BY <1>1, <2>1 DEF TypeOK, Blocks
  <2>3. owned'[r] = owned[r] \cup {"resp_headers"} BY <2>1 DEF TypeOK
  <2>4. Good(r)' BY <1>1, <1>2, <1>4, <2>1, <2>3 DEF Good, Ownership, Buffer, Outcome
  <2> QED BY <1>5, <1>3, <2>2, <2>4
<1>7. CASE OnDataFails(r)
  <2>1. PICK n \in 1..MaxBody : received' = [received EXCEPT ![r] = @ + n]
    BY <1>7 DEF OnDataFails, Arrives
  <2>2. failed' = failed \cup {r} /\ UNCHANGED <<owned, resp>>
    BY <1>7 DEF OnDataFails
  <2>3. TypeOK' BY <1>1, <2>1, <2>2 DEF TypeOK
  <2>4. Good(r)' BY <1>1, <1>2, <1>4, <2>2 DEF Good, Ownership, Buffer, Outcome
  <2> QED BY <1>5, <1>3, <2>3, <2>4
<1>8. CASE OnDataToFile(r)
  <2>1. PICK n \in 1..MaxBody : received' = [received EXCEPT ![r] = @ + n]
    BY <1>8 DEF OnDataToFile, Arrives
  <2>2. /\ owned' = [owned EXCEPT ![r] = @ \cup {"fd"}]
        /\ UNCHANGED <<resp, failed>> /\ r \in Download
    BY <1>8 DEF OnDataToFile
  <2>3. TypeOK' BY <1>1, <2>1, <2>2 DEF TypeOK, Blocks
  <2>4. owned'[r] = owned[r] \cup {"fd"} BY <2>2 DEF TypeOK
  <2>5. Good(r)' BY <1>1, <1>2, <1>4, <2>2, <2>4 DEF Good, Ownership, Buffer, Outcome
  <2> QED BY <1>5, <1>3, <2>3, <2>5
<1>9. CASE OnDataToBuff(r)
  <2>1. PICK n \in 1..MaxBody, length \in 0..MaxBody :
          /\ received' = [received EXCEPT ![r] = @ + n]
          /\ LET b == IF "resp_buff" \in owned[r] THEN resp[r] ELSE Made(length, n)
             IN  resp' = [resp EXCEPT ![r] = Copied(b, n)]
    BY <1>9 DEF OnDataToBuff, Arrives
  <2>2. owned' = [owned EXCEPT ![r] = @ \cup {"resp_buff"}] /\ UNCHANGED failed
    BY <1>9 DEF OnDataToBuff
  <2> DEFINE b == IF "resp_buff" \in owned[r] THEN resp[r] ELSE Made(length, n)
  <2>3. /\ b \in [len : Nat, room : Nat, offset : Nat]
        /\ b.len <= b.room /\ b.offset <= b.room
        /\ r \notin Download \cup failed => b.offset = received[r]
    <3>1. CASE "resp_buff" \in owned[r] BY <3>1, <1>4 DEF Good, Buffer, TypeOK
    <3>2. CASE "resp_buff" \notin owned[r] BY <3>2, <1>1, <1>4 DEF Good, Buffer, Made
    <3> QED BY <3>1, <3>2
  <2> HIDE DEF b
  <2>4. resp' = [resp EXCEPT ![r] = Copied(b, n)] BY <2>1 DEF b
  <2>5. /\ Copied(b, n) \in [len : Nat, room : Nat, offset : Nat]
        /\ Copied(b, n).len <= Copied(b, n).room
        /\ Copied(b, n).offset <= Copied(b, n).room
        /\ Copied(b, n).offset = b.offset + n
    <3>1. n \in Nat OBVIOUS
    <3> QED BY <2>3, <3>1, CopiedFits, Zenon
  <2>6. TypeOK'
    <3>1. resp' \in [Reqs -> [len : Nat, room : Nat, offset : Nat]]
      BY <2>4, <2>5 DEF TypeOK
    <3>2. received' \in [Reqs -> Nat] BY <2>1 DEF TypeOK
    <3>3. owned' \in [Reqs -> SUBSET Blocks] BY <2>2 DEF TypeOK, Blocks
    <3> QED BY <1>1, <2>2, <3>1, <3>2, <3>3 DEF TypeOK
  <2>7. /\ owned'[r] = owned[r] \cup {"resp_buff"} /\ resp'[r] = Copied(b, n)
        /\ received'[r] = received[r] + n
    BY <2>1, <2>2, <2>4 DEF TypeOK
  <2>8. Ownership(r)' BY <1>1, <1>2, <1>4, <2>7 DEF Ownership
  <2>9. Buffer(r)' BY <2>2, <2>3, <2>5, <2>7 DEF Buffer
  <2>10. Outcome(r)' BY <1>1, <1>4 DEF Outcome
  <2> QED BY <1>5, <1>3, <2>6, <2>8, <2>9, <2>10 DEF Good
<1> QED BY <1>6, <1>7, <1>8, <1>9
\* The task posts at most one message, when nothing else will touch the block.
LEMMA EndStep ==
  ASSUME IInv, NEW r \in Reqs, OnFinish(r) \/ Perform(r)
  PROVE  IInv'
<1> USE DEF IInv
<1>1. CASE OnFinish(r)
  <2>1. UNCHANGED vars BY <1>1 DEF OnFinish
  <2>2. TypeOK' /\ OnePerRequest' /\ SuccessHasClient'
    BY <2>1 DEF vars, TypeOK, OnePerRequest, SuccessHasClient
  <2>3. \A s \in Reqs : Good(s)'
    BY <2>1 DEF vars, Good, Ownership, Buffer, Outcome, Waiting
  <2> QED BY <2>2, <2>3
<1>2. CASE Perform(r)
  <2>1. PICK e \in {OK, Error} : RespError(r, e) /\ (e = OK => "client" \in owned[r])
    BY <1>2 DEF Perform, Reported, Served, OK, Error
  <2>2. /\ stage' = [stage EXCEPT ![r] = "ended"] /\ stage[r] = "running"
        /\ UNCHANGED <<owned, resp, received, failed, answers, panicked>>
    BY <1>2 DEF Perform, Running
  <2>3. /\ close_state[r] = 0 /\ ~Waiting(r) /\ answers[r] = <<>>
        /\ "ctrl" \in owned[r] /\ Good(r)
    BY <2>2 DEF Good, Ownership
  <2> DEFINE m == [req |-> r, arg1 |-> e]
  <2>4. /\ close_state' = [close_state EXCEPT ![r] = 1] /\ bus' = BusPut(bus, m)
        /\ lost' \in {lost, lost \cup {r}}
    BY <2>1, <2>3 DEF RespError
  <2>5. /\ bus' \in Seq(Messages) /\ OnePerRequest'
        /\ \A s \in Reqs : s # r => (Waiting(s)' <=> Waiting(s))
        /\ \A i \in 1..Len(bus') : bus'[i] = m \/ (i \in 1..Len(bus) /\ bus'[i] = bus[i])
    <3>1. m \in Messages /\ m.req = r BY DEF Messages
    <3> HIDE DEF m
    <3> QED BY <2>3, <2>4, <3>1, PutMessage
  <2>10. SuccessHasClient'
    <3> SUFFICES ASSUME NEW i \in 1..Len(bus'), bus'[i].arg1 = OK
                 PROVE  "client" \in owned[bus'[i].req]
      BY <2>2 DEF SuccessHasClient
    <3>1. CASE bus'[i] = m BY <2>1, <3>1
    <3>2. CASE i \in 1..Len(bus) /\ bus'[i] = bus[i] BY <3>2 DEF SuccessHasClient
    <3> QED BY <2>5, <3>1, <3>2
  <2>6. TypeOK' BY <2>2, <2>4, <2>5 DEF TypeOK
  <2>7. ASSUME NEW s \in Reqs, s # r PROVE Good(s)'
    BY <2>2, <2>4, <2>5, <2>7, Untouched DEF TypeOK
  <2>8. stage'[r] = "ended" BY <2>2 DEF TypeOK
  <2>9. Good(r)' BY <2>2, <2>3, <2>8 DEF Good, Ownership, Buffer, Outcome
  <2> QED BY <2>5, <2>6, <2>7, <2>9, <2>10
<1> QED BY <1>1, <1>2

\* The Lua task answers and frees: the message was the only one.
LEMMA AnswerStep ==
  ASSUME IInv, LuaTask
  PROVE  IInv'
<1> USE DEF IInv
<1>1. /\ bus # <<>> /\ bus' = Tail(bus)
      /\ UNCHANGED <<stage, resp, received, failed, close_state, lost, panicked>>
  BY DEF LuaTask, OnError, OnResponse
<1>2. Head(bus) \in Messages BY <1>1, HeadTailProperties DEF TypeOK
<1>3. PICK r \in Reqs : Head(bus).req = r BY <1>2 DEF Messages
<1>4. /\ bus' \in Seq(Messages) /\ OnePerRequest' /\ Waiting(r) /\ ~Waiting(r)'
      /\ \A s \in Reqs : s # r => (Waiting(s)' <=> Waiting(s))
      /\ \A i \in 1..Len(bus') : i + 1 \in 1..Len(bus) /\ bus'[i] = bus[i + 1]
  BY <1>1, <1>3, TakeMessage
<1>5. answers[r] = <<>> /\ stage[r] = "ended" /\ owned[r] \subseteq Blocks /\ Good(r)
  BY <1>4 DEF Good, Ownership, TypeOK
<1>6. PICK a \in {Error, resp[r].offset} :
        /\ answers' = [answers EXCEPT ![r] = Append(@, a)]
        /\ owned' = [owned EXCEPT ![r] = IF a = Error THEN @ \ CloseFrees
                                          ELSE (@ \ {"resp_headers"}) \ CloseFrees]
  <2>1. CASE OnError BY <1>3, <2>1 DEF OnError, Answer
  <2>2. CASE OnResponse
    <3>1. resp[r].offset # Error BY DEF TypeOK, Error
    <3> QED BY <1>3, <2>2, <3>1 DEF OnResponse, Answer
  <2> QED BY <2>1, <2>2 DEF LuaTask
<1>7. a \in Int BY DEF TypeOK, Error
<1>8. /\ answers' = [answers EXCEPT ![r] = <<a>>] /\ answers'[r] = <<a>>
  <2>1. Append(answers[r], a) = <<a>> BY <1>5
  <2> QED BY <1>6, <2>1 DEF TypeOK
<1>9. /\ owned' \in [Reqs -> SUBSET Blocks]
      /\ a = Error => owned'[r] \subseteq {"resp_headers"}
      /\ a # Error => owned'[r] = {}
  <2>1. owned'[r] = IF a = Error THEN owned[r] \ CloseFrees
                    ELSE (owned[r] \ {"resp_headers"}) \ CloseFrees
    BY <1>6 DEF TypeOK
  <2>2. owned' \in [Reqs -> SUBSET Blocks] BY <1>6 DEF TypeOK
  <2> QED BY <1>5, <2>1, <2>2 DEF CloseFrees
<1>10. TypeOK'
  <2>1. answers' \in [Reqs -> Seq(Int)] BY <1>7, <1>8 DEF TypeOK
  <2> QED BY <1>1, <1>4, <1>9, <2>1 DEF TypeOK
<1>11. ASSUME NEW s \in Reqs, s # r PROVE Good(s)' /\ owned'[s] = owned[s]
  <2>1. answers'[s] = answers[s] /\ owned'[s] = owned[s] BY <1>6, <1>8, <1>11 DEF TypeOK
  <2> QED BY <1>1, <1>4, <1>11, <2>1, Untouched
<1>13. SuccessHasClient'
  <2> SUFFICES ASSUME NEW i \in 1..Len(bus'), bus'[i].arg1 = OK
               PROVE  "client" \in owned'[bus'[i].req]
    BY DEF SuccessHasClient
  <2>1. bus'[i] = bus[i + 1] /\ i + 1 \in 1..Len(bus) BY <1>4
  <2>2. "client" \in owned[bus'[i].req] BY <2>1 DEF SuccessHasClient
  <2>3. bus'[i] \in Messages BY <1>4
  <2>4. bus'[i].req \in Reqs BY <2>3 DEF Messages
  <2>5. bus'[i].req # r BY <1>4 DEF Waiting
  <2> QED BY <1>11, <2>2, <2>4, <2>5
<1>12. Good(r)'
  <2>1. Ownership(r)' BY <1>1, <1>4, <1>5 DEF Ownership
  <2>2. Buffer(r)' BY <1>1, <1>5 DEF Good, Buffer
  <2>3. Outcome(r)' BY <1>1, <1>8, <1>9 DEF Outcome
  <2> QED BY <2>1, <2>2, <2>3 DEF Good
<1> QED BY <1>4, <1>10, <1>11, <1>12, <1>13

\* A fault stops everything where it stands.
LEMMA FaultStep ==
  ASSUME IInv, NEW r \in Reqs, RequestFaults(r) \/ HeaderFaults(r) \/ PerformFaults(r)
  PROVE  IInv'
<1>1. /\ panicked' = TRUE
      /\ UNCHANGED <<stage, owned, resp, received, failed, close_state, bus, lost, answers>>
  BY DEF RequestFaults, HeaderFaults, PerformFaults
<1>2. panicked' \in BOOLEAN BY <1>1, Zenon
<1>3. TypeOK' /\ OnePerRequest' /\ SuccessHasClient'
  BY <1>1, <1>2 DEF IInv, TypeOK, OnePerRequest, SuccessHasClient
<1>4. \A s \in Reqs : Good(s)'
  BY <1>1 DEF IInv, Good, Ownership, Buffer, Outcome, Waiting
<1> QED BY <1>3, <1>4 DEF IInv

\* The invariant holds for any number of requests at a time.
THEOREM Invariance == Spec => []IInv
<1>1. ASSUME IInv, [Next]_vars PROVE IInv'
  <2>1. ASSUME NEW r \in Reqs, RequestFails(r) \/ RequestStarts(r) PROVE IInv'
    BY <1>1, <2>1, RequestStep
  <2>2. ASSUME NEW r \in Reqs, Task(r) \/ RequestFaults(r) PROVE IInv'
    BY <1>1, <2>2, DataStep, EndStep, FaultStep DEF Task
  <2>3. CASE LuaTask BY <1>1, <2>3, AnswerStep
  <2>4. CASE UNCHANGED vars
    <3>1. TypeOK' /\ OnePerRequest' /\ SuccessHasClient'
      BY <1>1, <2>4 DEF IInv, vars, TypeOK, OnePerRequest, SuccessHasClient
    <3>2. \A s \in Reqs : Good(s)'
      BY <1>1, <2>4 DEF IInv, vars, Good, Ownership, Buffer, Outcome, Waiting
    <3> QED BY <3>1, <3>2 DEF IInv
  <2> QED BY <1>1, <2>1, <2>2, <2>3, <2>4 DEF Next
<1> QED BY <1>1, InitIInv, PTL DEF Spec

\* The control block has one owner at any time: the task, then the message;
\* and the callback of a success never asks a client that is not there,
\* although a request may run without one.
THEOREM BlockHasOneOwner == Spec => []OneOwner
<1>1. IInv => OneOwner
  BY DEF IInv, SuccessHasClient, OneOwner, Good, Ownership, Running
<1> QED BY <1>1, Invariance, PTL

\* No coroutine is answered twice.
THEOREM OneAnswer == Spec => []AnsweredOnce
<1>1. IInv => AnsweredOnce
  <2> SUFFICES ASSUME IInv, NEW r \in Reqs PROVE Len(answers[r]) <= 1 BY DEF AnsweredOnce
  <2>1. answers[r] = <<>> \/ answers[r] = <<Error>> \/ answers[r] = <<resp[r].offset>>
    BY DEF IInv, Good, Outcome
  <2>2. CASE answers[r] = <<>> BY <2>2
  <2>3. CASE answers[r] = <<Error>> BY <2>3
  <2>4. CASE answers[r] = <<resp[r].offset>> BY <2>4
  <2> QED BY <2>1, <2>2, <2>3, <2>4
<1> QED BY <1>1, Invariance, PTL

\* The body never runs past the room of resp_buff, whatever length the server
\* claimed and however the body was cut.
THEOREM BodyFitsAlways == Spec => []BodyFits
<1>1. IInv => BodyFits BY DEF IInv, BodyFits, Good, Buffer
<1> QED BY <1>1, Invariance, PTL

\* A successful answer carries all bytes of the body, unless some were dropped.
THEOREM WholeBodyAnswered == Spec => []WholeBody
<1>1. IInv => WholeBody BY DEF IInv, WholeBody, Good, Buffer, Outcome
<1> QED BY <1>1, Invariance, PTL

\* An answered request holds nothing, but for the headers after an error.
THEOREM AllReleased == Spec => []Released
<1>1. IInv => Released BY DEF IInv, Released, Good, Outcome
<1> QED BY <1>1, Invariance, PTL
=============================================================================

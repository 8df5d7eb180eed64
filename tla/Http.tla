-------------------------------- MODULE Http --------------------------------
(***************************************************************************)
(* legacy/luat_lib_http.c: a script's request is served by a task of its   *)
(* own, which fills the luat_http_ctrl_t from the events of the HTTP       *)
(* client and posts one message; l_http_callback answers the coroutine     *)
(* that waits and frees everything.  Nothing is locked: the control block  *)
(* belongs to the task until the message is posted, then to the callback.  *)
(*                                                                         *)
(* The HTTP client, the heap and the waiting coroutine are external.  Of   *)
(* the client it is assumed that it may go on or give up after the event   *)
(* handler returned ESP_FAIL, and that the functions given NULL for it     *)
(* either refuse or fault.  A write through a NULL that the code did not   *)
(* test faults: the chip panics, and nothing runs any more.                *)
(***************************************************************************)
EXTENDS MsgBus, Integers

CONSTANTS
  Reqs,      \* requests the script makes
  MaxBody,   \* bound: bytes of a body
  Download   \* requests with a dst path

ASSUME HttpAssumption == MaxBody \in Nat /\ Download \subseteq Reqs

VARIABLES
  stage,     \* new, running or ended: what became of the task
  owned,     \* allocated and reachable from the control block
  resp,      \* the body buffer: recorded length, room it really has, offset
  received,  \* bytes of body the client has reported
  failed,    \* requests whose event handler has returned ESP_FAIL
  close_state, bus,
  lost,      \* requests whose message found no slot
  answers,   \* per request, the answers the script got, in order
  panicked   \* the chip panicked

vars == <<stage, owned, resp, received, failed, close_state, bus, lost, answers,
          panicked>>

Blocks == {"ctrl", "client", "req_body", "dst", "resp_buff", "resp_headers", "fd"}
OK     == 0    \* HTTP_ERROR_OK
Error  == -1   \* any other code

Init == /\ stage = [r \in Reqs |-> "new"]
        /\ owned = [r \in Reqs |-> {}]
        /\ resp = [r \in Reqs |-> [len |-> 0, room |-> 0, offset |-> 0]]
        /\ received = [r \in Reqs |-> 0]
        /\ failed = {} /\ lost = {}
        /\ close_state = [r \in Reqs |-> 0]
        /\ bus = <<>> /\ panicked = FALSE
        /\ answers = [r \in Reqs |-> <<>>]

Answer(r, a) == answers' = [answers EXCEPT ![r] = Append(@, a)]

-----------------------------------------------------------------------------
(* The Lua task: l_http_request. *)

New(r) == ~panicked /\ stage[r] = "new"

\* No control block, an unknown method, a refused option or no task: http_close
\* frees what there is, and the coroutine gets HTTP_ERROR_CONNECT at once.
RequestFails(r) == /\ New(r)
                   /\ stage' = [stage EXCEPT ![r] = "ended"]
                   /\ Answer(r, Error)
                   /\ UNCHANGED <<owned, resp, received, failed, close_state, bus, lost, panicked>>

\* esp_http_client_init may have returned NULL: nothing looks at it.
RequestStarts(r) ==
  /\ New(r)
  /\ \E some \in SUBSET {"client", "req_body"} :
       owned' = [owned EXCEPT ![r] = {"ctrl"} \cup some
                                     \cup (IF r \in Download THEN {"dst"} ELSE {})]
  /\ stage' = [stage EXCEPT ![r] = "running"]
  /\ UNCHANGED <<resp, received, failed, close_state, bus, lost, answers, panicked>>

\* A header, a body or an option for a client that is NULL; a body or a path
\* for which there is no memory.
RequestFaults(r) == /\ New(r)
                    /\ panicked' = TRUE
                    /\ UNCHANGED <<stage, owned, resp, received, failed, close_state, bus, lost,
                                   answers>>

-----------------------------------------------------------------------------
(* The request's task: l_http_event_handler, called by the client. *)

Running(r) == ~panicked /\ stage[r] = "running"

\* There is a client, and it may call the handler.
Served(r) == Running(r) /\ "client" \in owned[r]

OnHeader(r) == /\ Served(r)
               /\ owned' = [owned EXCEPT ![r] = @ \cup {"resp_headers"}]
               /\ UNCHANGED <<stage, resp, received, failed, close_state, bus, lost, answers,
                              panicked>>

\* No memory for a header, which the handler fills in all the same.
HeaderFaults(r) == /\ Served(r)
                   /\ panicked' = TRUE
                   /\ UNCHANGED <<stage, owned, resp, received, failed, close_state, bus, lost,
                                  answers>>

Arrives(r, n) == /\ Served(r) /\ received[r] + n <= MaxBody
                 /\ received' = [received EXCEPT ![r] = @ + n]

\* A status above 299, no memory, no file: ESP_FAIL, and the bytes are gone.
OnDataFails(r) == /\ \E n \in 1..MaxBody : Arrives(r, n)
                  /\ failed' = failed \cup {r}
                  /\ UNCHANGED <<stage, owned, resp, close_state, bus, lost, answers, panicked>>

OnDataToFile(r) == /\ r \in Download
                   /\ \E n \in 1..MaxBody : Arrives(r, n)
                   /\ owned' = [owned EXCEPT ![r] = @ \cup {"fd"}]
                   /\ UNCHANGED <<stage, resp, failed, close_state, bus, lost, answers, panicked>>

\* Does a chunk of n bytes need a larger buffer?
GrowWhenPast(b, n) == b.offset > b.len
Grow(b, n)         == b.offset + n > b.len

\* The buffer before the chunk is copied: made by the first chunk, for the
\* content length when it is known; later resized to what it must hold, with
\* resp_buff_len left as it was.
Made(length, n) == [len |-> IF length > 0 THEN length ELSE n,
                    room |-> IF length > 0 THEN length ELSE n, offset |-> 0]
Resized(b, n)   == IF Grow(b, n) THEN [b EXCEPT !.room = b.offset + n] ELSE b

\* The buffer after the copy; the first form starts over in a new buffer.
CopiedOver(b, n) == [Resized(b, n) EXCEPT !.offset = IF Grow(b, n) THEN n ELSE b.offset + n]
Copied(b, n)     == [Resized(b, n) EXCEPT !.offset = b.offset + n]

\* content_length is what the server claims, -1 or 0 when it does not tell.
OnDataToBuff(r) ==
  /\ r \notin Download
  /\ \E n \in 1..MaxBody, content_length \in 0..MaxBody :
       /\ Arrives(r, n)
       /\ LET b == IF "resp_buff" \in owned[r] THEN resp[r] ELSE Made(content_length, n)
          IN  resp' = [resp EXCEPT ![r] = Copied(b, n)]
  /\ owned' = [owned EXCEPT ![r] = @ \cup {"resp_buff"}]
  /\ UNCHANGED <<stage, failed, close_state, bus, lost, answers, panicked>>

\* http_resp_error: one message per request, and none after it.
RespError(r, e) ==
  IF close_state[r] = 0
  THEN /\ close_state' = [close_state EXCEPT ![r] = 1]
       /\ bus' = BusPut(bus, [req |-> r, arg1 |-> e])
       /\ lost' = IF BusFull(bus) THEN lost \cup {r} ELSE lost
  ELSE UNCHANGED <<close_state, bus, lost>>

\* ON_FINISH, with the answer posted there or, as it is, not.
FinishPosts(r) == /\ Served(r)
                  /\ bus' = BusPut(bus, [req |-> r, arg1 |-> OK])
                  /\ UNCHANGED <<stage, owned, resp, received, failed, close_state, lost,
                                 answers, panicked>>
OnFinish(r)    == /\ Served(r)
                  /\ UNCHANGED vars

\* The outcomes luat_http_task_entry reports itself.
ErrorsOnly == {Error}
Reported   == {OK, Error}

\* esp_http_client_perform returns, and never with success where there is no
\* client; luat_http_task_entry posts and ends.
Perform(r) == /\ Running(r)
              /\ \E e \in {Error} \cup (IF Served(r) THEN {OK} ELSE {}) :
                   IF e \in Reported THEN RespError(r, e)
                                     ELSE UNCHANGED <<close_state, bus, lost>>
              /\ stage' = [stage EXCEPT ![r] = "ended"]
              /\ UNCHANGED <<owned, resp, received, failed, answers, panicked>>

\* ... or it faults, given NULL.
PerformFaults(r) == /\ Running(r) /\ ~Served(r)
                    /\ panicked' = TRUE
                    /\ UNCHANGED <<stage, owned, resp, received, failed, close_state, bus, lost,
                                   answers>>

Task(r) == \/ OnHeader(r) \/ HeaderFaults(r) \/ OnDataFails(r) \/ OnDataToFile(r)
           \/ OnDataToBuff(r) \/ OnFinish(r) \/ Perform(r) \/ PerformFaults(r)

-----------------------------------------------------------------------------
(* The Lua task: l_http_callback and http_close. *)

\* What http_close frees, of what is there.
FreesNoBuff == Blocks \ {"resp_headers", "resp_buff"}
CloseFrees  == Blocks \ {"resp_headers"}

OnError == /\ ~panicked /\ bus # <<>> /\ Head(bus).arg1 = Error
           /\ LET r == Head(bus).req IN
              /\ Answer(r, Error)
              /\ owned' = [owned EXCEPT ![r] = @ \ CloseFrees]
           /\ bus' = Tail(bus)
           /\ UNCHANGED <<stage, resp, received, failed, close_state, lost, panicked>>

\* The answer carries resp_buff up to resp_buff_offset; the headers are freed
\* while the answer is built.
OnResponse == /\ ~panicked /\ bus # <<>> /\ Head(bus).arg1 = OK
              /\ LET r == Head(bus).req IN
                 /\ Answer(r, resp[r].offset)
                 /\ owned' = [owned EXCEPT ![r] = (@ \ {"resp_headers"}) \ CloseFrees]
              /\ bus' = Tail(bus)
              /\ UNCHANGED <<stage, resp, received, failed, close_state, lost, panicked>>

LuaTask == OnError \/ OnResponse

Next == \/ \E r \in Reqs : RequestFails(r) \/ RequestStarts(r) \/ RequestFaults(r) \/ Task(r)
        \/ LuaTask

\* The client's timeouts end every perform; the Lua task takes its messages.
Spec     == Init /\ [][Next]_vars
FairSpec == Spec /\ (\A r \in Reqs : WF_vars(Perform(r))) /\ WF_vars(LuaTask)

-----------------------------------------------------------------------------

Messages == [req : Reqs, arg1 : {OK, Error}]

\* Types.
TypeOK ==
  /\ stage \in [Reqs -> {"new", "running", "ended"}]
  /\ owned \in [Reqs -> SUBSET Blocks]
  /\ resp \in [Reqs -> [len : Nat, room : Nat, offset : Nat]]
  /\ received \in [Reqs -> Nat]
  /\ failed \subseteq Reqs /\ lost \subseteq Reqs
  /\ close_state \in [Reqs -> {0, 1}]
  /\ bus \in Seq(Messages)
  /\ answers \in [Reqs -> Seq(Int)]
  /\ panicked \in BOOLEAN

Waiting(r) == \E i \in 1..Len(bus) : bus[i].req = r

\* The control block has one owner: while the task runs, or its message is on
\* the bus, it is allocated; no message is out while the task still runs; and
\* a message of success, whose callback asks the client for the status, comes
\* of a request that has one (esp_http_client_init may have given none).
OneOwner ==
  /\ \A r \in Reqs : /\ Running(r) \/ Waiting(r) => "ctrl" \in owned[r]
                      /\ ~(Running(r) /\ Waiting(r))
  /\ \A i \in 1..Len(bus) : bus[i].arg1 = OK => "client" \in owned[bus[i].req]

\* A coroutine that waits for a request is answered at most once.
AnsweredOnce == \A r \in Reqs : Len(answers[r]) <= 1

\* The bytes copied never go past the room of resp_buff, although
\* resp_buff_len is not kept up to date when the buffer is resized.
BodyFits == \A r \in Reqs : resp[r].offset <= resp[r].room

\* An answer without error carries every byte the client reported, unless the
\* event handler said that it dropped some.
WholeBody == \A r \in Reqs \ (Download \cup failed) :
               answers[r] # <<>> /\ answers[r] # <<Error>> => answers[r] = <<received[r]>>

\* When a request is answered everything it allocated is freed; the headers
\* of a request that ends in an error are not.
Released == \A r \in Reqs :
  answers[r] # <<>> =>
    owned[r] \subseteq (IF answers[r] = <<Error>> THEN {"resp_headers"} ELSE {})

\* Every request is answered, unless its message found the bus full or the
\* chip panicked.
Answered == \A r \in Reqs : Running(r) ~> (answers[r] # <<>> \/ r \in lost \/ panicked)
=============================================================================

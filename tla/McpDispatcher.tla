------------------------------ MODULE McpDispatcher ------------------------------
(***************************************************************************)
(* The MCP server's stdio loop: one reader thread that reserves request    *)
(* ids, routes every line through the protocol session and answers what it *)
(* can; a pool of workers that run tool calls from one queue; batches      *)
(* whose replies are written together; and the shutdown that starts when   *)
(* the input ends (apps/mcp/src: stdio_server.cpp, dispatcher.cpp,         *)
(* batch_response.cpp and the lifecycle of protocol.cpp).                  *)
(*                                                                         *)
(* A request is the number of its arrival, which also stands for the       *)
(* identity of its ticket's cancellation flag.  What a message says beyond *)
(* its kind, its id and whether it carries the modern metadata is left     *)
(* out, and so are progress notifications, which change no state.          *)
(***************************************************************************)
EXTENDS Integers, Sequences, FiniteSets, FiniteSetsExt

CONSTANTS Id,               \* the ids the client uses
          Worker,           \* kWorkerCount threads
          MaximumInFlight,  \* kMaximumInFlight
          Kinds,            \* the kinds of message the client sends
          Metadata,         \* whether its requests carry the modern metadata
          MaxRequests,      \* bound on the requests read
          MaxBatches        \* bound on the batches read

RequestKinds == {"init", "ping", "call"}

\* "ping" is any request the reader answers itself; "call" a tool call, which
\* may go on until it is cancelled; "init" a valid initialize.
Requests == [kind : Kinds \cap RequestKinds, id : Id, modern : Metadata]

Notifications == [kind : Kinds \cap {"cancel"}, id : Id]
                   \cup [kind : Kinds \cap {"initialized"}]

IsRequest(m) == m.kind \in RequestKinds

VARIABLES session,   \* ProtocolSession: era and legacy state
          active,    \* Dispatcher: id -> the request that holds it, or 0
          seen,      \* Dispatcher: ids that may never be used again
          queue,     \* Dispatcher: requests waiting for a worker
          inFlight,  \* Dispatcher: jobs popped and not yet settled
          closing,   \* Dispatcher: finish has begun
          req,       \* the requests read so far
          batch,     \* the BatchResponses created so far
          line,      \* the members of the line the reader is working on
          at,        \* the member it has reached
          actor      \* what the reader and each worker are doing

vars == <<session, active, seen, queue, inFlight, closing, req, batch, line, at, actor>>

Reader == "reader"
Actor == Worker \cup {Reader}

Idle == [pc |-> "idle", job |-> 0, replies |-> {}, tickets |-> {}]

Init ==
  /\ session = "undecided"
  /\ active = [i \in Id |-> 0]
  /\ seen = {}
  /\ queue = <<>>
  /\ inFlight = 0
  /\ closing = FALSE
  /\ req = <<>>
  /\ batch = <<>>
  /\ line = <<>>
  /\ at = 0
  /\ actor = [a \in Actor |-> IF a = Reader THEN [Idle EXCEPT !.pc = "read"] ELSE Idle]

-----------------------------------------------------------------------------
(* The protocol session.                                                   *)

Legacy(s) == s \in {"awaiting", "ready"}

NextSession(m) ==
  CASE m.kind = "initialized" -> IF session = "awaiting" THEN "ready" ELSE session
    [] m.kind = "cancel" -> session
    [] OTHER -> CASE session # "undecided" -> session
                  [] m.modern -> "modern"
                  [] m.kind = "init" -> "awaiting"
                  [] OTHER -> session

\* The request becomes a tool call; every other request is answered at once.
Dispatches(m) ==
  /\ m.kind = "call"
  /\ IF m.modern THEN ~Legacy(session) ELSE session = "ready"

Cancels(m) == m.kind = "cancel" /\ session \in {"modern", "ready"}

-----------------------------------------------------------------------------
(* The dispatcher's critical sections.                                     *)

InUse == {i \in Id : active[i] # 0}

Refused(i, remember) ==
  \/ closing
  \/ active[i] # 0
  \/ remember /\ i \in seen
  \/ Cardinality(InUse) >= MaximumInFlight

\* reserve: request n takes its id if ok.
Reserve(n, i, remember, ok) ==
  /\ active' = IF ok THEN [active EXCEPT ![i] = n] ELSE active
  /\ seen' = IF ok /\ remember THEN seen \cup {i} ELSE seen

Arrival(m, b, k, ok, error, remember) ==
  [id |-> m.id, kind |-> m.kind, batch |-> b, index |-> k, ticket |-> ok,
   error |-> error, remembered |-> ok /\ remember, cancelled |-> FALSE,
   written |-> 0]

\* submit takes the job unless the reservation was lost.
Accepts(n) == ~closing /\ active[req[n].id] = n

\* ready_.notify_one: a sleeping worker, if there is one, looks at the queue.
NotifyOne(actors) ==
  LET asleep == {w \in Worker : actors[w].pc = "asleep"}
  IN  IF asleep = {} THEN {actors}
      ELSE {[actors EXCEPT ![w] = Idle] : w \in asleep}

NotifyAll(actors) ==
  [a \in Actor |-> IF actors[a].pc = "asleep" THEN Idle ELSE actors[a]]

\* cancel sets the flag of whichever request holds the id.
Cancelled(S) ==
  [n \in 1..Len(req) |-> [req[n] EXCEPT !.cancelled = @ \/ n \in S]]

Holders(S) == {active[i] : i \in S} \ {0}

-----------------------------------------------------------------------------
(* Writing replies and releasing tickets, by the reader or a worker.       *)

Later(a) == IF a = Reader THEN "read" ELSE "settled"

\* Actor a has replies R to write in one message, and then tickets T to
\* release.
Sending(a, R, T) ==
  [pc |-> CASE R # {} -> "send" [] T # {} -> "release" [] OTHER -> Later(a),
   job |-> 0, replies |-> R, tickets |-> T]

Send(a) ==
  /\ actor[a].pc = "send"
  /\ req' = [n \in 1..Len(req) |->
               [req[n] EXCEPT !.written = @ + (IF n \in actor[a].replies THEN 1 ELSE 0)]]
  /\ actor' = [actor EXCEPT ![a] = Sending(a, {}, actor[a].tickets)]
  /\ UNCHANGED <<session, active, seen, queue, inFlight, closing, batch, line, at>>

Release(a) ==
  /\ actor[a].pc = "release"
  /\ LET n == Min(actor[a].tickets)
         i == req[n].id
     IN  /\ active' = IF active[i] = n THEN [active EXCEPT ![i] = 0] ELSE active
         /\ actor' = [actor EXCEPT ![a] = Sending(a, {}, actor[a].tickets \ {n})]
  /\ UNCHANGED <<session, seen, queue, inFlight, closing, req, batch, line, at>>

-----------------------------------------------------------------------------
(* BatchResponse.                                                          *)

NewBatch(k) == [owing |-> 1..k, replies |-> {}, tickets |-> {}, sealed |-> FALSE,
                delivered |-> FALSE]

\* settle: member k of batch b has its response R, or none.
SettledSlot(b, k, R) ==
  IF k \in batch[b].owing
  THEN [batch EXCEPT ![b].owing = @ \ {k}, ![b].replies = @ \cup R]
  ELSE batch

Deliverable(b) == batch[b].sealed /\ batch[b].owing = {} /\ ~batch[b].delivered

\* take_delivery: whoever finds the batch complete first writes it.
Deliver(a) ==
  /\ actor[a].pc = "deliver"
  /\ LET b == IF a = Reader THEN Len(batch) ELSE req[actor[a].job].batch
     IN  IF Deliverable(b)
         THEN /\ batch' = [batch EXCEPT ![b].delivered = TRUE]
              /\ actor' = [actor EXCEPT ![a] = Sending(a, batch[b].replies, batch[b].tickets)]
         ELSE /\ actor' = [actor EXCEPT ![a] = Sending(a, {}, {})]
              /\ UNCHANGED batch
  /\ UNCHANGED <<session, active, seen, queue, inFlight, closing, req, line, at>>

-----------------------------------------------------------------------------
(* The reader.                                                             *)

AtReader(pc) == actor[Reader].pc = pc

Now(pc) == [actor EXCEPT ![Reader].pc = pc]

\* route_single on a notification: initialized, or a cancellation.
ReadNotification(m) ==
  /\ AtReader("read")
  /\ session' = NextSession(m)
  /\ req' = IF Cancels(m) THEN Cancelled(Holders({m.id})) ELSE req
  /\ UNCHANGED <<active, seen, queue, inFlight, closing, batch, line, at, actor>>

\* route_single on a request: the id is reserved or the request refused.
ReadRequest(m) ==
  /\ AtReader("read")
  /\ Len(req) < MaxRequests
  /\ LET n == Len(req) + 1
         remember == Legacy(session) \/ m.kind = "init"
         ok == ~Refused(m.id, remember)
     IN  /\ Reserve(n, m.id, remember, ok)
         /\ req' = Append(req, Arrival(m, 0, 1, ok, ~ok, remember))
         /\ IF ok
            THEN /\ line' = <<m>>
                 /\ actor' = [Now("route") EXCEPT ![Reader].job = n]
            ELSE /\ actor' = [actor EXCEPT ![Reader] = Sending(Reader, {n}, {})]
                 /\ UNCHANGED line
  /\ UNCHANGED <<session, queue, inFlight, closing, batch, at>>

RouteRequest ==
  /\ AtReader("route")
  /\ LET n == actor[Reader].job
         m == line[1]
     IN  /\ session' = NextSession(m)
         /\ IF Dispatches(m) /\ Accepts(n)
            THEN /\ queue' = Append(queue, n)
                 /\ actor' \in NotifyOne([actor EXCEPT ![Reader] = Sending(Reader, {}, {})])
            ELSE /\ actor' = [actor EXCEPT ![Reader] = Sending(Reader, {n}, {n})]
                 /\ UNCHANGED queue
  /\ line' = <<>>
  /\ UNCHANGED <<active, seen, inFlight, closing, req, batch, at>>

\* route_batch, once the session is known to accept batches: it is ready and
\* negotiated the revision that has them (MaxBatches = 0 is any other).
ReadBatch(ms) ==
  /\ AtReader("read")
  /\ session = "ready"
  /\ Len(batch) < MaxBatches
  /\ Len(req) + Cardinality({k \in DOMAIN ms : IsRequest(ms[k])}) <= MaxRequests
  /\ batch' = Append(batch, NewBatch(Len(ms)))
  /\ line' = ms
  /\ at' = 1
  /\ actor' = Now("preflight")
  /\ UNCHANGED <<session, active, seen, queue, inFlight, closing, req>>

Twins(k) == {j \in DOMAIN line \ {k} : IsRequest(line[j]) /\ line[j].id = line[k].id}

\* The first of several members with one id reserves it for all of them, and
\* every one of them is an error.
Preflight ==
  /\ AtReader("preflight")
  /\ LET m == line[at]
         n == Len(req) + 1
         b == Len(batch)
         twins == Twins(at)
         ok == (\A j \in twins : j > at) /\ ~Refused(m.id, TRUE)
     IN  IF IsRequest(m)
         THEN /\ Reserve(n, m.id, TRUE, ok)
              /\ req' = Append(req, Arrival(m, b, at, ok, twins # {} \/ ~ok, TRUE))
              /\ batch' = IF ok THEN [batch EXCEPT ![b].tickets = @ \cup {n}] ELSE batch
         ELSE UNCHANGED <<active, seen, req, batch>>
  /\ IF at = Len(line)
     THEN at' = 1 /\ actor' = Now("members")
     ELSE at' = at + 1 /\ UNCHANGED actor
  /\ UNCHANGED <<session, queue, inFlight, closing, line>>

\* The request made of member k of the batch being read.
Numbered(k) == CHOOSE n \in 1..Len(req) : req[n].batch = Len(batch) /\ req[n].index = k

RouteMember ==
  /\ AtReader("members")
  /\ LET m == line[at]
         n == IF IsRequest(m) THEN Numbered(at) ELSE 0
         error == n # 0 /\ req[n].error
         moved == IF at = Len(line) THEN Now("seal") ELSE actor
     IN  /\ session' = IF error THEN session ELSE NextSession(m)
         /\ req' = IF Cancels(m) THEN Cancelled(Holders({m.id})) ELSE req
         /\ IF ~error /\ Dispatches(m) /\ Accepts(n)
            THEN /\ queue' = Append(queue, n)
                 /\ actor' \in NotifyOne(moved)
                 /\ UNCHANGED batch
            ELSE /\ batch' = SettledSlot(Len(batch), at, {n} \ {0})
                 /\ actor' = moved
                 /\ UNCHANGED queue
  /\ at' = IF at = Len(line) THEN 0 ELSE at + 1
  /\ UNCHANGED <<active, seen, inFlight, closing, line>>

Seal ==
  /\ AtReader("seal")
  /\ batch' = [batch EXCEPT ![Len(batch)].sealed = TRUE]
  /\ line' = <<>>
  /\ actor' = Now("deliver")
  /\ UNCHANGED <<session, active, seen, queue, inFlight, closing, req, at>>

\* End of input: finish() closes the dispatcher and wakes every worker.
EndOfInput ==
  /\ AtReader("read")
  /\ closing' = TRUE
  /\ actor' = NotifyAll(Now("draining"))
  /\ UNCHANGED <<session, active, seen, queue, inFlight, req, batch, line, at>>

Quiet == queue = <<>> /\ inFlight = 0

\* finish: the queue ran dry within the grace.
Drained ==
  /\ AtReader("draining")
  /\ Quiet
  /\ actor' = NotifyAll(Now("joining"))
  /\ UNCHANGED <<session, active, seen, queue, inFlight, closing, req, batch, line, at>>

\* Mutant: what outlasts the grace is not cancelled.
MutGraceEnds ==
  /\ AtReader("draining")
  /\ ~Quiet
  /\ actor' = NotifyAll(Now("expired"))
  /\ UNCHANGED <<session, active, seen, queue, inFlight, closing, req, batch, line, at>>

\* finish: the grace ended first, and whatever holds an id is cancelled.
GraceEnds ==
  /\ AtReader("draining")
  /\ ~Quiet
  /\ req' = Cancelled(Holders(Id))
  /\ actor' = NotifyAll(Now("expired"))
  /\ UNCHANGED <<session, active, seen, queue, inFlight, closing, batch, line, at>>

Joined ==
  /\ AtReader("joining") \/ AtReader("expired")
  /\ \A w \in Worker : actor[w].pc = "gone"
  /\ actor' = Now("done")
  /\ UNCHANGED <<session, active, seen, queue, inFlight, closing, req, batch, line, at>>

\* serve_stdio has returned.
Exited == AtReader("done") /\ UNCHANGED vars

-----------------------------------------------------------------------------
(* A worker.                                                               *)

TakeJob(w) ==
  /\ actor[w].pc = "idle"
  /\ queue # <<>>
  /\ actor' = [actor EXCEPT ![w].pc = "check", ![w].job = Head(queue)]
  /\ queue' = Tail(queue)
  /\ inFlight' = inFlight + 1
  /\ UNCHANGED <<session, active, seen, closing, req, batch, line, at>>

Sleep(w) ==
  /\ actor[w].pc = "idle"
  /\ queue = <<>> /\ ~closing
  /\ actor' = [actor EXCEPT ![w].pc = "asleep"]
  /\ UNCHANGED <<session, active, seen, queue, inFlight, closing, req, batch, line, at>>

MayLeave == queue = <<>> /\ closing

Leave(w) ==
  /\ actor[w].pc = "idle"
  /\ MayLeave
  /\ actor' = [actor EXCEPT ![w].pc = "gone"]
  /\ UNCHANGED <<session, active, seen, queue, inFlight, closing, req, batch, line, at>>

\* Mutant: a single call's id is released before its reply is written.
MutCompletion(w, R) ==
  LET n == actor[w].job
  IN  IF req[n].batch = 0 THEN [Sending(w, R, {n}) EXCEPT !.pc = "release"]
      ELSE [actor[w] EXCEPT !.pc = "settle", !.replies = R]

\* The job's completion: a single reply is written by this worker, a
\* batch's is put into its slot first.
Completion(w, R) ==
  LET n == actor[w].job
  IN  IF req[n].batch = 0 THEN Sending(w, R, {n})
      ELSE [actor[w] EXCEPT !.pc = "settle", !.replies = R]

Check(w) ==
  /\ actor[w].pc = "check"
  /\ actor' = [actor EXCEPT ![w] = IF req[actor[w].job].cancelled THEN Completion(w, {})
                                   ELSE [actor[w] EXCEPT !.pc = "run"]]
  /\ UNCHANGED <<session, active, seen, queue, inFlight, closing, req, batch, line, at>>

\* The tool returns; its reply is dropped if the request was cancelled.
Answer(n) == IF req[n].cancelled THEN {} ELSE {n}

Returns(w) ==
  /\ actor[w].pc = "run"
  /\ actor' = [actor EXCEPT ![w] = Completion(w, Answer(actor[w].job))]
  /\ UNCHANGED <<session, active, seen, queue, inFlight, closing, req, batch, line, at>>

SettleSlot(w) ==
  /\ actor[w].pc = "settle"
  /\ LET r == req[actor[w].job]
     IN  batch' = SettledSlot(r.batch, r.index, actor[w].replies)
  /\ actor' = [actor EXCEPT ![w].pc = "deliver", ![w].replies = {}]
  /\ UNCHANGED <<session, active, seen, queue, inFlight, closing, req, line, at>>

\* ~Settled.
JobSettled(w) ==
  /\ actor[w].pc = "settled"
  /\ inFlight' = inFlight - 1
  /\ actor' = [actor EXCEPT ![w] = Idle]
  /\ UNCHANGED <<session, active, seen, queue, closing, req, batch, line, at>>

-----------------------------------------------------------------------------

ReaderStep ==
  \/ \E m \in Notifications : ReadNotification(m)
  \/ \E m \in Requests : ReadRequest(m)
  \/ \E ms \in [1..2 -> Requests \cup Notifications] : ReadBatch(ms)
  \/ RouteRequest \/ Preflight \/ RouteMember \/ Seal
  \/ EndOfInput \/ Drained \/ GraceEnds \/ Joined \/ Exited

WorkerStep(w) ==
  \/ TakeJob(w) \/ Sleep(w) \/ Leave(w) \/ Check(w) \/ Returns(w)
  \/ SettleSlot(w) \/ JobSettled(w)

Next ==
  \/ ReaderStep
  \/ \E w \in Worker : WorkerStep(w)
  \/ \E a \in Actor : Send(a) \/ Release(a) \/ Deliver(a)

Spec == Init /\ [][Next]_vars

-----------------------------------------------------------------------------
(* Properties.                                                             *)

Req == 1..Len(req)

Jobs == {queue[k] : k \in 1..Len(queue)}
          \cup {actor[w].job : w \in {v \in Worker : actor[v].pc \in {"check", "run"}}}

\* docs/mcp-server.md: "A request ID remains reserved until its reply has been
\* written".  A request that took its id keeps it until its reply is on the
\* wire or it was cancelled, every call waiting or running holds its own id, no
\* request is answered twice, and an id reserved since the session became a
\* legacy one, alone or in a batch, is never reserved again.
IdsReserved ==
  /\ \A n \in Req : /\ req[n].ticket /\ active[req[n].id] # n =>
                         req[n].written = 1 \/ req[n].cancelled
                    /\ req[n].written <= 1
  /\ \A n \in Jobs : active[req[n].id] = n
  /\ \A m, n \in Req :
       m # n /\ req[m].remembered /\ req[n].remembered => req[m].id # req[n].id

\* dispatcher.cpp: "A request accepted before stdin closed is owed an answer,
\* so shutdown drains first".  When finish saw the queue dry within the grace,
\* every request read so far has its reply written (unless the client
\* cancelled it) and no id is held; when the server exits, nothing but a
\* cancelled request is unanswered.
OwedAnswered ==
  /\ AtReader("joining") => InUse = {}
  /\ AtReader("joining") \/ AtReader("done") =>
       \A n \in Req : req[n].written = 1 \/ req[n].cancelled

\* docs/mcp-server.md: "duplicates are rejected before any tool executes".  Of
\* the members of a batch that share an id, none is ever queued or run.
DuplicatesNeverRun ==
  \A m, n \in Req :
    m # n /\ req[m].batch # 0 /\ req[m].batch = req[n].batch /\ req[m].id = req[n].id =>
      {m, n} \cap Jobs = {}

\* docs/mcp-server.md: "Responses are aggregated in input request order after
\* asynchronous calls settle".  Once one reply of a batch is on the wire every
\* member is settled, and every other request of the batch is on the wire or
\* was cancelled.
BatchWhole ==
  \A n \in Req : req[n].batch # 0 /\ req[n].written > 0 =>
    /\ batch[req[n].batch].owing = {}
    /\ \A m \in Req : req[m].batch = req[n].batch =>
         req[m].written = 1 \/ req[m].cancelled

Asleep(w) == actor[w].pc = "asleep"

\* A worker with something left to do; a running tool certainly returns only
\* once it is cancelled.
Moves(w) ==
  /\ actor[w].pc \notin {"asleep", "gone"}
  /\ actor[w].pc = "run" => req[actor[w].job].cancelled

\* No wake-up is lost and finish returns.  While a worker sleeps on ready_, the
\* workers already awake are enough for the queue; and once finish has gone on
\* to join, some worker can still move until all are gone, although a tool may
\* wait for ever: what outlasted the grace was cancelled.
NobodyStuck ==
  /\ (\E w \in Worker : Asleep(w)) =>
       Len(queue) <= Cardinality({w \in Worker : actor[w].pc = "idle"})
  /\ AtReader("joining") \/ AtReader("expired") =>
       (\A w \in Worker : actor[w].pc = "gone") \/ \E w \in Worker : Moves(w)

\* An id names one request at a time, every request that is owed an answer gets
\* one, and a batch is answered as a whole or, if it repeats an id, not run.
RequestsKept == IdsReserved /\ DuplicatesNeverRun /\ OwedAnswered /\ BatchWhole
==================================================================================

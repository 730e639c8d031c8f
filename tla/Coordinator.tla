----------------------------- MODULE Coordinator -----------------------------
(***************************************************************************)
(* The distributed system: the coordinator's threads, the connections, and *)
(* the worker processes (src/net/coordinator.cpp, worker.cpp, network.cpp) *)
(* around the scheduler.                                                   *)
(*                                                                         *)
(* The coordinator runs one thread per connection and the schedule loop.   *)
(* They share the scheduler, whose calls are atomic, the maps that         *)
(* conn_mtx_ protects, and each worker's socket: its connection thread     *)
(* writes the register ack and errors to it, the schedule loop writes      *)
(* dispatches, both with send_frame, which sends the length and the body   *)
(* separately and takes no lock.  A step is what a thread does between two *)
(* accesses to shared state.                                               *)
(*                                                                         *)
(* Every connection of a worker is a process of its own, started once with *)
(* a fresh boot id; boot ids are named by the order of registration.       *)
(* Bytes on a connection arrive in order or, once the process is gone, not *)
(* at all.  What nobody reads is left out: the descriptor map workers_,    *)
(* the boot id in a dispatch and the epoch in an ack.                      *)
(***************************************************************************)
EXTENDS Scheduler

CONSTANTS
  Conn,            \* connections that workers make
  WorkerOf,        \* the worker id that registers on each of them
  Client,          \* client connections
  PromptLengths,   \* sizes of the token buffers clients send for a request
  DeviceFaults     \* workers execute on a CUDA device, which may fail

ASSUME CoordinatorAssumption ==
  /\ IsFiniteSet(Conn) /\ Cardinality(Conn) <= MaxRegistrations
  /\ WorkerOf \in [Conn -> Worker \ {0}]
  /\ PromptLengths \in [Request -> SUBSET Nat]
  /\ \A c \in Conn : Capacity[WorkerOf[c]] = 1

VARIABLES
  conn,     \* of each connection: its thread, the process, what is in between
  socks,    \* worker_socks_: the connection of each worker, or None
  tokens,   \* tokens_: the size of each request's buffer, or None
  batch,    \* groups of the last cycle that are not sent yet
  sending,  \* how far dispatch_group is with the first of them
  clients,  \* the submission each client's thread is in the middle of
  left      \* history: dispatches that were read and will not be reported

netVars == <<conn, socks, tokens, batch, sending, clients, left>>
allVars == <<vars, netVars>>

(* A frame is written as two pieces.  Only dispatches have contents.       *)
Control(kind) == [kind |-> kind, epoch |-> 0, members |-> <<>>, tokens |-> <<>>, offsets |-> <<>>]

HeadOf(f) == [part |-> "head", frame |-> f]
BodyOf(f) == [part |-> "body", frame |-> f]

Idle == [phase |-> "idle", conn |-> None, frame |-> Control("none")]

NoResults == [epoch |-> 0, results |-> <<>>]

NetInit ==
  /\ Init
  /\ conn = [c \in Conn |->
               [thread |-> "none", boot |-> 0, proc |-> "none", down |-> <<>>, up |-> <<>>,
                reading |-> NoResults]]
  /\ socks = [w \in Worker |-> None]
  /\ tokens = [r \in Request |-> None]
  /\ batch = <<>> /\ sending = Idle
  /\ clients = [k \in Client |-> None]
  /\ left = {}

(* A write to the connection of a process that is gone, or that no longer  *)
(* finds the beginning of a frame, reaches nobody.                         *)
Written(k, piece) ==
  IF k.proc \in {"waiting", "serving"} THEN [k EXCEPT !.down = Append(@, piece)] ELSE k

DispatchOf(g) == CHOOSE d \in issued : d.gen = g

Started == ws[0].state = "retired"

(* Coordinator::start takes the in-process worker out of service.          *)
Start ==
  /\ ~Started
  /\ UnregisterWorker(0)
  /\ UNCHANGED netVars

-----------------------------------------------------------------------------
(* handle_connection, for a worker.                                        *)

(* The process connects and sends its register frame.                      *)
Connect(c) ==
  /\ Started /\ conn[c].thread = "none"
  /\ conn' = [conn EXCEPT ![c].thread = "accepted", ![c].proc = "waiting"]
  /\ UNCHANGED <<vars, socks, tokens, batch, sending, clients, left>>

StoreSocket(c) ==
  /\ conn[c].thread = "accepted"
  /\ conn' = [conn EXCEPT ![c].thread = "stored"]
  /\ socks' = [socks EXCEPT ![WorkerOf[c]] = c]
  /\ UNCHANGED <<vars, tokens, batch, sending, clients, left>>

Register(c) ==
  LET boot == ws[WorkerOf[c]].boot + 1 IN
  /\ conn[c].thread = "stored"
  /\ RegisterWorker(WorkerOf[c], boot)
  /\ conn' = [conn EXCEPT ![c].thread = "registered", ![c].boot = boot]
  /\ UNCHANGED <<socks, tokens, batch, sending, clients, left>>

AckHead(c) ==
  /\ conn[c].thread = "registered"
  /\ conn' = [conn EXCEPT ![c] = [Written(@, HeadOf(Control("ack"))) EXCEPT !.thread = "acking"]]
  /\ UNCHANGED <<vars, socks, tokens, batch, sending, clients, left>>

AckBody(c) ==
  /\ conn[c].thread = "acking"
  /\ conn' = [conn EXCEPT ![c] = [Written(@, BodyOf(Control("ack"))) EXCEPT !.thread = "reading"]]
  /\ UNCHANGED <<vars, socks, tokens, batch, sending, clients, left>>

ReadCompletion(c) ==
  /\ conn[c].thread = "reading" /\ conn[c].reading = NoResults /\ conn[c].up # <<>>
  /\ conn' = [conn EXCEPT ![c].reading = Head(conn[c].up), ![c].up = Tail(@)]
  /\ UNCHANGED <<vars, socks, tokens, batch, sending, clients, left>>

(* The next result of the frame that is being read, and its authority.     *)
Current(c)   == Head(conn[c].reading.results)
Authority(c) == [epoch |-> conn[c].reading.epoch, source |-> <<WorkerOf[c], conn[c].boot>>]

AfterResults(reading, rest) == IF rest = <<>> THEN NoResults ELSE [reading EXCEPT !.results = rest]

(* The dispatch whose result it is, if the scheduler takes the report.     *)
Taken(c) == {d \in issued : d.gen = Current(c).gen /\ Authoritative(d, Authority(c))}

ReportResult(c) ==
  /\ conn[c].thread = "reading" /\ conn[c].reading # NoResults
  /\ \E d \in Taken(c) :
       \/ Current(c).outcome = "success" /\ ReportSuccess(d)
       \/ Current(c).outcome = "retryable_failure" /\ ReportRetryable(d)
       \/ Current(c).outcome = "non_retryable_failure" /\ ReportNonRetryable(d)
  /\ conn' = [conn EXCEPT ![c].reading = AfterResults(@, Tail(@.results))]
  /\ UNCHANGED <<socks, tokens, batch, sending, clients, left>>

(* A result that is refused is answered by an error frame, and the results *)
(* that follow it in the frame are not looked at.  A report once refused   *)
(* stays refused, so that it may be refused as the error is sent.          *)
RefuseResult(c) ==
  LET results == conn[c].reading.results IN
  /\ conn[c].thread = "reading" /\ conn[c].reading # NoResults
  /\ Taken(c) = {}
  /\ conn' = [conn EXCEPT ![c] = [Written(@, HeadOf(Control("error"))) EXCEPT
                                    !.thread = "refusing", !.reading = NoResults]]
  /\ left' = left \cup {[gen |-> Current(c).gen, how |-> "refused"]}
                  \cup {[gen |-> results[i].gen, how |-> "dropped"] : i \in 2 .. Len(results)}
  /\ UNCHANGED <<vars, socks, tokens, batch, sending, clients>>

ErrorBody(c) ==
  /\ conn[c].thread = "refusing"
  /\ conn' = [conn EXCEPT ![c] = [Written(@, BodyOf(Control("error"))) EXCEPT !.thread = "reading"]]
  /\ UNCHANGED <<vars, socks, tokens, batch, sending, clients, left>>

(* Mutants: the worker is lost only if the socket is still its own, or not *)
(* at all, or the socket is not forgotten.                                 *)
ConnectionEndsOwn(c) ==
  LET w == WorkerOf[c] IN
  /\ conn[c].thread = "reading" /\ conn[c].reading = NoResults
  /\ conn[c].proc = "gone" /\ conn[c].up = <<>>
  /\ socks' = IF socks[w] = c THEN [socks EXCEPT ![w] = None] ELSE socks
  /\ IF socks[w] = c THEN WorkerLost(w) ELSE UNCHANGED vars
  /\ conn' = [conn EXCEPT ![c].thread = "closed"]
  /\ UNCHANGED <<tokens, batch, sending, clients, left>>

ConnectionEndsUntold(c) ==
  LET w == WorkerOf[c] IN
  /\ conn[c].thread = "reading" /\ conn[c].reading = NoResults
  /\ conn[c].proc = "gone" /\ conn[c].up = <<>>
  /\ socks' = IF socks[w] = c THEN [socks EXCEPT ![w] = None] ELSE socks
  /\ conn' = [conn EXCEPT ![c].thread = "closed"]
  /\ UNCHANGED <<vars, tokens, batch, sending, clients, left>>

ConnectionEndsKept(c) ==
  /\ conn[c].thread = "reading" /\ conn[c].reading = NoResults
  /\ conn[c].proc = "gone" /\ conn[c].up = <<>>
  /\ WorkerLost(WorkerOf[c])
  /\ conn' = [conn EXCEPT ![c].thread = "closed"]
  /\ UNCHANGED <<socks, tokens, batch, sending, clients, left>>

(* The connection is at its end: the thread forgets the socket, if it is   *)
(* still the worker's, and declares the worker lost, in one critical       *)
(* section of conn_mtx_.                                                   *)
ConnectionEnds(c) ==
  LET w == WorkerOf[c] IN
  /\ conn[c].thread = "reading" /\ conn[c].reading = NoResults
  /\ conn[c].proc = "gone" /\ conn[c].up = <<>>
  /\ socks' = IF socks[w] = c THEN [socks EXCEPT ![w] = None] ELSE socks
  /\ WorkerLost(w)
  /\ conn' = [conn EXCEPT ![c].thread = "closed"]
  /\ UNCHANGED <<tokens, batch, sending, clients, left>>

-----------------------------------------------------------------------------
(* schedule_loop and dispatch_group.                                       *)

(* The groups a cycle forms are sent in order.  The generations of a       *)
(* group's members follow one another, the group's id first.               *)
Formed == {g \in groups' : g.id >= nextGeneration}

Unsent(g) ==
  [worker |-> g.worker, members |-> [i \in 1 .. Cardinality(g.outstanding) |-> g.id + i - 1]]

ScheduleCycle ==
  /\ Started /\ batch = <<>>
  /\ RunCycle
  /\ \E order \in [1 .. Cardinality(Formed) -> Formed] :
       /\ \A i, j \in DOMAIN order : i < j => order[i].id < order[j].id
       /\ batch' = [i \in DOMAIN order |-> Unsent(order[i])]
  /\ UNCHANGED <<conn, socks, tokens, sending, clients, left>>

(* Mutant: a missing socket is not noticed.                                *)
FindSocketUnchecked ==
  /\ batch # <<>> /\ sending.phase = "idle"
  /\ sending' = [Idle EXCEPT !.phase = "found", !.conn = socks[Head(batch).worker]]
  /\ UNCHANGED <<vars, conn, socks, tokens, batch, clients, left>>

FindSocket ==
  LET c == socks[Head(batch).worker] IN
  /\ batch # <<>> /\ sending.phase = "idle"
  /\ sending' = [Idle EXCEPT !.phase = IF c = None THEN "failed" ELSE "found", !.conn = c]
  /\ UNCHANGED <<vars, conn, socks, tokens, batch, clients, left>>

(* The range of a dispatch in its prompt, and the tokens there, each given *)
(* by its request, its buffer and its position.                            *)
From(d)  == ChunkStart(Size(d.req), d.chunk)
Count(d) == Tokens(d.req, d.chunk)

SliceOf(d) == [i \in 1 .. Count(d) |-> <<d.req, tokens[d.req], From(d) + i>>]

(* Mutant: the offsets do not begin with 0.                                *)
DispatchFrameEndsOnly(members) ==
  LET n == Len(members)
      Ends[i \in 0 .. n] == IF i = 0 THEN 0 ELSE Ends[i - 1] + Count(DispatchOf(members[i]))
      Slices[i \in 0 .. n] == IF i = 0 THEN <<>> ELSE Slices[i - 1] \o SliceOf(DispatchOf(members[i]))
  IN  [kind |-> "dispatch", epoch |-> epoch, members |-> members,
       tokens  |-> Slices[n],
       offsets |-> [i \in 1 .. n |-> Ends[i]]]

(* The frame: the epoch as it is now, and the members' slices end to end,  *)
(* with the offsets where each one begins and the last one ends.           *)
DispatchFrame(members) ==
  LET n == Len(members)
      Ends[i \in 0 .. n] == IF i = 0 THEN 0 ELSE Ends[i - 1] + Count(DispatchOf(members[i]))
      Slices[i \in 0 .. n] == IF i = 0 THEN <<>> ELSE Slices[i - 1] \o SliceOf(DispatchOf(members[i]))
  IN  [kind |-> "dispatch", epoch |-> epoch, members |-> members,
       tokens  |-> Slices[n],
       offsets |-> [i \in 1 .. n + 1 |-> Ends[i - 1]]]

BuffersCover(members) ==
  \A i \in DOMAIN members :
    LET d == DispatchOf(members[i]) IN tokens[d.req] # None /\ tokens[d.req] >= From(d) + Count(d)

BuildFrame ==
  LET members == Head(batch).members IN
  /\ sending.phase = "found"
  /\ sending' = IF BuffersCover(members)
                THEN [sending EXCEPT !.phase = "built", !.frame = DispatchFrame(members)]
                ELSE [sending EXCEPT !.phase = "failed"]
  /\ UNCHANGED <<vars, conn, socks, tokens, batch, clients, left>>

(* Writing fails, if at all, once the process is gone.                     *)
WriteFails ==
  /\ sending.phase \in {"built", "half"} /\ conn[sending.conn].proc = "gone"
  /\ sending' = [sending EXCEPT !.phase = "failed"]
  /\ UNCHANGED <<vars, conn, socks, tokens, batch, clients, left>>

WriteHead ==
  /\ sending.phase = "built"
  /\ conn' = [conn EXCEPT ![sending.conn] = Written(@, HeadOf(sending.frame))]
  /\ sending' = [sending EXCEPT !.phase = "half"]
  /\ UNCHANGED <<vars, socks, tokens, batch, clients, left>>

WriteBody ==
  /\ sending.phase = "half"
  /\ conn' = [conn EXCEPT ![sending.conn] = Written(@, BodyOf(sending.frame))]
  /\ sending' = Idle /\ batch' = Tail(batch)
  /\ left' = IF conn[sending.conn].proc = "wedged"
             THEN left \cup {[gen |-> g, how |-> "garbled"] : g \in Range(sending.frame.members)}
             ELSE left
  /\ UNCHANGED <<vars, socks, tokens, clients>>

(* Mutant: the group is skipped and the worker stays.                      *)
DispatchSkipped ==
  /\ sending.phase = "failed"
  /\ sending' = Idle /\ batch' = Tail(batch)
  /\ UNCHANGED <<vars, conn, socks, tokens, clients, left>>

(* Whatever the reason, a group that could not be sent costs the worker    *)
(* its registration.                                                       *)
DispatchFails ==
  /\ sending.phase = "failed"
  /\ WorkerLost(Head(batch).worker)
  /\ sending' = Idle /\ batch' = Tail(batch)
  /\ UNCHANGED <<conn, socks, tokens, clients, left>>

-----------------------------------------------------------------------------
(* The worker process: Worker::run with one of the executors.              *)

Whole(down) == Len(down) >= 2 /\ down[2] = BodyOf(down[1].frame)

DispatchesIn(down) ==
  UNION {Range(down[i].frame.members) : i \in DOMAIN down}

(* Whatever frame comes first is taken for the register ack.               *)
ReadAck(c) ==
  LET down == conn[c].down IN
  /\ conn[c].proc = "waiting" /\ Whole(down)
  /\ conn' = [conn EXCEPT ![c].proc = "serving", ![c].down = SubSeq(down, 3, Len(down))]
  /\ left' = left \cup {[gen |-> g, how |-> "as_ack"] : g \in Range(down[1].frame.members)}
  /\ UNCHANGED <<vars, socks, tokens, batch, sending, clients>>

(* The slice of member i is cut out of the frame by the offsets; without   *)
(* offsets or tokens for it there is none.                                 *)
Cut(f, i) ==
  IF i + 1 <= Len(f.offsets) /\ f.offsets[i + 1] <= Len(f.tokens)
  THEN SubSeq(f.tokens, f.offsets[i] + 1, f.offsets[i + 1]) ELSE <<>>

(* DispatchResolver: the slice begins where the member's range does, and   *)
(* must reach to its end.                                                  *)
Resolved(f, i) ==
  LET n == Count(DispatchOf(f.members[i])) IN
  IF Len(Cut(f, i)) >= n THEN SubSeq(Cut(f, i), 1, n) ELSE <<>>

(* The executor runs over the tokens of the member's range, and fails for  *)
(* good without them.                                                      *)
Executed(f, i) ==
  [gen     |-> f.members[i],
   outcome |-> IF Resolved(f, i) # <<>> THEN "success" ELSE "non_retryable_failure",
   ran     |-> Resolved(f, i)]

CpuResults(f) == [i \in DOMAIN f.members |-> Executed(f, i)]

(* execute returned an error: every member is reported as retryable.       *)
GroupFailed(f) ==
  [i \in DOMAIN f.members |->
     [gen |-> f.members[i], outcome |-> "retryable_failure", ran |-> <<>>]]

(* On a CUDA device, execute fails if there is no device, and any member   *)
(* fails for good if the device faults at it.                              *)
CudaResults(f) ==
  {GroupFailed(f)} \cup
  {[i \in DOMAIN f.members |->
      IF i \in faults THEN [Executed(f, i) EXCEPT !.outcome = "non_retryable_failure"]
                      ELSE Executed(f, i)] : faults \in SUBSET DOMAIN f.members}

ServeDispatch(c) ==
  LET f == Head(conn[c].down).frame IN
  /\ conn[c].proc = "serving" /\ Whole(conn[c].down) /\ f.kind = "dispatch"
  /\ \E results \in IF DeviceFaults THEN CudaResults(f) ELSE {CpuResults(f)} :
       conn' = [conn EXCEPT ![c].down = SubSeq(@, 3, Len(@)),
                            ![c].up = Append(@, [epoch |-> f.epoch, results |-> results])]
  /\ UNCHANGED <<vars, socks, tokens, batch, sending, clients, left>>

(* Frames of other kinds are ignored.                                      *)
IgnoreFrame(c) ==
  /\ conn[c].proc = "serving" /\ Whole(conn[c].down) /\ Head(conn[c].down).frame.kind # "dispatch"
  /\ conn' = [conn EXCEPT ![c].down = SubSeq(@, 3, Len(@))]
  /\ UNCHANGED <<vars, socks, tokens, batch, sending, clients, left>>

(* A length that is not followed by its own body: the rest of the stream   *)
(* is read out of step.  The process gives up on an impossible length or   *)
(* an undecodable ack, or waits for bytes that never come.                 *)
LoseStep(c) ==
  LET down == conn[c].down IN
  /\ conn[c].proc \in {"waiting", "serving"} /\ Len(down) >= 2 /\ ~Whole(down)
  /\ \/ /\ conn' = [conn EXCEPT ![c].proc = "gone", ![c].down = <<>>]
        /\ UNCHANGED left
     \/ /\ conn' = [conn EXCEPT ![c].proc = "wedged", ![c].down = <<>>]
        /\ left' = left \cup {[gen |-> g, how |-> "garbled"] : g \in DispatchesIn(down)}
  /\ UNCHANGED <<vars, socks, tokens, batch, sending, clients>>

(* The process ends; of what it wrote, a prefix still arrives.             *)
ProcessEnds(c) ==
  /\ conn[c].proc \in {"waiting", "serving", "wedged"}
  /\ \E n \in 0 .. Len(conn[c].up) :
       conn' = [conn EXCEPT ![c].proc = "gone", ![c].down = <<>>, ![c].up = SubSeq(@, 1, n)]
  /\ UNCHANGED <<vars, socks, tokens, batch, sending, clients, left>>

-----------------------------------------------------------------------------
(* handle_connection, for a client.                                        *)

(* submit stores the tokens first, in place of any that are there, and     *)
(* then asks the scheduler.                                                *)
SubmitTokens(k, r) ==
  /\ Started /\ clients[k] = None
  /\ \E n \in PromptLengths[r] : tokens' = [tokens EXCEPT ![r] = n]
  /\ clients' = [clients EXCEPT ![k] = r]
  /\ UNCHANGED <<vars, conn, socks, batch, sending, left>>

Refused(r) ==
  LET t == ts[Descriptor[r].tenant] IN
  \/ Known(r)
  \/ Cardinality({q \in Request : Known(q)}) >= MaxAdmittedRequests
  \/ t.outstanding >= TenantOutstandingLimit
  \/ t.admitted + Uncached(r) > TenantTokenLimit

SubmitRequest(k) ==
  /\ clients[k] # None
  /\ Submit(clients[k]) \/ (Refused(clients[k]) /\ UNCHANGED vars)
  /\ clients' = [clients EXCEPT ![k] = None]
  /\ UNCHANGED <<conn, socks, tokens, batch, sending, left>>

(* cancel and roll_epoch are calls of the scheduler.                       *)
CancelRequest(r) == Started /\ Cancel(r) /\ UNCHANGED netVars

RollEpochCall == Started /\ RollEpoch /\ UNCHANGED netVars

TimePasses == Started /\ Tick /\ UNCHANGED netVars

-----------------------------------------------------------------------------
ThreadStep(c) ==
  \/ StoreSocket(c) \/ Register(c) \/ AckHead(c) \/ AckBody(c) \/ ReadCompletion(c)
  \/ ReportResult(c) \/ RefuseResult(c) \/ ErrorBody(c) \/ ConnectionEnds(c)

ScheduleStep ==
  \/ ScheduleCycle \/ FindSocket \/ BuildFrame \/ WriteHead \/ WriteBody \/ WriteFails \/ DispatchFails

ProcessStep(c) == ReadAck(c) \/ ServeDispatch(c) \/ IgnoreFrame(c) \/ LoseStep(c)

NetNext ==
  \/ Start
  \/ \E c \in Conn : Connect(c) \/ ThreadStep(c) \/ ProcessStep(c) \/ ProcessEnds(c)
  \/ ScheduleStep
  \/ \E k \in Client : SubmitRequest(k) \/ \E r \in Request : SubmitTokens(k, r)
  \/ \E r \in Request : CancelRequest(r)
  \/ RollEpochCall \/ TimePasses

NetSpec == NetInit /\ [][NetNext]_allVars

(* The operating system runs every thread and every process.               *)
FairNetSpec ==
  /\ NetSpec
  /\ WF_allVars(ScheduleStep)
  /\ \A c \in Conn : WF_allVars(ThreadStep(c)) /\ WF_allVars(ProcessStep(c))

-----------------------------------------------------------------------------
(* Properties.                                                             *)

(* The threads' and processes' states stay in their types: in particular a *)
(* completion holds at least one result, and the schedule loop is inside   *)
(* dispatch_group only for a group it still has to send.                   *)
NetTypeOK ==
  /\ \A c \in Conn :
       /\ conn[c].thread \in {"none", "accepted", "stored", "registered", "acking", "reading",
                              "refusing", "closed"}
       /\ conn[c].proc \in {"none", "waiting", "serving", "wedged", "gone"}
       /\ conn[c].boot <= ws[WorkerOf[c]].boot
       /\ \A i \in DOMAIN conn[c].up : conn[c].up[i].results # <<>>
  /\ socks \in [Worker -> Conn \cup {None}]
  /\ sending.phase \in {"idle", "found", "built", "half", "failed"}
  /\ sending.phase # "idle" => batch # <<>>
  /\ sending.phase \in {"found", "built", "half"} => sending.conn \in Conn

(* A dispatch that a connection still carries, or whose result it does.    *)
Carried(c, g) ==
  \/ g \in DispatchesIn(conn[c].down)
  \/ \E f \in Range(conn[c].up) \cup {conn[c].reading} : \E i \in DOMAIN f.results : f.results[i].gen = g

Waiting(g) == \E i \in DOMAIN batch : g \in Range(batch[i].members)

LeftBehind(g) == \E l \in left : l.gen = g

(* Some thread is about to declare the worker lost.                        *)
LossPending(w) ==
  \/ \E c \in Conn : WorkerOf[c] = w /\ conn[c].proc = "gone" /\ conn[c].thread # "closed"
  \/ sending.phase = "failed" /\ Head(batch).worker = w

(* No dispatch is forgotten: while a request is in flight its dispatch is  *)
(* waiting to be sent, or on a connection, or its worker is about to be    *)
(* declared lost, which queues the request again.  The exceptions are the  *)
(* ones the code has: a dispatch read in place of the ack, one garbled by  *)
(* two writers, and results that are refused or follow a refused one.      *)
InFlightIsAccounted ==
  \A r \in Request : rs[r].inFlight /\ rs[r].lifecycle = "dispatched" =>
    \/ Waiting(rs[r].gen) \/ LeftBehind(rs[r].gen)
    \/ \E c \in Conn : Carried(c, rs[r].gen)
    \/ LossPending(rs[r].worker)

(* What a worker computes for a member is computed from that member's own  *)
(* range of a buffer submitted for it, whatever it was packed with and     *)
(* however the offsets cut the frame: the executor never finds a slice     *)
(* short, and only a device fault makes a result non-retryable.            *)
MembersRunTheirTokens ==
  \A c \in Conn : \A f \in Range(conn[c].up) : \A i \in DOMAIN f.results :
    LET d == DispatchOf(f.results[i].gen) IN
    f.results[i].outcome # "retryable_failure" =>
      \E n \in PromptLengths[d.req] :
        f.results[i].ran = [j \in 1 .. Count(d) |-> <<d.req, n, From(d) + j>>]

(* A socket in worker_socks_ belongs to a connection whose thread has not  *)
(* ended, and which will remove it.                                        *)
SocketsAreServed ==
  \A w \in Worker : socks[w] # None => WorkerOf[socks[w]] = w /\ conn[socks[w]].thread # "closed"

(* Wherever the scheduler believes a worker ready, the thread of its last  *)
(* registration is there to notice the end of the process: the end of any  *)
(* connection of the worker, even of an earlier one, makes it lost.        *)
Watching(c) == conn[c].thread \in {"registered", "acking", "reading", "refusing"}

ReadyWorkersAreWatched ==
  \A w \in Worker \ {0} : ws[w].state = "ready" =>
    \E c \in Conn : WorkerOf[c] = w /\ conn[c].boot = ws[w].boot /\ Watching(c)

(* A result that arrives is applied or answered by an error: no request    *)
(* stays in flight because its result was thrown away.                     *)
NoResultDropped ==
  \A r \in Request : rs[r].inFlight /\ rs[r].lifecycle = "dispatched" =>
    [gen |-> rs[r].gen, how |-> "dropped"] \notin left

(* As long as some worker stays ready, every admitted request ends, unless *)
(* one of its dispatches is left behind.                                   *)
ServedRequestsEnd ==
  <>[](\E w \in Worker : ws[w].state = "ready") =>
    \A r \in Request :
      Known(r) ~> (rs[r].lifecycle \in Terminal \/ LeftBehind(rs[r].gen))
=============================================================================

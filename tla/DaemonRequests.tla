---------------------------- MODULE DaemonRequests ----------------------------
(***************************************************************************)
(* Requests to the daemon: UnixSocketJSONServer from accept to close, its  *)
(* _DaemonRequestExecutor, and DaemonAPIClient.request (daemon_api.py).    *)
(*                                                                         *)
(* The accept loop takes an admission slot for a connection and submits a  *)
(* future for it; workers read a request, dispatch it and respond.  When a *)
(* future is done or cancelled its callback untracks the connection,       *)
(* closes it and releases the slot.  Stopping, from another thread, cancels*)
(* the futures that wait, gives the running ones a grace period, closes    *)
(* their connections and shuts the executor down.  The steps of the loop,  *)
(* the workers, the clients and the stop interleave, and a client may give *)
(* up at any time.  What a request means is left to the dispatcher.        *)
(***************************************************************************)
EXTENDS Integers, Sequences, FiniteSets

CONSTANTS
    Clients,        \* one request each
    Workers,        \* request_workers
    MaxInFlight     \* max_in_flight_requests

\* What shutdown puts on the queue to end a worker; never a connection
EndWorker == "end"

\* The checks of UnixSocketJSONServer.__init__
ASSUME DaemonRequestsAssumption ==
    /\ MaxInFlight \in Nat /\ MaxInFlight >= Cardinality(Workers)
    /\ IsFiniteSet(Workers) /\ Workers # {} /\ EndWorker \notin Clients

VARIABLES
    clients,        \* what the client of each connection knows
    futures,        \* the future of each connection, as the server sees it
    tracked,        \* _futures, _connections and _future_connections
    waiting,        \* the queue of the executor: connections, and ends of workers
    slots,          \* the value of _admission
    workers,        \* what each worker is doing
    server,         \* the accept loop and close: running, or how far the stop got
    dispatched      \* history: requests that were run

requestVars == <<clients, futures, tracked, waiting, slots, workers, server, dispatched>>

Asleep == [pc |-> "asleep", conn |-> "none"]

RequestsInit ==
    /\ clients = [c \in Clients |-> "idle"]
    /\ futures = [c \in Clients |-> "none"]
    /\ tracked = {} /\ waiting = <<>> /\ slots = MaxInFlight
    /\ workers = [w \in Workers |-> Asleep]
    /\ server = [stop |-> FALSE, accepting |-> TRUE, pc |-> "serving", to |-> {}]
    /\ dispatched = {}

-----------------------------------------------------------------------------
(* DaemonAPIClient.request.                                                *)

\* Connected, and the request is under way (request_started).
SendRequest(c) ==
    /\ clients[c] = "idle" /\ server.pc = "serving"
    /\ clients' = [clients EXCEPT ![c] = "sent"]
    /\ UNCHANGED <<futures, tracked, waiting, slots, workers, server, dispatched>>

\* Nobody listens any more: the request is known not to have started.
Refused(c) ==
    /\ clients[c] = "idle" /\ server.pc # "serving"
    /\ clients' = [clients EXCEPT ![c] = "not started"]
    /\ UNCHANGED <<futures, tracked, waiting, slots, workers, server, dispatched>>

\* The deadline passes before an answer.
GiveUp(c) ==
    /\ clients[c] = "sent"
    /\ clients' = [clients EXCEPT ![c] = "uncertain"]
    /\ UNCHANGED <<futures, tracked, waiting, slots, workers, server, dispatched>>

\* What a client that still waits makes of the end of its connection.
Told(c, what) == [clients EXCEPT ![c] = IF @ = "sent" THEN what ELSE @]

-----------------------------------------------------------------------------
(* The accept loop: _submit_connection.                                    *)

LoopIsFree == \A c \in Clients : futures[c] # "accepted"
Pending(c) == clients[c] # "idle" /\ clients[c] # "not started" /\ futures[c] = "none"

\* Mutant: one connection more than there are slots.
HasSlotOff == slots >= 0

\* _admission.acquire(blocking=False) succeeds.
HasSlot == slots > 0

Accept(c) ==
    /\ server.pc = "serving" /\ LoopIsFree /\ Pending(c) /\ HasSlot
    /\ slots' = slots - 1
    /\ futures' = [futures EXCEPT ![c] = "accepted"]
    /\ UNCHANGED <<clients, tracked, waiting, workers, server, dispatched>>

\* "server_busy", which the client may retry.
RejectBusy(c) ==
    /\ server.pc = "serving" /\ LoopIsFree /\ Pending(c) /\ ~HasSlot
    /\ futures' = [futures EXCEPT ![c] = "closed"]
    /\ clients' = Told(c, "retry")
    /\ UNCHANGED <<tracked, waiting, slots, workers, server, dispatched>>

\* Under the tracking lock: track the connection and queue its future.
Submit(c) ==
    /\ futures[c] = "accepted" /\ server.accepting /\ Len(waiting) < MaxInFlight
    /\ futures' = [futures EXCEPT ![c] = "pending"]
    /\ tracked' = tracked \cup {c}
    /\ waiting' = Append(waiting, c)
    /\ UNCHANGED <<clients, slots, workers, server, dispatched>>

\* Mutant: the slot is not released when the daemon is stopping.
RejectKeepsSlot(c) ==
    /\ futures[c] = "accepted" /\ ~server.accepting
    /\ futures' = [futures EXCEPT ![c] = "closed"]
    /\ clients' = Told(c, "retry")
    /\ UNCHANGED <<tracked, waiting, slots, workers, server, dispatched>>

\* The daemon has begun to stop meanwhile: "daemon_stopping".
RejectStopping(c) ==
    /\ futures[c] = "accepted" /\ ~server.accepting
    /\ futures' = [futures EXCEPT ![c] = "closed"]
    /\ slots' = slots + 1
    /\ clients' = Told(c, "retry")
    /\ UNCHANGED <<tracked, waiting, workers, server, dispatched>>

-----------------------------------------------------------------------------
(* The workers: _worker and _handle_connection.                            *)

Work(w, pc) == workers' = [workers EXCEPT ![w].pc = pc]

\* Take an item off the queue; EndWorker ends the thread.
Take(w) ==
    /\ workers[w] = Asleep /\ waiting # <<>>
    /\ waiting' = Tail(waiting)
    /\ workers' = [workers EXCEPT ![w] =
                      IF Head(waiting) = EndWorker THEN [Asleep EXCEPT !.pc = "exited"]
                      ELSE [pc |-> "got", conn |-> Head(waiting)]]
    /\ UNCHANGED <<clients, futures, tracked, slots, server, dispatched>>

\* set_running_or_notify_cancel: a cancelled future is dropped.
Begin(w) ==
    /\ workers[w].pc = "got"
    /\ IF futures[workers[w].conn] = "pending"
       THEN /\ futures' = [futures EXCEPT ![workers[w].conn] = "running"]
            /\ Work(w, "reading")
       ELSE workers' = [workers EXCEPT ![w] = Asleep] /\ UNCHANGED futures
    /\ UNCHANGED <<clients, tracked, waiting, slots, server, dispatched>>

\* _read_json_frame: the request, or a timeout, an error or nothing.
ReadFrame(w, ok) ==
    /\ workers[w].pc = "reading"
    /\ Work(w, IF ok THEN "read" ELSE "done")
    /\ UNCHANGED <<clients, futures, tracked, waiting, slots, server, dispatched>>

Dispatch(w) ==
    /\ workers[w].pc = "read"
    /\ dispatched' = dispatched \cup {workers[w].conn}
    /\ Work(w, "done")
    /\ UNCHANGED <<clients, futures, tracked, waiting, slots, server>>

\* The response, none once the daemon is stopping; the connection is closed.
Respond(w) ==
    /\ workers[w].pc = "done"
    /\ clients' = Told(workers[w].conn, IF server.stop THEN "uncertain" ELSE "answered")
    /\ Work(w, "finishing")
    /\ UNCHANGED <<futures, tracked, waiting, slots, server, dispatched>>

\* The future is done, and _request_finished its callback.
Finish(w) ==
    LET c == workers[w].conn IN
    /\ workers[w].pc = "finishing"
    /\ futures' = [futures EXCEPT ![c] = "closed"]
    /\ tracked' = tracked \ {c}
    /\ slots' = slots + 1
    /\ workers' = [workers EXCEPT ![w] = Asleep]
    /\ UNCHANGED <<clients, waiting, server, dispatched>>

-----------------------------------------------------------------------------
(* Stopping: request_stop, and _close_locked from any thread.              *)

RequestStop ==
    /\ ~server.stop
    /\ server' = [server EXCEPT !.stop = TRUE]
    /\ UNCHANGED <<clients, futures, tracked, waiting, slots, workers, dispatched>>

\* Stop accepting, note the futures, close the listener with its backlog.
CloseServer ==
    /\ server.pc = "serving"
    /\ server' = [stop |-> TRUE, accepting |-> FALSE, pc |-> "cancelling", to |-> tracked]
    /\ clients' = [c \in Clients |-> IF clients[c] = "sent" /\ futures[c] = "none"
                                     THEN "uncertain" ELSE clients[c]]
    /\ futures' = [c \in Clients |-> IF Pending(c) THEN "closed" ELSE futures[c]]
    /\ UNCHANGED <<tracked, waiting, slots, workers, dispatched>>

\* Mutant: a future that runs already can be cancelled.
CancelRunning(c) ==
    /\ server.pc = "cancelling" /\ c \in server.to
    /\ server' = [server EXCEPT !.to = @ \ {c}]
    /\ IF futures[c] \in {"pending", "running"}
       THEN /\ futures' = [futures EXCEPT ![c] = "closed"]
            /\ tracked' = tracked \ {c}
            /\ slots' = slots + 1
            /\ clients' = Told(c, "retry")
       ELSE UNCHANGED <<clients, futures, tracked, slots>>
    /\ UNCHANGED <<waiting, workers, dispatched>>

\* future.cancel: one that waits is cancelled, and its callback rejects the
\* connection ("daemon_stopping") and releases the slot.
Cancel(c) ==
    /\ server.pc = "cancelling" /\ c \in server.to
    /\ server' = [server EXCEPT !.to = @ \ {c}]
    /\ IF futures[c] = "pending"
       THEN /\ futures' = [futures EXCEPT ![c] = "closed"]
            /\ tracked' = tracked \ {c}
            /\ slots' = slots + 1
            /\ clients' = Told(c, "retry")
       ELSE UNCHANGED <<clients, futures, tracked, slots>>
    /\ UNCHANGED <<waiting, workers, dispatched>>

\* The grace period ends: what is still tracked loses its connection.
EndGrace ==
    /\ server.pc = "cancelling" /\ server.to = {}
    /\ server' = [server EXCEPT !.pc = "draining"]
    /\ clients' = [c \in Clients |-> IF c \in tracked /\ clients[c] = "sent"
                                     THEN "uncertain" ELSE clients[c]]
    /\ UNCHANGED <<futures, tracked, waiting, slots, workers, dispatched>>

\* _DaemonRequestExecutor.shutdown: the queue is emptied and ends every worker.
ShutDown ==
    /\ server.pc = "draining"
    /\ server' = [server EXCEPT !.pc = "closed"]
    /\ waiting' = [n \in 1 .. Cardinality(Workers) |-> EndWorker]
    /\ UNCHANGED <<clients, futures, tracked, slots, workers, dispatched>>

RequestsNext ==
    \/ \E c \in Clients :
          \/ SendRequest(c) \/ Refused(c) \/ GiveUp(c)
          \/ Accept(c) \/ RejectBusy(c) \/ Submit(c) \/ RejectStopping(c) \/ Cancel(c)
    \/ \E w \in Workers :
          \/ Take(w) \/ Begin(w) \/ Dispatch(w) \/ Respond(w) \/ Finish(w)
          \/ \E ok \in BOOLEAN : ReadFrame(w, ok)
    \/ RequestStop \/ CloseServer \/ EndGrace \/ ShutDown

RequestsSpec == RequestsInit /\ [][RequestsNext]_requestVars

-----------------------------------------------------------------------------
(* Properties.                                                             *)

\* What a client is told it may retry ("retryable": the daemon is busy or
\* stopping), or was never sent, is never run, neither before nor after the
\* answer: cancelling a future and a worker starting it exclude each other.
RetryIsSafe ==
    \A c \in dispatched : clients[c] \notin {"retry", "not started"}

\* Admission slots, tracked connections and futures stay in step on every path
\* out of a request, so that no slot is lost and none is released twice.
SlotsAgree ==
    /\ slots = MaxInFlight - Cardinality({c \in Clients :
                                 futures[c] \in {"accepted", "pending", "running"}})
    /\ tracked = {c \in Clients : futures[c] \in {"pending", "running"}}

\* The queue of the executor has room for every connection that was admitted
\* (put_nowait would raise Full, which ends the accept loop).
QueueHasRoom ==
    \A c \in Clients :
        futures[c] = "accepted" /\ server.accepting => Len(waiting) < MaxInFlight

\* Admission slots, tracked connections, futures and the queue stay in step.
PoolIsSound == SlotsAgree /\ QueueHasRoom

=============================================================================

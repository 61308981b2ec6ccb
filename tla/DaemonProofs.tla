----------------------------- MODULE DaemonProofs -----------------------------
(***************************************************************************)
(* Proofs about the daemon and the local state of an installation: the     *)
(* endpoint, for any number of daemons that start, stop and die; the       *)
(* requests, for any number of clients and workers and any bound on those  *)
(* in flight; the file of the store, for any number of connections, rows   *)
(* and files; and the installation key, for any number of processes.       *)
(***************************************************************************)
EXTENDS DaemonEndpoint, DaemonRequests, StoreFile, InstallationKey, FiniteSetTheorems, TLAPS

-----------------------------------------------------------------------------
(* The endpoint.                                                           *)

UnderLock == {"locked", "stale", "clean", "bound", "identified", "listening"}

\* A daemon that has bound a socket and not given it up
Owning == {"bound", "identified", "listening", "serving", "closing", "unlinking"}

EndpointPcs == {"off", "probed"} \cup UnderLock \cup Owning

EndpointTypeOK ==
    /\ sockets \in 1 .. MaxSockets
    /\ endpoint \in (1 .. sockets) \cup {NoSocket}
    /\ startupLock \in Daemons \cup {NoHolder}
    /\ daemons \in [Daemons -> [pc : EndpointPcs, socket : (1 .. sockets) \cup {NoSocket}]]
    /\ raced \in BOOLEAN

\* Stale cleanup and publication happen under the lock.
LockIsHeld == \A d \in Daemons : daemons[d].pc \in UnderLock => startupLock = d

\* No two daemons have bound the same socket.
SocketsAreOwn ==
    \A d \in Daemons : daemons[d].pc \in Owning =>
        /\ daemons[d].socket # NoSocket
        /\ \A e \in Daemons \ {d} :
              daemons[e].pc \in Owning => daemons[e].socket # daemons[d].socket

\* What a start is about to remove as stale is not what somebody listens on.
StaleIsDead ==
    \A d \in Daemons : daemons[d].pc = "stale" =>
        \A e \in Daemons : Listens(e) => daemons[e].socket # daemons[d].socket

\* A stop that checked its entry still finds it, or nothing, unless it was raced.
CheckedIsOwn ==
    ~raced => \A d \in Daemons : daemons[d].pc = "unlinking" =>
                  endpoint \in {NoSocket, daemons[d].socket}

EndpointInv ==
    /\ EndpointTypeOK /\ LockIsHeld /\ SocketsAreOwn /\ StaleIsDead /\ CheckedIsOwn
    /\ ListenerIsReachable

\* Every step preserves the invariant of the endpoint.
LEMMA EndpointStep == EndpointInv /\ [EndpointNext]_endpointVars => EndpointInv'
<1> SUFFICES ASSUME EndpointInv, [EndpointNext]_endpointVars PROVE EndpointInv'
  OBVIOUS
<1> USE DaemonEndpointAssumption
    DEF EndpointInv, EndpointTypeOK, EndpointPcs, UnderLock, Owning
<1>1. ASSUME NEW d \in Daemons, Probe(d) PROVE EndpointInv'
  <2>1. EndpointTypeOK'
    BY <1>1 DEF Probe, Step
  <2>2. LockIsHeld' /\ SocketsAreOwn'
    BY <1>1 DEF Probe, Step, LockIsHeld, SocketsAreOwn
  <2>3. StaleIsDead'
    BY <1>1 DEF Probe, Step, StaleIsDead, Listens
  <2>4. CheckedIsOwn'
    BY <1>1 DEF Probe, Step, CheckedIsOwn
  <2>5. ListenerIsReachable'
    BY <1>1 DEF Probe, Step, ListenerIsReachable, Listens
  <2> QED BY <2>1, <2>2, <2>3, <2>4, <2>5
<1>2. ASSUME NEW d \in Daemons, Lock(d) PROVE EndpointInv'
  <2>1. EndpointTypeOK'
    BY <1>2 DEF Lock, Step
  <2>2. LockIsHeld' /\ SocketsAreOwn'
    BY <1>2 DEF Lock, Step, LockIsHeld, SocketsAreOwn
  <2>3. StaleIsDead'
    BY <1>2 DEF Lock, Step, StaleIsDead, Listens
  <2>4. CheckedIsOwn'
    BY <1>2 DEF Lock, Step, CheckedIsOwn
  <2>5. ListenerIsReachable'
    BY <1>2 DEF Lock, Step, ListenerIsReachable, Listens
  <2> QED BY <2>1, <2>2, <2>3, <2>4, <2>5
<1>3. ASSUME NEW d \in Daemons, RefuseActive(d) PROVE EndpointInv'
  <2>1. EndpointTypeOK'
    BY <1>3 DEF RefuseActive, Step, Unlock
  <2>2. LockIsHeld' /\ SocketsAreOwn'
    BY <1>3 DEF RefuseActive, Step, Unlock, LockIsHeld, SocketsAreOwn
  <2>3. StaleIsDead'
    BY <1>3 DEF RefuseActive, Step, Unlock, StaleIsDead, Listens
  <2>4. CheckedIsOwn'
    BY <1>3 DEF RefuseActive, Step, Unlock, CheckedIsOwn
  <2>5. ListenerIsReachable'
    BY <1>3 DEF RefuseActive, Step, Unlock, ListenerIsReachable, Listens
  <2> QED BY <2>1, <2>2, <2>3, <2>4, <2>5
<1>4. ASSUME NEW d \in Daemons, FindStale(d) PROVE EndpointInv'
  <2>1. EndpointTypeOK'
    BY <1>4 DEF FindStale
  <2>2. LockIsHeld' /\ SocketsAreOwn'
    BY <1>4 DEF FindStale, LockIsHeld, SocketsAreOwn
  <2>3. StaleIsDead'
    BY <1>4 DEF FindStale, StaleIsDead, Listens, Answered
  <2>4. CheckedIsOwn'
    BY <1>4 DEF FindStale, CheckedIsOwn
  <2>5. ListenerIsReachable'
    BY <1>4 DEF FindStale, ListenerIsReachable, Listens
  <2> QED BY <2>1, <2>2, <2>3, <2>4, <2>5
<1>5. ASSUME NEW d \in Daemons, RemoveStale(d) PROVE EndpointInv'
  <2>1. EndpointTypeOK'
    BY <1>5 DEF RemoveStale, Unlock, Off
  <2>2. LockIsHeld' /\ SocketsAreOwn'
    BY <1>5 DEF RemoveStale, Unlock, Off, LockIsHeld, SocketsAreOwn
  <2>3. StaleIsDead'
    BY <1>5 DEF RemoveStale, Unlock, Off, StaleIsDead, Listens
  <2>4. CheckedIsOwn'
    BY <1>5 DEF RemoveStale, Unlock, Off, CheckedIsOwn
  <2>5. ListenerIsReachable'
    BY <1>5 DEF RemoveStale, Unlock, Off, ListenerIsReachable, Listens, StaleIsDead
  <2> QED BY <2>1, <2>2, <2>3, <2>4, <2>5
<1>6. ASSUME NEW d \in Daemons, Bind(d) PROVE EndpointInv'
  <2>1. CASE endpoint = NoSocket
    <3>1. /\ endpoint' = sockets + 1 /\ sockets' = sockets + 1 /\ startupLock' = startupLock
          /\ daemons[d].pc = "clean" /\ sockets + 1 \in 1 .. MaxSockets
          /\ daemons'[d].pc = "bound" /\ daemons'[d].socket = sockets + 1
          /\ \A e \in Daemons \ {d} : daemons'[e] = daemons[e]
      BY <1>6, <2>1 DEF Bind
    <3>2. /\ raced' \in BOOLEAN
          /\ ~raced' => ~raced /\ \A e \in Daemons : daemons[e].pc # "unlinking"
      BY <1>6, <2>1 DEF Bind
    <3>3. 1 .. sockets \subseteq 1 .. sockets' /\ sockets + 1 \in 1 .. sockets'
      BY <3>1
    <3>4. EndpointTypeOK'
      BY <1>6, <2>1, <3>1, <3>3, <3>2 DEF Bind
    <3>5. \A e \in Daemons : daemons[e].socket # sockets + 1
      BY <3>1
    <3>6. LockIsHeld' /\ SocketsAreOwn' /\ StaleIsDead'
      BY <3>1, <3>5 DEF LockIsHeld, SocketsAreOwn, StaleIsDead, Listens
    <3>7. CheckedIsOwn'
      BY <3>1, <3>2 DEF CheckedIsOwn
    <3>8. ListenerIsReachable'
      BY <2>1, <3>1, <3>2 DEF ListenerIsReachable, Listens, SocketsAreOwn
    <3> QED BY <3>4, <3>6, <3>7, <3>8
  <2>2. CASE endpoint # NoSocket
    <3>1. EndpointTypeOK'
      BY <1>6, <2>2 DEF Bind, Step, Unlock
    <3>2. LockIsHeld' /\ SocketsAreOwn' /\ StaleIsDead'
      BY <1>6, <2>2 DEF Bind, Step, Unlock, LockIsHeld, SocketsAreOwn, StaleIsDead, Listens
    <3>3. CheckedIsOwn' /\ ListenerIsReachable'
      BY <1>6, <2>2 DEF Bind, Step, Unlock, CheckedIsOwn, ListenerIsReachable, Listens
    <3> QED BY <3>1, <3>2, <3>3
  <2> QED BY <2>1, <2>2
<1>7. ASSUME NEW d \in Daemons, Identify(d) PROVE EndpointInv'
  <2>1. EndpointTypeOK'
    BY <1>7 DEF Identify, Step, Unlock, Off
  <2>2. LockIsHeld' /\ SocketsAreOwn'
    BY <1>7 DEF Identify, Step, Unlock, Off, LockIsHeld, SocketsAreOwn
  <2>3. StaleIsDead'
    BY <1>7 DEF Identify, Step, Unlock, Off, StaleIsDead, Listens
  <2>4. CheckedIsOwn'
    BY <1>7 DEF Identify, Step, Unlock, Off, CheckedIsOwn
  <2>5. ListenerIsReachable'
    BY <1>7 DEF Identify, Step, Unlock, Off, ListenerIsReachable, Listens
  <2> QED BY <2>1, <2>2, <2>3, <2>4, <2>5
<1>8. ASSUME NEW d \in Daemons, Listen(d) PROVE EndpointInv'
  <2>1. EndpointTypeOK'
    BY <1>8 DEF Listen, Step
  <2>2. LockIsHeld' /\ SocketsAreOwn'
    BY <1>8 DEF Listen, Step, LockIsHeld, SocketsAreOwn
  <2>3. StaleIsDead'
    BY <1>8 DEF Listen, Step, StaleIsDead, Listens, LockIsHeld
  <2>4. CheckedIsOwn'
    BY <1>8 DEF Listen, Step, CheckedIsOwn
  <2>5. ListenerIsReachable'
    BY <1>8 DEF Listen, Step, ListenerIsReachable, Listens
  <2> QED BY <2>1, <2>2, <2>3, <2>4, <2>5
<1>9. ASSUME NEW d \in Daemons, Serve(d) PROVE EndpointInv'
  <2>1. EndpointTypeOK'
    BY <1>9 DEF Serve, Step, Unlock
  <2>2. LockIsHeld' /\ SocketsAreOwn'
    BY <1>9 DEF Serve, Step, Unlock, LockIsHeld, SocketsAreOwn
  <2>3. StaleIsDead'
    BY <1>9 DEF Serve, Step, Unlock, StaleIsDead, Listens
  <2>4. CheckedIsOwn'
    BY <1>9 DEF Serve, Step, Unlock, CheckedIsOwn
  <2>5. ListenerIsReachable'
    BY <1>9 DEF Serve, Step, Unlock, ListenerIsReachable, Listens
  <2> QED BY <2>1, <2>2, <2>3, <2>4, <2>5
<1>10. ASSUME NEW d \in Daemons, NEW removed \in BOOLEAN, Rollback(d, removed) PROVE EndpointInv'
  <2>1. EndpointTypeOK'
    BY <1>10 DEF Rollback, Unlock, Off
  <2>2. LockIsHeld' /\ SocketsAreOwn'
    BY <1>10 DEF Rollback, Unlock, Off, LockIsHeld, SocketsAreOwn
  <2>3. StaleIsDead'
    BY <1>10 DEF Rollback, Unlock, Off, StaleIsDead, Listens
  <2>4. CheckedIsOwn'
    BY <1>10 DEF Rollback, Unlock, Off, CheckedIsOwn, SocketsAreOwn
  <2>5. ListenerIsReachable'
    BY <1>10 DEF Rollback, Unlock, Off, ListenerIsReachable, Listens, SocketsAreOwn
  <2> QED BY <2>1, <2>2, <2>3, <2>4, <2>5
<1>11. ASSUME NEW d \in Daemons, FailStart(d) PROVE EndpointInv'
  <2>1. EndpointTypeOK'
    BY <1>11 DEF FailStart, Unlock, Off
  <2>2. LockIsHeld' /\ SocketsAreOwn'
    BY <1>11 DEF FailStart, Unlock, Off, LockIsHeld, SocketsAreOwn
  <2>3. StaleIsDead'
    BY <1>11 DEF FailStart, Unlock, Off, StaleIsDead, Listens
  <2>4. CheckedIsOwn'
    BY <1>11 DEF FailStart, Unlock, Off, CheckedIsOwn
  <2>5. ListenerIsReachable'
    BY <1>11 DEF FailStart, Unlock, Off, ListenerIsReachable, Listens
  <2> QED BY <2>1, <2>2, <2>3, <2>4, <2>5
<1>12. ASSUME NEW d \in Daemons, CloseListener(d) PROVE EndpointInv'
  <2>1. EndpointTypeOK'
    BY <1>12 DEF CloseListener, Step
  <2>2. LockIsHeld' /\ SocketsAreOwn'
    BY <1>12 DEF CloseListener, Step, LockIsHeld, SocketsAreOwn
  <2>3. StaleIsDead'
    BY <1>12 DEF CloseListener, Step, StaleIsDead, Listens
  <2>4. CheckedIsOwn'
    BY <1>12 DEF CloseListener, Step, CheckedIsOwn
  <2>5. ListenerIsReachable'
    BY <1>12 DEF CloseListener, Step, ListenerIsReachable, Listens
  <2> QED BY <2>1, <2>2, <2>3, <2>4, <2>5
<1>13. ASSUME NEW d \in Daemons, CheckOwn(d) PROVE EndpointInv'
  <2>1. EndpointTypeOK'
    BY <1>13 DEF CheckOwn, Step, Off
  <2>2. LockIsHeld' /\ SocketsAreOwn'
    BY <1>13 DEF CheckOwn, Step, Off, LockIsHeld, SocketsAreOwn
  <2>3. StaleIsDead'
    BY <1>13 DEF CheckOwn, Step, Off, StaleIsDead, Listens
  <2>4. CheckedIsOwn'
    BY <1>13 DEF CheckOwn, Step, Off, CheckedIsOwn
  <2>5. ListenerIsReachable'
    BY <1>13 DEF CheckOwn, Step, Off, ListenerIsReachable, Listens
  <2> QED BY <2>1, <2>2, <2>3, <2>4, <2>5
<1>14. ASSUME NEW d \in Daemons, UnlinkOwn(d) PROVE EndpointInv'
  <2>1. EndpointTypeOK'
    BY <1>14 DEF UnlinkOwn, Off
  <2>2. LockIsHeld' /\ SocketsAreOwn'
    BY <1>14 DEF UnlinkOwn, Off, LockIsHeld, SocketsAreOwn
  <2>3. StaleIsDead'
    BY <1>14 DEF UnlinkOwn, Off, StaleIsDead, Listens
  <2>4. CheckedIsOwn'
    BY <1>14 DEF UnlinkOwn, Off, CheckedIsOwn
  <2>5. ListenerIsReachable'
    BY <1>14 DEF UnlinkOwn, Off, ListenerIsReachable, Listens, SocketsAreOwn, CheckedIsOwn
  <2> QED BY <2>1, <2>2, <2>3, <2>4, <2>5
<1>15. ASSUME NEW d \in Daemons, Kill(d) PROVE EndpointInv'
  <2>1. EndpointTypeOK'
    BY <1>15 DEF Kill, Unlock, Off
  <2>2. LockIsHeld' /\ SocketsAreOwn'
    BY <1>15 DEF Kill, Unlock, Off, LockIsHeld, SocketsAreOwn
  <2>3. StaleIsDead'
    BY <1>15 DEF Kill, Unlock, Off, StaleIsDead, Listens
  <2>4. CheckedIsOwn'
    BY <1>15 DEF Kill, Unlock, Off, CheckedIsOwn
  <2>5. ListenerIsReachable'
    BY <1>15 DEF Kill, Unlock, Off, ListenerIsReachable, Listens
  <2> QED BY <2>1, <2>2, <2>3, <2>4, <2>5
<1>16. ASSUME UNCHANGED endpointVars PROVE EndpointInv'
  BY <1>16 DEF endpointVars, LockIsHeld, SocketsAreOwn, StaleIsDead, CheckedIsOwn,
              ListenerIsReachable, Listens
<1> QED BY <1>1, <1>2, <1>3, <1>4, <1>5, <1>6, <1>7, <1>8, <1>9,
           <1>10, <1>11, <1>12, <1>13, <1>14, <1>15, <1>16 DEF EndpointNext

\* Before any daemon starts there is no socket, or one that a dead daemon left.
LEMMA EndpointInitInv == EndpointInit => EndpointInv
<1> SUFFICES ASSUME EndpointInit PROVE EndpointInv
  OBVIOUS
<1>1. EndpointTypeOK
  <2>1. sockets = 1 /\ 1 \in 1 .. MaxSockets /\ 1 \in 1 .. sockets
    BY DaemonEndpointAssumption DEF EndpointInit
  <2>2. Off \in [pc : EndpointPcs, socket : (1 .. sockets) \cup {NoSocket}]
    BY DEF Off, EndpointPcs
  <2>3. raced \in BOOLEAN
    BY DEF EndpointInit
  <2> QED BY <2>1, <2>2, <2>3 DEF EndpointInit, EndpointTypeOK
<1>2. \A d \in Daemons : daemons[d].pc = "off"
  BY DEF EndpointInit, Off
<1>3. LockIsHeld /\ SocketsAreOwn /\ StaleIsDead /\ CheckedIsOwn /\ ListenerIsReachable
  BY <1>2 DEF LockIsHeld, SocketsAreOwn, StaleIsDead, CheckedIsOwn, ListenerIsReachable, Listens,
              UnderLock, Owning
<1> QED BY <1>1, <1>3 DEF EndpointInv

\* The name leads to the daemon that listens, for any number of daemons whose
\* starts, stops, failures and deaths interleave, except when a socket was bound
\* between the identity check and the unlink of a stop.
THEOREM ListenerReachable == EndpointSpec => []ListenerIsReachable
<1>1. EndpointInv => ListenerIsReachable
  BY DEF EndpointInv
<1> QED BY <1>1, EndpointInitInv, EndpointStep, PTL DEF EndpointSpec

\* Under the same condition at most one daemon listens at a time.
THEOREM OneListener ==
    EndpointSpec => [](~raced => \A d, e \in Daemons : Listens(d) /\ Listens(e) => d = e)
<1>1. EndpointInv => (~raced => \A d, e \in Daemons : Listens(d) /\ Listens(e) => d = e)
  BY DEF EndpointInv, ListenerIsReachable, SocketsAreOwn, Listens, Owning
<1> QED BY <1>1, EndpointInitInv, EndpointStep, PTL DEF EndpointSpec

-----------------------------------------------------------------------------
(* The requests.                                                           *)

Flying == {"accepted", "pending", "running"}
InFlight == {c \in Clients : futures[c] \in Flying}

WorkerPcs == {"asleep", "exited", "got", "reading", "read", "done", "finishing"}

RequestsTypeOK ==
    /\ clients \in [Clients -> {"idle", "sent", "not started", "uncertain", "retry", "answered"}]
    /\ futures \in [Clients -> {"none", "closed"} \cup Flying]
    /\ waiting \in Seq(Clients \cup {EndWorker})
    /\ workers \in [Workers -> [pc : WorkerPcs, conn : Clients \cup {"none"}]]
    /\ server \in [stop : BOOLEAN, accepting : BOOLEAN,
                   pc : {"serving", "cancelling", "draining", "closed"}, to : SUBSET Clients]
    /\ dispatched \subseteq Clients

\* A worker that is busy with a connection
Busy(w) == workers[w].pc \in {"got", "reading", "read", "done", "finishing"}

\* A future is run by the one worker that took it, and is not cancelled then.
WorkersAgree ==
    \A w \in Workers : Busy(w) =>
        /\ workers[w].conn \in Clients
        /\ futures[workers[w].conn] \in
              (IF workers[w].pc = "got" THEN {"pending", "closed"} ELSE {"running"})
        /\ \A v \in Workers : Busy(v) /\ workers[v].conn = workers[w].conn => v = w

\* The queue holds no connection that a worker took, and none twice; ...
QueueAgrees ==
    \A i \in 1 .. Len(waiting) : waiting[i] # EndWorker =>
        /\ futures[waiting[i]] \in {"pending", "closed"}
        /\ \A w \in Workers : Busy(w) => workers[w].conn # waiting[i]
        /\ \A j \in 1 .. Len(waiting) : waiting[j] = waiting[i] => j = i

\* ... until the stop begins it holds nothing but futures that wait.
QueueIsLive ==
    server.accepting =>
        /\ server.pc = "serving"
        /\ \A i \in 1 .. Len(waiting) : waiting[i] # EndWorker /\ futures[waiting[i]] = "pending"

\* What is in flight, or was run, was sent; what may be retried is over and was
\* not run.
ClientsAgree ==
    \A c \in Clients :
        /\ futures[c] \in Flying \/ c \in dispatched => clients[c] \notin {"idle", "not started"}
        /\ clients[c] = "retry" => futures[c] = "closed" /\ c \notin dispatched
        /\ c \in dispatched => futures[c] \in {"running", "closed"}

\* SlotsAgree, for a set in flight that is finite, with no slot below zero
FlightAgrees ==
    /\ IsFiniteSet(InFlight) /\ slots \in Nat
    /\ slots = MaxInFlight - Cardinality(InFlight)
    /\ tracked = {c \in Clients : futures[c] \in {"pending", "running"}}

RequestsInv ==
    /\ RequestsTypeOK /\ WorkersAgree /\ QueueAgrees /\ QueueIsLive
    /\ ClientsAgree /\ FlightAgrees

\* What is queued and does not end a worker is a connection.
LEMMA QueuedAreClients ==
    ASSUME RequestsTypeOK
    PROVE  \A i \in 1 .. Len(waiting) : waiting[i] # EndWorker => waiting[i] \in Clients
<1>1. waiting \in Seq(Clients \cup {EndWorker})
  BY DEF RequestsTypeOK
<1> QED BY <1>1

\* Nobody is answered by a future that changes before it is queued, or from
\* waiting to cancelled once the daemon has stopped accepting.
LEMMA FuturesChange ==
    ASSUME RequestsTypeOK, WorkersAgree, QueueAgrees, QueueIsLive,
           UNCHANGED <<workers, waiting>>,
           server'.accepting => server.accepting /\ server'.pc = server.pc,
           \A c \in Clients :
              \/ futures'[c] = futures[c]
              \/ futures[c] \in {"none", "accepted"}
              \/ futures[c] = "pending" /\ futures'[c] = "closed" /\ ~server'.accepting
    PROVE  WorkersAgree' /\ QueueAgrees' /\ QueueIsLive'
<1>1. WorkersAgree'
  <2> SUFFICES ASSUME NEW w \in Workers, Busy(w)
               PROVE  /\ workers[w].conn \in Clients
                      /\ futures'[workers[w].conn] \in
                            (IF workers[w].pc = "got" THEN {"pending", "closed"} ELSE {"running"})
                      /\ \A v \in Workers : Busy(v) /\ workers[v].conn = workers[w].conn => v = w
    BY DEF WorkersAgree, Busy
  <2>1. /\ workers[w].conn \in Clients
        /\ futures[workers[w].conn] \in
              (IF workers[w].pc = "got" THEN {"pending", "closed"} ELSE {"running"})
        /\ \A v \in Workers : Busy(v) /\ workers[v].conn = workers[w].conn => v = w
    BY DEF WorkersAgree
  <2> QED BY <2>1
<1>3. QueueAgrees'
  <2> SUFFICES ASSUME NEW i \in 1 .. Len(waiting), waiting[i] # EndWorker
               PROVE  /\ futures'[waiting[i]] \in {"pending", "closed"}
                      /\ \A w \in Workers : Busy(w) => workers[w].conn # waiting[i]
                      /\ \A j \in 1 .. Len(waiting) : waiting[j] = waiting[i] => j = i
    BY DEF QueueAgrees, Busy
  <2>1. futures[waiting[i]] \in {"pending", "closed"} /\ waiting[i] \in Clients
    BY QueuedAreClients DEF QueueAgrees
  <2> QED BY <2>1 DEF QueueAgrees
<1>4. QueueIsLive'
  BY QueuedAreClients DEF QueueIsLive
<1> QED BY <1>1, <1>3, <1>4

\* The next step of a worker on its request.
LEMMA WorkGoesOn ==
    ASSUME RequestsTypeOK, WorkersAgree, QueueAgrees, QueueIsLive,
           UNCHANGED <<futures, waiting, server>>,
           NEW w \in Workers, workers[w].pc \in {"reading", "read", "done"},
           NEW pc \in {"read", "done", "finishing"}, Work(w, pc)
    PROVE  WorkersAgree' /\ QueueAgrees' /\ QueueIsLive'
<1>1. /\ workers'[w].pc = pc /\ workers'[w].conn = workers[w].conn
      /\ \A v \in Workers \ {w} : workers'[v] = workers[v]
  BY DEF Work, RequestsTypeOK
<1>2. \A v \in Workers : /\ Busy(v)' <=> Busy(v)
                         /\ workers'[v].conn = workers[v].conn
                         /\ Busy(v) => (workers'[v].pc = "got" <=> workers[v].pc = "got")
  BY <1>1 DEF Busy
<1>3. WorkersAgree'
  BY <1>2 DEF WorkersAgree
<1>4. QueueAgrees'
  BY <1>2 DEF QueueAgrees
<1>5. QueueIsLive'
  BY DEF QueueIsLive
<1> QED BY <1>3, <1>4, <1>5

\* Nothing enters or leaves.
LEMMA FlightKept ==
    ASSUME FlightAgrees, UNCHANGED <<slots, tracked>>,
           \A c \in Clients :
              \/ futures'[c] = futures[c]
              \/ futures[c] = "none" /\ futures'[c] = "closed"
              \/ futures[c] = "pending" /\ futures'[c] = "running"
    PROVE  FlightAgrees'
<1>1. InFlight' = InFlight
  BY DEF InFlight, Flying
<1>2. tracked' = {c \in Clients : futures'[c] \in {"pending", "running"}}
  BY DEF FlightAgrees
<1> QED BY <1>1, <1>2 DEF FlightAgrees

\* A connection leaves with its slot.
LEMMA FlightLeaves ==
    ASSUME RequestsTypeOK, FlightAgrees, NEW c \in Clients, futures[c] \in Flying,
           futures' = [futures EXCEPT ![c] = "closed"],
           slots' = slots + 1, tracked' = tracked \ {c}
    PROVE  FlightAgrees'
<1>1. InFlight' = InFlight \ {c} /\ c \in InFlight
  BY DEF InFlight, Flying, RequestsTypeOK
<1>2. Cardinality(InFlight) \in Nat /\ MaxInFlight \in Nat
  BY FS_CardinalityType, DaemonRequestsAssumption DEF FlightAgrees
<1>3. IsFiniteSet(InFlight') /\ Cardinality(InFlight') = Cardinality(InFlight) - 1
  BY <1>1, FS_RemoveElement DEF FlightAgrees
<1>4. tracked' = {d \in Clients : futures'[d] \in {"pending", "running"}}
  BY DEF FlightAgrees, RequestsTypeOK
<1> QED BY <1>2, <1>3, <1>4 DEF FlightAgrees

\* One connection changes for its client.
LEMMA OneClient ==
    ASSUME RequestsTypeOK, ClientsAgree, NEW c \in Clients,
           NEW k \in {"idle", "sent", "not started", "uncertain", "retry", "answered"},
           NEW f \in {"none", "closed"} \cup Flying,
           clients' = [clients EXCEPT ![c] = k], futures' = [futures EXCEPT ![c] = f],
           dispatched' \in {dispatched, dispatched \cup {c}},
           f \in Flying \/ c \in dispatched' => k \notin {"idle", "not started"},
           k = "retry" => f = "closed" /\ c \notin dispatched',
           c \in dispatched' => f \in {"running", "closed"}
    PROVE  /\ ClientsAgree' /\ dispatched' \subseteq Clients
           /\ clients' \in
                 [Clients -> {"idle", "sent", "not started", "uncertain", "retry", "answered"}]
           /\ futures' \in [Clients -> {"none", "closed"} \cup Flying]
<1>1. /\ clients \in [Clients -> {"idle", "sent", "not started", "uncertain", "retry", "answered"}]
      /\ futures \in [Clients -> {"none", "closed"} \cup Flying]
      /\ dispatched \subseteq Clients
  BY DEF RequestsTypeOK
<1>2. ASSUME NEW d \in Clients
      PROVE  /\ futures'[d] \in Flying \/ d \in dispatched'
                   => clients'[d] \notin {"idle", "not started"}
             /\ clients'[d] = "retry" => futures'[d] = "closed" /\ d \notin dispatched'
             /\ d \in dispatched' => futures'[d] \in {"running", "closed"}
  <2>1. CASE d = c
    <3>1. clients'[c] = k /\ futures'[c] = f
      BY <1>1
    <3> QED BY <2>1, <3>1
  <2>2. CASE d # c
    <3>1. /\ clients'[d] = clients[d] /\ futures'[d] = futures[d]
          /\ d \in dispatched' <=> d \in dispatched
      BY <1>1, <2>2
    <3> QED BY <3>1 DEF ClientsAgree
  <2> QED BY <2>1, <2>2
<1>3. ClientsAgree'
  BY <1>2 DEF ClientsAgree
<1> QED BY <1>1, <1>3

\* The steps of a client, which only it sees.
LEMMA ClientSteps ==
    ASSUME RequestsInv, NEW c \in Clients, SendRequest(c) \/ Refused(c) \/ GiveUp(c)
    PROVE  RequestsInv'
<1>1. PICK k \in {"sent", "not started", "uncertain"} :
            /\ clients' = [clients EXCEPT ![c] = k]
            /\ k = "not started" => clients[c] = "idle"
  BY DEF SendRequest, Refused, GiveUp
<1>2. UNCHANGED <<futures, tracked, waiting, slots, workers, server, dispatched>>
  BY DEF SendRequest, Refused, GiveUp
<1>3. futures' = [futures EXCEPT ![c] = futures[c]]
      /\ futures[c] \in {"none", "closed"} \cup Flying
  BY <1>2 DEF RequestsInv, RequestsTypeOK
<1>4. /\ futures[c] \in Flying \/ c \in dispatched => clients[c] \notin {"idle", "not started"}
      /\ c \in dispatched => futures[c] \in {"running", "closed"}
  BY DEF RequestsInv, ClientsAgree
<1>5. k # "retry" /\ (futures[c] \in Flying \/ c \in dispatched => k \notin {"idle", "not started"})
  BY <1>1, <1>4
<1>6. /\ ClientsAgree'
      /\ clients' \in [Clients -> {"idle", "sent", "not started", "uncertain", "retry", "answered"}]
  BY <1>1, <1>2, <1>3, <1>4, <1>5, OneClient DEF RequestsInv
<1>7. RequestsTypeOK'
  BY <1>2, <1>6 DEF RequestsInv, RequestsTypeOK
<1>8. WorkersAgree' /\ QueueAgrees' /\ QueueIsLive'
  BY <1>2 DEF RequestsInv, WorkersAgree, QueueAgrees, QueueIsLive, Busy
<1>9. FlightAgrees'
  BY <1>2, FlightKept DEF RequestsInv
<1> QED BY <1>6, <1>7, <1>8, <1>9 DEF RequestsInv

\* The accept loop takes a slot for a connection.
LEMMA AcceptStep ==
    ASSUME RequestsInv, NEW c \in Clients, Accept(c)
    PROVE  RequestsInv'
<1>1. /\ futures[c] = "none" /\ clients[c] \notin {"idle", "not started"}
      /\ slots > 0 /\ slots' = slots - 1
      /\ futures' = [futures EXCEPT ![c] = "accepted"]
      /\ UNCHANGED <<clients, tracked, waiting, workers, server, dispatched>>
  BY DEF Accept, Pending, HasSlot
<1>2. /\ futures \in [Clients -> {"none", "closed"} \cup Flying]
      /\ clients \in [Clients -> {"idle", "sent", "not started", "uncertain", "retry", "answered"}]
  BY DEF RequestsInv, RequestsTypeOK
<1>3. futures'[c] = "accepted" /\ \A d \in Clients \ {c} : futures'[d] = futures[d]
  BY <1>1, <1>2
<1>4. clients' = [clients EXCEPT ![c] = clients[c]]
  BY <1>1, <1>2
<1>5. clients[c] # "retry" /\ c \notin dispatched /\ "accepted" \in {"none", "closed"} \cup Flying
  BY <1>1 DEF RequestsInv, ClientsAgree, Flying
<1>6. ClientsAgree' /\ futures' \in [Clients -> {"none", "closed"} \cup Flying]
  BY <1>1, <1>2, <1>4, <1>5, OneClient DEF RequestsInv
<1>7. RequestsTypeOK'
  BY <1>1, <1>6 DEF RequestsInv, RequestsTypeOK
<1>8. \A d \in Clients : futures'[d] = futures[d] \/ futures[d] \in {"none", "accepted"}
  BY <1>1, <1>3
<1>9. WorkersAgree' /\ QueueAgrees' /\ QueueIsLive'
  BY <1>1, <1>8, FuturesChange DEF RequestsInv
<1>10. InFlight' = InFlight \cup {c} /\ c \notin InFlight
  BY <1>1, <1>3 DEF InFlight, Flying
<1>11. FlightAgrees'
  <2>1. IsFiniteSet(InFlight') /\ Cardinality(InFlight') = Cardinality(InFlight) + 1
    BY <1>10, FS_AddElement DEF RequestsInv, FlightAgrees
  <2>2. Cardinality(InFlight) \in Nat /\ MaxInFlight \in Nat
    BY FS_CardinalityType, DaemonRequestsAssumption DEF RequestsInv, FlightAgrees
  <2>3. tracked' = {d \in Clients : futures'[d] \in {"pending", "running"}}
    BY <1>1, <1>3 DEF RequestsInv, FlightAgrees
  <2>4. slots \in Nat /\ slots = MaxInFlight - Cardinality(InFlight)
    BY DEF RequestsInv, FlightAgrees
  <2>5. slots > 0 /\ slots' = slots - 1
    BY <1>1
  <2>6. slots' \in Nat
    BY <2>4, <2>5
  <2>7. slots' = MaxInFlight - Cardinality(InFlight')
    BY <2>1, <2>2, <2>4, <2>5
  <2> QED BY <2>1, <2>3, <2>6, <2>7 DEF FlightAgrees
<1> QED BY <1>6, <1>7, <1>9, <1>11 DEF RequestsInv

\* A connection that is neither queued nor run is closed, and its client may
\* try again.
LEMMA TurnedAway ==
    ASSUME RequestsInv, NEW c \in Clients, clients' = Told(c, "retry"),
           futures' = [futures EXCEPT ![c] = "closed"], c \notin dispatched,
           \/ futures[c] = "none" /\ UNCHANGED <<slots, tracked, server>>
           \/ futures[c] = "accepted" /\ slots' = slots + 1 /\ UNCHANGED <<tracked, server>>
           \/ /\ futures[c] = "pending" /\ slots' = slots + 1 /\ tracked' = tracked \ {c}
              /\ server.pc # "serving" /\ server' = [server EXCEPT !.to = @ \ {c}],
           UNCHANGED <<waiting, workers, dispatched>>
    PROVE  RequestsInv'
<1>1. /\ futures \in [Clients -> {"none", "closed"} \cup Flying]
      /\ clients \in [Clients -> {"idle", "sent", "not started", "uncertain", "retry", "answered"}]
      /\ server \in [stop : BOOLEAN, accepting : BOOLEAN,
                     pc : {"serving", "cancelling", "draining", "closed"}, to : SUBSET Clients]
  BY DEF RequestsInv, RequestsTypeOK
<1>2. futures'[c] = "closed" /\ \A d \in Clients \ {c} : futures'[d] = futures[d]
  BY <1>1
<1>3. ClientsAgree' /\ RequestsTypeOK'
  <2>1. PICK k \in {"idle", "sent", "not started", "uncertain", "retry", "answered"} :
           k = IF clients[c] = "sent" THEN "retry" ELSE clients[c]
    BY <1>1
  <2>2. clients' = [clients EXCEPT ![c] = k]
    BY <2>1 DEF Told
  <2>3. "closed" \in {"none", "closed"} \cup Flying /\ "closed" \notin Flying
    BY DEF Flying
  <2>4. /\ ClientsAgree' /\ futures' \in [Clients -> {"none", "closed"} \cup Flying]
        /\ clients' \in
              [Clients -> {"idle", "sent", "not started", "uncertain", "retry", "answered"}]
    BY <2>2, <2>3, OneClient DEF RequestsInv
  <2>5. server' \in [stop : BOOLEAN, accepting : BOOLEAN,
                     pc : {"serving", "cancelling", "draining", "closed"}, to : SUBSET Clients]
    BY <1>1
  <2> QED BY <2>4, <2>5 DEF RequestsInv, RequestsTypeOK
<1>4. WorkersAgree' /\ QueueAgrees' /\ QueueIsLive'
  <2>1. server'.accepting => server.accepting /\ server'.pc = server.pc
    BY <1>1
  <2>2. futures[c] = "pending" => ~server'.accepting
    BY <1>1 DEF RequestsInv, QueueIsLive
  <2>3. \A d \in Clients :
           \/ futures'[d] = futures[d]
           \/ futures[d] \in {"none", "accepted"}
           \/ futures[d] = "pending" /\ futures'[d] = "closed" /\ ~server'.accepting
    BY <1>2, <2>2
  <2> QED BY <2>1, <2>3, FuturesChange DEF RequestsInv
<1>5. FlightAgrees'
  <2>1. CASE futures[c] = "none"
    <3>1. \A d \in Clients : \/ futures'[d] = futures[d]
                             \/ futures[d] = "none" /\ futures'[d] = "closed"
      BY <1>2, <2>1
    <3> QED BY <2>1, <3>1, FlightKept DEF RequestsInv
  <2>2. CASE futures[c] # "none"
    <3>1. futures[c] \in Flying /\ slots' = slots + 1
      BY <2>2 DEF Flying
    <3>2. tracked' = tracked \ {c}
      BY <2>2 DEF RequestsInv, FlightAgrees
    <3> QED BY <3>1, <3>2, FlightLeaves DEF RequestsInv
  <2> QED BY <2>1, <2>2
<1> QED BY <1>3, <1>4, <1>5 DEF RequestsInv

\* The loop and the stop turn connections away.
LEMMA RejectSteps ==
    ASSUME RequestsInv, NEW c \in Clients, RejectBusy(c) \/ RejectStopping(c) \/ Cancel(c)
    PROVE  RequestsInv'
<1>1. futures[c] \notin {"running", "closed"} => c \notin dispatched
  BY DEF RequestsInv, ClientsAgree
<1>2. CASE RejectBusy(c)
  BY <1>1, <1>2, TurnedAway DEF RejectBusy, Pending
<1>3. CASE RejectStopping(c)
  BY <1>1, <1>3, TurnedAway DEF RejectStopping
<1>4. CASE Cancel(c) /\ futures[c] = "pending"
  BY <1>1, <1>4, TurnedAway DEF Cancel
<1>5. CASE Cancel(c) /\ futures[c] # "pending"
  <2>1. /\ server' = [server EXCEPT !.to = @ \ {c}]
        /\ UNCHANGED <<clients, futures, tracked, slots, waiting, workers, dispatched>>
    BY <1>5 DEF Cancel
  <2>2. RequestsTypeOK' /\ server'.accepting = server.accepting /\ server'.pc = server.pc
    BY <2>1 DEF RequestsInv, RequestsTypeOK
  <2>3. WorkersAgree' /\ QueueAgrees' /\ QueueIsLive'
    BY <2>1, <2>2, FuturesChange DEF RequestsInv
  <2>4. ClientsAgree'
    BY <2>1 DEF RequestsInv, ClientsAgree
  <2>5. FlightAgrees'
    BY <2>1, FlightKept DEF RequestsInv
  <2> QED BY <2>2, <2>3, <2>4, <2>5 DEF RequestsInv
<1> QED BY <1>2, <1>3, <1>4, <1>5

\* An admitted connection is tracked and queued.
LEMMA SubmitStep ==
    ASSUME RequestsInv, NEW c \in Clients, Submit(c)
    PROVE  RequestsInv'
<1>1. /\ futures[c] = "accepted" /\ futures' = [futures EXCEPT ![c] = "pending"]
      /\ tracked' = tracked \cup {c} /\ waiting' = Append(waiting, c)
      /\ UNCHANGED <<clients, slots, workers, server, dispatched>>
  BY DEF Submit
<1>2. /\ futures \in [Clients -> {"none", "closed"} \cup Flying]
      /\ clients \in [Clients -> {"idle", "sent", "not started", "uncertain", "retry", "answered"}]
      /\ waiting \in Seq(Clients \cup {EndWorker}) /\ c # EndWorker
  BY DaemonRequestsAssumption DEF RequestsInv, RequestsTypeOK
<1>3. futures'[c] = "pending" /\ \A d \in Clients \ {c} : futures'[d] = futures[d]
  BY <1>1, <1>2
<1>4. /\ waiting' \in Seq(Clients \cup {EndWorker})
      /\ Len(waiting) \in Nat /\ Len(waiting') = Len(waiting) + 1 /\ waiting'[Len(waiting) + 1] = c
      /\ \A i \in 1 .. Len(waiting) : waiting'[i] = waiting[i]
                                      /\ waiting[i] \in Clients \cup {EndWorker}
  <2>1. waiting' = Append(waiting, c) /\ c \in Clients \cup {EndWorker}
        /\ waiting \in Seq(Clients \cup {EndWorker})
    BY <1>1, <1>2
  <2>2. \A i \in 1 .. Len(waiting) : waiting[i] \in Clients \cup {EndWorker}
    BY <2>1
  <2>3. /\ waiting' \in Seq(Clients \cup {EndWorker})
        /\ Len(waiting) \in Nat /\ Len(waiting') = Len(waiting) + 1
        /\ waiting'[Len(waiting) + 1] = c
    BY <2>1
  <2>4. \A i \in 1 .. Len(waiting) : waiting'[i] = waiting[i]
    BY <2>1
  <2> QED BY <2>2, <2>3, <2>4
<1>5. ClientsAgree' /\ futures' \in [Clients -> {"none", "closed"} \cup Flying]
  <2>1. clients' = [clients EXCEPT ![c] = clients[c]]
    BY <1>1, <1>2
  <2>2. /\ clients[c] \notin {"idle", "not started", "retry"} /\ c \notin dispatched
        /\ "pending" \in {"none", "closed"} \cup Flying
    BY <1>1 DEF RequestsInv, ClientsAgree, Flying
  <2> QED BY <1>1, <1>2, <2>1, <2>2, OneClient DEF RequestsInv
<1>6. RequestsTypeOK'
  BY <1>1, <1>4, <1>5 DEF RequestsInv, RequestsTypeOK
<1>7. WorkersAgree' /\ \A w \in Workers : Busy(w) => workers[w].conn # c
  <2>1. \A w \in Workers : Busy(w) => workers[w].conn # c
    BY <1>1 DEF RequestsInv, WorkersAgree
  <2>2. \A w \in Workers : Busy(w) => futures'[workers[w].conn] = futures[workers[w].conn]
    BY <1>3, <2>1 DEF RequestsInv, WorkersAgree
  <2> QED BY <1>1, <2>1, <2>2 DEF RequestsInv, WorkersAgree, Busy
<1>8. QueueAgrees' /\ QueueIsLive'
  <2>1. \A i \in 1 .. Len(waiting) : waiting[i] # c
    BY <1>1, <1>2 DEF RequestsInv, QueueAgrees
  <2>2. \A i \in 1 .. Len(waiting) :
           waiting[i] # EndWorker => futures'[waiting[i]] = futures[waiting[i]]
    BY <1>3, <1>4, <2>1
  <2>3. \A i \in 1 .. Len(waiting') : i \in 1 .. Len(waiting) \/ i = Len(waiting) + 1
    BY <1>4
  <2>4. QueueAgrees'
    <3> SUFFICES ASSUME NEW i \in 1 .. Len(waiting'), waiting'[i] # EndWorker
                 PROVE  /\ futures'[waiting'[i]] \in {"pending", "closed"}
                        /\ \A w \in Workers : Busy(w) => workers[w].conn # waiting'[i]
                        /\ \A j \in 1 .. Len(waiting') : waiting'[j] = waiting'[i] => j = i
      BY <1>1 DEF QueueAgrees, Busy
    <3>1. CASE i \in 1 .. Len(waiting)
      <4>1. /\ futures[waiting[i]] \in {"pending", "closed"} /\ waiting'[i] = waiting[i]
            /\ \A w \in Workers : Busy(w) => workers[w].conn # waiting[i]
            /\ \A j \in 1 .. Len(waiting) : waiting[j] = waiting[i] => j = i
        BY <1>4, <3>1 DEF RequestsInv, QueueAgrees
      <4> QED BY <1>4, <2>1, <2>2, <2>3, <3>1, <4>1
    <3>2. CASE i = Len(waiting) + 1
      BY <1>3, <1>4, <1>7, <2>1, <2>3, <3>2
    <3> QED BY <2>3, <3>1, <3>2
  <2>5. QueueIsLive'
    <3> SUFFICES ASSUME server.accepting
                 PROVE  /\ server.pc = "serving"
                        /\ \A i \in 1 .. Len(waiting') :
                              waiting'[i] # EndWorker /\ futures'[waiting'[i]] = "pending"
      BY <1>1 DEF QueueIsLive
    <3>1. /\ server.pc = "serving"
          /\ \A i \in 1 .. Len(waiting) : waiting[i] # EndWorker /\ futures[waiting[i]] = "pending"
      BY DEF RequestsInv, QueueIsLive
    <3> QED BY <1>2, <1>3, <1>4, <2>2, <2>3, <3>1
  <2> QED BY <2>4, <2>5
<1>9. FlightAgrees'
  <2>1. InFlight' = InFlight
    BY <1>1, <1>3 DEF InFlight, Flying
  <2>2. tracked' = {d \in Clients : futures'[d] \in {"pending", "running"}}
    BY <1>1, <1>3 DEF RequestsInv, FlightAgrees
  <2> QED BY <1>1, <2>1, <2>2 DEF RequestsInv, FlightAgrees
<1> QED BY <1>5, <1>6, <1>7, <1>8, <1>9 DEF RequestsInv

\* A worker takes the head of the queue, or ends.
LEMMA TakeStep ==
    ASSUME RequestsInv, NEW w \in Workers, Take(w)
    PROVE  RequestsInv'
<1> DEFINE h == Head(waiting)
<1>1. /\ workers[w] = Asleep /\ waiting # <<>> /\ waiting' = Tail(waiting)
      /\ workers' = [workers EXCEPT ![w] = IF h = EndWorker THEN [Asleep EXCEPT !.pc = "exited"]
                                           ELSE [pc |-> "got", conn |-> h]]
      /\ UNCHANGED <<clients, futures, tracked, slots, server, dispatched>>
  BY DEF Take
<1>2. /\ waiting \in Seq(Clients \cup {EndWorker})
      /\ workers \in [Workers -> [pc : WorkerPcs, conn : Clients \cup {"none"}]]
  BY DEF RequestsInv, RequestsTypeOK
<1>3. /\ waiting' \in Seq(Clients \cup {EndWorker})
      /\ Len(waiting) \in Nat /\ 1 \in 1 .. Len(waiting) /\ h = waiting[1]
      /\ h \in Clients \cup {EndWorker}
      /\ \A i \in 1 .. Len(waiting') : i + 1 \in 1 .. Len(waiting) /\ i + 1 # 1
                                       /\ waiting'[i] = waiting[i + 1]
      /\ \A i, j \in 1 .. Len(waiting') : i + 1 = j + 1 => i = j
  BY <1>1, <1>2
<1>4. \A v \in Workers \ {w} : workers'[v] = workers[v]
  BY <1>1, <1>2
<1>5. /\ workers' \in [Workers -> [pc : WorkerPcs, conn : Clients \cup {"none"}]]
      /\ h = EndWorker => workers'[w].pc = "exited"
      /\ h # EndWorker => workers'[w].pc = "got" /\ workers'[w].conn = h
  BY <1>1, <1>2, <1>3 DEF Asleep, WorkerPcs
<1>6. RequestsTypeOK'
  BY <1>1, <1>3, <1>5 DEF RequestsInv, RequestsTypeOK
<1>7. /\ \A v \in Workers \ {w} : /\ Busy(v)' <=> Busy(v)
                                  /\ workers'[v].conn = workers[v].conn
                                  /\ workers'[v].pc = workers[v].pc
      /\ Busy(w)' <=> h # EndWorker
      /\ ~Busy(w)
  BY <1>1, <1>4, <1>5 DEF Busy, Asleep
<1>8. h # EndWorker =>
         /\ h \in Clients /\ futures[h] \in {"pending", "closed"}
         /\ \A v \in Workers : Busy(v) => workers[v].conn # h
         /\ \A j \in 1 .. Len(waiting) : waiting[j] = h => j = 1
  BY <1>3 DEF RequestsInv, QueueAgrees
<1>9. WorkersAgree'
  <2> SUFFICES ASSUME NEW v \in Workers, Busy(v)'
               PROVE  /\ workers'[v].conn \in Clients
                      /\ futures[workers'[v].conn] \in
                           (IF workers'[v].pc = "got" THEN {"pending", "closed"} ELSE {"running"})
                      /\ \A u \in Workers :
                            Busy(u)' /\ workers'[u].conn = workers'[v].conn => u = v
    BY <1>1 DEF WorkersAgree
  <2>1. CASE v = w
    BY <1>5, <1>7, <1>8, <2>1
  <2>2. CASE v # w
    <3>1. /\ workers[v].conn \in Clients
          /\ futures[workers[v].conn] \in
                (IF workers[v].pc = "got" THEN {"pending", "closed"} ELSE {"running"})
          /\ \A u \in Workers : Busy(u) /\ workers[u].conn = workers[v].conn => u = v
      BY <1>7, <2>2 DEF RequestsInv, WorkersAgree
    <3> QED BY <1>5, <1>7, <1>8, <2>2, <3>1
  <2> QED BY <2>1, <2>2
<1>10. QueueAgrees'
  <2> SUFFICES ASSUME NEW i \in 1 .. Len(waiting'), waiting'[i] # EndWorker
               PROVE  /\ futures[waiting'[i]] \in {"pending", "closed"}
                      /\ \A v \in Workers : Busy(v)' => workers'[v].conn # waiting'[i]
                      /\ \A j \in 1 .. Len(waiting') : waiting'[j] = waiting'[i] => j = i
    BY <1>1 DEF QueueAgrees
  <2>1. /\ futures[waiting[i + 1]] \in {"pending", "closed"}
        /\ \A v \in Workers : Busy(v) => workers[v].conn # waiting[i + 1]
        /\ \A j \in 1 .. Len(waiting) : waiting[j] = waiting[i + 1] => j = i + 1
    BY <1>3 DEF RequestsInv, QueueAgrees
  <2>2. \A v \in Workers : Busy(v)' => workers'[v].conn # waiting'[i]
    BY <1>3, <1>5, <1>7, <1>8, <2>1
  <2>3. \A j \in 1 .. Len(waiting') : waiting'[j] = waiting'[i] => j = i
    BY <1>3, <2>1
  <2> QED BY <1>3, <2>1, <2>2, <2>3
<1>11. QueueIsLive'
  BY <1>1, <1>3 DEF RequestsInv, QueueIsLive
<1>12. ClientsAgree'
  BY <1>1 DEF RequestsInv, ClientsAgree
<1>13. FlightAgrees'
  BY <1>1, FlightKept DEF RequestsInv
<1> QED BY <1>6, <1>9, <1>10, <1>11, <1>12, <1>13 DEF RequestsInv

\* A worker starts a future, or drops it when it was cancelled.
LEMMA BeginStep ==
    ASSUME RequestsInv, NEW w \in Workers, Begin(w)
    PROVE  RequestsInv'
<1> DEFINE c == workers[w].conn
<1>1. workers[w].pc = "got" /\ UNCHANGED <<clients, tracked, waiting, slots, server, dispatched>>
  BY DEF Begin
<1>2. /\ futures \in [Clients -> {"none", "closed"} \cup Flying]
      /\ clients \in [Clients -> {"idle", "sent", "not started", "uncertain", "retry", "answered"}]
      /\ waiting \in Seq(Clients \cup {EndWorker})
      /\ workers \in [Workers -> [pc : WorkerPcs, conn : Clients \cup {"none"}]]
  BY DEF RequestsInv, RequestsTypeOK
<1>3. /\ Busy(w) /\ c \in Clients /\ futures[c] \in {"pending", "closed"}
      /\ \A v \in Workers : Busy(v) /\ workers[v].conn = c => v = w
  BY <1>1 DEF Busy, RequestsInv, WorkersAgree
<1>4. \A i \in 1 .. Len(waiting) : waiting[i] # EndWorker => waiting[i] # c
  BY <1>3 DEF RequestsInv, QueueAgrees
<1>5. CASE futures[c] = "pending"
  <2>1. futures' = [futures EXCEPT ![c] = "running"] /\ Work(w, "reading")
    BY <1>5 DEF Begin
  <2>2. futures'[c] = "running" /\ \A d \in Clients \ {c} : futures'[d] = futures[d]
    BY <1>2, <1>3, <2>1
  <2>3. /\ workers' \in [Workers -> [pc : WorkerPcs, conn : Clients \cup {"none"}]]
        /\ workers'[w].pc = "reading" /\ workers'[w].conn = c
        /\ \A v \in Workers \ {w} : workers'[v] = workers[v]
    BY <1>2, <2>1 DEF Work, WorkerPcs
  <2>4. ClientsAgree' /\ futures' \in [Clients -> {"none", "closed"} \cup Flying]
    <3>1. clients' = [clients EXCEPT ![c] = clients[c]]
      BY <1>1, <1>2
    <3>2. /\ clients[c] \notin {"idle", "not started", "retry"}
          /\ "running" \in {"none", "closed"} \cup Flying
      BY <1>3, <1>5 DEF RequestsInv, ClientsAgree, Flying
    <3>3. clients[c] \in {"idle", "sent", "not started", "uncertain", "retry", "answered"}
      BY <1>2, <1>3
    <3> QED BY <1>1, <1>3, <2>1, <3>1, <3>2, <3>3, OneClient DEF RequestsInv
  <2>5. RequestsTypeOK'
    BY <1>1, <2>3, <2>4 DEF RequestsInv, RequestsTypeOK
  <2>6. \A v \in Workers : (Busy(v)' <=> Busy(v)) /\ workers'[v].conn = workers[v].conn
    BY <1>1, <1>3, <2>3 DEF Busy
  <2>7. WorkersAgree'
    <3> SUFFICES ASSUME NEW v \in Workers, Busy(v)
                 PROVE  /\ workers[v].conn \in Clients
                        /\ futures'[workers[v].conn] \in
                             (IF workers'[v].pc = "got" THEN {"pending", "closed"} ELSE {"running"})
                        /\ \A u \in Workers :
                              Busy(u) /\ workers[u].conn = workers[v].conn => u = v
      BY <2>6 DEF WorkersAgree
    <3>1. CASE v = w
      BY <1>3, <2>2, <2>3, <3>1
    <3>2. CASE v # w
      <4>1. /\ workers[v].conn \in Clients
            /\ futures[workers[v].conn] \in
                  (IF workers[v].pc = "got" THEN {"pending", "closed"} ELSE {"running"})
            /\ \A u \in Workers : Busy(u) /\ workers[u].conn = workers[v].conn => u = v
        BY DEF RequestsInv, WorkersAgree
      <4> QED BY <1>3, <2>2, <2>3, <3>2, <4>1
    <3> QED BY <3>1, <3>2
  <2>8. \A i \in 1 .. Len(waiting) :
           waiting[i] # EndWorker => futures'[waiting[i]] = futures[waiting[i]]
    BY <1>4, <2>2, QueuedAreClients DEF RequestsInv
  <2>9. QueueAgrees' /\ QueueIsLive'
    BY <1>1, <2>6, <2>8 DEF RequestsInv, QueueAgrees, QueueIsLive
  <2>10. FlightAgrees'
    <3>1. \A d \in Clients : \/ futures'[d] = futures[d]
                             \/ futures[d] = "pending" /\ futures'[d] = "running"
      BY <1>5, <2>2
    <3> QED BY <1>1, <3>1, FlightKept DEF RequestsInv
  <2> QED BY <2>4, <2>5, <2>7, <2>9, <2>10 DEF RequestsInv
<1>6. CASE futures[c] # "pending"
  <2>1. workers' = [workers EXCEPT ![w] = Asleep] /\ UNCHANGED futures
    BY <1>6 DEF Begin
  <2>2. /\ workers' \in [Workers -> [pc : WorkerPcs, conn : Clients \cup {"none"}]]
        /\ workers'[w].pc = "asleep" /\ \A v \in Workers \ {w} : workers'[v] = workers[v]
    BY <1>2, <2>1 DEF Asleep, WorkerPcs
  <2>3. RequestsTypeOK'
    BY <1>1, <2>1, <2>2 DEF RequestsInv, RequestsTypeOK
  <2>4. \A v \in Workers : Busy(v)' => v # w /\ Busy(v) /\ workers'[v] = workers[v]
    BY <2>2 DEF Busy
  <2>5. WorkersAgree' /\ QueueAgrees'
    BY <1>1, <2>1, <2>4 DEF RequestsInv, WorkersAgree, QueueAgrees
  <2>6. QueueIsLive' /\ ClientsAgree'
    BY <1>1, <2>1 DEF RequestsInv, QueueIsLive, ClientsAgree
  <2>7. FlightAgrees'
    BY <1>1, <2>1, FlightKept DEF RequestsInv
  <2> QED BY <2>3, <2>5, <2>6, <2>7 DEF RequestsInv
<1> QED BY <1>5, <1>6

\* A worker reads, dispatches or answers its request.
LEMMA WorkSteps ==
    ASSUME RequestsInv, NEW w \in Workers,
           (\E ok \in BOOLEAN : ReadFrame(w, ok)) \/ Dispatch(w) \/ Respond(w)
    PROVE  RequestsInv'
<1> DEFINE c == workers[w].conn
<1>1. PICK pc \in {"read", "done", "finishing"} : Work(w, pc)
  BY DEF ReadFrame, Dispatch, Respond
<1>2. /\ workers[w].pc \in {"reading", "read", "done"}
      /\ UNCHANGED <<futures, tracked, waiting, slots, server>>
  BY DEF ReadFrame, Dispatch, Respond
<1>3. /\ futures \in [Clients -> {"none", "closed"} \cup Flying]
      /\ clients \in [Clients -> {"idle", "sent", "not started", "uncertain", "retry", "answered"}]
      /\ workers \in [Workers -> [pc : WorkerPcs, conn : Clients \cup {"none"}]]
  BY DEF RequestsInv, RequestsTypeOK
<1>4. c \in Clients /\ futures[c] = "running"
  BY <1>2 DEF Busy, RequestsInv, WorkersAgree
<1>5. clients[c] \notin {"idle", "not started", "retry"}
  BY <1>4 DEF RequestsInv, ClientsAgree, Flying
<1>6. PICK k \in {"idle", "sent", "not started", "uncertain", "retry", "answered"} :
         /\ k \notin {"idle", "not started", "retry"}
         /\ clients' = [clients EXCEPT ![c] = k]
  <2>1. CASE clients' = clients
    <3>1. clients' = [clients EXCEPT ![c] = clients[c]]
      BY <1>3, <2>1
    <3>2. clients[c] \in {"idle", "sent", "not started", "uncertain", "retry", "answered"}
      BY <1>3, <1>4
    <3> QED BY <1>5, <3>1, <3>2
  <2>2. CASE Respond(w)
    <3> DEFINE k == IF clients[c] = "sent"
                    THEN IF server.stop THEN "uncertain" ELSE "answered" ELSE clients[c]
    <3>1. clients' = [clients EXCEPT ![c] = k]
      BY <2>2 DEF Respond, Told
    <3>2. /\ k \in {"idle", "sent", "not started", "uncertain", "retry", "answered"}
          /\ k \notin {"idle", "not started", "retry"}
      BY <1>3, <1>4, <1>5
    <3> QED BY <3>1, <3>2
  <2> QED BY <2>1, <2>2 DEF ReadFrame, Dispatch
<1>7. dispatched' \in {dispatched, dispatched \cup {c}}
  BY DEF ReadFrame, Dispatch, Respond
<1>8. /\ ClientsAgree' /\ dispatched' \subseteq Clients
      /\ clients' \in [Clients -> {"idle", "sent", "not started", "uncertain", "retry", "answered"}]
  <2>1. futures' = [futures EXCEPT ![c] = "running"]
    BY <1>2, <1>3, <1>4
  <2>2. "running" \in {"none", "closed"} \cup Flying
    BY DEF Flying
  <2> QED BY <1>4, <1>6, <1>7, <2>1, <2>2, OneClient DEF RequestsInv
<1>9. workers' \in [Workers -> [pc : WorkerPcs, conn : Clients \cup {"none"}]]
  BY <1>1, <1>3 DEF Work, WorkerPcs
<1>10. RequestsTypeOK'
  BY <1>2, <1>8, <1>9 DEF RequestsInv, RequestsTypeOK
<1>11. WorkersAgree' /\ QueueAgrees' /\ QueueIsLive'
  BY <1>1, <1>2, WorkGoesOn DEF RequestsInv
<1>12. FlightAgrees'
  BY <1>2, FlightKept DEF RequestsInv
<1> QED BY <1>8, <1>10, <1>11, <1>12 DEF RequestsInv

\* A worker is done with a future, whose callback releases the slot.
LEMMA FinishStep ==
    ASSUME RequestsInv, NEW w \in Workers, Finish(w)
    PROVE  RequestsInv'
<1> DEFINE c == workers[w].conn
<1>1. /\ workers[w].pc = "finishing" /\ futures' = [futures EXCEPT ![c] = "closed"]
      /\ tracked' = tracked \ {c} /\ slots' = slots + 1
      /\ workers' = [workers EXCEPT ![w] = Asleep]
      /\ UNCHANGED <<clients, waiting, server, dispatched>>
  BY DEF Finish
<1>2. /\ futures \in [Clients -> {"none", "closed"} \cup Flying]
      /\ clients \in [Clients -> {"idle", "sent", "not started", "uncertain", "retry", "answered"}]
      /\ waiting \in Seq(Clients \cup {EndWorker})
      /\ workers \in [Workers -> [pc : WorkerPcs, conn : Clients \cup {"none"}]]
  BY DEF RequestsInv, RequestsTypeOK
<1>3. /\ Busy(w) /\ c \in Clients /\ futures[c] = "running"
      /\ \A v \in Workers : Busy(v) /\ workers[v].conn = c => v = w
  BY <1>1 DEF Busy, RequestsInv, WorkersAgree
<1>4. futures'[c] = "closed" /\ \A d \in Clients \ {c} : futures'[d] = futures[d]
  BY <1>1, <1>2, <1>3
<1>5. /\ workers' \in [Workers -> [pc : WorkerPcs, conn : Clients \cup {"none"}]]
      /\ workers'[w].pc = "asleep" /\ \A v \in Workers \ {w} : workers'[v] = workers[v]
  BY <1>1, <1>2 DEF Asleep, WorkerPcs
<1>6. ClientsAgree' /\ futures' \in [Clients -> {"none", "closed"} \cup Flying]
  <2>1. clients' = [clients EXCEPT ![c] = clients[c]]
    BY <1>1, <1>2
  <2>2. /\ clients[c] \notin {"idle", "not started", "retry"}
        /\ "closed" \in {"none", "closed"} \cup Flying
    BY <1>3 DEF RequestsInv, ClientsAgree, Flying
  <2>3. clients[c] \in {"idle", "sent", "not started", "uncertain", "retry", "answered"}
    BY <1>2, <1>3
  <2> QED BY <1>1, <1>3, <2>1, <2>2, <2>3, OneClient DEF RequestsInv
<1>7. RequestsTypeOK'
  BY <1>1, <1>5, <1>6 DEF RequestsInv, RequestsTypeOK
<1>8. \A v \in Workers : Busy(v)' => Busy(v) /\ workers'[v] = workers[v] /\ workers[v].conn # c
  BY <1>3, <1>5 DEF Busy
<1>9. WorkersAgree'
  <2>1. \A v \in Workers : Busy(v)' => futures'[workers[v].conn] = futures[workers[v].conn]
    BY <1>4, <1>8 DEF RequestsInv, WorkersAgree
  <2> QED BY <1>8, <2>1 DEF RequestsInv, WorkersAgree
<1>10. QueueAgrees' /\ QueueIsLive'
  <2>1. \A i \in 1 .. Len(waiting) : waiting[i] # EndWorker => waiting[i] # c
    BY <1>3 DEF RequestsInv, QueueAgrees
  <2>2. \A i \in 1 .. Len(waiting) :
           waiting[i] # EndWorker => futures'[waiting[i]] = futures[waiting[i]]
    BY <1>4, <2>1, QueuedAreClients DEF RequestsInv
  <2> QED BY <1>1, <1>8, <2>2 DEF RequestsInv, QueueAgrees, QueueIsLive
<1>11. FlightAgrees'
  <2>1. futures[c] \in Flying
    BY <1>3 DEF Flying
  <2> QED BY <1>1, <1>3, <2>1, FlightLeaves DEF RequestsInv
<1> QED BY <1>6, <1>7, <1>9, <1>10, <1>11 DEF RequestsInv

\* The steps of the stop that answer or drop whole sets of connections.
LEMMA StopSteps ==
    ASSUME RequestsInv, RequestStop \/ CloseServer \/ EndGrace \/ ShutDown
    PROVE  RequestsInv'
<1>1. /\ futures \in [Clients -> {"none", "closed"} \cup Flying]
      /\ clients \in [Clients -> {"idle", "sent", "not started", "uncertain", "retry", "answered"}]
      /\ server \in [stop : BOOLEAN, accepting : BOOLEAN,
                     pc : {"serving", "cancelling", "draining", "closed"}, to : SUBSET Clients]
      /\ tracked \subseteq Clients
  BY DEF RequestsInv, RequestsTypeOK, FlightAgrees
<1>2. CASE RequestStop
  <2>1. /\ server' = [server EXCEPT !.stop = TRUE]
        /\ UNCHANGED <<clients, futures, tracked, waiting, slots, workers, dispatched>>
    BY <1>2 DEF RequestStop
  <2>2. /\ server' \in [stop : BOOLEAN, accepting : BOOLEAN,
                        pc : {"serving", "cancelling", "draining", "closed"}, to : SUBSET Clients]
        /\ server'.accepting = server.accepting /\ server'.pc = server.pc
    BY <1>1, <2>1
  <2>3. RequestsTypeOK'
    BY <2>1, <2>2 DEF RequestsInv, RequestsTypeOK
  <2>4. WorkersAgree' /\ QueueAgrees' /\ QueueIsLive'
    BY <2>1, <2>2, FuturesChange DEF RequestsInv
  <2>5. ClientsAgree' /\ FlightAgrees'
    BY <2>1, FlightKept DEF RequestsInv, ClientsAgree
  <2> QED BY <2>3, <2>4, <2>5 DEF RequestsInv
<1>3. CASE CloseServer
  <2>1. /\ server' = [stop |-> TRUE, accepting |-> FALSE, pc |-> "cancelling", to |-> tracked]
        /\ clients' = [c \in Clients |-> IF clients[c] = "sent" /\ futures[c] = "none"
                                         THEN "uncertain" ELSE clients[c]]
        /\ futures' = [c \in Clients |-> IF Pending(c) THEN "closed" ELSE futures[c]]
        /\ UNCHANGED <<tracked, waiting, slots, workers, dispatched>>
    BY <1>3 DEF CloseServer
  <2>2. \A c \in Clients :
           /\ \/ futures'[c] = futures[c]
              \/ futures[c] = "none" /\ futures'[c] = "closed"
           /\ \/ clients'[c] = clients[c]
              \/ clients[c] = "sent" /\ clients'[c] = "uncertain"
    BY <2>1 DEF Pending
  <2>3. /\ clients' \in
              [Clients -> {"idle", "sent", "not started", "uncertain", "retry", "answered"}]
        /\ futures' \in [Clients -> {"none", "closed"} \cup Flying]
        /\ server' \in [stop : BOOLEAN, accepting : BOOLEAN,
                        pc : {"serving", "cancelling", "draining", "closed"}, to : SUBSET Clients]
        /\ ~server'.accepting
    BY <1>1, <2>1
  <2>4. RequestsTypeOK'
    BY <2>1, <2>3 DEF RequestsInv, RequestsTypeOK
  <2>5. WorkersAgree' /\ QueueAgrees' /\ QueueIsLive'
    BY <2>1, <2>2, <2>3, FuturesChange DEF RequestsInv
  <2>6. ClientsAgree'
    BY <2>1, <2>2 DEF RequestsInv, ClientsAgree, Flying
  <2>7. FlightAgrees'
    BY <2>1, <2>2, FlightKept DEF RequestsInv
  <2> QED BY <2>4, <2>5, <2>6, <2>7 DEF RequestsInv
<1>4. CASE EndGrace
  <2>1. /\ server.pc = "cancelling" /\ server' = [server EXCEPT !.pc = "draining"]
        /\ clients' = [c \in Clients |-> IF c \in tracked /\ clients[c] = "sent"
                                         THEN "uncertain" ELSE clients[c]]
        /\ UNCHANGED <<futures, tracked, waiting, slots, workers, dispatched>>
    BY <1>4 DEF EndGrace
  <2>2. \A c \in Clients : \/ clients'[c] = clients[c]
                           \/ clients[c] = "sent" /\ clients'[c] = "uncertain"
    BY <2>1
  <2>3. /\ clients' \in
              [Clients -> {"idle", "sent", "not started", "uncertain", "retry", "answered"}]
        /\ server' \in [stop : BOOLEAN, accepting : BOOLEAN,
                        pc : {"serving", "cancelling", "draining", "closed"}, to : SUBSET Clients]
        /\ server'.accepting = server.accepting
    BY <1>1, <2>1
  <2>4. ~server'.accepting
    BY <2>1, <2>3 DEF RequestsInv, QueueIsLive
  <2>5. RequestsTypeOK'
    BY <2>1, <2>3 DEF RequestsInv, RequestsTypeOK
  <2>6. WorkersAgree' /\ QueueAgrees' /\ QueueIsLive'
    BY <2>1, <2>4, FuturesChange DEF RequestsInv
  <2>7. ClientsAgree'
    BY <2>1, <2>2 DEF RequestsInv, ClientsAgree
  <2>8. FlightAgrees'
    BY <2>1, FlightKept DEF RequestsInv
  <2> QED BY <2>5, <2>6, <2>7, <2>8 DEF RequestsInv
<1>5. CASE ShutDown
  <2>1. /\ server.pc = "draining" /\ server' = [server EXCEPT !.pc = "closed"]
        /\ waiting' = [n \in 1 .. Cardinality(Workers) |-> EndWorker]
        /\ UNCHANGED <<clients, futures, tracked, slots, workers, dispatched>>
    BY <1>5 DEF ShutDown
  <2>2. Cardinality(Workers) \in Nat
    BY FS_CardinalityType, DaemonRequestsAssumption
  <2>3. /\ waiting' \in Seq(Clients \cup {EndWorker})
        /\ \A i \in 1 .. Len(waiting') : waiting'[i] = EndWorker
    BY <2>1, <2>2
  <2>4. /\ server' \in [stop : BOOLEAN, accepting : BOOLEAN,
                        pc : {"serving", "cancelling", "draining", "closed"}, to : SUBSET Clients]
        /\ server'.accepting = server.accepting
    BY <1>1, <2>1
  <2>5. ~server'.accepting
    BY <2>1, <2>4 DEF RequestsInv, QueueIsLive
  <2>6. RequestsTypeOK'
    BY <2>1, <2>3, <2>4 DEF RequestsInv, RequestsTypeOK
  <2>7. WorkersAgree' /\ QueueAgrees' /\ QueueIsLive' /\ ClientsAgree'
    BY <2>1, <2>3, <2>5 DEF RequestsInv, WorkersAgree, QueueAgrees, QueueIsLive, ClientsAgree, Busy
  <2>8. FlightAgrees'
    BY <2>1, FlightKept DEF RequestsInv
  <2> QED BY <2>6, <2>7, <2>8 DEF RequestsInv
<1> QED BY <1>2, <1>3, <1>4, <1>5

\* The invariant of the requests holds in every reachable state.
LEMMA RequestsInvariant == RequestsSpec => []RequestsInv
<1>1. RequestsInit => RequestsInv
  <2> SUFFICES ASSUME RequestsInit PROVE RequestsInv
    OBVIOUS
  <2>1. RequestsTypeOK
    BY DEF RequestsInit, RequestsTypeOK, Asleep, WorkerPcs
  <2>2. WorkersAgree /\ QueueAgrees /\ QueueIsLive /\ ClientsAgree
    BY DEF RequestsInit, WorkersAgree, QueueAgrees, QueueIsLive, ClientsAgree, Busy, Asleep, Flying
  <2>3. InFlight = {}
    BY DEF RequestsInit, InFlight, Flying
  <2>4. FlightAgrees
    BY <2>3, FS_EmptySet, DaemonRequestsAssumption DEF RequestsInit, FlightAgrees
  <2> QED BY <2>1, <2>2, <2>4 DEF RequestsInv
<1>2. RequestsInv /\ [RequestsNext]_requestVars => RequestsInv'
  <2> SUFFICES ASSUME RequestsInv, [RequestsNext]_requestVars PROVE RequestsInv'
    OBVIOUS
  <2>1. ASSUME NEW c \in Clients,
               \/ SendRequest(c) \/ Refused(c) \/ GiveUp(c)
               \/ Accept(c) \/ RejectBusy(c) \/ Submit(c) \/ RejectStopping(c) \/ Cancel(c)
        PROVE  RequestsInv'
    BY <2>1, ClientSteps, AcceptStep, RejectSteps, SubmitStep
  <2>2. ASSUME NEW w \in Workers,
               \/ Take(w) \/ Begin(w) \/ Dispatch(w) \/ Respond(w) \/ Finish(w)
               \/ \E ok \in BOOLEAN : ReadFrame(w, ok)
        PROVE  RequestsInv'
    BY <2>2, TakeStep, BeginStep, WorkSteps, FinishStep
  <2>3. CASE RequestStop \/ CloseServer \/ EndGrace \/ ShutDown
    BY <2>3, StopSteps
  <2>4. CASE UNCHANGED requestVars
    <3>1. RequestsTypeOK'
      BY <2>4 DEF requestVars, RequestsInv, RequestsTypeOK
    <3>2. WorkersAgree' /\ QueueAgrees' /\ QueueIsLive'
      BY <2>4, FuturesChange DEF requestVars, RequestsInv
    <3>3. ClientsAgree' /\ FlightAgrees'
      BY <2>4, FlightKept DEF requestVars, RequestsInv, ClientsAgree
    <3> QED BY <3>1, <3>2, <3>3 DEF RequestsInv
  <2> QED BY <2>1, <2>2, <2>3, <2>4 DEF RequestsNext
<1> QED BY <1>1, <1>2, PTL DEF RequestsSpec

\* Whatever the workers, the clients and the stop do in which order, a request
\* whose client was told that it may be sent again, or that it was not sent, is
\* never run.
THEOREM RetriesAreSafe == RequestsSpec => []RetryIsSafe
<1>1. RequestsInv => RetryIsSafe
  BY DEF RequestsInv, RequestsTypeOK, ClientsAgree, RetryIsSafe
<1> QED BY <1>1, RequestsInvariant, PTL

\* No slot is lost or released twice on any path out of a request, and the
\* queue of the executor has room for every connection that was admitted, for
\* any number of clients and workers: what is queued while the daemon accepts is
\* in flight, and so is the connection that is about to be queued.
THEOREM PoolSound == RequestsSpec => []PoolIsSound
<1>1. RequestsInv => PoolIsSound
  <2> SUFFICES ASSUME RequestsInv PROVE SlotsAgree /\ QueueHasRoom
    BY DEF PoolIsSound
  <2>1. SlotsAgree
    BY DEF RequestsInv, FlightAgrees, SlotsAgree, InFlight, Flying
  <2>2. ASSUME NEW c \in Clients, futures[c] = "accepted", server.accepting
        PROVE  Len(waiting) < MaxInFlight
    <3> DEFINE others == InFlight \ {c}
    <3>1. /\ IsFiniteSet(InFlight) /\ slots \in Nat /\ c \in InFlight
          /\ slots = MaxInFlight - Cardinality(InFlight) /\ MaxInFlight \in Nat
      BY <2>2, DaemonRequestsAssumption DEF RequestsInv, FlightAgrees, InFlight, Flying
    <3>2. /\ IsFiniteSet(others) /\ Cardinality(others) = Cardinality(InFlight) - 1
          /\ Cardinality(InFlight) \in Nat
      BY <3>1, FS_RemoveElement, FS_CardinalityType
    <3>3. Len(waiting) \in Nat /\ waiting \in [1 .. Len(waiting) -> Clients \cup {EndWorker}]
      <4>1. waiting \in Seq(Clients \cup {EndWorker})
        BY DEF RequestsInv, RequestsTypeOK
      <4> QED BY <4>1
    <3>4. \A i \in 1 .. Len(waiting) : waiting[i] \in others
      <4>1. \A i \in 1 .. Len(waiting) :
               waiting[i] \in Clients /\ futures[waiting[i]] = "pending"
        BY <2>2, QueuedAreClients DEF RequestsInv, QueueIsLive
      <4> QED BY <2>2, <4>1 DEF InFlight, Flying
    <3>5. \A i, j \in 1 .. Len(waiting) : waiting[i] = waiting[j] => i = j
      BY <2>2 DEF RequestsInv, QueueIsLive, QueueAgrees
    <3>6. waiting \in Injection(1 .. Len(waiting), others)
      <4>1. waiting \in [1 .. Len(waiting) -> others] /\ DOMAIN waiting = 1 .. Len(waiting)
        BY <3>3, <3>4
      <4>2. IsInjective(waiting)
        BY <3>5, <4>1 DEF IsInjective
      <4> QED BY <4>1, <4>2 DEF Injection
    <3>7. /\ IsFiniteSet(1 .. Len(waiting))
          /\ Cardinality(1 .. Len(waiting)) = Len(waiting)
      BY <3>3, FS_Interval
    <3>8. Cardinality(1 .. Len(waiting)) <= Cardinality(others)
      BY <3>2, <3>6, FS_Injection
    <3> QED BY <3>1, <3>2, <3>3, <3>7, <3>8
  <2> QED BY <2>1, <2>2 DEF QueueHasRoom
<1> QED BY <1>1, RequestsInvariant, PTL
-----------------------------------------------------------------------------
(* The file of the store.                                                  *)

ConnPcs == {"closed", "opened", "created", "uncreating", "outdated", "migrating", "ready",
            "raising"}
Built == {"flushed", "reserved", "vacuumed", "built"}
Locked == {"locked", "checked", "saved"} \cup Built \cup
          {"published", "activated", "rollback", "restoring"}
CompPcs == {"idle", "inspected", "reporting"} \cup Locked
Statuses == {"none", "permissions_failed", "offline_required", "schema_not_current",
             "maintenance_failed", "replacement_failed", "failed", "completed",
             "rollback_completed", "rollback_failed"}

FileTypeOK ==
    /\ made \in 0 .. MaxFiles
    /\ path \in (1 .. made) \cup {None}
    /\ files \in [1 .. MaxFiles -> [rows : SUBSET (Rows \cup Expired), version : 0 .. Current]]
    /\ conns \in [Conns -> [pc : ConnPcs, lock : {"none", "SH", "EX"},
                            id : (1 .. made) \cup {None}]]
    /\ comp \in [pc : CompPcs, lock : {"none", "EX"}, id : (1 .. made) \cup {None},
                 before : SUBSET (Rows \cup Expired), backup : BOOLEAN, mutated : BOOLEAN,
                 published : BOOLEAN, temp : (1 .. made) \cup {None}, status : Statuses]
    /\ written \subseteq Rows

\* A file that was not created yet is empty.
FreshAreEmpty == \A i \in (made + 1) .. MaxFiles : files[i] = NoFile

\* The exclusive lock excludes every other one, ...
LocksAgree ==
    /\ comp.lock = "EX" => \A c \in Conns : conns[c].lock = "none"
    /\ \A c \in Conns : conns[c].lock = "EX" => \A d \in Conns \ {c} : conns[d].lock = "none"

\* ... and who works on the store holds the lock it needs.
ConnsHold ==
    \A c \in Conns :
        /\ conns[c].pc \in {"opened", "uncreating", "outdated", "ready"} => conns[c].lock = "SH"
        /\ conns[c].pc \in {"created", "migrating"} => conns[c].lock = "EX"

\* A connection that writes has the file that is in place; one that may still
\* undo its creation has it to itself, as it was created.
ConnsAgree ==
    \A c \in Conns :
        /\ conns[c].pc = "outdated" => conns[c].id # None
        /\ conns[c].pc = "migrating" => path = conns[c].id /\ path # None
        /\ conns[c].pc = "ready" =>
              path = conns[c].id /\ path # None /\ files[path].version = Current
        /\ conns[c].pc \in {"created", "uncreating"} =>
              /\ path = conns[c].id /\ path # None /\ files[path] = NoFile /\ wal = None
              /\ \A d \in Conns \ {c} : conns[d].pc \notin {"created", "uncreating"}

\* How far the compaction is says what has become of the rows it found.
CompAgrees ==
    /\ comp.pc \in Locked => comp.lock = "EX"
    /\ comp.pc \in {"idle", "inspected"} => comp.lock = "none"
    /\ comp.pc = "inspected" => comp.id # None
    /\ comp.lock = "EX" =>
          /\ path # None /\ written \subseteq comp.before
          /\ comp.before \ Expired \subseteq files[path].rows
          /\ files[path].rows \subseteq comp.before
    /\ comp.pc \in {"locked", "checked"} => files[path].rows = comp.before
    /\ comp.pc \in Locked \ {"published", "activated", "rollback"} => path = comp.id
    /\ comp.pc \in Locked \ {"locked", "checked"} => comp.backup
    /\ comp.pc \in {"inspected", "locked", "checked"} => ~comp.mutated /\ ~comp.published
    /\ comp.pc \in Built => comp.mutated
    /\ comp.pc \in Built \cup {"restoring"} => wal = None
    /\ comp.pc \in Built \cup {"published", "activated"} =>
          files[path].rows = comp.before \ Expired
    /\ comp.pc \in {"vacuumed", "built"} =>
          comp.temp # None /\ files[comp.temp].rows = files[path].rows

FileInv ==
    /\ FileTypeOK /\ FreshAreEmpty /\ LocksAgree /\ ConnsHold /\ ConnsAgree /\ CompAgrees
    /\ SharersAreSafe /\ MaintenanceIsSafe
\* A step of a connection leaves the compaction alone, and what it works on
\* while it has the lock.
LEMMA CompKept ==
    ASSUME FileInv, UNCHANGED comp, comp.lock = "EX" => UNCHANGED <<path, files, wal, written>>
    PROVE  CompAgrees' /\ ReportIsTrue' /\ DeletedIsBackedUp'
<1>1. CompAgrees /\ ReportIsTrue /\ DeletedIsBackedUp
  BY DEF FileInv, MaintenanceIsSafe
<1>2. comp.pc \in Locked => comp.lock = "EX"
  BY <1>1 DEF CompAgrees
<1>3. ReportIsTrue' /\ DeletedIsBackedUp'
  BY <1>1 DEF ReportIsTrue, DeletedIsBackedUp, Stored
<1>4. CompAgrees'
  BY <1>1, <1>2 DEF CompAgrees, Locked, Built
<1> QED BY <1>3, <1>4

\* Migrating alone follows from the locks.
LEMMA MigrantsAreAlone ==
    ASSUME LocksAgree', ConnsHold', ConnsAgree'
    PROVE  MigratesAlone'
BY DEF LocksAgree, ConnsHold, ConnsAgree, MigratesAlone, Holders

\* What one connection does to its own state.
LEMMA OneConn ==
    ASSUME FileTypeOK, LocksAgree, ConnsHold, NEW c \in Conns,
           NEW k \in [pc : ConnPcs, lock : {"none", "SH", "EX"}, id : (1 .. made') \cup {None}],
           made' \in Nat, made' >= made, UNCHANGED comp, conns' = [conns EXCEPT ![c] = k],
           k.lock # "none" => comp.lock = "none",
           k.lock # "none" => \A d \in Conns \ {c} : conns[d].lock # "EX",
           k.lock = "EX" => \A d \in Conns \ {c} : conns[d].lock = "none",
           k.pc \in {"opened", "uncreating", "outdated", "ready"} => k.lock = "SH",
           k.pc \in {"created", "migrating"} => k.lock = "EX"
    PROVE  /\ conns' \in [Conns -> [pc : ConnPcs, lock : {"none", "SH", "EX"},
                                    id : (1 .. made') \cup {None}]]
           /\ conns'[c] = k /\ \A d \in Conns \ {c} : conns'[d] = conns[d]
           /\ LocksAgree' /\ ConnsHold'
<1>1. conns \in [Conns -> [pc : ConnPcs, lock : {"none", "SH", "EX"}, id : (1 .. made) \cup {None}]]
      /\ made \in Nat
  BY StoreFileAssumption DEF FileTypeOK
<1>2. conns'[c] = k /\ \A d \in Conns \ {c} : conns'[d] = conns[d]
  BY <1>1
<1>3. \A d \in Conns : conns'[d] \in [pc : ConnPcs, lock : {"none", "SH", "EX"},
                                      id : (1 .. made') \cup {None}]
  <2> TAKE d \in Conns
  <2>1. CASE d = c
    BY <1>2, <2>1
  <2>2. CASE d # c
    BY <1>1, <1>2, <2>2
  <2> QED BY <2>1, <2>2
<1>4. conns' \in [Conns -> [pc : ConnPcs, lock : {"none", "SH", "EX"},
                            id : (1 .. made') \cup {None}]]
  BY <1>1, <1>3
<1>5. LocksAgree'
  <2>1. comp.lock = "EX" => \A d \in Conns : conns'[d].lock = "none"
    BY <1>2, <1>3 DEF LocksAgree, FileTypeOK
  <2>2. ASSUME NEW d \in Conns, conns'[d].lock = "EX", NEW e \in Conns \ {d}
        PROVE  conns'[e].lock = "none"
    <3>1. CASE d = c
      BY <1>2, <2>2, <3>1
    <3>2. CASE d # c /\ e = c
      BY <1>2, <1>3, <2>2, <3>2
    <3>3. CASE d # c /\ e # c
      BY <1>2, <2>2, <3>3 DEF LocksAgree
    <3> QED BY <3>1, <3>2, <3>3
  <2> QED BY <2>1, <2>2 DEF LocksAgree
<1>6. ConnsHold'
  BY <1>2 DEF ConnsHold
<1> QED BY <1>2, <1>4, <1>5, <1>6

\* A connection takes, keeps or gives back its lock, and changes no file.
LEMMA OnlyConn ==
    ASSUME FileInv, NEW c \in Conns,
           NEW k \in [pc : ConnPcs, lock : {"none", "SH", "EX"}, id : (1 .. made) \cup {None}],
           conns' = [conns EXCEPT ![c] = k],
           UNCHANGED <<path, files, made, comp, written>>,
           wal' = wal \/ (wal' = None /\ comp.lock = "none"),
           k.lock # "none" =>
              conns[c].lock # "none" \/ (comp.lock = "none"
                                         /\ \A d \in Conns \ {c} : conns[d].lock # "EX"),
           k.lock = "EX" => conns[c].lock = "EX" \/ \A d \in Conns \ {c} : conns[d].lock = "none",
           k.pc \in {"opened", "uncreating", "outdated", "ready"} => k.lock = "SH",
           k.pc \in {"created", "migrating"} => k.lock = "EX",
           k.pc = "outdated" => k.id # None,
           k.pc = "migrating" => path = k.id /\ path # None,
           k.pc = "ready" => path = k.id /\ path # None /\ files[path].version = Current,
           k.pc \in {"created", "uncreating"} =>
              k.id = conns[c].id /\ conns[c].pc \in {"created", "uncreating"}
    PROVE  FileInv'
<1>1. /\ FileTypeOK /\ FreshAreEmpty /\ LocksAgree /\ ConnsHold /\ ConnsAgree /\ CompAgrees
      /\ NoWriteIsLost /\ WalFitsFile
  BY DEF FileInv, SharersAreSafe, MaintenanceIsSafe
<1>2. /\ made \in Nat
      /\ k.lock # "none" => comp.lock = "none"
      /\ k.lock # "none" => \A d \in Conns \ {c} : conns[d].lock # "EX"
      /\ k.lock = "EX" => \A d \in Conns \ {c} : conns[d].lock = "none"
  <2>1. made \in Nat /\ \A d \in Conns : conns[d].lock \in {"none", "SH", "EX"}
    BY <1>1, StoreFileAssumption DEF FileTypeOK
  <2>2. comp.lock \in {"none", "EX"}
    BY <1>1 DEF FileTypeOK
  <2> QED BY <1>1, <2>1, <2>2 DEF LocksAgree
<1>3. /\ conns' \in [Conns -> [pc : ConnPcs, lock : {"none", "SH", "EX"},
                                id : (1 .. made) \cup {None}]]
      /\ conns'[c] = k /\ \A d \in Conns \ {c} : conns'[d] = conns[d]
      /\ LocksAgree' /\ ConnsHold'
  <2>1. /\ made' \in Nat /\ made' >= made
        /\ k \in [pc : ConnPcs, lock : {"none", "SH", "EX"}, id : (1 .. made') \cup {None}]
    BY <1>2
  <2>2. made' = made
    OBVIOUS
  <2>3. /\ conns' \in [Conns -> [pc : ConnPcs, lock : {"none", "SH", "EX"},
                                  id : (1 .. made') \cup {None}]]
        /\ conns'[c] = k /\ \A d \in Conns \ {c} : conns'[d] = conns[d]
        /\ LocksAgree' /\ ConnsHold'
    BY <1>1, <1>2, <2>1, OneConn
  <2> QED BY <2>2, <2>3
<1>4. FileTypeOK'
  BY <1>1, <1>3 DEF FileTypeOK
<1>5. FreshAreEmpty' /\ NoWriteIsLost' /\ WalFitsFile'
  BY <1>1 DEF FreshAreEmpty, NoWriteIsLost, Stored, WalFitsFile
<1>6. ConnsAgree'
  <2> SUFFICES ASSUME NEW d \in Conns
               PROVE  /\ conns'[d].pc = "outdated" => conns'[d].id # None
                      /\ conns'[d].pc = "migrating" => path = conns'[d].id /\ path # None
                      /\ conns'[d].pc = "ready" =>
                            path = conns'[d].id /\ path # None /\ files[path].version = Current
                      /\ conns'[d].pc \in {"created", "uncreating"} =>
                            /\ path = conns'[d].id /\ path # None /\ files[path] = NoFile
                            /\ wal' = None
                            /\ \A e \in Conns \ {d} :
                                  conns'[e].pc \notin {"created", "uncreating"}
    BY DEF ConnsAgree
  <2>1. \A e \in Conns : conns'[e].pc \in {"created", "uncreating"} =>
           conns[e].pc \in {"created", "uncreating"} /\ conns'[e].id = conns[e].id
    BY <1>3
  <2>2. CASE d = c
    BY <1>1, <1>3, <2>1, <2>2 DEF ConnsAgree
  <2>3. CASE d # c
    BY <1>1, <1>3, <2>1, <2>3 DEF ConnsAgree
  <2> QED BY <2>2, <2>3
<1>7. CompAgrees' /\ ReportIsTrue' /\ DeletedIsBackedUp'
  <2>1. CASE wal' = wal
    BY <2>1, CompKept
  <2>2. CASE wal' # wal
    <3>1. comp.lock # "EX"
      BY <2>2
    <3> QED BY <3>1, CompKept
  <2> QED BY <2>1, <2>2
<1>8. MigratesAlone'
  BY <1>3, <1>6, MigrantsAreAlone
<1> QED BY <1>3, <1>4, <1>5, <1>6, <1>7, <1>8 DEF FileInv, SharersAreSafe, MaintenanceIsSafe

\* The steps of a connection that change no file.
LEMMA QuietConnSteps ==
    ASSUME FileInv, NEW c \in Conns,
           \/ Open(c) \/ Connect(c) \/ Upgrade(c) \/ RestoreLock(c) \/ Migrated(c) \/ Close(c)
           \/ \E ok \in BOOLEAN : Created(c, ok)
    PROVE  FileInv'
<1>1. /\ conns[c] \in [pc : ConnPcs, lock : {"none", "SH", "EX"}, id : (1 .. made) \cup {None}]
      /\ path \in (1 .. made) \cup {None} /\ comp.lock \in {"none", "EX"}
      /\ \A d \in Conns : conns[d].lock \in {"none", "SH", "EX"}
  BY DEF FileInv, FileTypeOK
<1>2. /\ conns[c].pc \in {"opened", "outdated", "uncreating", "ready"} => conns[c].lock = "SH"
      /\ conns[c].pc \in {"created", "migrating"} => conns[c].lock = "EX"
      /\ conns[c].pc = "outdated" => conns[c].id # None
  BY DEF FileInv, ConnsHold, ConnsAgree
<1>3. Gone \in [pc : ConnPcs, lock : {"none", "SH", "EX"}, id : (1 .. made) \cup {None}]
      /\ Gone.pc = "closed" /\ Gone.lock = "none"
  BY DEF Gone, ConnPcs
<1>4. ~Excluded(c) => comp.lock = "none" /\ \A d \in Conns \ {c} : conns[d].lock # "EX"
  BY <1>1 DEF Excluded
<1>5. ~Contended(c) => comp.lock = "none" /\ \A d \in Conns \ {c} : conns[d].lock = "none"
  BY <1>1 DEF Contended, Holders
<1>6. ASSUME Open(c) PROVE FileInv'
  <2> DEFINE k == [Gone EXCEPT !.pc = "opened", !.lock = "SH"]
  <2>1. /\ k \in [pc : ConnPcs, lock : {"none", "SH", "EX"}, id : (1 .. made) \cup {None}]
        /\ k.pc = "opened" /\ k.lock = "SH"
    BY DEF Gone, ConnPcs
  <2>2. conns' = [conns EXCEPT ![c] = k] /\ ~Excluded(c)
        /\ UNCHANGED <<path, files, made, wal, comp, written>>
    BY <1>6 DEF Open
  <2> HIDE DEF k
  <2> QED BY <1>4, <2>1, <2>2, OnlyConn
<1>7. ASSUME NEW ok \in BOOLEAN, Created(c, ok) PROVE FileInv'
  <2> DEFINE k == [conns[c] EXCEPT !.lock = "SH", !.pc = IF ok THEN "opened" ELSE "uncreating"]
  <2>1. /\ k \in [pc : ConnPcs, lock : {"none", "SH", "EX"}, id : (1 .. made) \cup {None}]
        /\ k.pc \in {"opened", "uncreating"} /\ k.lock = "SH" /\ k.id = conns[c].id
    BY <1>1 DEF ConnPcs
  <2>2. conns' = [conns EXCEPT ![c] = k] /\ conns[c].pc = "created"
        /\ UNCHANGED <<path, files, made, wal, comp, written>>
    BY <1>7 DEF Created
  <2> HIDE DEF k
  <2> QED BY <1>2, <2>1, <2>2, OnlyConn
<1>8. ASSUME Connect(c) PROVE FileInv'
  <2> DEFINE k == [conns[c] EXCEPT !.id = path,
                                   !.pc = IF files[path].version = Current
                                          THEN "ready" ELSE "outdated"]
  <2>1. /\ k \in [pc : ConnPcs, lock : {"none", "SH", "EX"}, id : (1 .. made) \cup {None}]
        /\ k.pc \in {"ready", "outdated"} /\ k.lock = conns[c].lock /\ k.id = path
        /\ k.pc = "ready" => files[path].version = Current
    BY <1>1 DEF ConnPcs
  <2>2. conns' = [conns EXCEPT ![c] = k] /\ conns[c].pc = "opened" /\ path # None
        /\ UNCHANGED <<path, files, made, wal, comp, written>>
    BY <1>8 DEF Connect
  <2> HIDE DEF k
  <2> QED BY <1>2, <2>1, <2>2, OnlyConn
<1>9. ASSUME Upgrade(c) PROVE FileInv'
  <2>1. conns[c].pc = "outdated" /\ UNCHANGED <<path, files, made, wal, comp, written>>
    BY <1>9 DEF Upgrade
  <2>2. CASE Contended(c)
    <3>1. PICK l \in {"none", "SH"} :
             conns' = [conns EXCEPT ![c] = [@ EXCEPT !.lock = l, !.pc = "raising"]]
      BY <1>9, <2>2 DEF Upgrade
    <3> DEFINE k == [conns[c] EXCEPT !.lock = l, !.pc = "raising"]
    <3>2. /\ k \in [pc : ConnPcs, lock : {"none", "SH", "EX"}, id : (1 .. made) \cup {None}]
          /\ k.pc = "raising" /\ k.lock = l
      BY <1>1 DEF ConnPcs
    <3>3. conns' = [conns EXCEPT ![c] = k]
      BY <3>1
    <3> HIDE DEF k
    <3> QED BY <1>2, <2>1, <3>2, <3>3, OnlyConn
  <2>3. CASE ~Contended(c) /\ path = conns[c].id
    <3> DEFINE k == [conns[c] EXCEPT !.lock = "EX", !.pc = "migrating"]
    <3>1. /\ k \in [pc : ConnPcs, lock : {"none", "SH", "EX"}, id : (1 .. made) \cup {None}]
          /\ k.pc = "migrating" /\ k.lock = "EX" /\ k.id = conns[c].id
      BY <1>1 DEF ConnPcs
    <3>2. conns' = [conns EXCEPT ![c] = k]
      BY <1>9, <2>3 DEF Upgrade
    <3> HIDE DEF k
    <3> QED BY <1>2, <1>5, <2>1, <2>3, <3>1, <3>2, OnlyConn
  <2>4. CASE ~Contended(c) /\ path # conns[c].id
    <3> DEFINE k == [conns[c] EXCEPT !.pc = "raising"]
    <3>1. /\ k \in [pc : ConnPcs, lock : {"none", "SH", "EX"}, id : (1 .. made) \cup {None}]
          /\ k.pc = "raising" /\ k.lock = conns[c].lock
      BY <1>1 DEF ConnPcs
    <3>2. conns' = [conns EXCEPT ![c] = k]
      BY <1>9, <2>4 DEF Upgrade
    <3> HIDE DEF k
    <3> QED BY <1>2, <2>1, <3>1, <3>2, OnlyConn
  <2> QED BY <2>2, <2>3, <2>4
<1>10. ASSUME RestoreLock(c) PROVE FileInv'
  <2> DEFINE k == [conns[c] EXCEPT !.lock = "SH"]
  <2>1. /\ k \in [pc : ConnPcs, lock : {"none", "SH", "EX"}, id : (1 .. made) \cup {None}]
        /\ k.pc = conns[c].pc /\ k.lock = "SH"
    BY <1>1
  <2>2. conns' = [conns EXCEPT ![c] = k] /\ conns[c].pc = "raising" /\ ~Excluded(c)
        /\ UNCHANGED <<path, files, made, wal, comp, written>>
    BY <1>10 DEF RestoreLock
  <2> HIDE DEF k
  <2> QED BY <1>4, <2>1, <2>2, OnlyConn
<1>11. ASSUME Migrated(c) PROVE FileInv'
  <2> DEFINE k == [conns[c] EXCEPT !.lock = "SH",
                                   !.pc = IF path = conns[c].id THEN "ready" ELSE "raising"]
  <2>1. /\ k \in [pc : ConnPcs, lock : {"none", "SH", "EX"}, id : (1 .. made) \cup {None}]
        /\ k.pc \in {"ready", "raising"} /\ k.lock = "SH" /\ k.id = conns[c].id
    BY <1>1 DEF ConnPcs
  <2>2. conns' = [conns EXCEPT ![c] = k] /\ conns[c].pc = "migrating"
        /\ files[conns[c].id].version = Current
        /\ UNCHANGED <<path, files, made, wal, comp, written>>
    BY <1>11 DEF Migrated
  <2>3. path = conns[c].id /\ path # None
    BY <2>2 DEF FileInv, ConnsAgree
  <2> HIDE DEF k
  <2> QED BY <1>2, <2>1, <2>2, <2>3, OnlyConn
<1>12. ASSUME Close(c) PROVE FileInv'
  <2>1. conns' = [conns EXCEPT ![c] = Gone] /\ UNCHANGED <<path, files, made, comp, written>>
        /\ (wal' = wal \/ (wal' = None /\ comp.pc = "idle"))
    BY <1>12 DEF Close
  <2>2. comp.pc = "idle" => comp.lock = "none"
    BY DEF FileInv, CompAgrees
  <2> QED BY <1>3, <2>1, <2>2, OnlyConn
<1> QED BY <1>6, <1>7, <1>8, <1>9, <1>10, <1>11, <1>12

\* With its lock a connection keeps the compaction out.
LEMMA LockedOut ==
    ASSUME FileInv, NEW c \in Conns, conns[c].lock # "none"
    PROVE  comp.lock # "EX"
BY DEF FileInv, LocksAgree

\* The file is created, unless somebody else has a lock.
LEMMA CreateStep ==
    ASSUME FileInv, NEW c \in Conns, Create(c)
    PROVE  FileInv'
<1>1. /\ conns[c] \in [pc : ConnPcs, lock : {"none", "SH", "EX"}, id : (1 .. made) \cup {None}]
      /\ comp.lock \in {"none", "EX"} /\ \A d \in Conns : conns[d].lock \in {"none", "SH", "EX"}
      /\ made \in 0 .. MaxFiles /\ MaxFiles \in Nat
      /\ files \in [1 .. MaxFiles -> [rows : SUBSET (Rows \cup Expired), version : 0 .. Current]]
  BY StoreFileAssumption DEF FileInv, FileTypeOK
<1>2. /\ conns[c].pc = "opened" /\ path = None /\ made < MaxFiles
      /\ UNCHANGED <<files, wal, comp, written>>
  BY DEF Create
<1>3. CASE Contended(c)
  <2> DEFINE k == [conns[c] EXCEPT !.lock = "none", !.pc = "raising"]
  <2>1. /\ k \in [pc : ConnPcs, lock : {"none", "SH", "EX"}, id : (1 .. made) \cup {None}]
        /\ k.pc = "raising" /\ k.lock = "none"
    BY <1>1 DEF ConnPcs
  <2>2. conns' = [conns EXCEPT ![c] = k] /\ UNCHANGED <<path, made>>
    BY <1>3 DEF Create
  <2> HIDE DEF k
  <2> QED BY <1>2, <2>1, <2>2, OnlyConn
<1>4. CASE ~Contended(c)
  <2> DEFINE k == [conns[c] EXCEPT !.lock = "EX", !.pc = "created", !.id = made + 1]
  <2>1. /\ path' = made + 1 /\ made' = made + 1 /\ conns' = [conns EXCEPT ![c] = k]
    BY <1>4 DEF Create
  <2>2. /\ made' \in Nat /\ made' >= made /\ made' \in 0 .. MaxFiles /\ made + 1 \in 1 .. made'
        /\ made + 1 \in (made + 1) .. MaxFiles
    BY <1>1, <1>2, <2>1
  <2>3. /\ k \in [pc : ConnPcs, lock : {"none", "SH", "EX"}, id : (1 .. made') \cup {None}]
        /\ k.pc = "created" /\ k.lock = "EX" /\ k.id = made + 1
    BY <1>1, <2>2 DEF ConnPcs
  <2>4. comp.lock = "none" /\ \A d \in Conns \ {c} : conns[d].lock = "none"
    BY <1>1, <1>4 DEF Contended, Holders
  <2> HIDE DEF k
  <2>5. /\ conns' \in [Conns -> [pc : ConnPcs, lock : {"none", "SH", "EX"},
                                  id : (1 .. made') \cup {None}]]
        /\ conns'[c] = k /\ \A d \in Conns \ {c} : conns'[d] = conns[d]
        /\ LocksAgree' /\ ConnsHold'
    BY <1>2, <2>1, <2>2, <2>3, <2>4, OneConn DEF FileInv
  <2>6. FileTypeOK'
    <3>1. comp' \in [pc : CompPcs, lock : {"none", "EX"}, id : (1 .. made') \cup {None},
                     before : SUBSET (Rows \cup Expired), backup : BOOLEAN, mutated : BOOLEAN,
                     published : BOOLEAN, temp : (1 .. made') \cup {None}, status : Statuses]
      BY <1>1, <1>2, <2>1, <2>2 DEF FileInv, FileTypeOK
    <3>2. path' \in (1 .. made') \cup {None} /\ written' \subseteq Rows /\ files' = files
      BY <1>2, <2>1, <2>2 DEF FileInv, FileTypeOK
    <3> QED BY <1>1, <2>2, <2>5, <3>1, <3>2 DEF FileTypeOK
  <2>7. FreshAreEmpty'
    BY <1>1, <1>2, <2>1 DEF FileInv, FreshAreEmpty
  <2>8. NoWriteIsLost' /\ wal' = None /\ WalFitsFile'
    <3>1. written = {} /\ wal = None
      BY <1>2 DEF FileInv, SharersAreSafe, MaintenanceIsSafe, NoWriteIsLost, Stored, WalFitsFile
    <3> QED BY <1>2, <3>1 DEF NoWriteIsLost, WalFitsFile
  <2>9. path' # None /\ files'[path'] = NoFile
    BY <1>1, <1>2, <2>1, <2>2, StoreFileAssumption DEF FileInv, FreshAreEmpty
  <2>10. ConnsAgree'
    <3>1. \A d \in Conns \ {c} : conns'[d].pc \in {"closed", "raising"}
      <4> TAKE d \in Conns \ {c}
      <4>1. conns[d].lock = "none" /\ conns[d].pc \in ConnPcs
        BY <2>4 DEF FileInv, FileTypeOK
      <4>2. conns[d].pc \in {"closed", "raising"}
        BY <4>1 DEF FileInv, ConnsHold, ConnPcs
      <4> QED BY <2>5, <4>2
    <3> QED BY <2>1, <2>3, <2>5, <2>8, <2>9, <3>1 DEF ConnsAgree
  <2>11. CompAgrees' /\ ReportIsTrue' /\ DeletedIsBackedUp'
    BY <1>2, <2>4, CompKept
  <2> QED BY <2>5, <2>6, <2>7, <2>8, <2>10, <2>11, MigrantsAreAlone
          DEF FileInv, SharersAreSafe, MaintenanceIsSafe
<1> QED BY <1>3, <1>4

\* The creation is undone: nobody has written to the file.
LEMMA UncreateStep ==
    ASSUME FileInv, NEW c \in Conns, Uncreate(c)
    PROVE  FileInv'
<1> DEFINE k == [conns[c] EXCEPT !.pc = "raising"]
<1>1. /\ conns[c] \in [pc : ConnPcs, lock : {"none", "SH", "EX"}, id : (1 .. made) \cup {None}]
      /\ conns \in [Conns -> [pc : ConnPcs, lock : {"none", "SH", "EX"},
                              id : (1 .. made) \cup {None}]]
  BY DEF FileInv, FileTypeOK
<1>2. /\ conns[c].pc = "uncreating" /\ conns' = [conns EXCEPT ![c] = k]
      /\ path' = (IF path = conns[c].id THEN None ELSE path)
      /\ UNCHANGED <<files, made, wal, comp, written>>
  BY DEF Uncreate
<1>3. /\ conns[c].lock = "SH" /\ path = conns[c].id /\ path # None /\ files[path] = NoFile
      /\ wal = None
      /\ \A d \in Conns \ {c} : conns[d].pc \notin {"created", "uncreating"}
  BY <1>2 DEF FileInv, ConnsHold, ConnsAgree
<1>4. /\ k \in [pc : ConnPcs, lock : {"none", "SH", "EX"}, id : (1 .. made) \cup {None}]
      /\ k.pc = "raising" /\ k.lock = "SH" /\ k.id = conns[c].id
  BY <1>1, <1>3 DEF ConnPcs
<1> HIDE DEF k
<1>5. conns'[c] = k /\ \A d \in Conns \ {c} : conns'[d] = conns[d]
  BY <1>1, <1>2
<1>6. FileTypeOK'
  <2>1. conns' \in [Conns -> [pc : ConnPcs, lock : {"none", "SH", "EX"},
                              id : (1 .. made) \cup {None}]]
    BY <1>1, <1>2, <1>4
  <2>2. path' \in (1 .. made) \cup {None}
    BY <1>2, <1>3
  <2> QED BY <1>2, <2>1, <2>2 DEF FileInv, FileTypeOK
<1>7. \A d \in Conns : conns'[d].lock = conns[d].lock
  BY <1>3, <1>4, <1>5
<1>8. LocksAgree' /\ ConnsHold' /\ FreshAreEmpty'
  BY <1>2, <1>4, <1>5, <1>7 DEF FileInv, LocksAgree, ConnsHold, FreshAreEmpty
<1>9. NoWriteIsLost' /\ WalFitsFile' /\ path' = None
  BY <1>2, <1>3 DEF FileInv, SharersAreSafe, NoWriteIsLost, Stored, NoFile, WalFitsFile
<1>10. ConnsAgree'
  <2>1. \A d \in Conns \ {c} : conns[d].pc \notin {"migrating", "ready"}
    <3> TAKE d \in Conns \ {c}
    <3>1. conns[d].pc # "migrating"
      BY <1>3 DEF FileInv, ConnsHold, LocksAgree
    <3>2. conns[d].pc # "ready"
      BY <1>3, StoreFileAssumption DEF FileInv, ConnsAgree, NoFile
    <3> QED BY <3>1, <3>2
  <2>2. \A d \in Conns \ {c} : conns[d].pc = "outdated" => conns[d].id # None
    BY DEF FileInv, ConnsAgree
  <2> QED BY <1>3, <1>4, <1>5, <2>1, <2>2 DEF ConnsAgree
<1>11. CompAgrees' /\ ReportIsTrue' /\ DeletedIsBackedUp'
  BY <1>2, <1>3, LockedOut, CompKept
<1> QED BY <1>6, <1>8, <1>9, <1>10, <1>11, MigrantsAreAlone
        DEF FileInv, SharersAreSafe, MaintenanceIsSafe

\* A connection changes the file in place: a row more, or a version.
LEMMA FileWritten ==
    ASSUME FileInv, NEW c \in Conns, conns[c].pc \in {"migrating", "ready"},
           NEW f \in [rows : SUBSET (Rows \cup Expired), version : 0 .. Current],
           files' = [files EXCEPT ![path] = f], wal' = path,
           written' \subseteq Rows, written' \subseteq f.rows,
           f.version = Current \/ conns[c].pc = "migrating",
           UNCHANGED <<path, made, conns, comp>>
    PROVE  FileInv'
<1>1. /\ files \in [1 .. MaxFiles -> [rows : SUBSET (Rows \cup Expired), version : 0 .. Current]]
      /\ path \in (1 .. made) \cup {None} /\ made \in 0 .. MaxFiles /\ MaxFiles \in Nat
  BY StoreFileAssumption DEF FileInv, FileTypeOK
<1>2. path # None /\ conns[c].lock # "none"
      /\ (conns[c].pc = "migrating" => \A d \in Conns \ {c} : conns[d].lock = "none")
  BY DEF FileInv, ConnsAgree, ConnsHold, LocksAgree
<1>3. /\ files' \in [1 .. MaxFiles -> [rows : SUBSET (Rows \cup Expired), version : 0 .. Current]]
      /\ files'[path] = f /\ \A i \in (made + 1) .. MaxFiles : files'[i] = files[i]
  BY <1>1, <1>2
<1>4. FileTypeOK'
  BY <1>3 DEF FileInv, FileTypeOK
<1>5. FreshAreEmpty' /\ LocksAgree' /\ ConnsHold'
  BY <1>3 DEF FileInv, FreshAreEmpty, LocksAgree, ConnsHold
<1>6. ConnsAgree'
  <2>1. \A d \in Conns : conns[d].pc \notin {"created", "uncreating"}
    <3> TAKE d \in Conns
    <3>1. CASE conns[c].pc = "migrating"
      BY <1>2, <3>1 DEF FileInv, ConnsHold
    <3>2. CASE conns[c].pc = "ready"
      BY <3>2, StoreFileAssumption DEF FileInv, ConnsAgree, NoFile
    <3> QED BY <3>1, <3>2
  <2>2. ASSUME NEW d \in Conns, conns[d].pc = "ready"
        PROVE  path = conns[d].id /\ path # None /\ f.version = Current
    <3>1. conns[c].pc # "migrating"
      BY <1>2, <2>2 DEF FileInv, ConnsHold
    <3> QED BY <2>2, <3>1 DEF FileInv, ConnsAgree
  <2>3. \A d \in Conns :
           /\ conns[d].pc = "outdated" => conns[d].id # None
           /\ conns[d].pc = "migrating" => path = conns[d].id /\ path # None
    BY DEF FileInv, ConnsAgree
  <2> QED BY <1>3, <2>1, <2>2, <2>3 DEF ConnsAgree
<1>7. NoWriteIsLost' /\ WalFitsFile'
  BY <1>2, <1>3 DEF NoWriteIsLost, Stored, WalFitsFile
<1>8. CompAgrees' /\ ReportIsTrue' /\ DeletedIsBackedUp'
  BY <1>2, LockedOut, CompKept
<1> QED BY <1>4, <1>5, <1>6, <1>7, <1>8, MigrantsAreAlone
        DEF FileInv, SharersAreSafe, MaintenanceIsSafe

\* A migration's transaction, and a connection's.
LEMMA WriteSteps ==
    ASSUME FileInv, NEW c \in Conns, Migrate(c) \/ \E r \in Rows : Write(c, r)
    PROVE  FileInv'
<1>1. /\ files \in [1 .. MaxFiles -> [rows : SUBSET (Rows \cup Expired), version : 0 .. Current]]
      /\ path \in (1 .. made) \cup {None} /\ made \in 0 .. MaxFiles /\ MaxFiles \in Nat
      /\ Current \in Nat
  BY StoreFileAssumption DEF FileInv, FileTypeOK
<1>2. /\ conns[c].pc \in {"migrating", "ready"} /\ conns[c].id = path /\ path # None
      /\ conns[c].pc = "ready" => files[path].version = Current
      /\ UNCHANGED <<path, made, conns, comp>> /\ wal' = path
  BY DEF Migrate, Write, FileInv, ConnsAgree
<1>3. /\ files[path] \in [rows : SUBSET (Rows \cup Expired), version : 0 .. Current]
      /\ path \in DOMAIN files
  BY <1>1, <1>2
<1>4. written \subseteq files[path].rows /\ written \subseteq Rows
  BY <1>2 DEF FileInv, FileTypeOK, SharersAreSafe, NoWriteIsLost, Stored
<1>5. CASE Migrate(c)
  <2> DEFINE to == IF files[path].version = 0 THEN Current ELSE files[path].version + 1
             f == [files[path] EXCEPT !.version = to]
  <2>1. /\ files' = [files EXCEPT ![path] = f] /\ written' = written
        /\ conns[c].pc = "migrating" /\ files[path].version < Current
    BY <1>2, <1>5 DEF Migrate
  <2>2. to \in 0 .. Current
    BY <1>1, <1>3, <2>1
  <2>3. /\ f \in [rows : SUBSET (Rows \cup Expired), version : 0 .. Current]
        /\ f.rows = files[path].rows
    BY <1>3, <2>2
  <2> HIDE DEF f
  <2> QED BY <1>2, <1>4, <2>1, <2>3, FileWritten
<1>6. ASSUME NEW r \in Rows, Write(c, r) PROVE FileInv'
  <2> DEFINE f == [files[path] EXCEPT !.rows = @ \cup {r}]
  <2>1. /\ files' = [files EXCEPT ![path] = f] /\ written' = written \cup {r}
        /\ conns[c].pc = "ready"
    BY <1>2, <1>6 DEF Write
  <2>2. /\ f \in [rows : SUBSET (Rows \cup Expired), version : 0 .. Current]
        /\ f.rows = files[path].rows \cup {r} /\ f.version = files[path].version
    BY <1>3
  <2> HIDE DEF f
  <2> QED BY <1>2, <1>4, <2>1, <2>2, FileWritten
<1> QED BY <1>5, <1>6

CompStates == [pc : CompPcs, lock : {"none", "EX"}, id : (1 .. made) \cup {None},
               before : SUBSET (Rows \cup Expired), backup : BOOLEAN, mutated : BOOLEAN,
               published : BOOLEAN, temp : (1 .. made) \cup {None}, status : Statuses]

\* A step of the compaction: while it has the lock no connection is open, and
\* without it, it changes nothing.
LEMMA CompMoves ==
    ASSUME FileInv, UNCHANGED <<conns, written>>, comp' \in CompStates',
           comp'.lock = "EX" => \A c \in Conns : conns[c].lock = "none",
           made' \in 0 .. MaxFiles, path' \in (1 .. made') \cup {None}, made' >= made,
           files' \in [1 .. MaxFiles -> [rows : SUBSET (Rows \cup Expired), version : 0 .. Current]],
           FreshAreEmpty', NoWriteIsLost', WalFitsFile',
           comp.lock = "EX" \/ UNCHANGED <<path, files, made, wal>>,
           CompAgrees', ReportIsTrue', DeletedIsBackedUp'
    PROVE  FileInv'
<1>1. MaxFiles \in Nat /\ made \in 0 .. MaxFiles
  BY StoreFileAssumption DEF FileInv, FileTypeOK
<1>2. FileTypeOK'
  <2>1. (1 .. made) \cup {None} \subseteq (1 .. made') \cup {None}
    BY <1>1
  <2>2. conns' \in [Conns -> [pc : ConnPcs, lock : {"none", "SH", "EX"},
                              id : (1 .. made') \cup {None}]]
    BY <2>1 DEF FileInv, FileTypeOK
  <2>3. written' \subseteq Rows
    BY DEF FileInv, FileTypeOK
  <2> QED BY <2>2, <2>3 DEF FileTypeOK, CompStates
<1>3. LocksAgree' /\ ConnsHold'
  BY DEF FileInv, LocksAgree, ConnsHold
<1>4. ConnsAgree'
  <2>1. CASE comp.lock = "EX"
    <3>1. \A c \in Conns : conns[c].pc \in {"closed", "raising"}
      <4> TAKE c \in Conns
      <4>1. conns[c].lock = "none" /\ conns[c].pc \in ConnPcs
        BY <2>1 DEF FileInv, FileTypeOK, LocksAgree
      <4> QED BY <4>1 DEF FileInv, ConnsHold, ConnPcs
    <3> QED BY <3>1 DEF ConnsAgree
  <2>2. CASE UNCHANGED <<path, files, made, wal>>
    BY <2>2 DEF FileInv, ConnsAgree
  <2> QED BY <2>1, <2>2
<1> QED BY <1>2, <1>3, <1>4, MigrantsAreAlone DEF FileInv, SharersAreSafe, MaintenanceIsSafe

\* ... one that changes no file.
LEMMA OnlyComp ==
    ASSUME FileInv, UNCHANGED <<path, files, made, wal, conns, written>>, comp' \in CompStates,
           comp'.lock = "EX" => comp.lock = "EX" \/ \A c \in Conns : conns[c].lock = "none",
           CompAgrees', ReportIsTrue', DeletedIsBackedUp'
    PROVE  FileInv'
<1>1. /\ made' \in 0 .. MaxFiles /\ path' \in (1 .. made') \cup {None} /\ made \in Nat
      /\ files' \in [1 .. MaxFiles -> [rows : SUBSET (Rows \cup Expired), version : 0 .. Current]]
      /\ made' >= made
  BY StoreFileAssumption DEF FileInv, FileTypeOK
<1>2. FreshAreEmpty' /\ NoWriteIsLost' /\ WalFitsFile'
  BY DEF FileInv, SharersAreSafe, MaintenanceIsSafe, FreshAreEmpty, NoWriteIsLost, Stored,
         WalFitsFile
<1>3. comp' \in CompStates'
  BY DEF CompStates
<1>4. comp'.lock = "EX" => \A c \in Conns : conns[c].lock = "none"
  BY DEF FileInv, LocksAgree
<1> QED BY <1>1, <1>2, <1>3, <1>4, CompMoves

\* What the invariant says of the compaction's own state.
LEMMA CompIsTyped ==
    ASSUME FileInv
    PROVE  /\ comp \in CompStates /\ CompAgrees /\ ReportIsTrue /\ DeletedIsBackedUp
           /\ path # None => path \in 1 .. made /\ files[path].rows \subseteq Rows \cup Expired
<1>1. /\ files \in [1 .. MaxFiles -> [rows : SUBSET (Rows \cup Expired), version : 0 .. Current]]
      /\ path \in (1 .. made) \cup {None} /\ made \in 0 .. MaxFiles /\ MaxFiles \in Nat
  BY StoreFileAssumption DEF FileInv, FileTypeOK
<1>2. path # None => path \in 1 .. made /\ path \in 1 .. MaxFiles
  BY <1>1
<1>3. path # None => files[path].rows \subseteq Rows \cup Expired
  BY <1>1, <1>2
<1> QED BY <1>2, <1>3 DEF FileInv, FileTypeOK, CompStates, MaintenanceIsSafe

\* Before it has the lock, and when it ends.
LEMMA OutsideSteps ==
    ASSUME FileInv, Inspect \/ LockStore \/ LockRefused \/ EndCompaction
    PROVE  FileInv'
<1>1. comp \in CompStates /\ CompAgrees /\ path \in (1 .. made) \cup {None}
  BY CompIsTyped DEF FileInv, FileTypeOK
<1>2. /\ path # None => files[path].rows \subseteq Rows \cup Expired
      /\ written \subseteq Stored
  BY CompIsTyped DEF FileInv, SharersAreSafe, NoWriteIsLost
<1>3. Idle \in CompStates /\ Idle.pc = "idle" /\ Idle.lock = "none"
      /\ ~Idle.mutated /\ ~Idle.published
  BY DEF Idle, CompStates, CompPcs, Statuses
<1>4. UNCHANGED <<path, files, made, wal, conns, written>>
  BY DEF Inspect, LockStore, LockRefused, EndCompaction
<1>5. CASE Inspect
  <2> DEFINE k == [Idle EXCEPT !.pc = "inspected", !.id = path]
  <2>1. /\ k \in CompStates /\ k.pc = "inspected" /\ k.lock = "none" /\ k.id = path
        /\ ~k.mutated /\ ~k.published
    BY <1>1, <1>3 DEF CompStates, CompPcs
  <2>2. comp' = k /\ path # None
    BY <1>5 DEF Inspect
  <2> HIDE DEF k
  <2>3. CompAgrees' /\ ReportIsTrue' /\ DeletedIsBackedUp'
    BY <1>4, <2>1, <2>2 DEF CompAgrees, Locked, Built, ReportIsTrue, DeletedIsBackedUp
  <2> QED BY <1>4, <2>1, <2>2, <2>3, OnlyComp
<1>6. CASE EndCompaction
  <2>1. comp' = Idle
    BY <1>6 DEF EndCompaction
  <2>2. CompAgrees' /\ ReportIsTrue' /\ DeletedIsBackedUp'
    BY <1>3, <1>4, <2>1 DEF CompAgrees, Locked, Built, ReportIsTrue, DeletedIsBackedUp
  <2> QED BY <1>3, <1>4, <2>1, <2>2, OnlyComp
<1>7. CASE LockRefused \/ (LockStore /\ path # comp.id)
  <2> PICK s \in {"permissions_failed", "offline_required"} : comp' = Report(s)
    BY <1>7 DEF LockRefused, LockStore
  <2>1. /\ comp' \in CompStates /\ comp'.pc = "reporting" /\ comp'.lock = comp.lock
        /\ comp.lock = "none"
    BY <1>1, <1>7 DEF CompStates, CompPcs, Statuses, Report, LockRefused, LockStore, LockFree,
                      CompAgrees
  <2>2. CompAgrees' /\ ReportIsTrue' /\ DeletedIsBackedUp'
    BY <1>4, <2>1 DEF CompAgrees, Locked, Built, ReportIsTrue, DeletedIsBackedUp
  <2> QED BY <1>4, <2>1, <2>2, OnlyComp
<1>8. CASE LockStore /\ path = comp.id
  <2> DEFINE k == [comp EXCEPT !.pc = "locked", !.lock = "EX", !.before = files[path].rows]
  <2>1. comp.pc = "inspected" /\ Holders = {} /\ comp' = k
    BY <1>8 DEF LockStore, LockFree
  <2>2. path # None /\ ~comp.mutated /\ ~comp.published
    BY <1>1, <1>8, <2>1 DEF CompAgrees
  <2>3. /\ k \in CompStates /\ k.pc = "locked" /\ k.lock = "EX" /\ k.before = files[path].rows
        /\ k.id = path /\ k.mutated = comp.mutated /\ k.published = comp.published
    BY <1>1, <1>2, <1>8, <2>2 DEF CompStates, CompPcs, Locked
  <2>4. Stored = files[path].rows /\ Stored' = files[path].rows
    BY <1>4, <2>2 DEF Stored
  <2> HIDE DEF k
  <2>5. CompAgrees'
    BY <1>2, <1>4, <2>1, <2>2, <2>3, <2>4 DEF CompAgrees, Locked, Built
  <2>6. ReportIsTrue' /\ DeletedIsBackedUp'
    BY <2>1, <2>3, <2>4 DEF ReportIsTrue, DeletedIsBackedUp
  <2>7. \A c \in Conns : conns[c].lock = "none"
    BY <2>1 DEF Holders
  <2> QED BY <1>4, <2>1, <2>3, <2>5, <2>6, <2>7, OnlyComp
<1> QED BY <1>5, <1>6, <1>7, <1>8

\* What holds while the compaction is under way.
LEMMA UnderTheLock ==
    ASSUME FileInv, comp.pc \in Locked
    PROVE  /\ comp.lock = "EX" /\ \A c \in Conns : conns[c].lock = "none"
           /\ path # None /\ path \in 1 .. made /\ Stored = files[path].rows
           /\ comp.before \ Expired \subseteq Stored /\ Stored \subseteq comp.before
           /\ written \subseteq comp.before \ Expired
<1>1. comp.lock = "EX"
  BY DEF FileInv, CompAgrees
<1>2. path # None /\ path \in 1 .. made /\ Stored = files[path].rows
  BY <1>1, CompIsTyped DEF FileInv, CompAgrees, Stored
<1>3. written \subseteq Rows
  BY DEF FileInv, FileTypeOK
<1> QED BY <1>1, <1>2, <1>3, StoreFileAssumption DEF FileInv, CompAgrees, LocksAgree

\* A step that changes no file, but may empty the -wal.
LEMMA LockedMoves ==
    ASSUME FileInv, comp.pc \in Locked, UNCHANGED <<path, files, made, conns, written>>,
           wal' \in {wal, None}, comp' \in CompStates, comp'.lock = "EX",
           comp'.before = comp.before, comp.backup => comp'.backup, CompAgrees',
           comp'.pc = "reporting" /\ comp'.status = "completed" =>
              files[path].rows = comp.before \ Expired,
           comp'.pc = "reporting" /\ comp'.status = "rollback_completed" =>
              files[path].rows = comp.before
    PROVE  FileInv'
<1>1. /\ comp.lock = "EX" /\ \A c \in Conns : conns[c].lock = "none"
      /\ path # None /\ Stored = files[path].rows
      /\ comp.before \ Expired \subseteq Stored
  BY UnderTheLock
<1>2. Stored' = Stored
  BY DEF Stored
<1>3. ReportIsTrue' /\ DeletedIsBackedUp'
  BY <1>1, <1>2 DEF ReportIsTrue, DeletedIsBackedUp, FileInv, MaintenanceIsSafe
<1>4. /\ made' \in 0 .. MaxFiles /\ path' \in (1 .. made') \cup {None} /\ made \in Nat
      /\ files' \in [1 .. MaxFiles -> [rows : SUBSET (Rows \cup Expired), version : 0 .. Current]]
      /\ made' >= made
  BY StoreFileAssumption DEF FileInv, FileTypeOK
<1>5. FreshAreEmpty' /\ NoWriteIsLost' /\ WalFitsFile'
  BY <1>2 DEF FileInv, SharersAreSafe, MaintenanceIsSafe, FreshAreEmpty, NoWriteIsLost,
              WalFitsFile
<1>6. comp' \in CompStates'
  BY DEF CompStates
<1> QED BY <1>1, <1>3, <1>4, <1>5, <1>6, CompMoves

\* The answer is given: of the two that promise something, only when it is true.
LEMMA Reports ==
    ASSUME FileInv, comp.pc \in Locked, UNCHANGED <<path, files, made, wal, conns, written>>,
           NEW s \in Statuses, comp' = [comp EXCEPT !.pc = "reporting", !.status = s],
           s # "rollback_completed",
           s = "completed" => files[path].rows = comp.before \ Expired
    PROVE  FileInv'
<1>1. comp \in CompStates /\ CompAgrees /\ comp.lock = "EX"
  BY CompIsTyped, UnderTheLock
<1>2. /\ comp' \in CompStates /\ comp'.pc = "reporting" /\ comp'.status = s
      /\ comp'.lock = "EX" /\ comp'.before = comp.before /\ comp'.backup = comp.backup
  BY <1>1 DEF CompStates, CompPcs
<1>3. CompAgrees'
  BY <1>1, <1>2 DEF CompAgrees, Locked, Built
<1> QED BY <1>2, <1>3, LockedMoves

\* A step that only goes on, or back.
LEMMA GoesOn ==
    ASSUME FileInv, comp.pc \in Locked, UNCHANGED <<path, files, made, conns, written>>,
           wal' \in {wal, None},
           NEW pc \in Locked, NEW backup \in BOOLEAN, NEW mutated \in BOOLEAN,
           comp' = [comp EXCEPT !.pc = pc, !.backup = backup, !.mutated = mutated],
           comp.backup => backup, comp.mutated => mutated,
           CompAgrees'
    PROVE  FileInv'
<1>1. comp \in CompStates /\ comp.lock = "EX"
  BY CompIsTyped, UnderTheLock
<1>2. /\ comp' \in CompStates /\ comp'.pc = pc
      /\ comp'.lock = "EX" /\ comp'.before = comp.before /\ comp'.backup = backup
  BY <1>1 DEF CompStates, CompPcs
<1>3. pc # "reporting"
  BY DEF Locked, Built
<1> QED BY <1>2, <1>3, LockedMoves

\* The steps that look, back up, or flush.
LEMMA QuietCompSteps ==
    ASSUME FileInv,
           \/ Precheck \/ Backup \/ Checkpoint \/ CheckpointFails \/ Reserve \/ CheckReplacement
           \/ Activate \/ Verified \/ RestoreFails \/ \E ok \in BOOLEAN : RestoreFlush(ok)
    PROVE  FileInv'
<1>1. /\ comp.pc \in Locked /\ UNCHANGED <<path, files, made, conns, written>>
      /\ wal' \in {wal, None}
  BY DEF Precheck, Backup, Checkpoint, CheckpointFails, Reserve, CheckReplacement, Activate,
         Verified, RestoreFails, RestoreFlush, Locked, Built
<1>2. /\ comp \in CompStates /\ comp.lock = "EX" /\ CompAgrees /\ path # None
      /\ comp.before \ Expired \subseteq files[path].rows /\ files[path].rows \subseteq comp.before
      /\ written \subseteq comp.before
  BY <1>1, CompIsTyped, UnderTheLock
<1>3. CASE Precheck /\ comp' # [comp EXCEPT !.pc = "checked"]
  <2>1. comp' = [comp EXCEPT !.pc = "reporting", !.status = "schema_not_current"]
        /\ wal' = wal
    BY <1>3 DEF Precheck, Report
  <2> QED BY <1>1, <2>1, Reports DEF Statuses
<1>4. CASE Verified
  <2>1. comp' = [comp EXCEPT !.pc = "reporting", !.status = "completed"] /\ wal' = wal
        /\ comp.pc = "activated"
    BY <1>4 DEF Verified, Report
  <2>2. files[path].rows = comp.before \ Expired
    BY <1>2, <2>1 DEF CompAgrees
  <2> QED BY <1>1, <2>1, <2>2, Reports DEF Statuses
<1>5. CASE RestoreFails \/ \E ok \in BOOLEAN :
             RestoreFlush(ok) /\ ~(comp.backup /\ path = comp.id /\ ok)
  <2>1. comp' = [comp EXCEPT !.pc = "reporting", !.status = "rollback_failed"] /\ wal' = wal
    BY <1>5 DEF RestoreFails, RestoreFlush, Report
  <2> QED BY <1>1, <2>1, Reports DEF Statuses
<1>6. CASE \/ Precheck /\ comp' = [comp EXCEPT !.pc = "checked"]
           \/ Backup \/ Checkpoint \/ CheckpointFails \/ Reserve \/ CheckReplacement \/ Activate
           \/ \E ok \in BOOLEAN : RestoreFlush(ok) /\ comp.backup /\ path = comp.id /\ ok
  <2> DEFINE Moves(pc, backup, mutated) ==
           /\ comp' = [comp EXCEPT !.pc = pc, !.backup = backup, !.mutated = mutated]
           /\ comp.backup => backup
           /\ comp.mutated => mutated
           /\ \/ comp.pc = "locked" /\ pc = "checked" /\ mutated = comp.mutated
              \/ comp.pc = "checked" /\ pc = "saved" /\ backup
              \/ /\ comp.pc = "saved" /\ pc = "flushed" /\ mutated /\ wal' = None
                 /\ Expired \cap files[path].rows = {}
              \/ comp.pc = "saved" /\ pc = "rollback" /\ mutated
              \/ comp.pc = "flushed" /\ pc = "reserved" /\ wal' = wal
              \/ comp.pc = "vacuumed" /\ pc = "built" /\ wal' = wal
              \/ comp.pc = "published" /\ pc = "activated"
              \/ comp.pc = "rollback" /\ pc = "restoring" /\ path = comp.id /\ wal' = None
  <2>1. \E pc \in Locked, backup \in BOOLEAN, mutated \in BOOLEAN : Moves(pc, backup, mutated)
    <3>1. /\ comp.backup \in BOOLEAN /\ comp.mutated \in BOOLEAN
          /\ \A pc : /\ [comp EXCEPT !.pc = pc] =
                           [comp EXCEPT !.pc = pc, !.backup = comp.backup, !.mutated = comp.mutated]
                     /\ [comp EXCEPT !.pc = pc, !.backup = TRUE] =
                           [comp EXCEPT !.pc = pc, !.backup = TRUE, !.mutated = comp.mutated]
                     /\ [comp EXCEPT !.pc = pc, !.mutated = TRUE] =
                           [comp EXCEPT !.pc = pc, !.backup = comp.backup, !.mutated = TRUE]
      BY <1>2 DEF CompStates
    <3>2. {"checked", "saved", "flushed", "rollback", "reserved", "built", "activated",
           "restoring"} \subseteq Locked
      BY DEF Locked, Built
    <3>3. CASE Precheck /\ comp' = [comp EXCEPT !.pc = "checked"]
      <4>1. Moves("checked", comp.backup, comp.mutated)
        BY <3>1, <3>3 DEF Precheck
      <4> QED BY <3>1, <3>2, <4>1
    <3>4. CASE Backup
      <4>1. Moves("saved", TRUE, comp.mutated)
        BY <3>1, <3>4 DEF Backup
      <4> QED BY <3>1, <3>2, <4>1
    <3>5. CASE Checkpoint
      <4>1. Moves("flushed", comp.backup, TRUE)
        BY <3>1, <3>5 DEF Checkpoint
      <4> QED BY <3>1, <3>2, <4>1
    <3>6. CASE CheckpointFails
      <4>1. Moves("rollback", comp.backup, TRUE)
        BY <3>1, <3>6 DEF CheckpointFails
      <4> QED BY <3>1, <3>2, <4>1
    <3>7. CASE Reserve
      <4>1. Moves("reserved", comp.backup, comp.mutated)
        BY <3>1, <3>7 DEF Reserve
      <4> QED BY <3>1, <3>2, <4>1
    <3>8. CASE CheckReplacement
      <4>1. Moves("built", comp.backup, comp.mutated)
        BY <3>1, <3>8 DEF CheckReplacement
      <4> QED BY <3>1, <3>2, <4>1
    <3>9. CASE Activate
      <4>1. Moves("activated", comp.backup, comp.mutated)
        BY <3>1, <3>9 DEF Activate
      <4> QED BY <3>1, <3>2, <4>1
    <3>10. CASE \E ok \in BOOLEAN : RestoreFlush(ok) /\ comp.backup /\ path = comp.id /\ ok
      <4>1. Moves("restoring", comp.backup, comp.mutated)
        BY <3>1, <3>10 DEF RestoreFlush
      <4> QED BY <3>1, <3>2, <4>1
    <3> QED BY <1>6, <3>3, <3>4, <3>5, <3>6, <3>7, <3>8, <3>9, <3>10
  <2> PICK pc \in Locked, backup \in BOOLEAN, mutated \in BOOLEAN : Moves(pc, backup, mutated)
    BY <2>1
  <2>2. /\ comp'.pc = pc /\ comp'.backup = backup /\ comp'.mutated = mutated
        /\ comp'.lock = comp.lock /\ comp'.id = comp.id /\ comp'.before = comp.before
        /\ comp'.published = comp.published /\ comp'.temp = comp.temp
    BY <1>2 DEF CompStates
  <2>3. CompAgrees'
    BY <1>1, <1>2, <2>2 DEF CompAgrees, Locked, Built
  <2> QED BY <1>1, <2>3, GoesOn
<1> QED BY <1>3, <1>4, <1>5, <1>6

\* An exception leads to the rollback once something was changed, and else to
\* the answer.
LEMMA AbortStep ==
    ASSUME FileInv, Abort
    PROVE  FileInv'
<1>1. /\ comp.pc \in Locked \ {"rollback", "restoring"} /\ comp' = Failed(comp, "failed")
      /\ UNCHANGED <<path, files, made, wal, conns, written>>
  BY DEF Abort, Locked, Built
<1>2. comp \in CompStates /\ CompAgrees /\ comp.lock = "EX"
  BY <1>1, CompIsTyped, UnderTheLock
<1>3. CASE comp.published \/ comp.mutated
  <2> DEFINE k == [comp EXCEPT !.pc = "rollback"]
  <2>1. comp' = k
    BY <1>1, <1>3 DEF Failed
  <2>2. /\ k.pc = "rollback" /\ k = [comp EXCEPT !.pc = "rollback", !.backup = comp.backup,
                                                 !.mutated = comp.mutated]
        /\ k.lock = comp.lock /\ k.before = comp.before /\ k.backup = comp.backup
        /\ comp.backup \in BOOLEAN /\ comp.mutated \in BOOLEAN
    BY <1>2 DEF CompStates
  <2> HIDE DEF k
  <2>3. comp.pc \notin {"locked", "checked"}
    BY <1>2, <1>3 DEF CompAgrees
  <2>4. CompAgrees'
    BY <1>1, <1>2, <2>1, <2>2, <2>3 DEF CompAgrees, Locked, Built
  <2>5. "rollback" \in Locked
    BY DEF Locked
  <2> QED BY <1>1, <2>1, <2>2, <2>4, <2>5, GoesOn
<1>4. CASE ~(comp.published \/ comp.mutated)
  <2>1. comp' = [comp EXCEPT !.pc = "reporting", !.status = "failed"]
    BY <1>1, <1>4 DEF Failed
  <2> QED BY <1>1, <2>1, Reports DEF Statuses
<1> QED BY <1>3, <1>4

\* A snapshot that expired is deleted, once a backup has it.
LEMMA DeleteStep ==
    ASSUME FileInv, NEW r \in Expired, NEW raised \in BOOLEAN, DeleteBatch(r, raised)
    PROVE  FileInv'
<1>1. /\ comp.pc = "saved" /\ r \in Expired \cap files[path].rows
      /\ files' = [files EXCEPT ![path].rows = @ \ {r}] /\ wal' = path
      /\ UNCHANGED <<path, made, conns, written>>
  BY DEF DeleteBatch
<1>2. "saved" \in Locked
  BY DEF Locked
<1>3. /\ comp.lock = "EX" /\ \A c \in Conns : conns[c].lock = "none"
      /\ path # None /\ path \in 1 .. made /\ Stored = files[path].rows
      /\ comp.before \ Expired \subseteq Stored /\ Stored \subseteq comp.before
      /\ written \subseteq comp.before \ Expired
  BY <1>1, <1>2, UnderTheLock
<1>4. comp \in CompStates /\ CompAgrees /\ comp.backup /\ path = comp.id
  BY <1>1, <1>2, CompIsTyped DEF CompAgrees
<1>5. /\ files \in [1 .. MaxFiles -> [rows : SUBSET (Rows \cup Expired), version : 0 .. Current]]
      /\ made \in 0 .. MaxFiles /\ MaxFiles \in Nat
  BY StoreFileAssumption DEF FileInv, FileTypeOK
<1>6. path \in 1 .. MaxFiles
  BY <1>3, <1>5
<1>7. /\ files' \in [1 .. MaxFiles -> [rows : SUBSET (Rows \cup Expired), version : 0 .. Current]]
      /\ files'[path].rows = files[path].rows \ {r}
      /\ \A i \in (made + 1) .. MaxFiles : files'[i] = files[i]
  BY <1>1, <1>3, <1>5, <1>6
<1>8. Stored' = Stored \ {r}
  BY <1>1, <1>3, <1>7 DEF Stored
<1>9. /\ comp' \in CompStates /\ comp'.before = comp.before /\ comp'.backup = comp.backup
      /\ comp'.lock = "EX" /\ comp'.id = comp.id
      /\ \/ comp'.pc = "saved" \/ comp'.pc = "rollback"
         \/ comp'.pc = "reporting" /\ comp'.status = "maintenance_failed"
  BY <1>1, <1>3, <1>4 DEF DeleteBatch, Failed, CompStates, CompPcs, Statuses, Locked
<1>10. CompAgrees'
  BY <1>1, <1>3, <1>4, <1>7, <1>8, <1>9 DEF CompAgrees, Locked, Built
<1>11. ReportIsTrue' /\ DeletedIsBackedUp'
  BY <1>3, <1>4, <1>8, <1>9 DEF ReportIsTrue, DeletedIsBackedUp
<1>12. FreshAreEmpty' /\ NoWriteIsLost' /\ WalFitsFile'
  <2>1. written \subseteq Stored'
    BY <1>3, <1>8
  <2> QED BY <1>1, <1>5, <1>7, <2>1 DEF FileInv, FreshAreEmpty, NoWriteIsLost, WalFitsFile
<1>13. comp' \in CompStates' /\ made' \in 0 .. MaxFiles /\ made' >= made
       /\ path' \in (1 .. made') \cup {None}
  BY <1>1, <1>3, <1>5, <1>9 DEF CompStates
<1> QED BY <1>1, <1>3, <1>7, <1>9, <1>10, <1>11, <1>12, <1>13, CompMoves

\* The compacted copy gets a file of its own.
LEMMA VacuumStep ==
    ASSUME FileInv, Vacuum
    PROVE  FileInv'
<1>1. /\ comp.pc = "reserved" /\ made < MaxFiles /\ made' = made + 1
      /\ files' = [files EXCEPT ![made + 1] = files[path]]
      /\ comp' = [comp EXCEPT !.pc = "vacuumed", !.temp = made + 1]
      /\ UNCHANGED <<path, wal, conns, written>>
  BY DEF Vacuum
<1>2. "reserved" \in Locked /\ "reserved" \in Built
  BY DEF Locked, Built
<1>3. /\ comp.lock = "EX" /\ \A c \in Conns : conns[c].lock = "none"
      /\ path # None /\ path \in 1 .. made /\ Stored = files[path].rows
      /\ comp.before \ Expired \subseteq Stored /\ Stored \subseteq comp.before
      /\ written \subseteq comp.before \ Expired
  BY <1>1, <1>2, UnderTheLock
<1>4. /\ comp \in CompStates /\ CompAgrees /\ comp.backup /\ comp.mutated /\ path = comp.id
      /\ wal = None /\ files[path].rows = comp.before \ Expired
  BY <1>1, <1>2, CompIsTyped DEF CompAgrees, Built, Locked
<1>5. /\ files \in [1 .. MaxFiles -> [rows : SUBSET (Rows \cup Expired), version : 0 .. Current]]
      /\ made \in 0 .. MaxFiles /\ MaxFiles \in Nat
  BY StoreFileAssumption DEF FileInv, FileTypeOK
<1>6. /\ path \in 1 .. MaxFiles /\ made + 1 \in 1 .. MaxFiles /\ path # made + 1
      /\ made' \in 0 .. MaxFiles /\ made' >= made /\ path' \in (1 .. made') \cup {None}
      /\ made + 1 \in 1 .. made' /\ 1 .. made \subseteq 1 .. made'
  BY <1>1, <1>3, <1>5
<1>7. /\ files' \in [1 .. MaxFiles -> [rows : SUBSET (Rows \cup Expired), version : 0 .. Current]]
      /\ files'[path] = files[path] /\ files'[made + 1] = files[path]
      /\ \A i \in (made' + 1) .. MaxFiles : files'[i] = files[i] /\ i \in (made + 1) .. MaxFiles
  BY <1>1, <1>5, <1>6
<1>8. Stored' = Stored
  BY <1>1, <1>3, <1>7 DEF Stored
<1>9. /\ comp' \in CompStates' /\ comp'.pc = "vacuumed" /\ comp'.temp = made + 1
      /\ comp'.before = comp.before /\ comp'.backup = comp.backup
      /\ comp'.mutated = comp.mutated /\ comp'.lock = "EX" /\ comp'.id = comp.id
  BY <1>1, <1>3, <1>4, <1>6 DEF CompStates, CompPcs, Locked, Built
<1>10. made + 1 # None
  BY <1>6, StoreFileAssumption
<1>11. CompAgrees'
  BY <1>1, <1>3, <1>4, <1>7, <1>8, <1>9, <1>10 DEF CompAgrees, Locked, Built
<1>12. ReportIsTrue' /\ DeletedIsBackedUp'
  BY <1>4, <1>9 DEF ReportIsTrue, DeletedIsBackedUp
<1>13. FreshAreEmpty' /\ NoWriteIsLost' /\ WalFitsFile'
  BY <1>1, <1>4, <1>7, <1>8 DEF FileInv, FreshAreEmpty, SharersAreSafe, NoWriteIsLost,
                                WalFitsFile
<1> QED BY <1>1, <1>3, <1>6, <1>7, <1>9, <1>11, <1>12, <1>13, CompMoves

\* The copy replaces the store.
LEMMA PublishStep ==
    ASSUME FileInv, NEW raised \in BOOLEAN, Publish(raised)
    PROVE  FileInv'
<1>1. /\ comp.pc = "built" /\ path = comp.id /\ path' = comp.temp
      /\ comp' = (IF raised THEN Failed(comp, "replacement_failed")
                  ELSE [comp EXCEPT !.pc = "published", !.published = TRUE, !.id = comp.temp])
      /\ UNCHANGED <<files, made, wal, conns, written>>
  BY DEF Publish
<1>2. "built" \in Locked /\ "built" \in Built
  BY DEF Locked, Built
<1>3. /\ comp.lock = "EX" /\ \A c \in Conns : conns[c].lock = "none"
      /\ path # None /\ path \in 1 .. made /\ Stored = files[path].rows
      /\ comp.before \ Expired \subseteq Stored /\ Stored \subseteq comp.before
      /\ written \subseteq comp.before \ Expired
  BY <1>1, <1>2, UnderTheLock
<1>4. /\ comp \in CompStates /\ CompAgrees /\ comp.backup /\ comp.mutated /\ wal = None
      /\ files[path].rows = comp.before \ Expired
      /\ comp.temp # None /\ files[comp.temp].rows = files[path].rows
  BY <1>1, <1>2, CompIsTyped DEF CompAgrees, Built, Locked
<1>5. /\ files \in [1 .. MaxFiles -> [rows : SUBSET (Rows \cup Expired), version : 0 .. Current]]
      /\ made \in 0 .. MaxFiles /\ MaxFiles \in Nat /\ made \in Nat
  BY StoreFileAssumption DEF FileInv, FileTypeOK
<1>6. comp.temp \in 1 .. made
  BY <1>4 DEF CompStates
<1>7. Stored' = Stored /\ files'[path'].rows = files[path].rows /\ path' # None
  BY <1>1, <1>3, <1>4 DEF Stored
<1>8. /\ comp' \in CompStates /\ comp'.before = comp.before /\ comp'.backup = comp.backup
      /\ comp'.mutated = comp.mutated /\ comp'.lock = "EX"
      /\ comp'.pc \in {"published", "rollback"}
  BY <1>1, <1>3, <1>4, <1>6 DEF CompStates, CompPcs, Locked, Failed
<1>9. CompAgrees'
  BY <1>1, <1>3, <1>4, <1>7, <1>8 DEF CompAgrees, Locked, Built
<1>10. ReportIsTrue' /\ DeletedIsBackedUp'
  BY <1>4, <1>8 DEF ReportIsTrue, DeletedIsBackedUp
<1>11. FreshAreEmpty' /\ NoWriteIsLost' /\ WalFitsFile'
  BY <1>1, <1>4, <1>7 DEF FileInv, FreshAreEmpty, SharersAreSafe, NoWriteIsLost, WalFitsFile
<1>12. comp' \in CompStates' /\ made' \in 0 .. MaxFiles /\ made' >= made
       /\ path' \in (1 .. made') \cup {None}
  BY <1>1, <1>5, <1>6, <1>8 DEF CompStates
<1>13. files' \in [1 .. MaxFiles -> [rows : SUBSET (Rows \cup Expired), version : 0 .. Current]]
  BY <1>1, <1>5
<1> QED BY <1>1, <1>3, <1>8, <1>9, <1>10, <1>11, <1>12, <1>13, CompMoves

\* The backup replaces the store, in a file of its own.
LEMMA RestoreStep ==
    ASSUME FileInv, NEW ok \in BOOLEAN, RestorePublish(ok)
    PROVE  FileInv'
<1> DEFINE f == [rows |-> comp.before, version |-> Current]
           s == IF ok THEN "rollback_completed" ELSE "rollback_failed"
<1>1. /\ comp.pc = "restoring" /\ made < MaxFiles /\ made' = made + 1
      /\ files' = [files EXCEPT ![made + 1] = f] /\ path' = made + 1
      /\ comp' = [comp EXCEPT !.pc = "reporting", !.status = s]
      /\ UNCHANGED <<wal, conns, written>>
  BY DEF RestorePublish, Report
<1>2. "restoring" \in Locked
  BY DEF Locked
<1>3. comp.lock = "EX" /\ written \subseteq comp.before \ Expired
      /\ \A c \in Conns : conns[c].lock = "none"
  BY <1>1, <1>2, UnderTheLock
<1>4. comp \in CompStates /\ CompAgrees /\ wal = None /\ comp.backup
  BY <1>1, <1>2, CompIsTyped DEF CompAgrees, Built, Locked
<1>5. /\ files \in [1 .. MaxFiles -> [rows : SUBSET (Rows \cup Expired), version : 0 .. Current]]
      /\ made \in 0 .. MaxFiles /\ MaxFiles \in Nat /\ Current \in Nat
  BY StoreFileAssumption DEF FileInv, FileTypeOK
<1>6. /\ made + 1 \in 1 .. MaxFiles /\ made' \in 0 .. MaxFiles /\ made' >= made
      /\ made + 1 \in 1 .. made' /\ 1 .. made \subseteq 1 .. made'
  BY <1>1, <1>5
<1>7. /\ f \in [rows : SUBSET (Rows \cup Expired), version : 0 .. Current]
      /\ f.rows = comp.before
  BY <1>4, <1>5 DEF CompStates
<1> HIDE DEF f
<1>8. /\ files' \in [1 .. MaxFiles -> [rows : SUBSET (Rows \cup Expired), version : 0 .. Current]]
      /\ files'[made + 1] = f
      /\ \A i \in (made' + 1) .. MaxFiles : files'[i] = files[i] /\ i \in (made + 1) .. MaxFiles
  BY <1>1, <1>5, <1>6, <1>7
<1>9. made + 1 # None
  BY <1>6, StoreFileAssumption
<1>10. Stored' = comp.before /\ files'[path'].rows = comp.before /\ path' # None
  BY <1>1, <1>7, <1>8, <1>9 DEF Stored
<1>11. /\ comp' \in CompStates' /\ comp'.pc = "reporting" /\ comp'.status = s
       /\ comp'.lock = "EX" /\ comp'.before = comp.before
       /\ comp'.backup = comp.backup
  BY <1>1, <1>3, <1>4, <1>6 DEF CompStates, CompPcs, Statuses
<1>12. CompAgrees'
  BY <1>1, <1>3, <1>4, <1>10, <1>11 DEF CompAgrees, Locked, Built
<1>13. ReportIsTrue' /\ DeletedIsBackedUp'
  BY <1>4, <1>10, <1>11 DEF ReportIsTrue, DeletedIsBackedUp
<1>14. FreshAreEmpty' /\ NoWriteIsLost' /\ WalFitsFile'
  BY <1>1, <1>3, <1>4, <1>8, <1>10 DEF FileInv, FreshAreEmpty, NoWriteIsLost, WalFitsFile
<1>15. path' \in (1 .. made') \cup {None}
  BY <1>1, <1>6
<1> QED BY <1>1, <1>3, <1>6, <1>8, <1>11, <1>12, <1>13, <1>14, <1>15, CompMoves

\* The invariant of the store's file holds in every reachable state.
LEMMA FileInvariant == StoreSpec => []FileInv
<1>1. StoreInit => FileInv
  <2> SUFFICES ASSUME StoreInit PROVE FileInv
    OBVIOUS
  <2>1. /\ conns = [c \in Conns |-> Gone] /\ comp = Idle /\ written = {} /\ wal = None
        /\ made \in {0, 1} /\ MaxFiles \in Nat \ {0} /\ Current \in Nat \ {0}
    BY StoreFileAssumption DEF StoreInit
  <2>2. /\ files \in [1 .. MaxFiles -> [rows : SUBSET (Rows \cup Expired), version : 0 .. Current]]
        /\ path \in (1 .. made) \cup {None} /\ FreshAreEmpty
    <3>1. NoFile \in [rows : SUBSET (Rows \cup Expired), version : 0 .. Current]
      BY <2>1 DEF NoFile
    <3>2. CASE path = None /\ made = 0 /\ files = [i \in 1 .. MaxFiles |-> NoFile]
      BY <3>1, <3>2 DEF FreshAreEmpty
    <3>3. ASSUME path = 1, made = 1, NEW v \in 1 .. Current,
                 files = [i \in 1 .. MaxFiles |->
                             IF i = 1 THEN [rows |-> Expired, version |-> v] ELSE NoFile]
          PROVE  /\ files \in [1 .. MaxFiles ->
                                  [rows : SUBSET (Rows \cup Expired), version : 0 .. Current]]
                 /\ path \in (1 .. made) \cup {None} /\ FreshAreEmpty
      <4>1. [rows |-> Expired, version |-> v] \in
               [rows : SUBSET (Rows \cup Expired), version : 0 .. Current]
        BY <2>1
      <4> QED BY <2>1, <3>1, <3>3, <4>1 DEF FreshAreEmpty
    <3> QED BY <3>2, <3>3 DEF StoreInit
  <2>3. FileTypeOK
    BY <2>1, <2>2 DEF FileTypeOK, Gone, Idle, ConnPcs, CompPcs, Statuses
  <2>4. LocksAgree /\ ConnsHold /\ ConnsAgree /\ CompAgrees
    BY <2>1 DEF LocksAgree, ConnsHold, ConnsAgree, CompAgrees, Gone, Idle, Locked, Built
  <2>5. SharersAreSafe /\ MaintenanceIsSafe
    BY <2>1 DEF SharersAreSafe, NoWriteIsLost, MigratesAlone, MaintenanceIsSafe, ReportIsTrue,
                DeletedIsBackedUp, WalFitsFile, Gone, Idle
  <2> QED BY <2>2, <2>3, <2>4, <2>5 DEF FileInv
<1>2. FileInv /\ [StoreNext]_fileVars => FileInv'
  <2> SUFFICES ASSUME FileInv, [StoreNext]_fileVars PROVE FileInv'
    OBVIOUS
  <2>1. ASSUME NEW c \in Conns,
               \/ Open(c) \/ Create(c) \/ Uncreate(c) \/ Connect(c)
               \/ \E ok \in BOOLEAN : Created(c, ok)
               \/ Upgrade(c) \/ RestoreLock(c) \/ Migrate(c) \/ Migrated(c) \/ Close(c)
               \/ \E r \in Rows : Write(c, r)
        PROVE  FileInv'
    BY <2>1, QuietConnSteps, CreateStep, UncreateStep, WriteSteps
  <2>2. CASE Inspect \/ LockStore \/ LockRefused \/ EndCompaction
    BY <2>2, OutsideSteps
  <2>3. CASE \/ Precheck \/ Backup \/ Checkpoint \/ CheckpointFails \/ Reserve
             \/ CheckReplacement \/ Activate \/ Verified \/ RestoreFails
             \/ \E ok \in BOOLEAN : RestoreFlush(ok)
    BY <2>3, QuietCompSteps
  <2>4. CASE \/ Abort \/ Vacuum \/ \E r \in Expired, raised \in BOOLEAN : DeleteBatch(r, raised)
             \/ \E raised \in BOOLEAN : Publish(raised)
             \/ \E ok \in BOOLEAN : RestorePublish(ok)
    BY <2>4, AbortStep, VacuumStep, DeleteStep, PublishStep, RestoreStep
  <2>5. CASE UNCHANGED fileVars
    <3>1. comp' \in CompStates /\ UNCHANGED <<path, files, made, wal, conns, comp, written>>
      BY <2>5, CompIsTyped DEF fileVars
    <3>2. CompAgrees' /\ ReportIsTrue' /\ DeletedIsBackedUp'
      BY <3>1, CompKept
    <3> QED BY <3>1, <3>2, OnlyComp
  <2> QED BY <2>1, <2>2, <2>3, <2>4, <2>5 DEF StoreNext
<1> QED BY <1>1, <1>2, PTL DEF StoreSpec

\* Whoever opens, creates, migrates and compacts the store at once, fails or dies: no
\* committed row is lost, and a migration has the store to itself.  Wherever a
\* compaction fails or stops, what it deleted is in a backup, its answer is true and
\* the -wal belongs to the file in place.
THEOREM StoreSafe == StoreSpec => []StoreIsSafe
<1>1. FileInv => StoreIsSafe
  BY DEF FileInv, StoreIsSafe
<1> QED BY <1>1, FileInvariant, PTL

-----------------------------------------------------------------------------
(* The installation key.                                                   *)

Entries == [id : Nat, of : Nat] \cup {NoEntry}
Loading == {"look", "decide", "get", "verify", "confirm"}

KeyTypeOK ==
    /\ entries \in [Names -> Entries]
    /\ procs \in [Procs -> [pc : Loading \cup {"inactive", "unlink"}, name : Names,
                            seen : [Names -> Entries], key : Nat]]
    /\ links \in Nat /\ losses \in Nat /\ broken \in BOOLEAN /\ issued \subseteq Nat

Present(p, names) == \A n \in names : procs[p].seen[n] # NoEntry

\* What a load has seen stays until it is over.
SeenIsThere(p) ==
    procs[p].pc \in Loading =>
        \A n \in Names : procs[p].seen[n] # NoEntry => entries[n] = procs[p].seen[n]

\* A load that found no sentinel can only find one later that was published
\* after a key, and that key.
UnsealedHasKey(p) ==
    procs[p].pc \in {"decide", "get"} /\ procs[p].seen["sentinel"] = NoEntry =>
        (entries["sentinel"] # NoEntry => entries["key"] # NoEntry)

\* What a load has seen and read when it is at each of its steps.
LoadAgrees(p) ==
    LET s == procs[p].seen IN
    /\ procs[p].pc = "decide" => procs[p].name = "key"
    /\ procs[p].pc = "get" =>
          /\ s["sentinel"] # NoEntry => Present(p, Names)
          /\ s["marker"] # NoEntry => Present(p, {"key"})
          /\ procs[p].name = "marker" => Present(p, {"key"}) /\ procs[p].key = s["key"].of
    /\ procs[p].pc = "verify" \/ (procs[p].pc = "get" /\ procs[p].name = "sentinel") =>
          /\ Present(p, {"key", "marker"})
          /\ procs[p].key = s["key"].of /\ procs[p].key = s["marker"].of
    /\ procs[p].pc = "confirm" => Present(p, Names) /\ procs[p].key = s["key"].of

\* A reset is alone, and removes the marker, the key and the sentinel in turn.
ResetAgrees(p) ==
    procs[p].pc = "unlink" =>
        /\ \A q \in Procs \ {p} : procs[q] = Inactive
        /\ entries["sentinel"] # NoEntry
        /\ procs[p].name # "marker" => entries["marker"] = NoEntry
        /\ procs[p].name = "sentinel" => entries["key"] = NoEntry

\* The sentinel lasts as long as an identity that was given out, or that is broken.
SealIsKept ==
    /\ broken \/ issued # {} => entries["sentinel"] # NoEntry
    /\ entries["key"] # NoEntry => \A k \in issued : k = entries["key"].of

KeyInv ==
    /\ KeyTypeOK /\ SealIsKept /\ IdentityIsKept
    /\ \A p \in Procs : SeenIsThere(p) /\ UnsealedHasKey(p) /\ LoadAgrees(p) /\ ResetAgrees(p)
ProcStates == [pc : Loading \cup {"inactive", "unlink"}, name : Names,
               seen : [Names -> Entries], key : Nat]

\* A process that forgets what it loaded is a process.
LEMMA InactiveIsTyped ==
    Inactive \in ProcStates /\ Inactive.pc = "inactive"
BY DEF Inactive, Sought, ProcStates, Entries, Names, Loading

\* A reset has the directory to itself.
LEMMA NobodyResets ==
    ASSUME KeyInv, NEW p \in Procs,
           procs[p].pc \in Loading \/ (procs[p] = Inactive /\ ~Resetting)
    PROVE  \A q \in Procs : procs[q].pc # "unlink"
<1> SUFFICES ASSUME NEW q \in Procs, procs[q].pc = "unlink" PROVE FALSE
  OBVIOUS
<1>1. procs[p].pc \in Loading
  BY DEF Resetting
<1>2. q # p /\ procs[p] # Inactive
  BY <1>1, InactiveIsTyped DEF Loading
<1> QED BY <1>2 DEF KeyInv, ResetAgrees

\* A step of a load: it may add a file that was missing, the sentinel only after
\* the key, and the others' views stay true.
LEMMA LoadMoves ==
    ASSUME KeyInv, NEW p \in Procs, NEW k \in ProcStates, procs' = [procs EXCEPT ![p] = k],
           procs[p].pc \in Loading \/ (procs[p] = Inactive /\ ~Resetting), k.pc # "unlink",
           UNCHANGED <<losses, broken>>, links' \in Nat, issued' \subseteq Nat,
           entries' \in [Names -> Entries],
           \A n \in Names : entries'[n] = entries[n] \/ entries[n] = NoEntry,
           entries'["sentinel"] # entries["sentinel"] => entries["key"] # NoEntry,
           SealIsKept', IdentityIsKept', SeenIsThere(p)', UnsealedHasKey(p)', LoadAgrees(p)'
    PROVE  KeyInv'
<1>1. procs \in [Procs -> ProcStates]
  BY DEF KeyInv, KeyTypeOK, ProcStates
<1>2. procs'[p] = k /\ \A q \in Procs \ {p} : procs'[q] = procs[q]
  BY <1>1
<1>3. KeyTypeOK'
  BY <1>1 DEF KeyInv, KeyTypeOK, ProcStates
<1>4. \A q \in Procs : procs'[q].pc # "unlink"
  BY <1>2, NobodyResets
<1>5. ASSUME NEW q \in Procs \ {p}
      PROVE  SeenIsThere(q)' /\ UnsealedHasKey(q)' /\ LoadAgrees(q)'
  <2>1. procs'[q] = procs[q] /\ SeenIsThere(q) /\ UnsealedHasKey(q) /\ LoadAgrees(q)
    BY <1>2 DEF KeyInv
  <2>2. SeenIsThere(q)'
    BY <2>1 DEF SeenIsThere
  <2>3. UnsealedHasKey(q)'
    BY <2>1 DEF UnsealedHasKey, Names
  <2>4. LoadAgrees(q)'
    BY <2>1 DEF LoadAgrees, Present
  <2> QED BY <2>2, <2>3, <2>4
<1>6. \A q \in Procs : ResetAgrees(q)'
  BY <1>4 DEF ResetAgrees
<1> QED BY <1>3, <1>5, <1>6 DEF KeyInv

\* ... and when it adds none.
LEMMA LoadLooks ==
    ASSUME KeyInv, NEW p \in Procs, NEW k \in ProcStates, procs' = [procs EXCEPT ![p] = k],
           procs[p].pc \in Loading \/ (procs[p] = Inactive /\ ~Resetting), k.pc # "unlink",
           UNCHANGED <<entries, links, losses, broken, issued>>,
           SeenIsThere(p)', UnsealedHasKey(p)', LoadAgrees(p)'
    PROVE  KeyInv'
<1>1. /\ links' \in Nat /\ issued' \subseteq Nat /\ entries' \in [Names -> Entries]
      /\ SealIsKept' /\ IdentityIsKept'
  BY DEF KeyInv, KeyTypeOK, SealIsKept, IdentityIsKept, NeverLockedOut, OneIdentity
<1> QED BY <1>1, LoadMoves

\* A load that is over agrees with anything.
LEMMA LoadEnds ==
    ASSUME KeyInv, NEW p \in Procs, procs' = [procs EXCEPT ![p] = Inactive],
           procs[p].pc \in Loading, UNCHANGED <<entries, links, losses, broken, issued>>
    PROVE  KeyInv'
<1>1. procs'[p] = Inactive
  BY DEF KeyInv, KeyTypeOK
<1>2. SeenIsThere(p)' /\ UnsealedHasKey(p)' /\ LoadAgrees(p)'
  BY <1>1, InactiveIsTyped DEF SeenIsThere, UnsealedHasKey, LoadAgrees, Loading
<1> QED BY <1>2, InactiveIsTyped, LoadLooks

\* The steps of a load that only look.
LEMMA LookSteps ==
    ASSUME KeyInv, NEW p \in Procs,
           StartLoad(p) \/ (\E n \in Names : Look(p, n)) \/ Again(p) \/ Verify(p)
    PROVE  KeyInv'
<1>1. /\ procs \in [Procs -> ProcStates] /\ procs[p] \in ProcStates
      /\ entries \in [Names -> Entries]
  BY DEF KeyInv, KeyTypeOK, ProcStates
<1>2. SeenIsThere(p) /\ UnsealedHasKey(p) /\ LoadAgrees(p)
  BY DEF KeyInv
<1>3. UNCHANGED <<entries, links, losses, broken, issued>>
  BY DEF StartLoad, Look, Again, Verify
<1>4. CASE StartLoad(p)
  <2> DEFINE k == [procs[p] EXCEPT !.pc = "look", !.name = "key"]
  <2>1. procs' = [procs EXCEPT ![p] = k] /\ procs[p] = Inactive /\ ~Resetting
    BY <1>4 DEF StartLoad, Goes
  <2>2. k \in ProcStates /\ k.pc = "look" /\ k.seen = procs[p].seen
    BY <1>1 DEF ProcStates, Loading, Names
  <2>3. \A n \in Names : k.seen[n] = NoEntry
    BY <2>1, <2>2 DEF Inactive, Sought
  <2> HIDE DEF k
  <2>4. procs'[p] = k
    BY <1>1, <2>1
  <2>5. SeenIsThere(p)' /\ UnsealedHasKey(p)' /\ LoadAgrees(p)'
    BY <2>2, <2>3, <2>4 DEF SeenIsThere, UnsealedHasKey, LoadAgrees
  <2> QED BY <1>3, <2>1, <2>2, <2>5, LoadLooks
<1>5. ASSUME NEW n \in Names, Look(p, n) PROVE KeyInv'
  <2> DEFINE k == [procs[p] EXCEPT !.seen[n] = entries[n], !.name = After(n),
                                   !.pc = IF n = "sentinel" THEN "decide" ELSE "look"]
  <2>1. procs' = [procs EXCEPT ![p] = k] /\ procs[p].pc = "look"
    BY <1>5 DEF Look, At
  <2>2. /\ k \in ProcStates /\ k.pc = (IF n = "sentinel" THEN "decide" ELSE "look")
        /\ k.seen[n] = entries[n] /\ \A m \in Names \ {n} : k.seen[m] = procs[p].seen[m]
        /\ n = "sentinel" => k.name = "key"
    BY <1>1 DEF ProcStates, Loading, Names, After
  <2> HIDE DEF k
  <2>3. procs'[p] = k
    BY <1>1, <2>1
  <2>4. SeenIsThere(p)'
    BY <1>2, <1>3, <2>1, <2>2, <2>3 DEF SeenIsThere, Loading
  <2>5. UnsealedHasKey(p)' /\ LoadAgrees(p)'
    <3>1. k.pc \in {"look", "decide"} /\ (k.pc = "decide" => n = "sentinel")
      BY <2>2
    <3>2. LoadAgrees(p)'
      BY <2>2, <2>3, <3>1 DEF LoadAgrees
    <3>3. UnsealedHasKey(p)'
      BY <1>3, <2>2, <2>3, <3>1 DEF UnsealedHasKey
    <3> QED BY <3>2, <3>3
  <2> QED BY <1>3, <2>1, <2>2, <2>4, <2>5, LoadLooks DEF Loading
<1>6. CASE Again(p)
  <2> DEFINE s == procs[p].seen
             sealed == s["sentinel"] # NoEntry
             now == [n \in Names |->
                       IF s[n] = NoEntry /\ (\/ sealed
                                             \/ n = "key" /\ s["marker"] # NoEntry)
                       THEN entries[n] ELSE s[n]]
             must == CASE sealed -> Names
                       [] ~sealed /\ s["marker"] # NoEntry -> {"key"}
                       [] OTHER -> {}
             k == [procs[p] EXCEPT !.seen = now, !.pc = "get"]
  <2>1. procs[p].pc = "decide"
    BY <1>6 DEF Again
  <2>2. CASE \A n \in must : now[n] # NoEntry /\ (n = "sentinel" => entries[n] # NoEntry)
    <3>1. procs' = [procs EXCEPT ![p] = k]
      BY <1>6, <2>2 DEF Again
    <3>2. s \in [Names -> Entries] /\ now \in [Names -> Entries]
      BY <1>1 DEF ProcStates
    <3>3. k \in ProcStates /\ k.pc = "get" /\ k.seen = now /\ k.name = procs[p].name
      BY <1>1, <3>2 DEF ProcStates, Loading
    <3>4. \A n \in Names : now[n] # NoEntry => entries[n] = now[n]
      BY <1>2, <2>1 DEF SeenIsThere, Loading
    <3>5. /\ now["sentinel"] # NoEntry => \A n \in Names : now[n] # NoEntry
          /\ now["marker"] # NoEntry => now["key"] # NoEntry
          /\ now["sentinel"] = NoEntry => s["sentinel"] = NoEntry
      <4>1. CASE sealed
        <5>1. must = Names
          BY <4>1
        <5> QED BY <2>2, <4>1, <5>1 DEF Names
      <4>2. CASE ~sealed /\ s["marker"] # NoEntry
        <5>1. must = {"key"}
          BY <4>2
        <5> QED BY <2>2, <4>2, <5>1 DEF Names
      <4>3. CASE ~sealed /\ s["marker"] = NoEntry
        BY <4>3 DEF Names
      <4> QED BY <4>1, <4>2, <4>3
    <3>6. procs[p].name = "key"
      BY <1>2, <2>1 DEF LoadAgrees
    <3> HIDE DEF k, now, must, sealed
    <3>7. procs'[p] = k
      BY <1>1, <3>1
    <3>8. SeenIsThere(p)'
      BY <1>3, <3>3, <3>4, <3>7 DEF SeenIsThere
    <3>9. UnsealedHasKey(p)'
      BY <1>2, <1>3, <2>1, <3>3, <3>5, <3>7 DEF UnsealedHasKey
    <3>10. LoadAgrees(p)'
      BY <3>3, <3>5, <3>6, <3>7 DEF LoadAgrees, Present
    <3> QED BY <1>3, <2>1, <3>1, <3>3, <3>8, <3>9, <3>10, LoadLooks DEF Loading
  <2>3. CASE ~(\A n \in must : now[n] # NoEntry /\ (n = "sentinel" => entries[n] # NoEntry))
    <3>1. procs' = [procs EXCEPT ![p] = Inactive]
      BY <1>6, <2>3 DEF Again, Fails
    <3> QED BY <1>3, <2>1, <3>1, LoadEnds DEF Loading
  <2> QED BY <2>2, <2>3
<1>7. CASE Verify(p)
  <2> DEFINE k == [procs[p] EXCEPT !.pc = IF procs[p].seen["sentinel"] = NoEntry
                                          THEN "get" ELSE "confirm",
                                   !.name = "sentinel"]
  <2>1. procs[p].pc = "verify"
    BY <1>7 DEF Verify
  <2>2. CASE Kept(p, {"key", "marker"})
    <3>1. procs' = [procs EXCEPT ![p] = k]
      BY <1>7, <2>2 DEF Verify, Goes
    <3>2. /\ k \in ProcStates /\ k.name = "sentinel" /\ k.seen = procs[p].seen
          /\ k.key = procs[p].key /\ k.pc \in {"get", "confirm"}
          /\ k.pc = "get" <=> k.seen["sentinel"] = NoEntry
      BY <1>1 DEF ProcStates, Loading, Names
    <3> HIDE DEF k
    <3>3. procs'[p] = k
      BY <1>1, <3>1
    <3>4. SeenIsThere(p)'
      BY <1>2, <1>3, <2>1, <3>2, <3>3 DEF SeenIsThere, Loading
    <3>5. k.seen["key"] # NoEntry /\ k.seen["marker"] # NoEntry
          /\ k.key = k.seen["key"].of /\ k.key = k.seen["marker"].of
      BY <1>2, <2>1, <3>2 DEF LoadAgrees, Present
    <3>6. UnsealedHasKey(p)'
      BY <1>2, <1>3, <2>1, <3>2, <3>3, <3>5 DEF UnsealedHasKey, SeenIsThere, Loading, Names
    <3>7. LoadAgrees(p)'
      BY <3>2, <3>3, <3>5 DEF LoadAgrees, Present, Names
    <3> QED BY <1>3, <2>1, <3>1, <3>2, <3>4, <3>6, <3>7, LoadLooks DEF Loading
  <2>3. CASE ~Kept(p, {"key", "marker"})
    <3>1. procs' = [procs EXCEPT ![p] = Inactive]
      BY <1>7, <2>3 DEF Verify, Fails
    <3> QED BY <1>3, <2>1, <3>1, LoadEnds DEF Loading
  <2> QED BY <2>2, <2>3
<1> QED BY <1>4, <1>5, <1>6, <1>7

\* A load publishes a file that is missing.
LEMMA PublishFileStep ==
    ASSUME KeyInv, NEW p \in Procs, NEW n \in Names, PublishFile(p, n)
    PROVE  KeyInv'
<1> DEFINE e == [id |-> links + 1, of |-> Content(p, n)]
           k == [procs[p] EXCEPT !.seen[n] = e]
<1>1. /\ procs \in [Procs -> ProcStates] /\ procs[p] \in ProcStates
      /\ entries \in [Names -> Entries] /\ links \in Nat
  BY DEF KeyInv, KeyTypeOK, ProcStates
<1>2. SeenIsThere(p) /\ UnsealedHasKey(p) /\ LoadAgrees(p)
  BY DEF KeyInv
<1>3. /\ procs[p].pc = "get" /\ procs[p].name = n /\ procs[p].seen[n] = NoEntry
      /\ entries[n] = NoEntry /\ entries' = [entries EXCEPT ![n] = e]
      /\ links' = links + 1 /\ UNCHANGED <<losses, broken, issued>>
  BY DEF PublishFile, At
<1>4. /\ e \in [id : Nat, of : Nat] /\ e \in Entries /\ e # NoEntry /\ e.of = Content(p, n)
      /\ n # "key" => e.of = procs[p].key
  BY <1>1, InstallationKeyAssumption DEF Content, ProcStates, Entries
<1> HIDE DEF e
<1>5. entries'[n] = e /\ \A m \in Names \ {n} : entries'[m] = entries[m]
  BY <1>1, <1>3
<1>6. /\ k \in ProcStates /\ k.pc = "get" /\ k.name = n /\ k.key = procs[p].key
      /\ k.seen[n] = e /\ \A m \in Names \ {n} : k.seen[m] = procs[p].seen[m]
  BY <1>1, <1>3, <1>4 DEF ProcStates
<1>7. procs' = [procs EXCEPT ![p] = k]
  BY <1>3, <1>5 DEF PublishFile
<1> HIDE DEF k
<1>8. procs'[p] = k
  BY <1>1, <1>7
<1>9. /\ n = "marker" => /\ procs[p].seen["key"] # NoEntry
                         /\ procs[p].key = procs[p].seen["key"].of
      /\ n = "sentinel" => /\ procs[p].seen["key"] # NoEntry
                           /\ procs[p].seen["marker"] # NoEntry
                           /\ procs[p].key = procs[p].seen["key"].of
                           /\ procs[p].key = procs[p].seen["marker"].of
      /\ procs[p].seen["sentinel"] = NoEntry
      /\ n = "key" => procs[p].seen["marker"] = NoEntry
  BY <1>2, <1>3 DEF LoadAgrees, Present, Names
<1>10. \A m \in Names : procs[p].seen[m] # NoEntry => entries[m] = procs[p].seen[m]
  BY <1>2, <1>3 DEF SeenIsThere, Loading
<1>11. entries["sentinel"] # NoEntry => entries["key"] # NoEntry
  BY <1>2, <1>3, <1>9 DEF UnsealedHasKey
<1>12. SealIsKept'
  <2>1. CASE n = "key"
    <3>1. entries["sentinel"] = NoEntry
      BY <1>3, <1>11, <2>1
    <3>2. issued = {} /\ ~broken
      BY <3>1 DEF KeyInv, SealIsKept
    <3> QED BY <1>3, <3>2 DEF SealIsKept
  <2>2. CASE n # "key"
    BY <1>3, <1>4, <1>5, <2>2 DEF KeyInv, SealIsKept, Names
  <2> QED BY <2>1, <2>2
<1>13. IdentityIsKept'
  <2>1. OneIdentity'
    BY <1>3 DEF KeyInv, IdentityIsKept, OneIdentity
  <2>2. NeverLockedOut'
    <3> SUFFICES ASSUME ~broken
                 PROVE  /\ entries'["sentinel"] # NoEntry => entries'["marker"] # NoEntry
                        /\ entries'["marker"] # NoEntry =>
                              /\ entries'["key"] # NoEntry
                              /\ entries'["marker"].of = entries'["key"].of
      BY <1>3 DEF NeverLockedOut
    <3>1. /\ entries["sentinel"] # NoEntry => entries["marker"] # NoEntry
          /\ entries["marker"] # NoEntry =>
                entries["key"] # NoEntry /\ entries["marker"].of = entries["key"].of
      BY DEF KeyInv, IdentityIsKept, NeverLockedOut
    <3>2. CASE n = "key"
      BY <1>3, <1>5, <3>1, <3>2 DEF Names
    <3>3. CASE n = "marker"
      <4>1. entries["key"] # NoEntry /\ procs[p].key = entries["key"].of
        BY <1>9, <1>10, <3>3 DEF Names
      <4> QED BY <1>4, <1>5, <3>3, <4>1 DEF Names
    <3>4. CASE n = "sentinel"
      <4>1. entries["marker"] # NoEntry
        BY <1>9, <1>10, <3>4 DEF Names
      <4> QED BY <1>5, <3>1, <3>4, <4>1 DEF Names
    <3> QED BY <3>2, <3>3, <3>4 DEF Names
  <2> QED BY <2>1, <2>2 DEF IdentityIsKept
<1>14. SeenIsThere(p)'
  BY <1>5, <1>6, <1>8, <1>10 DEF SeenIsThere
<1>15. LoadAgrees(p)'
  BY <1>4, <1>6, <1>8, <1>9 DEF LoadAgrees, Present, Names
<1>16. n = "sentinel" => entries["key"] # NoEntry
  BY <1>9, <1>10 DEF Names
<1>17. UnsealedHasKey(p)'
  BY <1>4, <1>5, <1>11, <1>16, <1>8 DEF UnsealedHasKey, Names
<1>18. /\ entries' \in [Names -> Entries] /\ links' \in Nat /\ issued' \subseteq Nat
       /\ \A m \in Names : entries'[m] = entries[m] \/ entries[m] = NoEntry
       /\ entries'["sentinel"] # entries["sentinel"] => entries["key"] # NoEntry
  BY <1>1, <1>3, <1>4, <1>5, <1>16 DEF KeyInv, KeyTypeOK, Names
<1> QED BY <1>3, <1>6, <1>7, <1>12, <1>13, <1>14, <1>15, <1>17, <1>18, LoadMoves DEF Loading

\* A load reads a file, and checks the marker against the key.
LEMMA ReadFileStep ==
    ASSUME KeyInv, NEW p \in Procs, NEW n \in Names, ReadFile(p, n)
    PROVE  KeyInv'
<1>1. /\ procs \in [Procs -> ProcStates] /\ procs[p] \in ProcStates
      /\ entries \in [Names -> Entries]
  BY DEF KeyInv, KeyTypeOK, ProcStates
<1>2. SeenIsThere(p) /\ UnsealedHasKey(p) /\ LoadAgrees(p)
  BY DEF KeyInv
<1>3. /\ procs[p].pc = "get" /\ procs[p].name = n
      /\ UNCHANGED <<entries, links, losses, broken, issued>>
  BY DEF ReadFile, At
<1>4. CASE entries[n] = NoEntry \/ (n = "marker" /\ entries[n].of # procs[p].key)
  <2>1. procs' = [procs EXCEPT ![p] = Inactive]
    BY <1>4 DEF ReadFile, Fails
  <2> QED BY <1>3, <2>1, LoadEnds DEF Loading
<1>5. CASE ~(entries[n] = NoEntry \/ (n = "marker" /\ entries[n].of # procs[p].key))
  <2> DEFINE k == [procs[p] EXCEPT !.seen[n] = entries[n],
                                   !.key = IF n = "key" THEN entries[n].of ELSE procs[p].key,
                                   !.name = GetNext(n).name, !.pc = GetNext(n).pc]
  <2>1. procs' = [procs EXCEPT ![p] = k]
    BY <1>5 DEF ReadFile
  <2>2. entries[n] \in [id : Nat, of : Nat]
    BY <1>1, <1>5 DEF Entries
  <2>3. /\ GetNext("key") = [pc |-> "get", name |-> "marker"]
        /\ GetNext("marker") = [pc |-> "verify", name |-> "key"]
        /\ GetNext("sentinel") = [pc |-> "confirm", name |-> "key"]
    BY DEF GetNext
  <2>4. GetNext(n).pc \in Loading /\ GetNext(n).name \in Names
    BY <2>3 DEF Names, Loading
  <2>5. /\ k \in ProcStates /\ k.pc = GetNext(n).pc /\ k.name = GetNext(n).name
        /\ k.seen[n] = entries[n] /\ \A m \in Names \ {n} : k.seen[m] = procs[p].seen[m]
        /\ k.key = IF n = "key" THEN entries[n].of ELSE procs[p].key
    BY <1>1, <2>2, <2>4 DEF ProcStates
  <2> HIDE DEF k
  <2>6. procs'[p] = k
    BY <1>1, <2>1
  <2>7. \A m \in Names : k.seen[m] # NoEntry => entries[m] = k.seen[m]
    BY <1>2, <1>3, <2>5 DEF SeenIsThere, Loading
  <2>8. SeenIsThere(p)'
    BY <1>3, <2>6, <2>7 DEF SeenIsThere
  <2>9. /\ procs[p].seen["sentinel"] # NoEntry =>
              \A m \in Names : procs[p].seen[m] # NoEntry
        /\ procs[p].seen["marker"] # NoEntry => procs[p].seen["key"] # NoEntry
        /\ n = "marker" => /\ procs[p].seen["key"] # NoEntry
                           /\ procs[p].key = procs[p].seen["key"].of
        /\ n = "sentinel" => /\ procs[p].seen["key"] # NoEntry
                             /\ procs[p].seen["marker"] # NoEntry
                             /\ procs[p].key = procs[p].seen["key"].of
                             /\ procs[p].key = procs[p].seen["marker"].of
    BY <1>2, <1>3 DEF LoadAgrees, Present, Names
  <2>10. ASSUME n = "key" PROVE LoadAgrees(p)' /\ UnsealedHasKey(p)'
    <3>1. k.pc = "get" /\ k.name = "marker" /\ k.key = k.seen["key"].of
          /\ k.seen["key"] # NoEntry /\ entries["key"] # NoEntry
      BY <1>5, <2>3, <2>5, <2>10
    <3>2. k.seen["sentinel"] = procs[p].seen["sentinel"]
          /\ k.seen["marker"] = procs[p].seen["marker"]
      BY <2>5, <2>10 DEF Names
    <3>3. LoadAgrees(p)'
      BY <2>6, <2>9, <3>1, <3>2 DEF LoadAgrees, Present, Names
    <3>4. UnsealedHasKey(p)'
      BY <1>3, <3>1 DEF UnsealedHasKey
    <3> QED BY <3>3, <3>4
  <2>11. ASSUME n = "marker" PROVE LoadAgrees(p)' /\ UnsealedHasKey(p)'
    <3>1. k.pc = "verify" /\ k.seen["marker"] = entries["marker"] /\ k.key = procs[p].key
          /\ k.seen["key"] = procs[p].seen["key"]
      BY <2>3, <2>5, <2>11 DEF Names
    <3>2. LoadAgrees(p)'
      BY <1>5, <2>6, <2>9, <2>11, <3>1 DEF LoadAgrees, Present
    <3> QED BY <2>6, <3>1, <3>2 DEF UnsealedHasKey
  <2>12. ASSUME n = "sentinel" PROVE LoadAgrees(p)' /\ UnsealedHasKey(p)'
    <3>1. k.pc = "confirm" /\ k.seen["sentinel"] = entries["sentinel"] /\ k.key = procs[p].key
          /\ k.seen["key"] = procs[p].seen["key"] /\ k.seen["marker"] = procs[p].seen["marker"]
      BY <2>3, <2>5, <2>12 DEF Names
    <3>2. LoadAgrees(p)'
      BY <1>5, <2>6, <2>9, <2>12, <3>1 DEF LoadAgrees, Present, Names
    <3> QED BY <2>6, <3>1, <3>2 DEF UnsealedHasKey
  <2>13. LoadAgrees(p)' /\ UnsealedHasKey(p)'
    BY <2>10, <2>11, <2>12 DEF Names
  <2>14. k.pc # "unlink"
    BY <2>4, <2>5 DEF Loading
  <2> QED BY <1>3, <2>1, <2>5, <2>8, <2>13, <2>14, LoadLooks DEF Loading
<1> QED BY <1>4, <1>5

\* A load returns its key, which is the one the host has.
LEMMA ReturnStep ==
    ASSUME KeyInv, NEW p \in Procs, Return(p)
    PROVE  KeyInv'
<1>1. /\ procs[p].pc = "confirm" /\ procs' = [procs EXCEPT ![p] = Inactive]
      /\ issued' = (IF Kept(p, Names) THEN issued \cup {procs[p].key} ELSE issued)
      /\ UNCHANGED <<entries, links, losses, broken>>
  BY DEF Return, Fails
<1>2. procs[p] \in ProcStates /\ procs \in [Procs -> ProcStates] /\ issued \subseteq Nat
      /\ links \in Nat /\ entries \in [Names -> Entries]
  BY DEF KeyInv, KeyTypeOK, ProcStates
<1>3. /\ \A n \in Names : procs[p].seen[n] # NoEntry
      /\ procs[p].key = procs[p].seen["key"].of
      /\ \A n \in Names : entries[n] = procs[p].seen[n]
  BY <1>1 DEF KeyInv, LoadAgrees, Present, SeenIsThere, Loading
<1>4. entries["sentinel"] # NoEntry /\ entries["key"] # NoEntry
      /\ procs[p].key = entries["key"].of
  BY <1>3 DEF Names
<1>5. SealIsKept'
  BY <1>1, <1>4 DEF KeyInv, SealIsKept
<1>6. IdentityIsKept'
  <2>1. NeverLockedOut'
    BY <1>1 DEF KeyInv, IdentityIsKept, NeverLockedOut
  <2>2. \A i \in issued' : i = entries["key"].of
    BY <1>1, <1>4 DEF KeyInv, SealIsKept
  <2> QED BY <2>1, <2>2 DEF IdentityIsKept, OneIdentity
<1>7. procs'[p] = Inactive /\ issued' \subseteq Nat
  BY <1>1, <1>2 DEF ProcStates
<1>8. SeenIsThere(p)' /\ UnsealedHasKey(p)' /\ LoadAgrees(p)'
  BY <1>7, InactiveIsTyped DEF SeenIsThere, UnsealedHasKey, LoadAgrees, Loading
<1> QED BY <1>1, <1>2, <1>5, <1>6, <1>7, <1>8, InactiveIsTyped, LoadMoves DEF Loading

\* While a reset removes the files nobody loads.
LEMMA ResetSteps ==
    ASSUME KeyInv, NEW p \in Procs, StartReset(p) \/ \E n \in Names : Unlink(p, n)
    PROVE  KeyInv'
<1>1. /\ procs \in [Procs -> ProcStates] /\ procs[p] \in ProcStates
      /\ entries \in [Names -> Entries] /\ NoEntry \in Entries
  BY DEF KeyInv, KeyTypeOK, ProcStates, Entries
<1>2. \A q \in Procs \ {p} : procs[q] = Inactive
  BY DEF StartReset, Unlink, At, KeyInv, ResetAgrees
<1>3. ASSUME NEW k \in ProcStates, procs' = [procs EXCEPT ![p] = k],
             k.pc \in {"unlink", "inactive"}, ResetAgrees(p)'
      PROVE  \A q \in Procs : /\ SeenIsThere(q)' /\ UnsealedHasKey(q)' /\ LoadAgrees(q)'
                              /\ ResetAgrees(q)'
  <2>1. procs'[p] = k /\ \A q \in Procs \ {p} : procs'[q] = Inactive
    BY <1>1, <1>2, <1>3
  <2>2. \A q \in Procs : procs'[q].pc \in {"unlink", "inactive"}
    BY <1>3, <2>1, InactiveIsTyped
  <2>3. \A q \in Procs : SeenIsThere(q)' /\ UnsealedHasKey(q)' /\ LoadAgrees(q)'
    BY <2>2 DEF SeenIsThere, UnsealedHasKey, LoadAgrees, Loading
  <2>4. \A q \in Procs \ {p} : ResetAgrees(q)'
    BY <2>1, InactiveIsTyped DEF ResetAgrees
  <2> QED BY <1>3, <2>3, <2>4
<1>4. CASE StartReset(p)
  <2> DEFINE k == [procs[p] EXCEPT !.pc = "unlink", !.name = "marker", !.seen = entries]
  <2>1. /\ procs' = [procs EXCEPT ![p] = k]
        /\ UNCHANGED <<entries, links, losses, broken, issued>>
    BY <1>4 DEF StartReset
  <2>2. k \in ProcStates /\ k.pc = "unlink" /\ k.name = "marker"
    BY <1>1 DEF ProcStates, Names
  <2> HIDE DEF k
  <2>3. procs'[p] = k /\ \A q \in Procs \ {p} : procs'[q] = Inactive
    BY <1>1, <1>2, <2>1
  <2>4. ResetAgrees(p)'
    BY <1>4, <2>1, <2>2, <2>3 DEF ResetAgrees, StartReset, Names
  <2>5. KeyTypeOK' /\ SealIsKept' /\ IdentityIsKept'
    BY <1>1, <2>1, <2>2 DEF KeyInv, KeyTypeOK, ProcStates, SealIsKept, IdentityIsKept,
                            NeverLockedOut, OneIdentity
  <2> QED BY <1>3, <2>1, <2>2, <2>4, <2>5 DEF KeyInv
<1>5. ASSUME NEW n \in Names, Unlink(p, n) PROVE KeyInv'
  <2> DEFINE k == IF n # "sentinel"
                  THEN [procs[p] EXCEPT !.pc = "unlink", !.name = UnlinkNext(n)] ELSE Inactive
  <2>1. /\ procs[p].pc = "unlink" /\ procs[p].name = n
        /\ entries' = [entries EXCEPT ![n] = NoEntry]
        /\ issued' = (IF n = "sentinel" THEN {} ELSE issued)
        /\ broken' = (n # "sentinel")
        /\ UNCHANGED <<links, losses>>
    BY <1>5 DEF Unlink, At
  <2>2. procs' = [procs EXCEPT ![p] = k]
    BY <1>5 DEF Unlink, Goes, Fails
  <2>3. /\ k \in ProcStates /\ k.pc \in {"unlink", "inactive"}
        /\ k.pc = "unlink" => n # "sentinel" /\ k.name = UnlinkNext(n)
    BY <1>1, InactiveIsTyped DEF ProcStates, Names, UnlinkNext
  <2> HIDE DEF k
  <2>4. entries'[n] = NoEntry /\ \A m \in Names \ {n} : entries'[m] = entries[m]
    BY <1>1, <2>1
  <2>5. procs'[p] = k /\ \A q \in Procs \ {p} : procs'[q] = Inactive
    BY <1>1, <1>2, <2>2
  <2>6. /\ n # "marker" => entries["marker"] = NoEntry
        /\ n = "sentinel" => entries["key"] = NoEntry
        /\ entries["sentinel"] # NoEntry
    BY <2>1 DEF KeyInv, ResetAgrees
  <2>7. ResetAgrees(p)'
    BY <2>3, <2>4, <2>5, <2>6 DEF ResetAgrees, UnlinkNext, Names
  <2>8. SealIsKept'
    BY <2>1, <2>4, <2>6 DEF KeyInv, SealIsKept, Names
  <2>9. IdentityIsKept'
    <3>1. NeverLockedOut'
      BY <2>1, <2>4, <2>6 DEF NeverLockedOut, Names
    <3>2. OneIdentity'
      BY <2>1 DEF KeyInv, IdentityIsKept, OneIdentity
    <3> QED BY <3>1, <3>2 DEF IdentityIsKept
  <2>10. KeyTypeOK'
    <3>1. procs' \in [Procs -> ProcStates] /\ entries' \in [Names -> Entries]
      BY <1>1, <2>1, <2>2, <2>3
    <3> QED BY <2>1, <3>1 DEF KeyInv, KeyTypeOK, ProcStates
  <2> QED BY <1>3, <2>2, <2>3, <2>7, <2>8, <2>9, <2>10 DEF KeyInv
<1> QED BY <1>4, <1>5

\* A process dies; a file is lost while none is at work.
LEMMA LossSteps ==
    ASSUME KeyInv, (\E p \in Procs : Die(p)) \/ \E n \in Names : Lose(n)
    PROVE  KeyInv'
<1>1. /\ procs \in [Procs -> ProcStates] /\ entries \in [Names -> Entries]
      /\ NoEntry \in Entries
  BY DEF KeyInv, KeyTypeOK, ProcStates, Entries
<1>2. ASSUME NEW p \in Procs, Die(p) PROVE KeyInv'
  <2>1. /\ procs[p] # Inactive /\ procs' = [procs EXCEPT ![p] = Inactive]
        /\ UNCHANGED <<entries, links, losses, broken, issued>>
    BY <1>2 DEF Die, Fails
  <2>2. /\ procs'[p] = Inactive /\ \A q \in Procs \ {p} : procs'[q] = procs[q]
        /\ procs' \in [Procs -> ProcStates]
    BY <1>1, <2>1, InactiveIsTyped
  <2>3. KeyTypeOK' /\ SealIsKept' /\ IdentityIsKept'
    BY <2>1, <2>2 DEF KeyInv, KeyTypeOK, ProcStates, SealIsKept, IdentityIsKept,
                      NeverLockedOut, OneIdentity
  <2>4. SeenIsThere(p)' /\ UnsealedHasKey(p)' /\ LoadAgrees(p)' /\ ResetAgrees(p)'
    BY <2>2, InactiveIsTyped DEF SeenIsThere, UnsealedHasKey, LoadAgrees, ResetAgrees, Loading
  <2>5. ASSUME NEW q \in Procs \ {p}
        PROVE  SeenIsThere(q)' /\ UnsealedHasKey(q)' /\ LoadAgrees(q)' /\ ResetAgrees(q)'
    <3>1. /\ SeenIsThere(q) /\ UnsealedHasKey(q) /\ LoadAgrees(q) /\ ResetAgrees(q)
          /\ procs'[q] = procs[q]
      BY <2>2 DEF KeyInv
    <3>2. SeenIsThere(q)' /\ UnsealedHasKey(q)' /\ LoadAgrees(q)'
      BY <2>1, <3>1 DEF SeenIsThere, UnsealedHasKey, LoadAgrees, Present
    <3>3. ResetAgrees(q)'
      BY <2>1, <2>2, <3>1 DEF ResetAgrees
    <3> QED BY <3>2, <3>3
  <2> QED BY <2>3, <2>4, <2>5 DEF KeyInv
<1>3. ASSUME NEW n \in Names, Lose(n) PROVE KeyInv'
  <2>1. /\ n # "sentinel" /\ entries["sentinel"] # NoEntry
        /\ \A p \in Procs : procs[p] = Inactive
        /\ entries' = [entries EXCEPT ![n] = NoEntry]
        /\ losses' = losses + 1 /\ broken' = TRUE
        /\ UNCHANGED <<procs, links, issued>>
    BY <1>3 DEF Lose
  <2>2. entries'[n] = NoEntry /\ \A m \in Names \ {n} : entries'[m] = entries[m]
    BY <1>1, <2>1
  <2>3. KeyTypeOK'
    BY <1>1, <2>1 DEF KeyInv, KeyTypeOK
  <2>4. SealIsKept' /\ IdentityIsKept'
    BY <2>1, <2>2 DEF KeyInv, SealIsKept, IdentityIsKept, NeverLockedOut, OneIdentity, Names
  <2>5. \A p \in Procs : SeenIsThere(p)' /\ UnsealedHasKey(p)' /\ LoadAgrees(p)' /\ ResetAgrees(p)'
    BY <2>1, InactiveIsTyped DEF SeenIsThere, UnsealedHasKey, LoadAgrees, ResetAgrees, Loading
  <2> QED BY <2>3, <2>4, <2>5 DEF KeyInv
<1> QED BY <1>2, <1>3

\* The invariant of the installation key holds in every reachable state.
LEMMA KeyInvariant == KeySpec => []KeyInv
<1>1. KeyInit => KeyInv
  <2> SUFFICES ASSUME KeyInit PROVE KeyInv
    OBVIOUS
  <2>1. PICK have \in {{}, {"key"}, {"key", "marker"}, Names, {"key", "sentinel"}, {"sentinel"}} :
           /\ entries = [n \in Names |-> IF n \in have THEN [id |-> 1, of |-> 1] ELSE NoEntry]
           /\ issued = (IF "sentinel" \in have THEN {1} ELSE {})
           /\ broken = (have \in {{"key", "sentinel"}, {"sentinel"}})
    BY DEF KeyInit
  <2>2. procs = [p \in Procs |-> Inactive] /\ links = 1 /\ losses = 0
    BY DEF KeyInit
  <2>3. [id |-> 1, of |-> 1] \in [id : Nat, of : Nat] /\ [id |-> 1, of |-> 1] # NoEntry
    BY InstallationKeyAssumption
  <2>4. \A n \in Names : /\ n \in have => entries[n] = [id |-> 1, of |-> 1]
                                          /\ entries[n] # NoEntry /\ entries[n].of = 1
                         /\ n \notin have => entries[n] = NoEntry
    BY <2>1, <2>3
  <2>5. KeyTypeOK
    <3>1. procs \in [Procs -> ProcStates]
      BY <2>2, InactiveIsTyped
    <3>2. entries \in [Names -> Entries] /\ issued \subseteq Nat /\ broken \in BOOLEAN
      BY <2>1, <2>3 DEF Entries
    <3> QED BY <2>2, <3>1, <3>2 DEF KeyTypeOK, ProcStates
  <2>6. broken => "sentinel" \in have
    BY <2>1
  <2>7. SealIsKept
    BY <2>1, <2>4, <2>6 DEF SealIsKept, Names
  <2>8. IdentityIsKept
    <3>1. ~broken => /\ "sentinel" \in have => "marker" \in have
                     /\ "marker" \in have => "key" \in have
      BY <2>1 DEF Names
    <3>2. NeverLockedOut
      BY <2>4, <3>1 DEF NeverLockedOut, Names
    <3>3. OneIdentity
      BY <2>1 DEF OneIdentity
    <3> QED BY <3>2, <3>3 DEF IdentityIsKept
  <2>9. \A p \in Procs : SeenIsThere(p) /\ UnsealedHasKey(p) /\ LoadAgrees(p) /\ ResetAgrees(p)
    BY <2>2, InactiveIsTyped DEF SeenIsThere, UnsealedHasKey, LoadAgrees, ResetAgrees, Loading
  <2> QED BY <2>5, <2>7, <2>8, <2>9 DEF KeyInv
<1>2. KeyInv /\ [KeyNext]_keyVars => KeyInv'
  <2> SUFFICES ASSUME KeyInv, [KeyNext]_keyVars PROVE KeyInv'
    OBVIOUS
  <2>1. ASSUME NEW p \in Procs,
               \/ StartLoad(p) \/ Again(p) \/ Verify(p) \/ Return(p) \/ StartReset(p)
               \/ \E n \in Names :
                     Look(p, n) \/ PublishFile(p, n) \/ ReadFile(p, n) \/ Unlink(p, n)
        PROVE  KeyInv'
    BY <2>1, LookSteps, PublishFileStep, ReadFileStep, ReturnStep, ResetSteps
  <2>2. CASE (\E p \in Procs : Die(p)) \/ \E n \in Names : Lose(n)
    BY <2>2, LossSteps
  <2>3. CASE UNCHANGED keyVars
    <3>1. KeyTypeOK' /\ SealIsKept' /\ IdentityIsKept'
      BY <2>3 DEF keyVars, KeyInv, KeyTypeOK, SealIsKept, IdentityIsKept, NeverLockedOut,
                  OneIdentity
    <3>2. \A p \in Procs : SeenIsThere(p)' /\ UnsealedHasKey(p)'
                           /\ LoadAgrees(p)' /\ ResetAgrees(p)'
      BY <2>3 DEF keyVars, KeyInv, SeenIsThere, UnsealedHasKey, LoadAgrees, ResetAgrees, Present
    <3> QED BY <3>1, <3>2 DEF KeyInv
  <2> QED BY <2>1, <2>2, <2>3 DEF KeyNext
<1> QED BY <1>1, <1>2, PTL DEF KeySpec

\* Any number of processes may create, load and reset the identity at once and
\* die at any step: until a reset all of them get one key, and unless a file was
\* lost what is in the directory is the start of an identity.
THEOREM IdentityKept == KeySpec => []IdentityIsKept
<1>1. KeyInv => IdentityIsKept
  BY DEF KeyInv
<1> QED BY <1>1, KeyInvariant, PTL

=============================================================================

---------------------------- MODULE DaemonEndpoint ----------------------------
(***************************************************************************)
(* The endpoint of the daemon: who owns the socket of the data directory   *)
(* (daemon_api.py, daemon.py, and the socket entries of local_state.py).   *)
(*                                                                         *)
(* Daemons start, serve, stop and die.  A start probes the endpoint,       *)
(* initializes the store, and then, under an exclusive lock on the parent  *)
(* directory, removes a socket nobody listens on, binds its own, checks    *)
(* that the entry is its own and listens.  A stop closes the listener and  *)
(* removes the entry without that lock, after checking its identity.       *)
(*                                                                         *)
(* A socket entry is known by its identity, which is never used again      *)
(* while somebody has the entry pinned.  A connection attempt succeeds     *)
(* exactly when somebody listens on the entry that has the name.           *)
(***************************************************************************)
EXTENDS Naturals

CONSTANTS
    Daemons,        \* processes that run the daemon
    NoSocket,       \* no entry of that name
    NoHolder,       \* nobody has the lock
    MaxSockets      \* bound: sockets ever bound

ASSUME DaemonEndpointAssumption ==
    /\ MaxSockets \in Nat \ {0}
    /\ NoSocket \notin 0 .. MaxSockets /\ NoHolder \notin Daemons

VARIABLES
    endpoint,       \* the socket entry that has the name
    sockets,        \* sockets bound so far: identities
    startupLock,    \* who holds the flock on the parent directory
    daemons,        \* what each daemon is doing, and its socket
    raced           \* history: a socket was bound between check and unlink of a stop

endpointVars == <<endpoint, sockets, startupLock, daemons, raced>>

Off == [pc |-> "off", socket |-> NoSocket]

\* Nothing, or the socket that a daemon which died has left.
EndpointInit ==
    /\ sockets = 1 /\ endpoint \in {NoSocket, 1}
    /\ startupLock = NoHolder
    /\ daemons = [d \in Daemons |-> Off]
    /\ raced = FALSE

Step(d, pc) == daemons' = [daemons EXCEPT ![d].pc = pc]
Unlock(d) == startupLock' = IF startupLock = d THEN NoHolder ELSE startupLock
Listens(d) == daemons[d].pc \in {"listening", "serving"}
Answered == \E d \in Daemons : Listens(d) /\ daemons[d].socket = endpoint

-----------------------------------------------------------------------------
(* TendwireDaemon.start and UnixSocketJSONServer.start.                    *)

\* ensure_daemon_socket_not_active: a missing or refused endpoint is for the
\* locked cleanup to deal with.
Probe(d) ==
    /\ daemons[d] = Off /\ ~Answered
    /\ Step(d, "probed")
    /\ UNCHANGED <<endpoint, sockets, startupLock, raced>>

\* Mutant: stale cleanup and publication are not serialized.
LockShared(d) ==
    /\ daemons[d].pc = "probed"
    /\ startupLock' = d /\ Step(d, "locked")
    /\ UNCHANGED <<endpoint, sockets, raced>>

\* _socket_startup_lock: tried until it is free.
Lock(d) ==
    /\ daemons[d].pc = "probed" /\ startupLock = NoHolder
    /\ startupLock' = d /\ Step(d, "locked")
    /\ UNCHANGED <<endpoint, sockets, raced>>

\* _cleanup_stale_socket pins the entry and connects: somebody answers.
RefuseActive(d) ==
    /\ daemons[d].pc = "locked" /\ Answered
    /\ Unlock(d) /\ Step(d, "off")
    /\ UNCHANGED <<endpoint, sockets, raced>>

\* There is no entry, or nobody answers.
FindStale(d) ==
    /\ daemons[d].pc = "locked" /\ ~Answered
    /\ daemons' = [daemons EXCEPT ![d] =
                      IF endpoint = NoSocket THEN [@ EXCEPT !.pc = "clean"]
                      ELSE [pc |-> "stale", socket |-> endpoint]]
    /\ UNCHANGED <<endpoint, sockets, startupLock, raced>>

\* unlink_verified_socket_at of the stale entry; one that is gone or another by
\* now ends the start.
RemoveStale(d) ==
    /\ daemons[d].pc = "stale"
    /\ IF endpoint = daemons[d].socket
       THEN endpoint' = NoSocket /\ UNCHANGED startupLock
            /\ daemons' = [daemons EXCEPT ![d] = [Off EXCEPT !.pc = "clean"]]
       ELSE /\ Unlock(d) /\ daemons' = [daemons EXCEPT ![d] = Off]
            /\ UNCHANGED endpoint
    /\ UNCHANGED <<sockets, raced>>

\* bind fails when there is an entry.
Bind(d) ==
    /\ daemons[d].pc = "clean" /\ sockets < MaxSockets
    /\ IF endpoint = NoSocket
       THEN /\ endpoint' = sockets + 1 /\ sockets' = sockets + 1
            /\ daemons' = [daemons EXCEPT ![d] = [pc |-> "bound", socket |-> sockets + 1]]
            /\ raced' = (raced \/ \E e \in Daemons : daemons[e].pc = "unlinking")
            /\ UNCHANGED startupLock
       ELSE /\ Unlock(d) /\ Step(d, "off")
            /\ UNCHANGED <<endpoint, sockets, raced>>

\* owned_socket_identity_at, pin_owned_socket_at: an entry that is gone already
\* ends the start, and nothing is left to remove.
Identify(d) ==
    /\ daemons[d].pc = "bound"
    /\ IF endpoint = daemons[d].socket
       THEN Step(d, "identified") /\ UNCHANGED startupLock
       ELSE Unlock(d) /\ daemons' = [daemons EXCEPT ![d] = Off]
    /\ UNCHANGED <<endpoint, sockets, raced>>

\* enforce_bound_socket_permissions_at checks the identity again; then listen.
Listen(d) ==
    /\ daemons[d].pc = "identified" /\ endpoint = daemons[d].socket
    /\ Step(d, "listening")
    /\ UNCHANGED <<endpoint, sockets, startupLock, raced>>

\* The request executors run; the lock is released.
Serve(d) ==
    /\ daemons[d].pc = "listening"
    /\ Unlock(d) /\ Step(d, "serving")
    /\ UNCHANGED <<endpoint, sockets, raced>>

\* _rollback_bound_socket, still under the lock: the listener is closed and its
\* own entry removed.  When the removal fails, close tries it again later.
Rollback(d, removed) ==
    /\ daemons[d].pc \in {"identified", "listening"}
    /\ removed => endpoint = daemons[d].socket
    /\ endpoint' = IF removed THEN NoSocket ELSE endpoint
    /\ daemons' = [daemons EXCEPT ![d] =
                      IF removed \/ endpoint # @.socket THEN Off
                      ELSE [@ EXCEPT !.pc = "closing"]]
    /\ Unlock(d)
    /\ UNCHANGED <<sockets, raced>>

\* The lock timed out, the store or the backend failed, the probe was ambiguous.
FailStart(d) ==
    /\ daemons[d].pc \in {"probed", "locked", "stale", "clean", "bound"}
    /\ Unlock(d) /\ daemons' = [daemons EXCEPT ![d] = Off]
    /\ UNCHANGED <<endpoint, sockets, raced>>

-----------------------------------------------------------------------------
(* TendwireDaemon.stop and UnixSocketJSONServer.close.                     *)

\* The stop event ends the loop; the listener is closed.
CloseListener(d) ==
    /\ daemons[d].pc = "serving"
    /\ Step(d, "closing")
    /\ UNCHANGED <<endpoint, sockets, startupLock, raced>>

\* unlink_verified_socket_at compares the identity of the entry ...
CheckOwn(d) ==
    /\ daemons[d].pc = "closing"
    /\ IF endpoint = daemons[d].socket THEN Step(d, "unlinking")
       ELSE daemons' = [daemons EXCEPT ![d] = Off]
    /\ UNCHANGED <<endpoint, sockets, startupLock, raced>>

\* ... and then removes what has the name.
UnlinkOwn(d) ==
    /\ daemons[d].pc = "unlinking"
    /\ endpoint' = NoSocket
    /\ daemons' = [daemons EXCEPT ![d] = Off]
    /\ UNCHANGED <<sockets, startupLock, raced>>

\* A daemon is killed: its socket stays behind, its lock does not.
Kill(d) ==
    /\ daemons[d] # Off
    /\ Unlock(d) /\ daemons' = [daemons EXCEPT ![d] = Off]
    /\ UNCHANGED <<endpoint, sockets, raced>>

EndpointNext ==
    \E d \in Daemons :
        \/ Probe(d) \/ Lock(d) \/ RefuseActive(d) \/ FindStale(d) \/ RemoveStale(d)
        \/ Bind(d) \/ Identify(d) \/ Listen(d) \/ Serve(d)
        \/ \E removed \in BOOLEAN : Rollback(d, removed)
        \/ FailStart(d) \/ CloseListener(d) \/ CheckOwn(d) \/ UnlinkOwn(d) \/ Kill(d)

EndpointSpec == EndpointInit /\ [][EndpointNext]_endpointVars

-----------------------------------------------------------------------------
(* Properties.                                                             *)

\* However starts, stops and deaths interleave, the name leads to the daemon that
\* listens: no start takes it for dead, no stop removes its entry, and so two
\* daemons never listen at once.  The exception is a socket that was bound just
\* while a stopping daemon was between checking its entry and removing it.
ListenerIsReachable ==
    ~raced => \A d \in Daemons : Listens(d) => endpoint = daemons[d].socket
=============================================================================

------------------------------ MODULE Gateway -------------------------------
(***************************************************************************)
(* The gateway process: the HTTPS server, whose handlers read the cache    *)
(* under the read half of one lock and send commands; the main worker,     *)
(* which spawns a task per command, most of which take the write half; the *)
(* admin server, which purges; the TTL worker, which asks for clean-ups;   *)
(* and the shutdown that stops them in order.                              *)
(*                                                                         *)
(* The cache itself is ContentCache, the specification Tlrfu implements.   *)
(* A command is named by the request that caused it: <<"get", r>>,         *)
(* <<"fetch", r>>, <<"insert", r>>; a clean-up by its number.              *)
(***************************************************************************)
EXTENDS ContentCache, Resolver

CONSTANTS
    Reqs,     \* requests that may arrive
    NoCache,  \* the values that their no_cache flag may have
    CacheControlMaxSize,  \* bodies that claim to be larger are not cached
    Purger,   \* the admin server's purge handler, as a user of the lock
    Nobody,   \* the lock has no writer
    MaxTicks, \* bound: clean-ups that the TTL worker asks for
    MaxPurges \* bound: purges that the admin server receives

ASSUME GatewayAssumption ==
    /\ NoCache \subseteq BOOLEAN /\ CacheControlMaxSize \in Nat
    /\ MaxTicks \in Nat /\ MaxPurges \in Nat

Tasks == ({"get", "fetch", "insert"} \X Reqs) \cup ({"clean"} \X (1..MaxTicks))

\* The users of the lock are distinct.
ASSUME UsersAssumption ==
    /\ Reqs \cap Tasks = {}
    /\ Purger \notin Reqs \cup Tasks
    /\ Nobody \notin Reqs \cup Tasks \cup {Purger}

VARIABLES
    req,      \* request -> [st, key, nocache]
    stream,   \* request -> the body copied to its client, to be cached
    cmds,     \* the unbounded command channel
    task,     \* command -> its task's progress
    lockq,    \* who waits for the lock, in order
    readers,  \* who holds its read half
    writer,   \* who holds its write half
    signal,   \* worker -> its signal channel of capacity one is full
    server, admin, ttlw, mainw,  \* the four workers
    mainfn,   \* where main() is
    ticks, purges

lockVars   == <<lockq, readers, writer>>
workerVars == <<server, admin, ttlw, mainw, mainfn>>
countVars  == <<ticks, purges>>
vars == <<ccVars, req, stream, cmds, task, lockVars, signal, workerVars, countVars>>

Errors == {"exists", "toobig", "stale", "orphan"}

TypeOK ==
    /\ DOMAIN content \subseteq Keys /\ \A k \in DOMAIN content : content[k] \in Lengths
    /\ req \in [Reqs -> [st : {"idle", "wait", "fetch", "stream", "error",
                               "timeout", "aborted", "closed"},
                         key : Keys, nocache : BOOLEAN]]
    /\ stream \in [Reqs -> [st : {"none", "open", "ended"}, len : Lengths \cup {0}]]
    /\ cmds \in Seq(Tasks)
    /\ task \in [Tasks -> {"none", "sent", "fetching", "queued", "running",
                           "signalling", "done"}]
    /\ lockq \in Seq(Reqs \cup Tasks \cup {Purger})
    /\ readers \subseteq Reqs
    /\ writer \in Tasks \cup {Purger, Nobody}
    /\ signal \in [{"server", "admin", "ttl", "worker"} -> BOOLEAN]
    /\ server \in {"starting", "up", "draining", "down"}
    /\ admin \in {"starting", "up", "down"}
    /\ ttlw \in {"up", "down"}
    /\ mainw \in {"up", "down"}
    /\ mainfn \in {"select", "stopping", "stopmain", "exited"}
    /\ ticks \in 0..MaxTicks /\ purges \in 0..MaxPurges

Init ==
    /\ CcInit
    /\ req \in [Reqs -> {[st |-> "idle", key |-> k, nocache |-> b] : k \in Keys, b \in NoCache}]
    /\ stream = [r \in Reqs |-> [st |-> "none", len |-> 0]]
    /\ cmds = <<>>
    /\ task = [t \in Tasks |-> "none"]
    /\ lockq = <<>> /\ readers = {} /\ writer = Nobody
    /\ signal = [w \in {"server", "admin", "ttl", "worker"} |-> FALSE]
    /\ server = "starting" /\ admin = "starting" /\ ttlw = "up" /\ mainw = "up"
    /\ mainfn = "select"
    /\ ticks = 0 /\ purges = 0

-----------------------------------------------------------------------------
(* The lock: tokio's RwLock, which serves its waiters in order.            *)

Enqueue(p) == lockq' = Append(lockq, p) /\ UNCHANGED <<readers, writer>>

Release(p) ==
    /\ readers' = readers \ {p}
    /\ writer' = IF writer = p THEN Nobody ELSE writer
    /\ UNCHANGED lockq

\* What dropping the futures of P does: they wait and hold no more.
Forget(P) ==
    /\ lockq' = Leave(lockq, P)
    /\ readers' = readers \ P
    /\ writer' = IF writer \in P THEN Nobody ELSE writer

Grant ==
    /\ lockq # <<>>
    /\ writer = Nobody
    /\ \/ /\ Head(lockq) \in Reqs
          /\ readers' = readers \cup {Head(lockq)}
          /\ UNCHANGED writer
       \/ /\ Head(lockq) \notin Reqs
          /\ readers = {}
          /\ writer' = Head(lockq)
          /\ UNCHANGED readers
    /\ lockq' = Tail(lockq)
    /\ UNCHANGED <<ccVars, req, stream, cmds, task, signal, workerVars, countVars>>

-----------------------------------------------------------------------------
(* The server: get_car_handler, get_announce and fetch_and_insert.         *)

Active(r) == req[r].st \in {"wait", "fetch"}

SetReq(r, st) == req' = [req EXCEPT ![r].st = st]

Arrive(r) ==
    /\ server = "up"
    /\ req[r].st = "idle"
    /\ SetReq(r, "wait")
    /\ Enqueue(r)
    /\ UNCHANGED <<ccVars, stream, cmds, task, signal, workerVars, countVars>>

\* self.tx.send(cmd) fails exactly when the main worker has dropped its end.
Send(t) == cmds' = Append(cmds, t) /\ task' = [task EXCEPT ![t] = "sent"]

\* dirty_get found the key: the answer is on its way and GetSync is sent.
Hit(r) ==
    /\ r \in readers /\ req[r].st = "wait"
    /\ ~req[r].nocache /\ req[r].key \in DOMAIN content
    /\ IF mainw = "down"
         THEN SetReq(r, "closed") /\ UNCHANGED <<cmds, task>>
         ELSE SetReq(r, "stream") /\ Send(<<"get", r>>)
    /\ Release(r)
    /\ UNCHANGED <<ccVars, stream, signal, workerVars, countVars>>

\* The handler keeps the read lock while it waits for the resolver.
Miss(r) ==
    /\ r \in readers /\ req[r].st = "wait"
    /\ req[r].nocache \/ req[r].key \notin DOMAIN content
    /\ IF mainw = "down"
         THEN SetReq(r, "closed") /\ Release(r) /\ UNCHANGED <<cmds, task>>
         ELSE SetReq(r, "fetch") /\ Send(<<"fetch", r>>) /\ UNCHANGED lockVars
    /\ UNCHANGED <<ccVars, stream, signal, workerVars, countVars>>

\* The resolver has answered with an error, or the provider not with 200.
FetchFailed(r, response) ==
    /\ task[<<"fetch", r>>] = "fetching"
    /\ response.status # "ok"
    /\ task' = [task EXCEPT ![<<"fetch", r>>] = "done"]
    /\ IF req[r].st = "fetch"
         THEN SetReq(r, "error") /\ Release(r)
         ELSE UNCHANGED <<req, lockVars>>
    /\ UNCHANGED <<ccVars, stream, cmds, signal, workerVars, countVars>>

\* A body of length n: with metadata that calls it too large for the cache it
\* goes straight to the client, otherwise a task copies it to the client and
\* keeps it.  When the request has been given up the answer is dropped.
Fetched(r, response, n) ==
    /\ task[<<"fetch", r>>] = "fetching"
    /\ response.status = "ok"
    /\ task' = [task EXCEPT ![<<"fetch", r>>] = "done"]
    /\ IF req[r].st = "fetch"
         THEN /\ SetReq(r, "stream")
              /\ Release(r)
              /\ stream' = IF response.size > CacheControlMaxSize THEN stream
                           ELSE [stream EXCEPT ![r] = [st |-> "open", len |-> n]]
         ELSE UNCHANGED <<req, stream, lockVars>>
    /\ UNCHANGED <<ccVars, cmds, signal, workerVars, countVars>>

\* The copying task reaches the end of the body and sends InsertSync; nobody
\* hears of it if that fails.
StreamEnd(r) ==
    /\ stream[r].st = "open"
    /\ stream' = [stream EXCEPT ![r].st = "ended"]
    /\ IF mainw = "down" THEN UNCHANGED <<cmds, task>> ELSE Send(<<"insert", r>>)
    /\ UNCHANGED <<ccVars, req, lockVars, signal, workerVars, countVars>>

\* The body breaks off: nothing is inserted.
StreamFail(r) ==
    /\ stream[r].st = "open"
    /\ stream' = [stream EXCEPT ![r].st = "ended"]
    /\ UNCHANGED <<ccVars, req, cmds, task, lockVars, signal, workerVars, countVars>>

\* Mutants: a handler that times out keeps the lock; only the wait for the
\* lock has a timeout.
TimeoutKeepsLock(r) ==
    /\ Active(r)
    /\ SetReq(r, "timeout")
    /\ UNCHANGED <<ccVars, stream, cmds, task, lockVars, signal, workerVars, countVars>>

TimeoutOnlyWaiting(r) ==
    /\ req[r].st = "wait"
    /\ SetReq(r, "timeout")
    /\ Forget({r})
    /\ UNCHANGED <<ccVars, stream, cmds, task, signal, workerVars, countVars>>

\* TimeoutLayer drops the handler, wherever it is waiting.
Timeout(r) ==
    /\ Active(r)
    /\ SetReq(r, "timeout")
    /\ Forget({r})
    /\ UNCHANGED <<ccVars, stream, cmds, task, signal, workerVars, countVars>>

-----------------------------------------------------------------------------
(* The main worker and the tasks it spawns.                                *)

\* A Fetch task asks the resolver; the others queue for the write lock.
Dispatch ==
    /\ mainw = "up"
    /\ cmds # <<>>
    /\ cmds' = Tail(cmds)
    /\ LET t == Head(cmds)
       IN  IF t[1] = "fetch"
             THEN task' = [task EXCEPT ![t] = "fetching"] /\ UNCHANGED lockVars
             ELSE task' = [task EXCEPT ![t] = "queued"] /\ Enqueue(t)
    /\ UNCHANGED <<ccVars, req, stream, signal, workerVars, countVars>>

\* Mutant: the worker does not look whether the key is there.
CallsCacheAlways(t) == TRUE

\* WorkerCache::insert calls the cache only for a key that is not in it.
CallsCache(t) == t[1] = "insert" => req[t[2]].key \notin DOMAIN content

Running(t) == task' = [task EXCEPT ![t] = "running"]

StartCall(t) ==
    /\ writer = t /\ task[t] = "queued"
    /\ CallsCache(t)
    /\ \/ t[1] = "get" /\ CcGet(req[t[2]].key)
       \/ t[1] = "insert" /\ CcInsert(req[t[2]].key, stream[t[2]].len)
       \/ t[1] = "clean" /\ CcCleanBegin
    /\ Running(t)
    /\ UNCHANGED <<req, stream, cmds, lockVars, signal, workerVars, countVars>>

SkipCall(t) ==
    /\ writer = t /\ task[t] = "queued"
    /\ ~CallsCache(t)
    /\ task' = [task EXCEPT ![t] = "done"]
    /\ Release(t)
    /\ UNCHANGED <<ccVars, req, stream, cmds, signal, workerVars, countVars>>

CacheStep ==
    /\ CcLoopStep
    /\ UNCHANGED <<req, stream, cmds, task, lockVars, signal, workerVars, countVars>>

\* The guard is a temporary of the `if let' and lives to its end, so a task
\* whose call failed keeps the lock while it sends the signal.
EndCall(t) ==
    /\ writer = t /\ task[t] = "running" /\ Idle
    /\ IF ret \in Errors
         THEN task' = [task EXCEPT ![t] = "signalling"] /\ UNCHANGED lockVars
         ELSE task' = [task EXCEPT ![t] = "done"] /\ Release(t)
    /\ UNCHANGED <<ccVars, req, stream, cmds, signal, workerVars, countVars>>

SendSignal(t) ==
    /\ task[t] = "signalling"
    /\ ~signal["worker"]
    /\ signal' = [signal EXCEPT !["worker"] = TRUE]
    /\ task' = [task EXCEPT ![t] = "done"]
    /\ Release(t)
    /\ UNCHANGED <<ccVars, req, stream, cmds, workerVars, countVars>>

-----------------------------------------------------------------------------
(* The admin server and the TTL worker.                                    *)

PurgeArrives ==
    /\ admin = "up" /\ purges < MaxPurges
    /\ Purger # writer /\ Purger \notin Range(lockq)
    /\ purges' = purges + 1
    /\ Enqueue(Purger)
    /\ UNCHANGED <<ccVars, req, stream, cmds, task, signal, workerVars, ticks>>

PurgeRuns ==
    /\ writer = Purger
    /\ CcPurge
    /\ Release(Purger)
    /\ UNCHANGED <<req, stream, cmds, task, signal, workerVars, countVars>>

Tick ==
    /\ ttlw = "up" /\ ticks < MaxTicks
    /\ ticks' = ticks + 1
    /\ IF mainw = "down"
         THEN signal' = [signal EXCEPT !["ttl"] = TRUE] /\ UNCHANGED <<cmds, task>>
         ELSE Send(<<"clean", ticks + 1>>) /\ UNCHANGED signal
    /\ UNCHANGED <<ccVars, req, stream, lockVars, workerVars, purges>>

-----------------------------------------------------------------------------
(* main(): start, select, graceful_shutdown.                               *)

ServerStarts ==
    /\ server = "starting"
    /\ server' = "up"
    /\ UNCHANGED <<ccVars, req, stream, cmds, task, lockVars, signal,
                   admin, ttlw, mainw, mainfn, countVars>>

ServerFails ==
    /\ server = "starting"
    /\ server' = "down"
    /\ signal' = [signal EXCEPT !["server"] = TRUE]
    /\ UNCHANGED <<ccVars, req, stream, cmds, task, lockVars,
                   admin, ttlw, mainw, mainfn, countVars>>

AdminStarts ==
    /\ admin = "starting"
    /\ admin' = "up"
    /\ UNCHANGED <<ccVars, req, stream, cmds, task, lockVars, signal,
                   server, ttlw, mainw, mainfn, countVars>>

AdminFails ==
    /\ admin = "starting"
    /\ admin' = "down"
    /\ signal' = [signal EXCEPT !["admin"] = TRUE]
    /\ UNCHANGED <<ccVars, req, stream, cmds, task, lockVars,
                   server, ttlw, mainw, mainfn, countVars>>

\* ctrl_c, SIGTERM, or the first signal of a worker.
Shutdown ==
    /\ mainfn = "select"
    /\ mainfn' = "stopping"
    /\ \/ UNCHANGED signal
       \/ \E w \in DOMAIN signal : signal[w] /\ signal' = [signal EXCEPT ![w] = FALSE]
    /\ UNCHANGED <<ccVars, req, stream, cmds, task, lockVars,
                   server, admin, ttlw, mainw, countVars>>

Stopping == mainfn # "select"

ServerDrains ==
    /\ Stopping /\ server = "up"
    /\ server' = "draining"
    /\ UNCHANGED <<ccVars, req, stream, cmds, task, lockVars, signal,
                   admin, ttlw, mainw, mainfn, countVars>>

\* The last connection has closed, or 30 seconds have passed and the
\* connections that are left are dropped.
ServerStops ==
    /\ server = "draining"
    /\ server' = "down"
    /\ req' = [r \in Reqs |-> IF Active(r) THEN [req[r] EXCEPT !.st = "aborted"] ELSE req[r]]
    /\ Forget(Reqs)
    /\ UNCHANGED <<ccVars, stream, cmds, task, signal, admin, ttlw, mainw, mainfn, countVars>>

\* Mutant: the admin server waits for its handler.
AdminStopsGracefully ==
    /\ Stopping /\ admin = "up"
    /\ writer # Purger /\ Purger \notin Range(lockq)
    /\ admin' = "down"
    /\ UNCHANGED <<ccVars, req, stream, cmds, task, lockVars, signal,
                   server, ttlw, mainw, mainfn, countVars>>

\* handle.shutdown() drops the connections at once.
AdminStops ==
    /\ Stopping /\ admin = "up"
    /\ admin' = "down"
    /\ Forget({Purger})
    /\ UNCHANGED <<ccVars, req, stream, cmds, task, signal, server, ttlw, mainw, mainfn, countVars>>

TtlStops ==
    /\ Stopping /\ ttlw = "up"
    /\ ttlw' = "down"
    /\ UNCHANGED <<ccVars, req, stream, cmds, task, lockVars, signal,
                   server, admin, mainw, mainfn, countVars>>

\* Mutant: the server's handle is not awaited.
WorkersJoinedEarly ==
    /\ mainfn = "stopping"
    /\ admin = "down" /\ ttlw = "down"
    /\ mainfn' = "stopmain"
    /\ UNCHANGED <<ccVars, req, stream, cmds, task, lockVars, signal,
                   server, admin, ttlw, mainw, countVars>>

WorkersJoined ==
    /\ mainfn = "stopping"
    /\ server = "down" /\ admin = "down" /\ ttlw = "down"
    /\ mainfn' = "stopmain"
    /\ UNCHANGED <<ccVars, req, stream, cmds, task, lockVars, signal,
                   server, admin, ttlw, mainw, countVars>>

\* The receiver goes, and the commands in it.
MainStops ==
    /\ mainfn = "stopmain" /\ mainw = "up"
    /\ mainw' = "down"
    /\ cmds' = <<>>
    /\ UNCHANGED <<ccVars, req, stream, task, lockVars, signal,
                   server, admin, ttlw, mainfn, countVars>>

Exit ==
    /\ mainfn = "stopmain" /\ mainw = "down"
    /\ mainfn' = "exited"
    /\ UNCHANGED <<ccVars, req, stream, cmds, task, lockVars, signal,
                   server, admin, ttlw, mainw, countVars>>

Exited == mainfn = "exited" /\ UNCHANGED vars

-----------------------------------------------------------------------------
Alive == mainfn # "exited"

HandlerStep(r) == Hit(r) \/ Miss(r)

FetchStep(r) ==
    \E response \in NodeResponses :
        FetchFailed(r, response) \/ \E n \in Lengths : Fetched(r, response, n)

StreamStep(r) == StreamEnd(r) \/ StreamFail(r)

TaskStep(t) == StartCall(t) \/ SkipCall(t) \/ EndCall(t) \/ SendSignal(t)

StartStep == ServerStarts \/ ServerFails \/ AdminStarts \/ AdminFails

StopStep == ServerDrains \/ ServerStops \/ AdminStops \/ TtlStops
            \/ WorkersJoined \/ MainStops \/ Exit

Next ==
    \/ /\ Alive
       /\ \/ \E r \in Reqs : Arrive(r) \/ HandlerStep(r) \/ FetchStep(r)
                             \/ StreamStep(r) \/ Timeout(r)
          \/ Grant \/ Dispatch \/ CacheStep
          \/ \E t \in Tasks : TaskStep(t)
          \/ PurgeArrives \/ PurgeRuns \/ Tick
          \/ StartStep \/ Shutdown \/ StopStep
    \/ Exited

Spec == Init /\ [][Next]_vars

\* tokio polls every task that can go on, and timers fire.  Nothing is
\* assumed of clients, of the resolver or of the provider's stream, nor of
\* whoever starts the shutdown; main() takes a signal that is in a channel.
FairSpec ==
    /\ Spec
    /\ \A r \in Reqs : /\ WF_vars(Alive /\ HandlerStep(r))
                       /\ WF_vars(Alive /\ Timeout(r))
    /\ \A t \in Tasks : WF_vars(Alive /\ TaskStep(t))
    /\ WF_vars(Alive /\ Grant)
    /\ WF_vars(Alive /\ Dispatch)
    /\ WF_vars(Alive /\ CacheStep)
    /\ WF_vars(Alive /\ PurgeRuns)
    /\ WF_vars(Alive /\ StartStep)
    /\ WF_vars(Alive /\ StopStep)
    /\ WF_vars((\E w \in DOMAIN signal : signal[w]) /\ Shutdown)

-----------------------------------------------------------------------------
(* Properties.                                                             *)

\* "main worker to stop last" (main.rs:155): the command channel is closed
\* only when the servers and the TTL worker are down and no request is being
\* handled, so neither a handler nor the TTL worker finds it closed.
MainStopsLast ==
    /\ mainw = "down" => /\ server = "down" /\ admin = "down" /\ ttlw = "down"
                         /\ \A r \in Reqs : ~Active(r)
    /\ \A r \in Reqs : req[r].st # "closed"
    /\ ~signal["ttl"]

\* The gateway shuts itself down for a cache error only if a body larger than
\* the whole cache was offered, or the expiry index may fail: concurrent
\* misses of one key, hits on an entry evicted or purged meanwhile, and
\* clean-ups racing all of them are never errors.
FailsOnlyForTooBig ==
    (\E t \in Tasks : task[t] = "signalling") /\ ~ExpiryMayFail =>
      \E r \in Reqs : stream[r].len > MaxSize

\* Readers and writers exclude each other, and whoever holds the lock is
\* still there to release it: dropping a handler frees what it held.
LockIsHeldByTheLiving ==
    /\ writer # Nobody => readers = {}
    /\ \A r \in readers : Active(r)
    /\ writer \in Tasks => task[writer] \in {"queued", "running", "signalling"}
    /\ writer = Purger => admin = "up"

\* Every request is answered, one way or another, whatever the resolver does.
RequestsAnswered == \A r \in Reqs : Active(r) ~> ~Active(r)

\* Every command that reaches its task is carried out, unless the process
\* ends first: the lock is never lost.
CommandsCarriedOut ==
    \A t \in Tasks : task[t] = "queued" ~> task[t] = "done" \/ mainfn = "exited"

\* A shutdown, once begun, ends the process, even when a failed command keeps
\* the write lock for ever.
ShutdownCompletes == Stopping ~> mainfn = "exited"
=============================================================================

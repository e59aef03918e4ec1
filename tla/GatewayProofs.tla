--------------------------- MODULE GatewayProofs ----------------------------
(***************************************************************************)
(* Proofs about the gateway process, for any number of requests, clean-ups *)
(* and purges, any cache size and any replies of the indexer: main() stops *)
(* its workers in order, the lock is held only by whoever will release it, *)
(* and no cache error but that of a body too large shuts the gateway down. *)
(***************************************************************************)
EXTENDS Gateway, TLAPS

ReqStates == {"idle", "wait", "fetch", "stream", "error", "timeout", "aborted", "closed"}

ReqRecords == [st : ReqStates, key : Keys, nocache : BOOLEAN]

Users == Reqs \cup Tasks \cup {Purger}

CallType ==
    call \in {NoCall, CleanCall} \cup [op : {"insert"}, key : Keys, len : Lengths]

\* The order of start and shutdown: main() goes on only when the workers it
\* waits for are down, a server that is not up handles nothing, and nobody
\* has met a closed command channel.
OrderInv ==
    /\ mainw = "down" => mainfn \in {"stopmain", "exited"}
    /\ mainfn \in {"stopmain", "exited"} =>
         server = "down" /\ admin = "down" /\ ttlw = "down"
    /\ server \in {"starting", "down"} => \A r \in Reqs : ~Active(r)
    /\ \A r \in Reqs : req[r].st # "closed"
    /\ ~signal["ttl"]

\* How far a request, its stream and its commands have come: each command is
\* sent at most once, and is in the channel only before its task exists.
ProgressInv ==
    /\ \A r \in Reqs :
         /\ req[r].st \in {"idle", "wait"} =>
              task[<<"get", r>>] = "none" /\ task[<<"fetch", r>>] = "none"
         /\ task[<<"fetch", r>>] \in {"none", "sent", "fetching"} => stream[r].st = "none"
         /\ stream[r].st \in {"none", "open"} => task[<<"insert", r>>] = "none"
         /\ IF stream[r].st = "none" THEN stream[r].len = 0 ELSE stream[r].len \in Lengths
    /\ \A i \in 1..MaxTicks : i > ticks => task[<<"clean", i>>] = "none"
    /\ NoRepeats(cmds)
    /\ \A t \in Range(cmds) : task[t] = "sent"

\* Who is in the lock's queue and who holds it: nobody is in two places, and
\* everybody there is at the point of its work where it uses the lock.
LockInv ==
    /\ NoRepeats(lockq)
    /\ writer # Nobody => readers = {}
    /\ writer \notin Range(lockq)
    /\ readers \cap Range(lockq) = {}
    /\ \A r \in readers : Active(r)
    /\ \A r \in Reqs \cap Range(lockq) : req[r].st = "wait"
    /\ \A t \in Tasks \cap Range(lockq) : task[t] = "queued"
    /\ writer \in Tasks => task[writer] \in {"queued", "running", "signalling"}
    /\ writer = Purger \/ Purger \in Range(lockq) => admin = "up"

TooBigOffered == \E r \in Reqs : stream[r].len > MaxSize

\* The body of an insert is that of some request, and an error has a cause.
CallInv ==
    /\ CallType
    /\ call.op = "insert" => \E r \in Reqs : stream[r].st # "none" /\ stream[r].len = call.len
    /\ ~ExpiryMayFail /\ (ret \in Errors \/ \E t \in Tasks : task[t] = "signalling")
         => TooBigOffered

\* The inductive invariant.
GatewayInv == TypeOK /\ OrderInv /\ ProgressInv /\ LockInv /\ CallInv

-----------------------------------------------------------------------------
(* The parts of a step. *)

TaskStates == {"none", "sent", "fetching", "queued", "running", "signalling", "done"}

\* What a queue holds after a push, and that it stays free of repetitions.
LEMMA PushProps ==
    ASSUME NEW S, NEW s \in Seq(S), NEW e \in S, NoRepeats(s), e \notin Range(s)
    PROVE  /\ Append(s, e) \in Seq(S) /\ NoRepeats(Append(s, e))
           /\ Range(Append(s, e)) = Range(s) \cup {e}
<1>1. /\ DOMAIN Append(s, e) = 1..(Len(s) + 1) /\ Len(s) \in Nat
      /\ DOMAIN s = 1..Len(s) /\ Append(s, e)[Len(s) + 1] = e
      /\ \A i \in 1..Len(s) : Append(s, e)[i] = s[i]
  OBVIOUS
<1>2. 1..(Len(s) + 1) = 1..Len(s) \cup {Len(s) + 1}
  BY <1>1
<1>3. Range(Append(s, e)) = Range(s) \cup {e}
  BY <1>1, <1>2 DEF Range
<1>4. NoRepeats(Append(s, e))
  BY DEF Range, NoRepeats
<1> QED BY <1>3, <1>4

\* What a queue holds after a pop.
LEMMA PopProps ==
    ASSUME NEW S, NEW s \in Seq(S), s # <<>>, NoRepeats(s)
    PROVE  /\ Head(s) \in S /\ Tail(s) \in Seq(S) /\ NoRepeats(Tail(s))
           /\ Range(s) = Range(Tail(s)) \cup {Head(s)} /\ Head(s) \notin Range(Tail(s))
<1>1. /\ Head(s) = s[1] /\ Head(s) \in S /\ Tail(s) \in Seq(S) /\ 1 \in DOMAIN s
      /\ \A i \in DOMAIN Tail(s) : i + 1 \in DOMAIN s /\ i + 1 # 1 /\ Tail(s)[i] = s[i + 1]
      /\ \A i \in DOMAIN s : i # 1 => i - 1 \in DOMAIN Tail(s) /\ s[i] = Tail(s)[i - 1]
  OBVIOUS
<1>2. Head(s) \notin Range(Tail(s))
  BY <1>1 DEF Range, NoRepeats
<1>3. \A i, j \in DOMAIN Tail(s) : Tail(s)[i] = Tail(s)[j] => i = j
  <2> TAKE i, j \in DOMAIN Tail(s)
  <2>1. i \in Int /\ j \in Int
    OBVIOUS
  <2> QED BY <1>1, <2>1 DEF NoRepeats
<1>4. ASSUME NEW i \in DOMAIN s PROVE s[i] \in Range(Tail(s)) \cup {Head(s)}
  BY <1>1, Zenon DEF Range
<1>5. ASSUME NEW i \in DOMAIN Tail(s) PROVE Tail(s)[i] \in Range(s)
  BY <1>1 DEF Range
<1>6. Range(s) = Range(Tail(s)) \cup {Head(s)}
  BY <1>1, <1>4, <1>5, ZenonT(30) DEF Range
<1> QED BY <1>1, <1>2, <1>3, <1>6 DEF NoRepeats

\* The tasks of a request and of a tick of the clock, and no others.
LEMMA TaskNames ==
    /\ \A r \in Reqs : /\ <<"get", r>> \in Tasks
                       /\ <<"fetch", r>> \in Tasks
                       /\ <<"insert", r>> \in Tasks
    /\ \A i \in 1..MaxTicks : <<"clean", i>> \in Tasks
    /\ \A t \in Tasks : \/ t[1] \in {"get", "fetch", "insert"} /\ t[2] \in Reqs
                        \/ t[1] = "clean" /\ t[2] \in 1..MaxTicks
    /\ \A t \in Tasks : t = <<t[1], t[2]>>
BY DEF Tasks

\* A request goes on; the others stay where they are.
LEMMA SetReqProps ==
    ASSUME TypeOK, NEW r \in Reqs, NEW st \in ReqStates, SetReq(r, st)
    PROVE  /\ req' \in [Reqs -> ReqRecords]
           /\ req'[r].st = st
           /\ \A s \in Reqs : s # r => req'[s] = req[s]
BY ZenonT(30) DEF TypeOK, SetReq, ReqRecords, ReqStates

\* A task goes on; the others stay where they are.
LEMMA TaskProps ==
    ASSUME TypeOK, NEW t \in Tasks, NEW x \in TaskStates, task' = [task EXCEPT ![t] = x]
    PROVE  /\ task' \in [Tasks -> TaskStates]
           /\ task'[t] = x
           /\ \A u \in Tasks : u # t => task'[u] = task[u]
BY DEF TypeOK, TaskStates

\* A command that was never sent is sent.
LEMMA SendProps ==
    ASSUME TypeOK, ProgressInv, NEW t \in Tasks, task[t] = "none", Send(t)
    PROVE  /\ task' \in [Tasks -> TaskStates]
           /\ task'[t] = "sent"
           /\ \A u \in Tasks : u # t => task'[u] = task[u]
           /\ cmds' \in Seq(Tasks) /\ NoRepeats(cmds')
           /\ \A u \in Range(cmds') : task'[u] = "sent"
<1>1. cmds \in Seq(Tasks) /\ NoRepeats(cmds) /\ \A u \in Range(cmds) : task[u] = "sent"
  BY DEF TypeOK, ProgressInv
<1>2. Range(cmds) \subseteq Tasks /\ t \notin Range(cmds)
  BY <1>1 DEF Range
<1>3. cmds' = Append(cmds, t) /\ task' = [task EXCEPT ![t] = "sent"]
  BY DEF Send
<1>4. /\ cmds' \in Seq(Tasks) /\ NoRepeats(cmds') /\ Range(cmds') = Range(cmds) \cup {t}
  BY <1>1, <1>2, <1>3, PushProps
<1>5. /\ task' \in [Tasks -> TaskStates]
      /\ task'[t] = "sent"
      /\ \A u \in Tasks : u # t => task'[u] = task[u]
  BY <1>3, TaskProps, Zenon DEF TaskStates
<1> QED BY <1>1, <1>2, <1>4, <1>5

\* Someone joins the queue of the lock.
LEMMA EnqueueProps ==
    ASSUME TypeOK, LockInv, NEW p \in Users, p \notin Range(lockq), Enqueue(p)
    PROVE  /\ lockq' \in Seq(Users) /\ NoRepeats(lockq')
           /\ Range(lockq') = Range(lockq) \cup {p}
           /\ readers' = readers /\ writer' = writer
BY PushProps DEF TypeOK, LockInv, Enqueue, Users

\* Whoever is known to the lock is one of its users.
LEMMA LockUsers ==
    ASSUME TypeOK
    PROVE  /\ Range(lockq) \subseteq Users /\ readers \subseteq Reqs
           /\ writer \in Tasks \cup {Purger, Nobody}
           /\ \A r \in Reqs : r # Purger /\ r # Nobody /\ r \notin Tasks /\ r # writer
           /\ Purger # Nobody /\ Purger \notin Tasks /\ Nobody \notin Tasks
BY UsersAssumption DEF TypeOK, Range, Users

-----------------------------------------------------------------------------
(* What leaves a part of the invariant alone. *)

\* Nothing is started or stopped and no request becomes active.
LEMMA OrderFrame ==
    ASSUME OrderInv, UNCHANGED <<workerVars, signal>>,
           \A r \in Reqs : Active(r)' => Active(r), \A r \in Reqs : req'[r].st # "closed"
    PROVE  OrderInv'
BY DEF OrderInv, workerVars

\* No call is made or answered, and no task begins to signal.
LEMMA CallFrame ==
    ASSUME CallInv, UNCHANGED <<call, ret, stream>>,
           \A t \in Tasks : task'[t] = "signalling" => task[t] = "signalling"
    PROVE  CallInv'
BY DEF CallInv, CallType, TooBigOffered

\* Requests move on from where they were, and tasks that exist do too.
LEMMA ProgressFrame ==
    ASSUME TypeOK, ProgressInv, UNCHANGED <<stream, cmds, ticks>>,
           \A r \in Reqs : req'[r].st \in {"idle", "wait"} => req[r].st \in {"idle", "wait"},
           \A t \in Tasks : task'[t] # task[t] =>
               /\ task[t] \notin {"none", "sent"}
               /\ task'[t] \notin {"none", "sent", "fetching"}
    PROVE  ProgressInv'
<1>0. \A r \in Reqs : /\ <<"get", r>> \in Tasks /\ <<"fetch", r>> \in Tasks
                      /\ <<"insert", r>> \in Tasks
  BY TaskNames, Zenon
<1>1. \A i \in 1..MaxTicks : <<"clean", i>> \in Tasks
  BY TaskNames, Zenon
<1>2. \A r \in Reqs :
         /\ req'[r].st \in {"idle", "wait"} =>
              task'[<<"get", r>>] = "none" /\ task'[<<"fetch", r>>] = "none"
         /\ task'[<<"fetch", r>>] \in {"none", "sent", "fetching"} => stream'[r].st = "none"
         /\ stream'[r].st \in {"none", "open"} => task'[<<"insert", r>>] = "none"
         /\ IF stream'[r].st = "none" THEN stream'[r].len = 0 ELSE stream'[r].len \in Lengths
  BY <1>0, Zenon DEF ProgressInv
<1>3. \A i \in 1..MaxTicks : i > ticks' => task'[<<"clean", i>>] = "none"
  BY <1>1 DEF ProgressInv
<1>4. \A t \in Range(cmds') : task'[t] = "sent"
  BY DEF TypeOK, ProgressInv, Range
<1> QED BY <1>2, <1>3, <1>4 DEF ProgressInv

\* Nobody comes to the lock, and whoever stays is still at the point of its
\* work where it uses the lock.
LEMMA LockFrame ==
    ASSUME TypeOK, LockInv,
           NoRepeats(lockq'), Range(lockq') \subseteq Range(lockq),
           readers' \subseteq readers, writer' \in {writer, Nobody},
           \A r \in readers' : Active(r)',
           \A r \in Reqs \cap Range(lockq') : req'[r].st = req[r].st,
           \A t \in Tasks \cap Range(lockq') : task'[t] = task[t],
           writer' \in Tasks => task'[writer'] \in {"queued", "running", "signalling"},
           writer' = Purger \/ Purger \in Range(lockq') => admin' = admin
    PROVE  LockInv'
<1>1. Nobody \notin Range(lockq) /\ Nobody # Purger /\ Nobody \notin Tasks
  BY LockUsers, UsersAssumption DEF Users
<1>2. /\ NoRepeats(lockq')
      /\ writer' # Nobody => readers' = {}
      /\ writer' \notin Range(lockq')
      /\ readers' \cap Range(lockq') = {}
  BY <1>1 DEF LockInv
<1>3. /\ \A r \in Reqs \cap Range(lockq') : req'[r].st = "wait"
      /\ \A t \in Tasks \cap Range(lockq') : task'[t] = "queued"
  BY DEF LockInv
<1>4. writer' = Purger \/ Purger \in Range(lockq') => admin' = "up"
  BY <1>1 DEF LockInv
<1> QED BY <1>2, <1>3, <1>4 DEF LockInv

\* The lock after someone lets go of it.
LEMMA ReleaseProps ==
    ASSUME NEW p, Release(p)
    PROVE  /\ lockq' = lockq
           /\ readers' = readers \ {p}
           /\ writer' = IF writer = p THEN Nobody ELSE writer
BY DEF Release

-----------------------------------------------------------------------------
(* One lemma per action: it preserves the invariant. *)

\* A request arrives and queues for the lock.
LEMMA ArriveInv ==
    ASSUME GatewayInv, NEW r \in Reqs, Arrive(r)
    PROVE  GatewayInv'
<1> USE DEF GatewayInv
<1>1. /\ server = "up" /\ req[r].st = "idle" /\ SetReq(r, "wait") /\ Enqueue(r)
      /\ UNCHANGED <<content, call, ret, stream, cmds, task, signal, workerVars, ticks, purges>>
  BY DEF Arrive, ccVars, countVars
<1>2. /\ req' \in [Reqs -> ReqRecords] /\ req'[r].st = "wait"
      /\ \A s \in Reqs : s # r => req'[s] = req[s]
  BY <1>1, SetReqProps, Zenon DEF ReqStates
<1> USE <1>1, <1>2
<1>3. r \notin Range(lockq) /\ r \notin readers /\ r \in Users
  BY DEF LockInv, Active, Users
<1>4. /\ lockq' \in Seq(Users) /\ NoRepeats(lockq')
      /\ Range(lockq') = Range(lockq) \cup {r}
      /\ readers' = readers /\ writer' = writer
  BY <1>3, EnqueueProps
<1>5. TypeOK'
  BY <1>4 DEF TypeOK, ReqRecords, ReqStates, Users, workerVars
<1>6. OrderInv'
  BY DEF OrderInv, Active, workerVars
<1>7. ProgressInv'
  BY ProgressFrame, Zenon
<1>8. LockInv'
  BY <1>3, <1>4, LockUsers DEF LockInv, Active, workerVars
<1>9. CallInv'
  BY CallFrame
<1> QED BY <1>5, <1>6, <1>7, <1>8, <1>9

\* While a request is handled the command channel is open.
LEMMA ChannelOpen ==
    ASSUME GatewayInv, NEW r \in Reqs, Active(r)
    PROVE  mainw = "up" /\ server \in {"up", "draining"}
BY DEF GatewayInv, TypeOK, OrderInv

\* A hit answers, sends its command and lets go of the lock.
LEMMA HitInv ==
    ASSUME GatewayInv, NEW r \in Reqs, Hit(r)
    PROVE  GatewayInv'
<1> USE DEF GatewayInv
<1> DEFINE t == <<"get", r>>
<1>1. /\ r \in readers /\ req[r].st = "wait" /\ mainw = "up"
  BY ChannelOpen DEF Hit, Active
<1>2. /\ SetReq(r, "stream") /\ Send(t) /\ Release(r)
      /\ UNCHANGED <<content, call, ret, stream, signal, workerVars, ticks, purges>>
  BY <1>1 DEF Hit, ccVars, countVars
<1>3. /\ req' \in [Reqs -> ReqRecords] /\ req'[r].st = "stream"
      /\ \A s \in Reqs : s # r => req'[s] = req[s]
  BY <1>2, SetReqProps DEF ReqStates
<1>4. t \in Tasks /\ task[t] = "none"
  BY <1>1, TaskNames, Zenon DEF ProgressInv
<1>5. /\ task' \in [Tasks -> TaskStates] /\ task'[t] = "sent"
      /\ \A u \in Tasks : u # t => task'[u] = task[u]
      /\ cmds' \in Seq(Tasks) /\ NoRepeats(cmds')
      /\ \A u \in Range(cmds') : task'[u] = "sent"
  <2> HIDE DEF t
  <2> QED BY <1>2, <1>4, SendProps
<1>6. lockq' = lockq /\ readers' = readers \ {r} /\ writer' = writer
  BY <1>2, ReleaseProps, LockUsers, Zenon
<1> USE <1>2, <1>3, <1>4, <1>5, <1>6
<1>7. TypeOK'
  BY DEF TypeOK, ReqRecords, ReqStates, TaskStates, workerVars
<1>8. OrderInv'
  BY OrderFrame, Zenon DEF OrderInv, Active
<1>9. ProgressInv'
  <2>1. \A s \in Reqs : /\ <<"get", s>> \in Tasks /\ <<"fetch", s>> \in Tasks
                        /\ <<"insert", s>> \in Tasks
                        /\ <<"fetch", s>> # t /\ <<"insert", s>> # t
                        /\ s # r => <<"get", s>> # t
    BY TaskNames, Zenon
  <2>2. \A i \in 1..MaxTicks : <<"clean", i>> \in Tasks /\ <<"clean", i>> # t
    BY TaskNames, Zenon
  <2> HIDE DEF t
  <2> QED BY <2>1, <2>2 DEF ProgressInv
<1>10. LockInv'
  <2> HIDE DEF t
  <2>1. r \notin Range(lockq) /\ t \notin Range(lockq) /\ t # writer
    BY <1>1, Zenon DEF LockInv
  <2>2. /\ NoRepeats(lockq') /\ Range(lockq') = Range(lockq)
        /\ readers' \subseteq readers /\ writer' = writer /\ admin' = admin
    BY <2>1, Zenon DEF LockInv, workerVars
  <2>3. \A s \in readers' : Active(s)'
    BY <2>1, LockUsers, Zenon DEF LockInv, Active
  <2>4. \A s \in Reqs \cap Range(lockq') : req'[s].st = req[s].st
    BY <2>1
  <2>5. \A u \in Tasks \cap Range(lockq') : task'[u] = task[u]
    BY <2>1, Zenon
  <2>6. writer' \in Tasks => task'[writer'] \in {"queued", "running", "signalling"}
    BY <2>1, Zenon DEF LockInv
  <2> QED BY <2>2, <2>3, <2>4, <2>5, <2>6, LockFrame, Zenon
<1>11. CallInv'
  <2> HIDE DEF t
  <2> QED BY CallFrame, Zenon
<1> QED BY <1>7, <1>8, <1>9, <1>10, <1>11, Zenon

\* A miss sends its command and keeps the read guard.
LEMMA MissInv ==
    ASSUME GatewayInv, NEW r \in Reqs, Miss(r)
    PROVE  GatewayInv'
<1> USE DEF GatewayInv
<1> DEFINE t == <<"fetch", r>>
<1>1. /\ r \in readers /\ req[r].st = "wait" /\ mainw = "up"
  BY ChannelOpen, Zenon DEF Miss, Active
<1>2. /\ SetReq(r, "fetch") /\ Send(t)
      /\ UNCHANGED <<content, call, ret, stream, signal, workerVars, ticks, purges,
                     lockq, readers, writer>>
  BY <1>1, Zenon DEF Miss, ccVars, countVars, lockVars
<1>3. /\ req' \in [Reqs -> ReqRecords] /\ req'[r].st = "fetch"
      /\ \A s \in Reqs : s # r => req'[s] = req[s]
  BY <1>2, SetReqProps DEF ReqStates
<1>4. t \in Tasks /\ task[t] = "none"
  BY <1>1, TaskNames, Zenon DEF ProgressInv
<1>5. /\ task' \in [Tasks -> TaskStates] /\ task'[t] = "sent"
      /\ \A u \in Tasks : u # t => task'[u] = task[u]
      /\ cmds' \in Seq(Tasks) /\ NoRepeats(cmds')
      /\ \A u \in Range(cmds') : task'[u] = "sent"
  <2> HIDE DEF t
  <2> QED BY <1>2, <1>4, SendProps, Zenon
<1> USE <1>2, <1>3, <1>4, <1>5
<1>7. TypeOK'
  BY DEF TypeOK, ReqRecords, ReqStates, TaskStates, workerVars
<1>8. OrderInv'
  BY <1>1, OrderFrame, Zenon DEF OrderInv, Active
<1>9. ProgressInv'
  <2>1. \A s \in Reqs : /\ <<"get", s>> \in Tasks /\ <<"fetch", s>> \in Tasks
                        /\ <<"insert", s>> \in Tasks
                        /\ <<"get", s>> # t /\ <<"insert", s>> # t
                        /\ s # r => <<"fetch", s>> # t
    BY TaskNames, Zenon
  <2>2. \A i \in 1..MaxTicks : <<"clean", i>> \in Tasks /\ <<"clean", i>> # t
    BY TaskNames, Zenon
  <2>3. stream[r].st = "none"
    BY Zenon DEF ProgressInv
  <2> HIDE DEF t
  <2> QED BY <2>1, <2>2, <2>3 DEF ProgressInv
<1>10. LockInv'
  <2> HIDE DEF t
  <2>1. r \notin Range(lockq) /\ t \notin Range(lockq) /\ t # writer
    BY <1>1, Zenon DEF LockInv
  <2>2. /\ NoRepeats(lockq') /\ Range(lockq') = Range(lockq)
        /\ readers' \subseteq readers /\ writer' = writer /\ admin' = admin
    BY <2>1, Zenon DEF LockInv, workerVars
  <2>3. \A s \in readers' : Active(s)'
    BY <2>1, LockUsers, Zenon DEF LockInv, Active
  <2>4. \A s \in Reqs \cap Range(lockq') : req'[s].st = req[s].st
    BY <2>1, Zenon
  <2>5. \A u \in Tasks \cap Range(lockq') : task'[u] = task[u]
    BY <2>1, Zenon
  <2>6. writer' \in Tasks => task'[writer'] \in {"queued", "running", "signalling"}
    BY <2>1 DEF LockInv
  <2> QED BY <2>2, <2>3, <2>4, <2>5, <2>6, LockFrame, Zenon
<1>11. CallInv'
  <2> HIDE DEF t
  <2> QED BY CallFrame, Zenon
<1> QED BY <1>7, <1>8, <1>9, <1>10, <1>11, Zenon

\* The part of the answer to a fetch that does not depend on what it says.
LEMMA FetchTask ==
    ASSUME GatewayInv, NEW r \in Reqs, NEW t, t = <<"fetch", r>>,
           task[t] = "fetching", task' = [task EXCEPT ![t] = "done"]
    PROVE  /\ t \in Tasks /\ t \notin Range(lockq) /\ t # writer
           /\ task' \in [Tasks -> TaskStates] /\ task'[t] = "done"
           /\ \A u \in Tasks : u # t => task'[u] = task[u]
           /\ stream[r].st = "none" /\ stream[r].len = 0
           /\ req[r].st \notin {"idle", "wait"}
           /\ \A s \in Reqs : /\ <<"get", s>> \in Tasks /\ <<"fetch", s>> \in Tasks
                              /\ <<"insert", s>> \in Tasks
                              /\ <<"get", s>> # t /\ <<"insert", s>> # t
                              /\ s # r => <<"fetch", s>> # t
           /\ \A i \in 1..MaxTicks : <<"clean", i>> \in Tasks /\ <<"clean", i>> # t
<1> USE DEF GatewayInv
<1>1. t \in Tasks
  BY TaskNames, Zenon
<1>2. t \notin Range(lockq) /\ t # writer
  BY <1>1 DEF LockInv
<1>3. /\ task' \in [Tasks -> TaskStates] /\ task'[t] = "done"
      /\ \A u \in Tasks : u # t => task'[u] = task[u]
  BY <1>1, TaskProps, Zenon DEF TaskStates
<1>4. stream[r].st = "none" /\ stream[r].len = 0
  BY Zenon DEF ProgressInv
<1>5. req[r].st \notin {"idle", "wait"}
  BY Zenon DEF ProgressInv
<1>6. \A s \in Reqs : /\ <<"get", s>> \in Tasks /\ <<"fetch", s>> \in Tasks
                      /\ <<"insert", s>> \in Tasks
                      /\ <<"get", s>> # t /\ <<"insert", s>> # t
                      /\ s # r => <<"fetch", s>> # t
  BY TaskNames, Zenon
<1>7. \A i \in 1..MaxTicks : <<"clean", i>> \in Tasks /\ <<"clean", i>> # t
  BY TaskNames, Zenon
<1> QED BY <1>1, <1>2, <1>3, <1>4, <1>5, <1>6, <1>7

\* The request that waited for the answer goes on and lets go of the lock;
\* one that was given up stays as it is.
LEMMA FetchReq ==
    ASSUME GatewayInv, NEW r \in Reqs, NEW st \in {"error", "stream"},
           req[r].st \notin {"idle", "wait"},
           IF req[r].st = "fetch" THEN SetReq(r, st) /\ Release(r)
                                  ELSE UNCHANGED <<req, lockVars>>
    PROVE  /\ req' \in [Reqs -> ReqRecords]
           /\ \A s \in Reqs : s # r => req'[s] = req[s]
           /\ req'[r].st = IF req[r].st = "fetch" THEN st ELSE req[r].st
           /\ lockq' = lockq /\ writer' = writer
           /\ readers' = readers \ {r}
<1> USE DEF GatewayInv
<1>1. CASE req[r].st = "fetch"
  BY <1>1, SetReqProps, ReleaseProps, LockUsers, Zenon DEF ReqStates
<1>2. CASE req[r].st # "fetch"
  <2>1. r \notin readers
    BY <1>2, Zenon DEF LockInv, Active
  <2> QED BY <1>2, <2>1, Zenon DEF TypeOK, ReqRecords, ReqStates, lockVars
<1> QED BY <1>1, <1>2

\* The resolver answers with an error.
LEMMA FetchFailedInv ==
    ASSUME GatewayInv, NEW r \in Reqs, NEW response, FetchFailed(r, response)
    PROVE  GatewayInv'
<1> USE DEF GatewayInv
<1>0. PICK t : t = <<"fetch", r>>
  BY Zenon
<1>1. /\ task[t] = "fetching" /\ task' = [task EXCEPT ![t] = "done"]
      /\ IF req[r].st = "fetch" THEN SetReq(r, "error") /\ Release(r)
                                ELSE UNCHANGED <<req, lockVars>>
      /\ UNCHANGED <<content, call, ret, stream, cmds, signal, workerVars, ticks, purges>>
  BY <1>0 DEF FetchFailed, ccVars, countVars
<1>2. /\ t \in Tasks /\ t \notin Range(lockq) /\ t # writer
      /\ task' \in [Tasks -> TaskStates] /\ task'[t] = "done"
      /\ \A u \in Tasks : u # t => task'[u] = task[u]
      /\ req[r].st \notin {"idle", "wait"}
  BY <1>0, <1>1, FetchTask, Zenon
<1>3. /\ req' \in [Reqs -> ReqRecords]
      /\ \A s \in Reqs : s # r => req'[s] = req[s]
      /\ req'[r].st = IF req[r].st = "fetch" THEN "error" ELSE req[r].st
      /\ lockq' = lockq /\ writer' = writer
      /\ readers' = readers \ {r}
  BY <1>1, <1>2, FetchReq, Zenon
<1> USE <1>1, <1>2, <1>3
<1>7. TypeOK'
  BY Zenon DEF TypeOK, ReqRecords, ReqStates, TaskStates, workerVars
<1>8. OrderInv'
  BY OrderFrame, Zenon DEF OrderInv, Active
<1>9. ProgressInv'
  BY ProgressFrame, Zenon
<1>10. LockInv'
  <2>2. /\ NoRepeats(lockq') /\ Range(lockq') = Range(lockq)
        /\ readers' \subseteq readers /\ writer' \in {writer, Nobody} /\ admin' = admin
    BY Zenon DEF LockInv, workerVars
  <2>3. \A s \in readers' : Active(s)'
    BY LockUsers, Zenon DEF LockInv, Active
  <2>4. \A s \in Reqs \cap Range(lockq') : req'[s].st = req[s].st
    BY DEF LockInv
  <2>5. \A u \in Tasks \cap Range(lockq') : task'[u] = task[u]
    BY Zenon
  <2>6. writer' \in Tasks => task'[writer'] \in {"queued", "running", "signalling"}
    BY LockUsers, Zenon DEF LockInv
  <2> QED BY <2>2, <2>3, <2>4, <2>5, <2>6, LockFrame, Zenon
<1>11. CallInv'
  BY CallFrame, Zenon
<1> QED BY <1>7, <1>8, <1>9, <1>10, <1>11

\* The resolver answers with a stream.
LEMMA FetchedInv ==
    ASSUME GatewayInv, NEW r \in Reqs, NEW response, NEW n \in Lengths, Fetched(r, response, n)
    PROVE  GatewayInv'
<1> USE DEF GatewayInv
<1>0. PICK t : t = <<"fetch", r>>
  BY Zenon
<1>1. /\ task[t] = "fetching" /\ task' = [task EXCEPT ![t] = "done"]
      /\ IF req[r].st = "fetch" THEN SetReq(r, "stream") /\ Release(r)
                                ELSE UNCHANGED <<req, lockVars>>
      /\ \/ stream' = stream
         \/ stream' = [stream EXCEPT ![r] = [st |-> "open", len |-> n]]
      /\ UNCHANGED <<content, call, ret, cmds, signal, workerVars, ticks, purges>>
  BY <1>0 DEF Fetched, ccVars, countVars
<1>2. /\ t \in Tasks /\ t \notin Range(lockq) /\ t # writer
      /\ task' \in [Tasks -> TaskStates] /\ task'[t] = "done"
      /\ \A u \in Tasks : u # t => task'[u] = task[u]
      /\ stream[r].st = "none" /\ stream[r].len = 0
      /\ req[r].st \notin {"idle", "wait"}
      /\ \A s \in Reqs : /\ <<"get", s>> \in Tasks /\ <<"fetch", s>> \in Tasks
                         /\ <<"insert", s>> \in Tasks
                         /\ <<"get", s>> # t /\ <<"insert", s>> # t
                         /\ s # r => <<"fetch", s>> # t
      /\ \A i \in 1..MaxTicks : <<"clean", i>> \in Tasks /\ <<"clean", i>> # t
  BY <1>0, <1>1, FetchTask, Zenon
<1>3. /\ req' \in [Reqs -> ReqRecords]
      /\ \A s \in Reqs : s # r => req'[s] = req[s]
      /\ req'[r].st = IF req[r].st = "fetch" THEN "stream" ELSE req[r].st
      /\ lockq' = lockq /\ writer' = writer
      /\ readers' = readers \ {r}
  BY <1>1, <1>2, FetchReq
<1>4. /\ stream' \in [Reqs -> [st : {"none", "open", "ended"}, len : Lengths \cup {0}]]
      /\ \A s \in Reqs : s # r => stream'[s] = stream[s]
      /\ \/ stream'[r] = stream[r]
         \/ stream'[r].st = "open" /\ stream'[r].len = n
  <2>1. stream \in [Reqs -> [st : {"none", "open", "ended"}, len : Lengths \cup {0}]]
    BY DEF TypeOK
  <2>2. CASE stream' = stream
    BY <2>1, <2>2
  <2>3. CASE stream' = [stream EXCEPT ![r] = [st |-> "open", len |-> n]]
    <3>1. [st |-> "open", len |-> n] \in [st : {"none", "open", "ended"}, len : Lengths \cup {0}]
      BY Zenon
    <3> QED BY <2>1, <2>3, <3>1
  <2> QED BY <1>1, <2>2, <2>3, Zenon
<1> USE <1>1, <1>2, <1>3, <1>4
<1>7. TypeOK'
  BY DEF TypeOK, ReqRecords, ReqStates, TaskStates, workerVars
<1>8. OrderInv'
  BY OrderFrame DEF OrderInv, Active
<1>9. ProgressInv'
  <2>1. \A s \in Reqs :
         /\ req'[s].st \in {"idle", "wait"} =>
              task'[<<"get", s>>] = "none" /\ task'[<<"fetch", s>>] = "none"
         /\ task'[<<"fetch", s>>] \in {"none", "sent", "fetching"} => stream'[s].st = "none"
         /\ stream'[s].st \in {"none", "open"} => task'[<<"insert", s>>] = "none"
         /\ IF stream'[s].st = "none" THEN stream'[s].len = 0 ELSE stream'[s].len \in Lengths
    <3> TAKE s \in Reqs
    <3>1. CASE s = r
      <4>1. task'[<<"fetch", s>>] = "done" /\ req'[s].st \notin {"idle", "wait"}
        BY <1>0, <3>1
      <4>2. task'[<<"insert", s>>] = "none"
        BY <3>1, Zenon DEF ProgressInv
      <4> QED BY <3>1, <4>1, <4>2, Zenon
    <3>2. CASE s # r
      BY <3>2 DEF ProgressInv
    <3> QED BY <3>1, <3>2, Zenon
  <2>2. \A i \in 1..MaxTicks : i > ticks' => task'[<<"clean", i>>] = "none"
    BY DEF ProgressInv
  <2>3. NoRepeats(cmds') /\ \A u \in Range(cmds') : task'[u] = "sent"
    <3>1. Range(cmds) \subseteq Tasks
      BY DEF TypeOK, Range
    <3>2. t \notin Range(cmds)
      BY Zenon DEF ProgressInv
    <3> QED BY <3>1, <3>2, Zenon DEF ProgressInv
  <2> QED BY <2>1, <2>2, <2>3, Zenon DEF ProgressInv
<1>10. LockInv'
  <2>2. /\ NoRepeats(lockq') /\ Range(lockq') = Range(lockq)
        /\ readers' \subseteq readers /\ writer' \in {writer, Nobody} /\ admin' = admin
    BY DEF LockInv, workerVars
  <2>3. \A s \in readers' : Active(s)'
    BY LockUsers, Zenon DEF LockInv, Active
  <2>4. \A s \in Reqs \cap Range(lockq') : req'[s].st = req[s].st
    BY DEF LockInv
  <2>5. \A u \in Tasks \cap Range(lockq') : task'[u] = task[u]
    OBVIOUS
  <2>6. writer' \in Tasks => task'[writer'] \in {"queued", "running", "signalling"}
    BY LockUsers, Zenon DEF LockInv
  <2> QED BY <2>2, <2>3, <2>4, <2>5, <2>6, LockFrame, Zenon
<1>11. CallInv'
  <2>1. TooBigOffered => TooBigOffered'
    BY BytesAssumption DEF TooBigOffered
  <2>2. CallType' /\ call' = call /\ ret' = ret
    BY Zenon DEF CallType, CallInv
  <2>3. call'.op = "insert" =>
          \E s \in Reqs : stream'[s].st # "none" /\ stream'[s].len = call'.len
    BY <2>2 DEF CallInv
  <2> QED BY <2>1, <2>2, <2>3, Zenon DEF CallInv
<1> QED BY <1>7, <1>8, <1>9, <1>10, <1>11

\* A stream ends: what was offered to the cache stays offered.
LEMMA StreamProps ==
    ASSUME GatewayInv, NEW r \in Reqs, stream[r].st = "open",
           stream' = [stream EXCEPT ![r].st = "ended"], UNCHANGED <<call, ret>>,
           \A t \in Tasks : task'[t] = "signalling" => task[t] = "signalling"
    PROVE  /\ stream' \in [Reqs -> [st : {"none", "open", "ended"}, len : Lengths \cup {0}]]
           /\ stream'[r].st = "ended" /\ stream'[r].len = stream[r].len
           /\ \A s \in Reqs : s # r => stream'[s] = stream[s]
           /\ CallInv'
<1>1. /\ stream' \in [Reqs -> [st : {"none", "open", "ended"}, len : Lengths \cup {0}]]
      /\ stream'[r].st = "ended" /\ stream'[r].len = stream[r].len
      /\ \A s \in Reqs : s # r => stream'[s] = stream[s]
  BY Zenon DEF GatewayInv, TypeOK
<1>2. TooBigOffered => TooBigOffered'
  BY <1>1 DEF TooBigOffered
<1>3. call'.op = "insert" =>
        \E s \in Reqs : stream'[s].st # "none" /\ stream'[s].len = call'.len
  BY <1>1 DEF CallInv, GatewayInv
<1>4. CallType'
  BY DEF CallType, CallInv, GatewayInv
<1> QED BY <1>1, <1>2, <1>3, <1>4 DEF CallInv, GatewayInv

\* A stream fails: nothing is offered to the cache.
LEMMA StreamFailInv ==
    ASSUME GatewayInv, NEW r \in Reqs, stream[r].st = "open",
           stream' = [stream EXCEPT ![r].st = "ended"],
           UNCHANGED <<ccVars, req, cmds, task, lockVars, signal, workerVars, countVars>>
    PROVE  GatewayInv'
<1> USE DEF GatewayInv
<1>1. UNCHANGED <<content, call, ret, req, cmds, task, lockq, readers, writer, signal,
                  workerVars, ticks, purges>>
  BY DEF ccVars, lockVars, countVars
<1>2. /\ stream' \in [Reqs -> [st : {"none", "open", "ended"}, len : Lengths \cup {0}]]
      /\ stream'[r].st = "ended" /\ stream'[r].len = stream[r].len
      /\ \A s \in Reqs : s # r => stream'[s] = stream[s]
      /\ CallInv'
  BY <1>1, StreamProps, Zenon
<1> USE <1>1, <1>2
<1>3. TypeOK'
  BY DEF TypeOK, workerVars
<1>4. OrderInv'
  BY OrderFrame DEF OrderInv, Active
<1>5. ProgressInv'
  BY DEF ProgressInv
<1>6. LockInv'
  BY DEF LockInv, Active, workerVars
<1> QED BY <1>3, <1>4, <1>5, <1>6

\* A stream ends and its body is offered to the cache if it is not too long.
LEMMA StreamEndInv ==
    ASSUME GatewayInv, NEW r \in Reqs, StreamEnd(r), mainw # "down"
    PROVE  GatewayInv'
<1> USE DEF GatewayInv
<1>0. PICK t : t = <<"insert", r>>
  BY Zenon
<1>1. /\ stream[r].st = "open" /\ stream' = [stream EXCEPT ![r].st = "ended"] /\ Send(t)
      /\ UNCHANGED <<content, call, ret, req, lockq, readers, writer, signal,
                     workerVars, ticks, purges>>
  BY <1>0 DEF StreamEnd, ccVars, lockVars, countVars
<1>2. t \in Tasks /\ task[t] = "none"
  BY <1>0, <1>1, TaskNames, Zenon DEF ProgressInv
<1>3. /\ task' \in [Tasks -> TaskStates] /\ task'[t] = "sent"
      /\ \A u \in Tasks : u # t => task'[u] = task[u]
      /\ cmds' \in Seq(Tasks) /\ NoRepeats(cmds')
      /\ \A u \in Range(cmds') : task'[u] = "sent"
  BY <1>1, <1>2, SendProps
<1>4. /\ stream' \in [Reqs -> [st : {"none", "open", "ended"}, len : Lengths \cup {0}]]
      /\ stream'[r].st = "ended" /\ stream'[r].len = stream[r].len
      /\ \A s \in Reqs : s # r => stream'[s] = stream[s]
      /\ CallInv'
  BY <1>1, <1>3, StreamProps, Zenon
<1> USE <1>1, <1>2, <1>3, <1>4
<1>5. TypeOK'
  BY DEF TypeOK, TaskStates, workerVars
<1>6. OrderInv'
  BY OrderFrame DEF OrderInv, Active
<1>7. ProgressInv'
  <2>1. \A s \in Reqs : /\ <<"get", s>> \in Tasks /\ <<"fetch", s>> \in Tasks
                        /\ <<"insert", s>> \in Tasks
                        /\ <<"get", s>> # t /\ <<"fetch", s>> # t
                        /\ s # r => <<"insert", s>> # t
    BY <1>0, TaskNames, Zenon
  <2>2. \A i \in 1..MaxTicks : <<"clean", i>> \in Tasks /\ <<"clean", i>> # t
    BY <1>0, TaskNames, Zenon
  <2>3. \A s \in Reqs :
         /\ req'[s].st \in {"idle", "wait"} =>
              task'[<<"get", s>>] = "none" /\ task'[<<"fetch", s>>] = "none"
         /\ task'[<<"fetch", s>>] \in {"none", "sent", "fetching"} => stream'[s].st = "none"
         /\ stream'[s].st \in {"none", "open"} => task'[<<"insert", s>>] = "none"
         /\ IF stream'[s].st = "none" THEN stream'[s].len = 0 ELSE stream'[s].len \in Lengths
    <3> TAKE s \in Reqs
    <3>0. /\ stream[r].st = "open" /\ stream[r].len \in Lengths
          /\ task[<<"fetch", r>>] \notin {"none", "sent", "fetching"}
          /\ req[r].st \notin {"idle", "wait"}
      BY Zenon DEF ProgressInv
    <3>00. task'[<<"fetch", r>>] = task[<<"fetch", r>>] /\ req'[r] = req[r]
      BY <2>1, Zenon
    <3>1. CASE s = r
      BY <3>0, <3>00, <3>1
    <3>2. CASE s # r
      BY <2>1, <3>2 DEF ProgressInv
    <3> QED BY <3>1, <3>2, Zenon
  <2>4. \A i \in 1..MaxTicks : i > ticks' => task'[<<"clean", i>>] = "none"
    BY <2>2 DEF ProgressInv
  <2> QED BY <2>3, <2>4 DEF ProgressInv
<1>8. LockInv'
  <2>1. t \notin Range(lockq) /\ t # writer
    BY DEF LockInv
  <2>2. /\ NoRepeats(lockq') /\ Range(lockq') = Range(lockq)
        /\ readers' \subseteq readers /\ writer' \in {writer, Nobody} /\ admin' = admin
    BY <2>1 DEF LockInv, workerVars
  <2>3. \A s \in readers' : Active(s)'
    BY <2>1, LockUsers DEF LockInv, Active
  <2>4. \A s \in Reqs \cap Range(lockq') : req'[s].st = req[s].st
    BY <2>1 DEF LockInv
  <2>5. \A u \in Tasks \cap Range(lockq') : task'[u] = task[u]
    BY <2>1
  <2>6. writer' \in Tasks => task'[writer'] \in {"queued", "running", "signalling"}
    BY <2>1, LockUsers DEF LockInv
  <2> QED BY <2>2, <2>3, <2>4, <2>5, <2>6, LockFrame
<1> QED BY <1>5, <1>6, <1>7, <1>8

\* The lock serves the head of its queue.
LEMMA GrantInv ==
    ASSUME GatewayInv, Grant
    PROVE  GatewayInv'
<1> USE DEF GatewayInv
<1>0. PICK p : p = Head(lockq)
  OBVIOUS
<1>1. /\ lockq # <<>> /\ writer = Nobody /\ lockq' = Tail(lockq)
      /\ \/ p \in Reqs /\ readers' = readers \cup {p} /\ writer' = writer
         \/ p \notin Reqs /\ readers = {} /\ writer' = p /\ readers' = readers
      /\ UNCHANGED <<content, call, ret, req, stream, cmds, task, signal, workerVars, ticks, purges>>
  BY <1>0, Zenon DEF Grant, ccVars, countVars
<1>2. lockq \in Seq(Users) /\ NoRepeats(lockq)
  BY DEF TypeOK, LockInv, Users
<1>3. /\ p \in Users /\ lockq' \in Seq(Users) /\ Range(lockq) = Range(lockq') \cup {p}
      /\ NoRepeats(lockq') /\ p \notin Range(lockq')
  BY <1>0, <1>1, <1>2, PopProps, Zenon
<1> USE <1>1, <1>3
<1>4. TypeOK'
  BY DEF TypeOK, Users, workerVars
<1>5. OrderInv'
  BY OrderFrame, Zenon DEF OrderInv, Active
<1>6. ProgressInv'
  BY ProgressFrame, Zenon
<1>7. LockInv'
  <2>1. Nobody \notin Range(lockq)
    BY LockUsers, UsersAssumption, Zenon DEF Users
  <2>2. \A s \in Reqs \cap Range(lockq) : Active(s)
    BY Zenon DEF LockInv, Active
  <2>3. CASE p \in Reqs
    BY <2>1, <2>2, <2>3, LockUsers DEF LockInv, Active, workerVars
  <2>4. CASE p \notin Reqs
    BY <2>1, <2>4, LockUsers, Zenon DEF LockInv, Active, workerVars
  <2> QED BY <2>3, <2>4, Zenon
<1>8. CallInv'
  BY CallFrame, Zenon
<1> QED BY <1>4, <1>5, <1>6, <1>7, <1>8

\* The main worker receives a command and spawns its task.
LEMMA DispatchInv ==
    ASSUME GatewayInv, Dispatch
    PROVE  GatewayInv'
<1> USE DEF GatewayInv
<1>0. PICK t : t = Head(cmds)
  OBVIOUS
<1>1. /\ cmds # <<>> /\ cmds' = Tail(cmds)
      /\ \/ t[1] = "fetch" /\ task' = [task EXCEPT ![t] = "fetching"] /\ UNCHANGED lockVars
         \/ t[1] # "fetch" /\ task' = [task EXCEPT ![t] = "queued"] /\ Enqueue(t)
      /\ UNCHANGED <<content, call, ret, req, stream, signal, workerVars, ticks, purges>>
  BY <1>0, Zenon DEF Dispatch, ccVars, countVars
<1>2. cmds \in Seq(Tasks) /\ NoRepeats(cmds)
  BY Zenon DEF TypeOK, ProgressInv
<1>3. /\ t \in Tasks /\ cmds' \in Seq(Tasks) /\ Range(cmds) = Range(cmds') \cup {t}
      /\ NoRepeats(cmds') /\ t \notin Range(cmds')
  BY <1>0, <1>1, <1>2, PopProps, Zenon
<1>4. task[t] = "sent" /\ t \notin Range(lockq) /\ writer # t /\ t \in Users
  BY <1>3, Zenon DEF ProgressInv, LockInv, Users
<1>5. PICK x \in {"fetching", "queued"} :
        /\ task' = [task EXCEPT ![t] = x]
        /\ x = "fetching" => t[1] = "fetch" /\ UNCHANGED lockVars
        /\ x = "queued" => t[1] # "fetch" /\ Enqueue(t)
  BY <1>1
<1>6. /\ task' \in [Tasks -> TaskStates] /\ task'[t] = x
      /\ \A u \in Tasks : u # t => task'[u] = task[u]
  BY <1>3, <1>5, TaskProps, Zenon DEF TaskStates
<1> USE <1>1, <1>3, <1>4, <1>5, <1>6
<1>7. /\ lockq' \in Seq(Users) /\ NoRepeats(lockq') /\ readers' = readers /\ writer' = writer
      /\ Range(lockq') = Range(lockq) \cup (IF x = "queued" THEN {t} ELSE {})
  <2>1. CASE x = "queued"
    BY <2>1, EnqueueProps, Zenon
  <2>2. CASE x # "queued"
    BY <2>2, Zenon DEF TypeOK, LockInv, lockVars, Users
  <2> QED BY <2>1, <2>2, Zenon
<1>8. TypeOK'
  BY <1>7 DEF TypeOK, TaskStates, Users, workerVars
<1>9. OrderInv'
  BY OrderFrame, Zenon DEF OrderInv, Active
<1>10. ProgressInv'
  <2>1. \A r \in Reqs : /\ <<"get", r>> \in Tasks /\ <<"fetch", r>> \in Tasks
                        /\ <<"insert", r>> \in Tasks
    BY TaskNames, Zenon
  <2>2. \A i \in 1..MaxTicks : <<"clean", i>> \in Tasks
    BY TaskNames, Zenon
  <2>3. \A u \in Tasks : /\ task'[u] = "none" <=> task[u] = "none"
                         /\ u[1] = "fetch" => (task'[u] \in {"none", "sent", "fetching"}
                                                 => task[u] \in {"none", "sent", "fetching"})
    BY Zenon
  <2>4. \A r \in Reqs : <<"fetch", r>>[1] = "fetch"
    OBVIOUS
  <2>5. \A r \in Reqs :
         /\ req'[r].st \in {"idle", "wait"} =>
              task'[<<"get", r>>] = "none" /\ task'[<<"fetch", r>>] = "none"
         /\ task'[<<"fetch", r>>] \in {"none", "sent", "fetching"} => stream'[r].st = "none"
         /\ stream'[r].st \in {"none", "open"} => task'[<<"insert", r>>] = "none"
         /\ IF stream'[r].st = "none" THEN stream'[r].len = 0 ELSE stream'[r].len \in Lengths
    BY <2>1, <2>3, <2>4, Zenon DEF ProgressInv
  <2>6. \A i \in 1..MaxTicks : i > ticks' => task'[<<"clean", i>>] = "none"
    BY <2>2, <2>3, Zenon DEF ProgressInv
  <2>7. \A u \in Range(cmds') : task'[u] = "sent"
    <3>1. Range(cmds') \subseteq Tasks
      BY DEF Range
    <3> QED BY <3>1, Zenon DEF ProgressInv
  <2> QED BY <2>5, <2>6, <2>7 DEF ProgressInv
<1>11. LockInv'
  <2>1. t \notin readers /\ t \notin Reqs /\ t # Purger
    BY LockUsers
  <2> QED BY <1>7, <2>1, LockUsers DEF LockInv, Active, workerVars
<1>12. CallInv'
  BY CallFrame
<1> QED BY <1>8, <1>9, <1>10, <1>11, <1>12, Zenon

\* A task that is past the channel goes on.
LEMMA TaskGoesOn ==
    ASSUME GatewayInv, NEW t \in Tasks, task[t] \in {"queued", "running", "signalling"},
           NEW x \in {"running", "signalling", "done"}, task' = [task EXCEPT ![t] = x],
           UNCHANGED <<req, stream, cmds, ticks>>
    PROVE  /\ task' \in [Tasks -> TaskStates] /\ task'[t] = x
           /\ \A u \in Tasks : u # t => task'[u] = task[u]
           /\ ProgressInv'
<1>1. /\ task' \in [Tasks -> TaskStates] /\ task'[t] = x
      /\ \A u \in Tasks : u # t => task'[u] = task[u]
  BY TaskProps, Zenon DEF GatewayInv, TaskStates
<1>2. \A u \in Tasks : task'[u] # task[u] =>
               /\ task[u] \notin {"none", "sent"}
               /\ task'[u] \notin {"none", "sent", "fetching"}
  BY <1>1, Zenon
<1> QED BY <1>1, <1>2, ProgressFrame DEF GatewayInv

\* A task with the write guard calls the cache.
LEMMA StartCallInv ==
    ASSUME GatewayInv, NEW t \in Tasks, StartCall(t)
    PROVE  GatewayInv'
<1> USE DEF GatewayInv
<1>1. /\ writer = t /\ task[t] = "queued" /\ task' = [task EXCEPT ![t] = "running"]
      /\ UNCHANGED <<req, stream, cmds, lockq, readers, writer, signal, workerVars, ticks, purges>>
  BY DEF StartCall, Running, lockVars, countVars
<1>2. /\ task' \in [Tasks -> TaskStates] /\ task'[t] = "running"
      /\ \A u \in Tasks : u # t => task'[u] = task[u]
      /\ ProgressInv'
  BY <1>1, TaskGoesOn, Zenon
<1>3. /\ content' = content
      /\ \/ call' = NoCall /\ ret' \in {"ok", "absent"}
         \/ call' = NoCall /\ ExpiryMayFail
         \/ call' = CleanCall /\ ret' = ret
         \/ /\ t[1] = "insert" /\ ret' = ret
            /\ call' = [op |-> "insert", key |-> req[t[2]].key, len |-> stream[t[2]].len]
  BY Zenon DEF StartCall, CallsCache, CcGet, CcInsert, CcCleanBegin, Answer
<1> USE <1>1, <1>2, <1>3
<1>4. TypeOK'
  BY DEF TypeOK, TaskStates, workerVars
<1>5. OrderInv'
  BY OrderFrame, Zenon DEF OrderInv, Active
<1>6. LockInv'
  <2>1. t \notin Range(lockq)
    BY Zenon DEF LockInv
  <2>2. /\ NoRepeats(lockq') /\ Range(lockq') = Range(lockq)
        /\ readers' \subseteq readers /\ writer' \in {writer, Nobody} /\ admin' = admin
    BY <2>1, Zenon DEF LockInv, workerVars
  <2>3. \A s \in readers' : Active(s)'
    BY <2>1, LockUsers, Zenon DEF LockInv, Active
  <2>4. \A s \in Reqs \cap Range(lockq') : req'[s].st = req[s].st
    BY <2>1, Zenon DEF LockInv
  <2>5. \A u \in Tasks \cap Range(lockq') : task'[u] = task[u]
    BY <2>1
  <2>6. writer' \in Tasks => task'[writer'] \in {"queued", "running", "signalling"}
    BY <2>1, LockUsers, Zenon DEF LockInv
  <2> QED BY <2>2, <2>3, <2>4, <2>5, <2>6, LockFrame, Zenon
<1>7. CallInv'
  <2>1. /\ t[1] = "insert" => t[2] \in Reqs /\ t = <<"insert", t[2]>>
    BY TaskNames
  <2>2. t[1] = "insert" => /\ req[t[2]].key \in Keys /\ stream[t[2]].st # "none"
                           /\ stream[t[2]].len \in Lengths
    <3> SUFFICES ASSUME NEW r \in Reqs, t = <<"insert", r>>
                 PROVE  req[r].key \in Keys /\ stream[r].st # "none" /\ stream[r].len \in Lengths
      BY <2>1, Zenon
    <3>1. req[r].key \in Keys
      BY DEF TypeOK
    <3>2. stream[r].st # "none"
      BY Zenon DEF ProgressInv
    <3> QED BY <3>1, <3>2, Zenon DEF ProgressInv
  <2>3. CallType'
    <3>1. CallType
      BY Zenon DEF CallInv
    <3> QED BY <2>2, <3>1 DEF CallType
  <2>4. call'.op = "insert" =>
          \E s \in Reqs : stream'[s].st # "none" /\ stream'[s].len = call'.len
    BY <2>1, <2>2 DEF NoCall, CleanCall
  <2>5. TooBigOffered => TooBigOffered'
    BY Zenon DEF TooBigOffered
  <2>6. ret' \in Errors => ret \in Errors \/ ExpiryMayFail
    BY Zenon DEF Errors
  <2>7. \A u \in Tasks : task'[u] = "signalling" => task[u] = "signalling"
    BY Zenon
  <2> QED BY <2>3, <2>4, <2>5, <2>6, <2>7, Zenon DEF CallInv
<1> QED BY <1>4, <1>5, <1>6, <1>7, Zenon

\* An insert of a key that is there by now lets go of the lock.
LEMMA SkipCallInv ==
    ASSUME GatewayInv, NEW t \in Tasks, SkipCall(t)
    PROVE  GatewayInv'
<1> USE DEF GatewayInv
<1>1. /\ writer = t /\ task[t] = "queued" /\ task' = [task EXCEPT ![t] = "done"] /\ Release(t)
      /\ UNCHANGED <<content, call, ret, req, stream, cmds, signal, workerVars, ticks, purges>>
  BY DEF SkipCall, ccVars, countVars
<1>2. /\ task' \in [Tasks -> TaskStates] /\ task'[t] = "done"
      /\ \A u \in Tasks : u # t => task'[u] = task[u]
      /\ ProgressInv'
  BY <1>1, TaskGoesOn, Zenon
<1>3. lockq' = lockq /\ readers' = readers /\ writer' = Nobody /\ t \notin Range(lockq)
  BY <1>1, ReleaseProps, LockUsers, Zenon DEF LockInv
<1> USE <1>1, <1>2, <1>3
<1>4. TypeOK'
  BY DEF TypeOK, TaskStates, workerVars
<1>5. OrderInv'
  BY OrderFrame, Zenon DEF OrderInv, Active
<1>6. LockInv'
  <2>2. /\ NoRepeats(lockq') /\ Range(lockq') = Range(lockq)
        /\ readers' \subseteq readers /\ writer' \in {writer, Nobody} /\ admin' = admin
    BY Zenon DEF LockInv, workerVars
  <2>3. \A s \in readers' : Active(s)'
    BY LockUsers, Zenon DEF LockInv, Active
  <2>4. \A s \in Reqs \cap Range(lockq') : req'[s].st = req[s].st
    BY Zenon DEF LockInv
  <2>5. \A u \in Tasks \cap Range(lockq') : task'[u] = task[u]
    OBVIOUS
  <2>6. writer' \in Tasks => task'[writer'] \in {"queued", "running", "signalling"}
    BY LockUsers, Zenon DEF LockInv
  <2> QED BY <2>2, <2>3, <2>4, <2>5, <2>6, LockFrame
<1>7. CallInv'
  BY CallFrame, Zenon
<1> QED BY <1>4, <1>5, <1>6, <1>7, Zenon

\* A call returns: with an error, its task keeps the guard.
LEMMA EndCallInv ==
    ASSUME GatewayInv, NEW t \in Tasks, EndCall(t)
    PROVE  GatewayInv'
<1> USE DEF GatewayInv
<1>1. /\ writer = t /\ task[t] = "running"
      /\ \/ /\ ret \in Errors /\ task' = [task EXCEPT ![t] = "signalling"]
            /\ UNCHANGED lockVars
         \/ task' = [task EXCEPT ![t] = "done"] /\ Release(t)
      /\ UNCHANGED <<content, call, ret, req, stream, cmds, signal, workerVars, ticks, purges>>
  BY Zenon DEF EndCall, ccVars, countVars
<1>2. PICK x \in {"signalling", "done"} :
        /\ task' = [task EXCEPT ![t] = x]
        /\ x = "signalling" => ret \in Errors /\ UNCHANGED lockVars
        /\ x = "done" => Release(t)
  BY <1>1
<1>3. /\ task' \in [Tasks -> TaskStates] /\ task'[t] = x
      /\ \A u \in Tasks : u # t => task'[u] = task[u]
      /\ ProgressInv'
  BY <1>1, <1>2, TaskGoesOn, Zenon
<1> USE <1>1, <1>2, <1>3
<1>4. /\ lockq' = lockq /\ readers' = readers /\ t \notin Range(lockq)
      /\ writer' = IF x = "done" THEN Nobody ELSE t
  <2>1. t \notin Range(lockq)
    BY Zenon DEF LockInv
  <2>2. CASE x = "done"
    BY <2>1, <2>2, ReleaseProps, LockUsers
  <2>3. CASE x # "done"
    BY <2>1, <2>3, Zenon DEF lockVars
  <2> QED BY <2>2, <2>3
<1>5. TypeOK'
  BY <1>4 DEF TypeOK, TaskStates, workerVars
<1>6. OrderInv'
  BY OrderFrame, Zenon DEF OrderInv, Active
<1>7. LockInv'
  <2>2. /\ NoRepeats(lockq') /\ Range(lockq') = Range(lockq)
        /\ readers' \subseteq readers /\ writer' \in {writer, Nobody} /\ admin' = admin
    BY <1>4, Zenon DEF LockInv, workerVars
  <2>3. \A s \in readers' : Active(s)'
    BY <1>4, LockUsers, Zenon DEF LockInv, Active
  <2>4. \A s \in Reqs \cap Range(lockq') : req'[s].st = req[s].st
    BY <1>4, Zenon DEF LockInv
  <2>5. \A u \in Tasks \cap Range(lockq') : task'[u] = task[u]
    BY <1>4
  <2>6. writer' \in Tasks => task'[writer'] \in {"queued", "running", "signalling"}
    BY <1>4, LockUsers, Zenon DEF LockInv
  <2> QED BY <2>2, <2>3, <2>4, <2>5, <2>6, LockFrame
<1>8. CallInv'
  <2>1. \A u \in Tasks : task'[u] = "signalling" => task[u] = "signalling" \/ ret \in Errors
    BY Zenon
  <2>2. CallType' /\ call' = call /\ ret' = ret /\ stream' = stream
    BY Zenon DEF CallType, CallInv
  <2> QED BY <2>1, <2>2, Zenon DEF CallInv, TooBigOffered
<1> QED BY <1>5, <1>6, <1>7, <1>8, Zenon

\* A task whose call failed sends the signal and lets go of the lock.
LEMMA SendSignalInv ==
    ASSUME GatewayInv, NEW t \in Tasks, SendSignal(t)
    PROVE  GatewayInv'
<1> USE DEF GatewayInv
<1>1. /\ task[t] = "signalling" /\ task' = [task EXCEPT ![t] = "done"] /\ Release(t)
      /\ signal' = [signal EXCEPT !["worker"] = TRUE]
      /\ UNCHANGED <<content, call, ret, req, stream, cmds, workerVars, ticks, purges>>
  BY DEF SendSignal, ccVars, countVars
<1>2. /\ task' \in [Tasks -> TaskStates] /\ task'[t] = "done"
      /\ \A u \in Tasks : u # t => task'[u] = task[u]
      /\ ProgressInv'
  BY <1>1, TaskGoesOn, Zenon
<1>3. /\ lockq' = lockq /\ readers' = readers /\ t \notin Range(lockq)
      /\ writer' = IF writer = t THEN Nobody ELSE writer
  <2>1. lockq' = lockq /\ readers' = readers \ {t} /\ t \notin readers
    BY <1>1, ReleaseProps, LockUsers
  <2>2. t \notin Range(lockq)
    BY <1>1, Zenon DEF LockInv
  <2> QED BY <1>1, <2>1, <2>2, ReleaseProps, Zenon
<1> USE <1>1, <1>2, <1>3
<1>4. /\ signal' \in [{"server", "admin", "ttl", "worker"} -> BOOLEAN]
      /\ signal'["ttl"] = signal["ttl"]
  BY Zenon DEF TypeOK
<1>5. TypeOK'
  BY <1>4 DEF TypeOK, TaskStates, workerVars
<1>6. OrderInv'
  BY <1>4, Zenon DEF OrderInv, Active, workerVars
<1>7. LockInv'
  <2>2. /\ NoRepeats(lockq') /\ Range(lockq') = Range(lockq)
        /\ readers' \subseteq readers /\ writer' \in {writer, Nobody} /\ admin' = admin
    BY Zenon DEF LockInv, workerVars
  <2>3. \A s \in readers' : Active(s)'
    BY LockUsers, Zenon DEF LockInv, Active
  <2>4. \A s \in Reqs \cap Range(lockq') : req'[s].st = req[s].st
    BY Zenon DEF LockInv
  <2>5. \A u \in Tasks \cap Range(lockq') : task'[u] = task[u]
    BY Zenon
  <2>6. writer' \in Tasks => task'[writer'] \in {"queued", "running", "signalling"}
    BY LockUsers, Zenon DEF LockInv
  <2> QED BY <2>2, <2>3, <2>4, <2>5, <2>6, LockFrame
<1>8. CallInv'
  BY CallFrame, Zenon
<1> QED BY <1>5, <1>6, <1>7, <1>8, Zenon

\* The step of a call changes nothing outside the cache.
LEMMA CacheStepInv ==
    ASSUME GatewayInv, CacheStep
    PROVE  GatewayInv'
<1> USE DEF GatewayInv
<1>1. /\ CcLoopStep
      /\ UNCHANGED <<req, stream, cmds, task, lockq, readers, writer, signal, workerVars,
                     ticks, purges>>
  BY Zenon DEF CacheStep, lockVars, countVars
<1>2. call.op = "insert" => call.key \in Keys /\ call.len \in Lengths
  BY DEF CallInv, CallType, NoCall, CleanCall
<1>3. /\ DOMAIN content' \subseteq Keys /\ \A k \in DOMAIN content' : content'[k] \in Lengths
      /\ \/ call' = call /\ ret' = ret
         \/ call' = NoCall /\ (ret' = "ok" \/ ExpiryMayFail)
         \/ call.op = "insert" /\ call.len > MaxSize /\ call' = NoCall
  <2>1. CASE CcEvict
    BY <2>1, Zenon DEF TypeOK, CcEvict, Drop, Del, Restrict
  <2>2. CASE CcTooBig
    BY <2>2, Zenon DEF TypeOK, CcTooBig, Answer
  <2>3. CASE CcStore
    BY <1>2, <2>3, Zenon DEF TypeOK, CcStore, Answer, Put
  <2>4. CASE CcExpire
    BY <2>4, Zenon DEF TypeOK, CcExpire, Drop, Del, Restrict
  <2>5. CASE CcCleanEnd
    BY <2>5, Zenon DEF TypeOK, CcCleanEnd, Answer
  <2> QED BY <1>1, <2>1, <2>2, <2>3, <2>4, <2>5, Zenon DEF CcLoopStep
<1> USE <1>1, <1>3
<1>4. TypeOK'
  BY DEF TypeOK, workerVars
<1>5. OrderInv'
  BY OrderFrame, Zenon DEF OrderInv, Active
<1>6. ProgressInv'
  BY ProgressFrame
<1>7. LockInv'
  BY Zenon DEF LockInv, Active, workerVars
<1>8. CallInv'
  <2>1. CallType'
    BY Zenon DEF CallInv, CallType
  <2>2. call'.op = "insert" =>
          \E s \in Reqs : stream'[s].st # "none" /\ stream'[s].len = call'.len
    BY DEF CallInv, NoCall
  <2>3. call.op = "insert" /\ call.len > MaxSize => TooBigOffered
    BY Zenon DEF CallInv, TooBigOffered
  <2>4. ret' \in Errors => ret \in Errors \/ ExpiryMayFail \/ TooBigOffered
    BY <2>3, Zenon DEF Errors
  <2>5. task' = task /\ (TooBigOffered => TooBigOffered')
    BY Zenon DEF TooBigOffered
  <2> QED BY <2>1, <2>2, <2>4, <2>5, Zenon DEF CallInv
<1> QED BY <1>4, <1>5, <1>6, <1>7, <1>8, Zenon

\* A purge queues for the lock.
LEMMA PurgeArrivesInv ==
    ASSUME GatewayInv, PurgeArrives
    PROVE  GatewayInv'
<1> USE DEF GatewayInv
<1>1. /\ admin = "up" /\ Purger # writer /\ Purger \notin Range(lockq) /\ Enqueue(Purger)
      /\ purges < MaxPurges /\ purges' = purges + 1
      /\ UNCHANGED <<content, call, ret, req, stream, cmds, task, signal, workerVars, ticks>>
  BY Zenon DEF PurgeArrives, ccVars
<1> USE <1>1
<1>2. /\ lockq' \in Seq(Users) /\ NoRepeats(lockq')
      /\ Range(lockq') = Range(lockq) \cup {Purger}
      /\ readers' = readers /\ writer' = writer
  BY EnqueueProps, Zenon DEF Users
<1>3. TypeOK'
  BY <1>2, GatewayAssumption DEF TypeOK, Users, workerVars
<1>4. OrderInv'
  BY OrderFrame, Zenon DEF OrderInv, Active
<1>5. ProgressInv'
  BY ProgressFrame
<1>6. LockInv'
  BY <1>2, LockUsers, Zenon DEF LockInv, Active, workerVars
<1>7. CallInv'
  BY CallFrame, Zenon
<1> QED BY <1>3, <1>4, <1>5, <1>6, <1>7, Zenon

\* A purge empties the cache and lets go of the lock.
LEMMA PurgeRunsInv ==
    ASSUME GatewayInv, PurgeRuns
    PROVE  GatewayInv'
<1> USE DEF GatewayInv
<1>1. /\ writer = Purger /\ content' = EmptyMap /\ Release(Purger)
      /\ UNCHANGED <<call, ret, req, stream, cmds, task, signal, workerVars, ticks, purges>>
  BY DEF PurgeRuns, CcPurge, countVars
<1>2. lockq' = lockq /\ readers' = readers /\ writer' = Nobody
  BY <1>1, ReleaseProps, LockUsers, Zenon
<1> USE <1>1, <1>2
<1>3. TypeOK'
  BY Zenon DEF TypeOK, EmptyMap, workerVars
<1>4. OrderInv'
  BY OrderFrame, Zenon DEF OrderInv, Active
<1>5. ProgressInv'
  BY ProgressFrame
<1>6. LockInv'
  <2>2. /\ NoRepeats(lockq') /\ Range(lockq') = Range(lockq)
        /\ readers' \subseteq readers /\ writer' \in {writer, Nobody} /\ admin' = admin
    BY Zenon DEF LockInv, workerVars
  <2>3. \A s \in readers' : Active(s)'
    BY LockUsers, Zenon DEF LockInv, Active
  <2>4. \A s \in Reqs \cap Range(lockq') : req'[s].st = req[s].st
    BY DEF LockInv
  <2>5. \A u \in Tasks \cap Range(lockq') : task'[u] = task[u]
    BY Zenon
  <2>6. writer' \in Tasks => task'[writer'] \in {"queued", "running", "signalling"}
    BY LockUsers DEF LockInv
  <2> QED BY <2>2, <2>3, <2>4, <2>5, <2>6, LockFrame, Zenon
<1>7. CallInv'
  BY CallFrame, Zenon
<1> QED BY <1>3, <1>4, <1>5, <1>6, <1>7, Zenon

\* The TTL worker sends a clean-up.
LEMMA TickInv ==
    ASSUME GatewayInv, Tick
    PROVE  GatewayInv'
<1> USE DEF GatewayInv
<1>0. PICK t : t = <<"clean", ticks + 1>>
  BY Zenon
<1>1. /\ ticks < MaxTicks /\ ticks' = ticks + 1 /\ Send(t)
      /\ UNCHANGED <<content, call, ret, req, stream, lockq, readers, writer, signal,
                     workerVars, purges>>
  <2>1. mainw # "down"
    BY Zenon DEF Tick, OrderInv
  <2> QED BY <1>0, <2>1, Zenon DEF Tick, ccVars, lockVars
<1>2. ticks \in Nat /\ ticks + 1 \in 1..MaxTicks
  BY <1>1, GatewayAssumption DEF TypeOK
<1>3. t \in Tasks /\ task[t] = "none"
  BY <1>0, <1>2, TaskNames DEF ProgressInv
<1>4. /\ task' \in [Tasks -> TaskStates] /\ task'[t] = "sent"
      /\ \A u \in Tasks : u # t => task'[u] = task[u]
      /\ cmds' \in Seq(Tasks) /\ NoRepeats(cmds')
      /\ \A u \in Range(cmds') : task'[u] = "sent"
  BY <1>1, <1>3, SendProps, Zenon
<1> USE <1>1, <1>3, <1>4
<1>5. TypeOK'
  BY <1>2 DEF TypeOK, TaskStates, workerVars
<1>6. OrderInv'
  BY OrderFrame, Zenon DEF OrderInv, Active
<1>7. ProgressInv'
  <2>1. \A s \in Reqs : /\ <<"get", s>> \in Tasks /\ <<"fetch", s>> \in Tasks
                        /\ <<"insert", s>> \in Tasks
                        /\ <<"get", s>> # t /\ <<"fetch", s>> # t /\ <<"insert", s>> # t
    BY <1>0, TaskNames, Zenon
  <2>2. \A i \in 1..MaxTicks : <<"clean", i>> \in Tasks /\ (i # ticks + 1 => <<"clean", i>> # t)
    BY <1>0, TaskNames, Zenon
  <2>3. \A i \in 1..MaxTicks : i > ticks' => task'[<<"clean", i>>] = "none"
    <3> SUFFICES ASSUME NEW i \in 1..MaxTicks, i > ticks'
                 PROVE  task'[<<"clean", i>>] = "none"
      BY Zenon
    <3>1. i > ticks /\ i # ticks + 1
      BY <1>2
    <3>2. <<"clean", i>> \in Tasks /\ <<"clean", i>> # t
      BY <2>2, <3>1, Zenon
    <3>3. task[<<"clean", i>>] = "none"
      BY <3>1, Zenon DEF ProgressInv
    <3> QED BY <3>2, <3>3, Zenon
  <2>4. \A s \in Reqs : /\ task'[<<"get", s>>] = task[<<"get", s>>]
                        /\ task'[<<"fetch", s>>] = task[<<"fetch", s>>]
                        /\ task'[<<"insert", s>>] = task[<<"insert", s>>]
    BY <2>1, Zenon
  <2> QED BY <2>3, <2>4 DEF ProgressInv
<1>8. LockInv'
  <2>1. t \notin Range(lockq) /\ t # writer
    BY Zenon DEF LockInv
  <2>2. /\ NoRepeats(lockq') /\ Range(lockq') = Range(lockq)
        /\ readers' \subseteq readers /\ writer' \in {writer, Nobody} /\ admin' = admin
    BY <2>1, Zenon DEF LockInv, workerVars
  <2>3. \A s \in readers' : Active(s)'
    BY <2>1, LockUsers, Zenon DEF LockInv, Active
  <2>4. \A s \in Reqs \cap Range(lockq') : req'[s].st = req[s].st
    BY <2>1, Zenon DEF LockInv
  <2>5. \A u \in Tasks \cap Range(lockq') : task'[u] = task[u]
    BY <2>1
  <2>6. writer' \in Tasks => task'[writer'] \in {"queued", "running", "signalling"}
    BY <2>1, LockUsers, Zenon DEF LockInv
  <2> QED BY <2>2, <2>3, <2>4, <2>5, <2>6, LockFrame, Zenon
<1>9. CallInv'
  BY CallFrame, Zenon
<1> QED BY <1>5, <1>6, <1>7, <1>8, <1>9

-----------------------------------------------------------------------------
(* main() and its workers. *)

\* A step of main() or of a worker's start that leaves requests, commands and
\* the lock alone has only the order to keep.
LEMMA WorkerFrame ==
    ASSUME GatewayInv,
           UNCHANGED <<ccVars, req, stream, task, lockVars, countVars>>,
           cmds' \in {cmds, <<>>},
           signal' \in [{"server", "admin", "ttl", "worker"} -> BOOLEAN],
           server' \in {"starting", "up", "draining", "down"},
           admin' \in {"starting", "up", "down"}, ttlw' \in {"up", "down"},
           mainw' \in {"up", "down"}, mainfn' \in {"select", "stopping", "stopmain", "exited"},
           admin = "up" => admin' = "up",
           OrderInv'
    PROVE  GatewayInv'
<1> USE DEF GatewayInv
<1>1. UNCHANGED <<content, call, ret, req, stream, task, lockq, readers, writer, ticks, purges>>
  BY Zenon DEF ccVars, lockVars, countVars
<1> USE <1>1
<1>2. /\ cmds' \in Seq(Tasks) /\ NoRepeats(cmds') /\ \A u \in Range(cmds') : task'[u] = "sent"
  <2>1. CASE cmds' = cmds
    BY <2>1, Zenon DEF TypeOK, ProgressInv
  <2>2. CASE cmds' = <<>>
    <3>1. DOMAIN cmds' = {} /\ cmds' \in Seq(Tasks)
      BY <2>2
    <3> QED BY <3>1 DEF NoRepeats, Range
  <2> QED BY <2>1, <2>2, Zenon
<1>3. TypeOK'
  BY <1>2 DEF TypeOK
<1>4. ProgressInv'
  BY <1>2, Zenon DEF ProgressInv
<1>5. LockInv'
  BY Zenon DEF LockInv, Active
<1>6. CallInv'
  BY CallFrame
<1> QED BY <1>3, <1>4, <1>5, <1>6, Zenon

\* A server binds its address or fails to.
LEMMA StartStepInv ==
    ASSUME GatewayInv, StartStep
    PROVE  GatewayInv'
<1>1. /\ UNCHANGED <<ccVars, req, stream, cmds, task, lockVars, ttlw, mainw, mainfn, countVars>>
      /\ \/ server = "starting" /\ server' \in {"up", "down"} /\ admin' = admin
         \/ admin = "starting" /\ admin' \in {"up", "down"} /\ server' = server
      /\ \/ signal' = signal
         \/ signal' = [signal EXCEPT !["server"] = TRUE]
         \/ signal' = [signal EXCEPT !["admin"] = TRUE]
  BY DEF StartStep, ServerStarts, ServerFails, AdminStarts, AdminFails
<1>2. /\ signal' \in [{"server", "admin", "ttl", "worker"} -> BOOLEAN]
      /\ signal'["ttl"] = signal["ttl"]
  <2>0. signal \in [{"server", "admin", "ttl", "worker"} -> BOOLEAN]
    BY DEF GatewayInv, TypeOK
  <2>1. CASE signal' = signal
    BY <2>0, <2>1
  <2>2. CASE signal' = [signal EXCEPT !["server"] = TRUE]
    BY <2>0, <2>2
  <2>3. CASE signal' = [signal EXCEPT !["admin"] = TRUE]
    BY <2>0, <2>3, Zenon
  <2> QED BY <1>1, <2>1, <2>2, <2>3
<1>3. OrderInv'
  BY <1>1, <1>2 DEF GatewayInv, OrderInv, Active
<1> QED BY <1>1, <1>2, <1>3, WorkerFrame, ZenonT(30) DEF GatewayInv, TypeOK

\* main() takes a signal and begins the shutdown.
LEMMA ShutdownInv ==
    ASSUME GatewayInv, Shutdown
    PROVE  GatewayInv'
<1>1. /\ mainfn = "select" /\ mainfn' = "stopping"
      /\ UNCHANGED <<ccVars, req, stream, cmds, task, lockVars, server, admin, ttlw, mainw,
                     countVars>>
  BY Zenon DEF Shutdown
<1>2. /\ signal' \in [{"server", "admin", "ttl", "worker"} -> BOOLEAN]
      /\ ~signal'["ttl"]
  <2>0. signal \in [{"server", "admin", "ttl", "worker"} -> BOOLEAN] /\ ~signal["ttl"]
    BY DEF GatewayInv, TypeOK, OrderInv
  <2>1. CASE signal' = signal
    BY <2>0, <2>1
  <2>2. ASSUME NEW w \in DOMAIN signal, signal' = [signal EXCEPT ![w] = FALSE]
        PROVE  /\ signal' \in [{"server", "admin", "ttl", "worker"} -> BOOLEAN]
               /\ ~signal'["ttl"]
    BY <2>0, <2>2, Zenon
  <2> QED BY <2>1, <2>2, Zenon DEF Shutdown
<1>3. OrderInv'
  BY <1>1, <1>2, Zenon DEF GatewayInv, OrderInv, Active
<1> QED BY <1>1, <1>2, <1>3, WorkerFrame, ZenonT(30) DEF GatewayInv, TypeOK

-----------------------------------------------------------------------------
(* Who leaves the lock. That the others keep their places is an induction  *)
(* on the queue, which comes last.                                         *)

\* Those who leave a queue, and only those, are no longer in it.
OthersStay ==
    \A queue \in Seq(Users) : \A P :
      /\ Leave(queue, P) \in Seq(Users)
      /\ Range(Leave(queue, P)) = Range(queue) \ P
      /\ NoRepeats(queue) => NoRepeats(Leave(queue, P))

\* Those in P leave the lock, whether they waited for it or held it.
LEMMA ForgetProps ==
    ASSUME OthersStay, TypeOK, LockInv, NEW P, Forget(P)
    PROVE  /\ lockq' \in Seq(Users) /\ NoRepeats(lockq')
           /\ Range(lockq') = Range(lockq) \ P
           /\ readers' = readers \ P
           /\ writer' = IF writer \in P THEN Nobody ELSE writer
<1>1. lockq \in Seq(Users) /\ NoRepeats(lockq)
  BY DEF TypeOK, LockInv, Users
<1>2. /\ Leave(lockq, P) \in Seq(Users) /\ NoRepeats(Leave(lockq, P))
      /\ Range(Leave(lockq, P)) = Range(lockq) \ P
  BY <1>1, Zenon DEF OthersStay
<1> QED BY <1>2, Zenon DEF Forget

\* A request is dropped by its timeout, with its place in the lock.
LEMMA TimeoutInv ==
    ASSUME OthersStay, GatewayInv, NEW r \in Reqs, Timeout(r)
    PROVE  GatewayInv'
<1> USE DEF GatewayInv
<1>1. /\ SetReq(r, "timeout") /\ Forget({r})
      /\ UNCHANGED <<content, call, ret, stream, cmds, task, signal, workerVars, ticks, purges>>
  BY Zenon DEF Timeout, ccVars, countVars
<1>2. /\ req' \in [Reqs -> ReqRecords] /\ req'[r].st = "timeout"
      /\ \A s \in Reqs : s # r => req'[s] = req[s]
  BY <1>1, SetReqProps, Zenon DEF ReqStates
<1>3. /\ lockq' \in Seq(Users) /\ NoRepeats(lockq') /\ Range(lockq') = Range(lockq) \ {r}
      /\ readers' = readers \ {r} /\ writer' = writer
  BY <1>1, ForgetProps, LockUsers
<1> USE <1>1, <1>2, <1>3
<1>4. TypeOK'
  BY DEF TypeOK, ReqRecords, ReqStates, Users, workerVars
<1>5. OrderInv'
  BY OrderFrame, Zenon DEF OrderInv, Active
<1>6. ProgressInv'
  BY ProgressFrame, Zenon
<1>7. LockInv'
  <2>2. /\ NoRepeats(lockq') /\ Range(lockq') \subseteq Range(lockq)
        /\ readers' \subseteq readers /\ writer' \in {writer, Nobody} /\ admin' = admin
    BY Zenon DEF LockInv, workerVars
  <2>3. \A s \in readers' : Active(s)'
    BY LockUsers, Zenon DEF LockInv, Active
  <2>4. \A s \in Reqs \cap Range(lockq') : req'[s].st = req[s].st
    BY Zenon DEF LockInv
  <2>5. \A u \in Tasks \cap Range(lockq') : task'[u] = task[u]
    BY Zenon
  <2>6. writer' \in Tasks => task'[writer'] \in {"queued", "running", "signalling"}
    BY LockUsers, Zenon DEF LockInv
  <2> QED BY <2>2, <2>3, <2>4, <2>5, <2>6, LockFrame, Zenon
<1>8. CallInv'
  BY CallFrame, Zenon
<1> QED BY <1>4, <1>5, <1>6, <1>7, <1>8, Zenon

\* The server is down: what is left of its requests is dropped.
LEMMA ServerStopsInv ==
    ASSUME OthersStay, GatewayInv, ServerStops
    PROVE  GatewayInv'
<1> USE DEF GatewayInv
<1>1. /\ server = "draining" /\ server' = "down" /\ Forget(Reqs)
      /\ req' = [r \in Reqs |-> IF Active(r) THEN [req[r] EXCEPT !.st = "aborted"] ELSE req[r]]
      /\ UNCHANGED <<content, call, ret, stream, cmds, task, signal, admin, ttlw, mainw, mainfn,
                     ticks, purges>>
  BY DEF ServerStops, ccVars, countVars
<1>2. /\ req' \in [Reqs -> ReqRecords]
      /\ \A r \in Reqs : req'[r].st = IF Active(r) THEN "aborted" ELSE req[r].st
  BY <1>1, ZenonT(30) DEF TypeOK, ReqRecords, ReqStates
<1>3. /\ lockq' \in Seq(Users) /\ NoRepeats(lockq') /\ Range(lockq') = Range(lockq) \ Reqs
      /\ readers' = {} /\ writer' = writer
  BY <1>1, ForgetProps, LockUsers
<1> USE <1>1, <1>2, <1>3
<1>4. TypeOK'
  BY DEF TypeOK, ReqRecords, ReqStates, Users
<1>5. OrderInv'
  BY DEF OrderInv, Active
<1>6. ProgressInv'
  BY ProgressFrame DEF Active
<1>7. LockInv'
  <2>2. /\ NoRepeats(lockq') /\ Range(lockq') \subseteq Range(lockq)
        /\ readers' \subseteq readers /\ writer' \in {writer, Nobody} /\ admin' = admin
    BY DEF LockInv, workerVars
  <2>3. \A s \in readers' : Active(s)'
    BY LockUsers, Zenon DEF LockInv, Active
  <2>4. \A s \in Reqs \cap Range(lockq') : req'[s].st = req[s].st
    BY DEF LockInv
  <2>5. \A u \in Tasks \cap Range(lockq') : task'[u] = task[u]
    OBVIOUS
  <2>6. writer' \in Tasks => task'[writer'] \in {"queued", "running", "signalling"}
    BY LockUsers DEF LockInv
  <2> QED BY <2>2, <2>3, <2>4, <2>5, <2>6, LockFrame
<1>8. CallInv'
  BY CallFrame, Zenon
<1> QED BY <1>4, <1>5, <1>6, <1>7, <1>8, Zenon

\* The admin server is down, and with it a purge.
LEMMA AdminStopsInv ==
    ASSUME OthersStay, GatewayInv, AdminStops
    PROVE  GatewayInv'
<1> USE DEF GatewayInv
<1>1. /\ admin = "up" /\ admin' = "down" /\ Forget({Purger})
      /\ UNCHANGED <<content, call, ret, req, stream, cmds, task, signal, server, ttlw, mainw,
                     mainfn, ticks, purges>>
  BY Zenon DEF AdminStops, ccVars, countVars
<1>2. /\ lockq' \in Seq(Users) /\ NoRepeats(lockq') /\ Range(lockq') = Range(lockq) \ {Purger}
      /\ readers' = readers /\ writer' \in {writer, Nobody} /\ writer' # Purger
  <2>1. /\ lockq' \in Seq(Users) /\ NoRepeats(lockq') /\ Range(lockq') = Range(lockq) \ {Purger}
        /\ readers' = readers \ {Purger}
        /\ writer' = IF writer \in {Purger} THEN Nobody ELSE writer
    BY <1>1, ForgetProps, Zenon
  <2> QED BY <2>1, LockUsers, Zenon
<1> USE <1>1, <1>2
<1>3. TypeOK'
  BY DEF TypeOK, Users
<1>4. OrderInv'
  BY Zenon DEF OrderInv, Active
<1>5. ProgressInv'
  BY ProgressFrame
<1>6. LockInv'
  <2>1. \A s \in readers' : Active(s)'
    BY Zenon DEF LockInv, Active
  <2>2. writer' \in Tasks => task'[writer'] \in {"queued", "running", "signalling"}
    BY LockUsers, Zenon DEF LockInv
  <2> QED BY <2>1, <2>2, LockFrame, Zenon
<1>7. CallInv'
  BY CallFrame, Zenon
<1> QED BY <1>3, <1>4, <1>5, <1>6, <1>7, Zenon

\* A step of the shutdown.
LEMMA StopStepInv ==
    ASSUME OthersStay, GatewayInv, StopStep
    PROVE  GatewayInv'
<1> USE DEF GatewayInv
<1>1. CASE ServerDrains
  <2>1. OrderInv'
    BY <1>1, Zenon DEF ServerDrains, OrderInv, Active
  <2> QED BY <1>1, <2>1, WorkerFrame, Zenon DEF ServerDrains, TypeOK
<1>2. CASE TtlStops
  <2>1. OrderInv'
    BY <1>2 DEF TtlStops, OrderInv, Active
  <2> QED BY <1>2, <2>1, WorkerFrame, Zenon DEF TtlStops, TypeOK
<1>3. CASE WorkersJoined
  <2>1. OrderInv'
    BY <1>3 DEF WorkersJoined, OrderInv, Active
  <2> QED BY <1>3, <2>1, WorkerFrame, Zenon DEF WorkersJoined, TypeOK
<1>4. CASE MainStops
  <2>1. OrderInv'
    BY <1>4, Zenon DEF MainStops, OrderInv, Active
  <2> QED BY <1>4, <2>1, WorkerFrame, Zenon DEF MainStops, TypeOK
<1>5. CASE Exit
  <2>1. OrderInv'
    BY <1>5, Zenon DEF Exit, OrderInv, Active
  <2> QED BY <1>5, <2>1, WorkerFrame, Zenon DEF Exit, TypeOK
<1> QED BY <1>1, <1>2, <1>3, <1>4, <1>5, ServerStopsInv, AdminStopsInv, Zenon DEF StopStep

-----------------------------------------------------------------------------
(* The invariant holds in every reachable state. *)

\* A gateway that starts has no requests, no commands and a free lock.
LEMMA GatewayInvInit == Init => GatewayInv
<1> SUFFICES ASSUME Init PROVE GatewayInv
  OBVIOUS
<1>1. /\ req \in [Reqs -> ReqRecords] /\ \A r \in Reqs : req[r].st = "idle"
  <2> DEFINE Fresh == {[st |-> "idle", key |-> k, nocache |-> b] : k \in Keys, b \in NoCache}
  <2>1. req \in [Reqs -> Fresh]
    BY DEF Init
  <2>2. Fresh \subseteq ReqRecords /\ \A x \in Fresh : x.st = "idle"
    BY GatewayAssumption DEF ReqRecords, ReqStates
  <2> HIDE DEF Fresh
  <2> QED BY <2>1, <2>2, Zenon
<1>2. TypeOK
  <2>1. DOMAIN content \subseteq Keys /\ \A k \in DOMAIN content : content[k] \in Lengths
    BY Zenon DEF Init, CcInit, EmptyMap
  <2>2. /\ stream \in [Reqs -> [st : {"none", "open", "ended"}, len : Lengths \cup {0}]]
        /\ task \in [Tasks -> TaskStates]
        /\ signal \in [{"server", "admin", "ttl", "worker"} -> BOOLEAN]
    BY Zenon DEF Init, TaskStates
  <2>3. /\ cmds \in Seq(Tasks) /\ lockq \in Seq(Users) /\ readers \subseteq Reqs
        /\ ticks \in 0..MaxTicks /\ purges \in 0..MaxPurges
    BY GatewayAssumption DEF Init
  <2>4. /\ writer = Nobody /\ server = "starting" /\ admin = "starting" /\ ttlw = "up"
        /\ mainw = "up" /\ mainfn = "select"
    BY DEF Init
  <2> QED BY <1>1, <2>1, <2>2, <2>3, <2>4, Zenon DEF TypeOK, ReqRecords, ReqStates, TaskStates, Users
<1>3. OrderInv
  BY <1>1, Zenon DEF Init, OrderInv, Active
<1>4. ProgressInv
  <2>1. NoRepeats(cmds) /\ Range(cmds) = {} /\ \A r \in Reqs : stream[r].st = "none" /\ stream[r].len = 0
    BY DEF Init, NoRepeats, Range
  <2>2. \A t \in Tasks : task[t] = "none"
    BY DEF Init
  <2> QED BY <2>1, <2>2, TaskNames, Zenon DEF ProgressInv
<1>5. LockInv
  <2>1. NoRepeats(lockq) /\ Range(lockq) = {} /\ readers = {} /\ writer = Nobody
    BY DEF Init, NoRepeats, Range
  <2> QED BY <2>1, UsersAssumption, Zenon DEF LockInv
<1>6. CallInv
  BY Zenon DEF Init, CcInit, CallInv, CallType, NoCall, Errors
<1> QED BY <1>2, <1>3, <1>4, <1>5, <1>6, Zenon DEF GatewayInv

\* Every step of every worker, task and handler keeps the invariant.
LEMMA GatewayInvStep == OthersStay /\ GatewayInv /\ [Next]_vars => GatewayInv'
<1> SUFFICES ASSUME OthersStay, GatewayInv, [Next]_vars PROVE GatewayInv'
  OBVIOUS
<1>1. ASSUME NEW r \in Reqs, FetchStep(r) PROVE GatewayInv'
  BY <1>1, FetchFailedInv, FetchedInv, Zenon DEF FetchStep
<1>2. ASSUME NEW r \in Reqs, StreamStep(r) PROVE GatewayInv'
  <2>1. CASE StreamEnd(r) /\ mainw # "down"
    BY <2>1, StreamEndInv
  <2>2. CASE StreamFail(r) \/ (StreamEnd(r) /\ mainw = "down")
    BY <2>2, StreamFailInv, Zenon DEF StreamFail, StreamEnd
  <2> QED BY <1>2, <2>1, <2>2, Zenon DEF StreamStep
<1>3. ASSUME NEW t \in Tasks, TaskStep(t) PROVE GatewayInv'
  BY <1>3, StartCallInv, SkipCallInv, EndCallInv, SendSignalInv, Zenon DEF TaskStep
<1>4. CASE UNCHANGED vars
  <2>1. UNCHANGED <<ccVars, req, stream, cmds, task, lockVars, signal, workerVars, countVars>>
    BY <1>4 DEF vars
  <2>2. OrderInv'
    BY <2>1, OrderFrame, Zenon DEF GatewayInv, OrderInv, Active
  <2>3. UNCHANGED <<server, admin, ttlw, mainw, mainfn>>
    BY <2>1, Zenon DEF workerVars
  <2>4. /\ signal' \in [{"server", "admin", "ttl", "worker"} -> BOOLEAN]
        /\ server' \in {"starting", "up", "draining", "down"}
        /\ admin' \in {"starting", "up", "down"} /\ ttlw' \in {"up", "down"}
        /\ mainw' \in {"up", "down"} /\ mainfn' \in {"select", "stopping", "stopmain", "exited"}
    BY <2>1, <2>3, Zenon DEF GatewayInv, TypeOK
  <2>5. UNCHANGED <<ccVars, req, stream, task, lockVars, countVars>> /\ cmds' \in {cmds, <<>>}
    BY <2>1, Zenon
  <2> QED BY <2>2, <2>3, <2>4, <2>5, WorkerFrame, Zenon
<1>5. CASE Next
  BY <1>1, <1>2, <1>3, <1>4, <1>5, ArriveInv, HitInv, MissInv, TimeoutInv, GrantInv, DispatchInv,
     CacheStepInv, PurgeArrivesInv, PurgeRunsInv, TickInv, StartStepInv, ShutdownInv, StopStepInv, Zenon
     DEF Next, HandlerStep, Exited
<1> QED BY <1>4, <1>5

INSTANCE Induction

\* So it is.
LEMMA OthersAlwaysStay == OthersStay
BY LeaveProps, Zenon DEF OthersStay

\* Types, order, progress, the lock's users and the causes of errors, in every
\* reachable state of the gateway process.
THEOREM GatewayInvariant == Spec => []GatewayInv
BY GatewayInvInit, GatewayInvStep, OthersAlwaysStay, PTL DEF Spec

\* Every variable of the gateway process keeps its type: in particular only
\* bodies that some provider sent are cached, and the lock has no other users
\* than its handlers, tasks and the purge.
THEOREM GatewayTyped == Spec => []TypeOK
<1>1. GatewayInv => TypeOK
  BY DEF GatewayInv
<1> QED BY <1>1, GatewayInvariant, PTL

\* "main worker to stop last" (main.rs:155), whatever arrives, times out or
\* fails before and during the shutdown: no handler and no clean-up finds the
\* command channel closed.
THEOREM MainAlwaysStopsLast == Spec => []MainStopsLast
<1>1. GatewayInv => MainStopsLast
  BY DEF GatewayInv, OrderInv, MainStopsLast
<1> QED BY <1>1, GatewayInvariant, PTL

\* The cache's lock is exclusive and no holder is ever gone, through every
\* timeout, abort, purge and shutdown.
THEOREM LockAlwaysHeldByTheLiving == Spec => []LockIsHeldByTheLiving
<1>1. GatewayInv => LockIsHeldByTheLiving
  BY Zenon DEF GatewayInv, LockInv, LockIsHeldByTheLiving
<1> QED BY <1>1, GatewayInvariant, PTL

\* However misses, hits, purges and clean-ups of any number of requests race,
\* the gateway's own cache error has one cause: a body larger than the cache.
THEOREM AlwaysFailsOnlyForTooBig == Spec => []FailsOnlyForTooBig
<1>1. GatewayInv => FailsOnlyForTooBig
  BY DEF GatewayInv, CallInv, TooBigOffered, FailsOnlyForTooBig
<1> QED BY <1>1, GatewayInvariant, PTL
=============================================================================

------------------------------- MODULE HostIo --------------------------------
(***************************************************************************)
(* The host I/O service as two threads run it: the CPU thread, which       *)
(* executes the guest's accesses to the IO_START, IO_CHECK_ENQUEUE,        *)
(* IO_RETRY and IO_QUERY ports (kernel.cpp, io.cpp), and the worker thread *)
(* (io::worker), which handles one packet at a time with the handlers of   *)
(* IoFiles.  The CPU thread also stops the worker when the console goes    *)
(* away, and a new console starts it again.                                *)
(*                                                                         *)
(* A step is one access to memory the other thread can see, or the work    *)
(* done between two of them under a lock or on data of one thread alone.   *)
(* The guest threads are preempted between port accesses; a thread has one *)
(* packet outstanding, whose address is the id of the packet.              *)
(***************************************************************************)
EXTENDS IoFiles, Sequences

CONSTANTS Clients, NoRequest

None == "none"

ASSUME ClientsAssumption == None \notin Clients

VARIABLES
    queue,          \* s_curr_io_queue
    pendingVec,     \* s_pending_io_vec
    pendingIo,      \* s_pending_io, the flag the worker waits on
    pendingPackets, \* g_pending_packets
    completed,      \* s_completed_io_info: a packet with its info block, by id
    queueMtx,       \* holder of s_queue_mtx
    completedMtx,   \* holder of s_completed_io_mtx
    stopRequested,  \* the stop state of s_jthr
    workerPc,       \* where the worker is
    curr,           \* host_io_request in the worker, with its id
    cpuPc,          \* where the CPU thread is
    client          \* what a guest thread does: "idle", "retry" or "poll"

queueVars == <<queue, pendingVec, pendingPackets>>
lockVars == <<queueMtx, completedMtx>>
threadVars == <<queue, pendingVec, pendingIo, pendingPackets, completed, queueMtx, completedMtx,
                stopRequested, workerPc, curr, cpuPc, client>>
hostVars == <<vars, threadVars>>

\* every packet the guest can send
Transfers == [type : {"read", "write"}, dev : Devs, handle : AllHandles, offset : Nat, size : Nat]
Requests == {[o EXCEPT !.handle = h] : o \in OpenRequests, h \in Handles}
            \cup Transfers \cup [type : {"remove", "close"}, dev : Devs, handle : AllHandles]
Packets == [id : Clients, req : Requests]

NoPacket == [id |-> None]

PacketOf(c, r) == [id |-> c, req |-> r]
NoResult == [id |-> None]

HostInit ==
    /\ Init
    /\ queue = <<>> /\ pendingVec = <<>> /\ pendingPackets = FALSE /\ pendingIo = FALSE
    /\ completed = [c \in Clients |-> NoResult]
    /\ queueMtx = "free" /\ completedMtx = "free" /\ stopRequested = FALSE
    /\ workerPc = "wait" /\ curr = NoPacket /\ cpuPc = "run"
    /\ client = [c \in Clients |-> "idle"]

-----------------------------------------------------------------------------
(***************************************************************************)
(* The CPU thread                                                          *)
(***************************************************************************)

InFlight ==
    {queue[i].req : i \in DOMAIN queue} \cup {pendingVec[i].req : i \in DOMAIN pendingVec}
    \cup (IF curr = NoPacket THEN {} ELSE {curr.req})
    \cup {completed[c].req : c \in {d \in Clients : completed[d] # NoResult}}

\* enqueue_io_packet with the lock
Enqueue(c, r) ==
    /\ queueMtx = "free" /\ queueMtx' = "cpu"
    /\ queue' = Append(queue, PacketOf(c, r))
    /\ cpuPc' = "flag"
    /\ UNCHANGED <<pendingVec, pendingPackets>>

\* Variant: the guest is not told that the packet waits for a retry.
PutAsideUntold(c, r) ==
    /\ queueMtx # "free"
    /\ pendingVec' = Append(pendingVec, PacketOf(c, r))
    /\ UNCHANGED <<queue, queueMtx, cpuPc, pendingPackets>>

\* enqueue_io_packet while the worker holds the lock
PutAside(c, r) ==
    /\ queueMtx # "free"
    /\ pendingVec' = Append(pendingVec, PacketOf(c, r))
    /\ pendingPackets' = TRUE
    /\ UNCHANGED <<queue, queueMtx, cpuPc>>

\* IO_START
Submit(c) ==
    /\ cpuPc = "run" /\ client[c] = "idle"
    /\ client' = [client EXCEPT ![c] = "retry"]
    /\ \E r \in GuestRequests : Independent(r, InFlight) /\ (Enqueue(c, r) \/ PutAside(c, r))
    /\ UNCHANGED <<vars, pendingIo, completed, completedMtx, stopRequested, workerPc, curr>>

\* IO_CHECK_ENQUEUE reads zero: the thread goes on to poll for its answer
Accepted(c) ==
    /\ cpuPc = "run" /\ client[c] = "retry" /\ ~pendingPackets
    /\ client' = [client EXCEPT ![c] = "poll"]
    /\ UNCHANGED <<vars, queueVars, pendingIo, completed, lockVars, stopRequested, workerPc, curr, cpuPc>>

\* IO_RETRY, with the lock: every packet put aside moves to the queue
FlushPending(c) ==
    /\ cpuPc = "run" /\ client[c] = "retry" /\ pendingPackets
    /\ pendingVec # <<>> /\ queueMtx = "free"
    /\ queueMtx' = "cpu" /\ cpuPc' = "flag"
    /\ queue' = queue \o pendingVec
    /\ pendingVec' = <<>> /\ pendingPackets' = FALSE
    /\ UNCHANGED <<vars, pendingIo, completed, completedMtx, stopRequested, workerPc, curr, client>>

\* s_pending_io.test_and_set() of an enqueue, a flush or stop()
SetPendingIo ==
    /\ cpuPc \in {"flag", "stop_flag"}
    /\ pendingIo' = TRUE
    /\ cpuPc' = IF cpuPc = "flag" THEN "notify" ELSE "stop_notify"
    /\ UNCHANGED <<vars, queueVars, completed, lockVars, stopRequested, workerPc, curr, client>>

\* Variant: nobody is notified.
NotifyNobody ==
    /\ cpuPc \in {"notify", "stop_notify"}
    /\ cpuPc' = IF cpuPc = "notify" THEN "unlock" ELSE "stop_unlock"
    /\ UNCHANGED <<vars, queueVars, pendingIo, completed, lockVars, stopRequested, workerPc, curr, client>>

\* notify_one(): a blocked worker looks at the flag again
Notify ==
    /\ cpuPc \in {"notify", "stop_notify"}
    /\ workerPc' = IF workerPc = "parked" THEN "wait" ELSE workerPc
    /\ cpuPc' = IF cpuPc = "notify" THEN "unlock" ELSE "stop_unlock"
    /\ UNCHANGED <<vars, queueVars, pendingIo, completed, lockVars, stopRequested, curr, client>>

Unlock ==
    /\ cpuPc \in {"unlock", "stop_unlock"}
    /\ queueMtx' = "free"
    /\ cpuPc' = IF cpuPc = "unlock" THEN "run" ELSE "join"
    /\ UNCHANGED <<vars, queueVars, pendingIo, completed, completedMtx, stopRequested, workerPc, curr, client>>

\* IO_QUERY when try_lock succeeds and the packet is there; otherwise the port
\* access changes nothing and the thread polls again
Query(c) ==
    /\ cpuPc = "run" /\ client[c] = "poll"
    /\ completedMtx = "free" /\ completed[c] # NoResult
    /\ GuestLearns(completed[c].req, completed[c].info)
    /\ completed' = [completed EXCEPT ![c] = NoResult]
    /\ client' = [client EXCEPT ![c] = "idle"]
    /\ UNCHANGED <<fileVars, info, queueVars, pendingIo, lockVars, stopRequested, workerPc, curr, cpuPc>>

\* io::stop(), once the emulation loop has returned
RequestStop ==
    /\ cpuPc = "run"
    /\ stopRequested' = TRUE /\ cpuPc' = "stop_lock"
    /\ UNCHANGED <<vars, queueVars, pendingIo, completed, lockVars, workerPc, curr, client>>

StopLock ==
    /\ cpuPc = "stop_lock" /\ queueMtx = "free"
    /\ queueMtx' = "cpu" /\ cpuPc' = "stop_flag"
    /\ UNCHANGED <<vars, queueVars, pendingIo, completed, completedMtx, stopRequested, workerPc, curr, client>>

Join ==
    /\ cpuPc = "join" /\ workerPc = "done"
    /\ cpuPc' = "stopped"
    /\ UNCHANGED <<vars, queueVars, pendingIo, completed, lockVars, stopRequested, workerPc, curr, client>>

\* io::init() of the next console; the flag is still set from stop()
Restart ==
    /\ cpuPc = "stopped"
    /\ Start
    /\ workerPc' = "wait" /\ stopRequested' = FALSE /\ cpuPc' = "run"
    /\ UNCHANGED <<queueVars, pendingIo, completed, lockVars, curr, client>>

-----------------------------------------------------------------------------
(***************************************************************************)
(* The worker thread                                                       *)
(***************************************************************************)

\* s_pending_io.wait(false): reading the flag and blocking are one step
WorkerWait ==
    /\ workerPc = "wait"
    /\ workerPc' = IF pendingIo THEN "check" ELSE "parked"
    /\ UNCHANGED <<vars, queueVars, pendingIo, completed, lockVars, stopRequested, curr, cpuPc, client>>

\* stop_requested(): flush everything, forget everything and return
WorkerStop ==
    /\ workerPc = "check" /\ stopRequested
    /\ Stop
    /\ queue' = <<>> /\ pendingVec' = <<>> /\ pendingPackets' = FALSE
    /\ completed' = [c \in Clients |-> NoResult]
    /\ client' = [c \in Clients |-> "idle"]
    /\ workerPc' = "done"
    /\ UNCHANGED <<pendingIo, lockVars, stopRequested, curr, cpuPc>>

WorkerGoOn ==
    /\ workerPc = "check" /\ ~stopRequested
    /\ workerPc' = "lock"
    /\ UNCHANGED <<vars, queueVars, pendingIo, completed, lockVars, stopRequested, curr, cpuPc, client>>

WorkerLock ==
    /\ workerPc = "lock" /\ queueMtx = "free"
    /\ queueMtx' = "worker" /\ workerPc' = "locked"
    /\ UNCHANGED <<vars, queueVars, pendingIo, completed, completedMtx, stopRequested, curr, cpuPc, client>>

\* nothing to do: the flag is cleared before the lock is given back
WorkerEmpty ==
    /\ workerPc = "locked" /\ queue = <<>>
    /\ pendingIo' = FALSE /\ queueMtx' = "free" /\ workerPc' = "wait"
    /\ UNCHANGED <<vars, queueVars, completed, completedMtx, stopRequested, curr, cpuPc, client>>

\* Variant: front() without pop_front().
WorkerPeek ==
    /\ workerPc = "locked" /\ queue # <<>>
    /\ curr' = Head(queue)
    /\ queueMtx' = "free" /\ workerPc' = "handle"
    /\ UNCHANGED <<vars, queueVars, pendingIo, completed, completedMtx, stopRequested, cpuPc, client>>

WorkerPop ==
    /\ workerPc = "locked" /\ queue # <<>>
    /\ curr' = Head(queue) /\ queue' = Tail(queue)
    /\ queueMtx' = "free" /\ workerPc' = "handle"
    /\ UNCHANGED <<vars, pendingVec, pendingPackets, pendingIo, completed, completedMtx, stopRequested, cpuPc, client>>

WorkerHandle ==
    /\ workerPc = "handle"
    /\ Handle(curr.req)
    /\ workerPc' = "post"
    /\ UNCHANGED <<guestVars, queueVars, pendingIo, completed, lockVars, stopRequested, curr, cpuPc, client>>

WorkerPostLock ==
    /\ workerPc = "post" /\ completedMtx = "free"
    /\ completedMtx' = "worker" /\ workerPc' = "posting"
    /\ UNCHANGED <<vars, queueVars, pendingIo, completed, queueMtx, stopRequested, curr, cpuPc, client>>

\* emplace(): an id that is already there keeps its old packet
WorkerPost ==
    /\ workerPc = "posting"
    /\ completed' = IF completed[curr.id] # NoResult THEN completed
                    ELSE [completed EXCEPT ![curr.id] = [id |-> curr.id, req |-> curr.req, info |-> info]]
    /\ curr' = NoPacket
    /\ completedMtx' = "free" /\ workerPc' = "wait"
    /\ UNCHANGED <<vars, queueVars, pendingIo, queueMtx, stopRequested, cpuPc, client>>

Worker == \/ WorkerWait \/ WorkerStop \/ WorkerGoOn \/ WorkerLock \/ WorkerEmpty
          \/ WorkerPop \/ WorkerHandle \/ WorkerPostLock \/ WorkerPost
CpuStep == SetPendingIo \/ Notify \/ Unlock \/ StopLock \/ Join
Guest(c) == Submit(c) \/ Accepted(c) \/ FlushPending(c) \/ Query(c)

HostNext == Worker \/ CpuStep \/ RequestStop \/ Restart \/ \E c \in Clients : Guest(c)

\* Both threads run; a guest thread that polls or retries is scheduled again
\* and again, and does not meet a held lock every single time.
Fairness ==
    /\ WF_hostVars(Worker) /\ WF_hostVars(CpuStep)
    /\ \A c \in Clients :
           SF_hostVars(Accepted(c)) /\ SF_hostVars(FlushPending(c)) /\ SF_hostVars(Query(c))

HostSpec == HostInit /\ [][HostNext]_hostVars
FairHostSpec == HostSpec /\ Fairness

-----------------------------------------------------------------------------
(***************************************************************************)
(* Properties                                                              *)
(***************************************************************************)

CpuPcs == {"run", "flag", "notify", "unlock", "stop_lock", "stop_flag", "stop_notify", "stop_unlock",
           "join", "stopped"}
WorkerPcs == {"wait", "parked", "check", "lock", "locked", "handle", "post", "posting", "done"}

\* The variables of the two threads hold what their types allow; a packet in a
\* queue, in the worker or in the completed map is the packet of some thread.
ThreadTypeOK ==
    /\ queue \in Seq(Packets) /\ pendingVec \in Seq(Packets)
    /\ curr \in Packets \cup {NoPacket}
    /\ pendingIo \in BOOLEAN /\ pendingPackets \in BOOLEAN /\ stopRequested \in BOOLEAN
    /\ queueMtx \in {"free", "cpu", "worker"} /\ completedMtx \in {"free", "worker"}
    /\ workerPc \in WorkerPcs /\ cpuPc \in CpuPcs
    /\ client \in [Clients -> {"idle", "retry", "poll"}]

\* A worker that blocks on the flag has nothing to do: it never sleeps over a
\* packet in the queue that no notification is coming for.
NoLostWakeup == workerPc = "parked" /\ queue # <<>> => cpuPc \in {"flag", "notify"}

\* A thread that was told its packet is accepted will not be overtaken by one
\* that is submitted later: its packet is not among those put aside.
AcceptedIsQueued ==
    \A c \in Clients : client[c] = "poll" => \A i \in DOMAIN pendingVec : pendingVec[i].id # c

\* Every packet a guest thread waits for is answered, also when it had to be
\* put aside and retried, unless the console stops and takes the guest away.
EveryPacketAnswered ==
    \A c \in Clients : client[c] = "retry" ~> (client[c] = "idle" \/ stopRequested)

\* Stopping the console ends: the worker sees the request and can be joined.
StopCompletes == stopRequested ~> cpuPc = "stopped"

\* The threads, the locks and the retries implement the plain service: each
\* packet is handled once, between its submission and its answer, and the
\* answer is what that handling produced.
WaitsIn(c, packets) == \E i \in DOMAIN packets : packets[i].id = c
RequestOf(c) ==
    IF curr.id = c THEN curr.req
    ELSE IF completed[c] # NoResult THEN completed[c].req
    ELSE IF WaitsIn(c, queue) THEN queue[CHOOSE i \in DOMAIN queue : queue[i].id = c].req
    ELSE IF WaitsIn(c, pendingVec) THEN pendingVec[CHOOSE i \in DOMAIN pendingVec : pendingVec[i].id = c].req
    ELSE NoRequest
Handled(c) == (curr.id = c /\ workerPc \in {"post", "posting"}) \/ completed[c] # NoResult

Service == INSTANCE IoService WITH
    phase <- [c \in Clients |-> IF client[c] = "idle" THEN "idle" ELSE IF Handled(c) THEN "served" ELSE "submitted"],
    request <- [c \in Clients |-> RequestOf(c)],
    result <- [c \in Clients |-> IF completed[c] # NoResult THEN completed[c].info
                                 ELSE IF Handled(c) THEN info ELSE ZeroInfo]
ImplementsService == Service!ServiceSpec
=============================================================================

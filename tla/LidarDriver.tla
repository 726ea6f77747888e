----------------------------- MODULE LidarDriver -----------------------------
(***************************************************************************)
(* driver/lidar_driver_impl.hpp with the socket input of                   *)
(* driver/input/unix/input_sock_select.hpp: an application thread that     *)
(* calls init(), start() and stop(), a receiving thread that fills buffers *)
(* from the network and pushes them, and a handling thread that decodes    *)
(* them and gives them back.  A buffer is a name; what the network wrote   *)
(* in it is its content.  pkt_queue_ is the SyncQueue this module extends; *)
(* free_pkt_queue_, which is never cleared, is the FIFO SyncQueue refines. *)
(***************************************************************************)
EXTENDS SyncQueue, SequencesExt

CONSTANTS
  Vlen,         \* packets asked of one recvmmsg call, 16 in the code
  Kinds,        \* what packets can be: a subset of the kinds below
  MaxReady,     \* bound on the sockets one select finds readable (3 in the code)
  MaxPackets,   \* bound on the packets received in a run
  MaxSessions   \* bound on the calls of start()

\* Shorter than header and tail; MSOP that only adds points, that begins a frame
\* with its first block, with a later block, or after its last one; anything else.
PacketKind == {"short", "points", "first", "middle", "last", "other"}

ASSUME DriverAssumption ==
  /\ Vlen \in Nat \ {0} /\ Kinds \subseteq PacketKind
  /\ MaxReady \in Nat /\ MaxPackets \in Nat /\ MaxSessions \in Nat

VARIABLES
  init_flag, start_flag,        \* of LidarDriverImpl
  to_exit_recv, to_exit_handle, \* the plain bools the two threads poll
  apc,          \* where the application is inside start() or stop()
  rpc,          \* where the receiving thread is
  pool,         \* pkt_pool
  k,            \* its index
  got,          \* n_pkts
  ready,        \* sockets this select found readable and not yet served
  hpc,          \* where the handling thread is; its pkt_batch is result
  next,         \* index of the packet it decodes
  free,         \* free_pkt_queue_
  content,      \* what each buffer holds
  cloud,        \* decoder_ptr_->point_cloud_: the packets its points came from
  session,      \* calls of start() so far
  arrived,      \* packets received so far
  dropped,      \* packets that were too short, refused or cleared
  decoded,      \* packets the handling thread has decoded, in its order
  mark,         \* how many of them before the last stop()
  frames,       \* point clouds handed to the application in this session
  overlapped    \* a clear() and a popBatch() have been under way at once

appVars    == <<init_flag, start_flag, to_exit_recv, to_exit_handle, apc, session>>
recvVars   == <<rpc, pool, k, got, ready, arrived, dropped>>
handleVars == <<hpc, next, decoded, mark, frames>>
driverVars == <<vars, appVars, recvVars, handleVars, free, content, cloud, overlapped>>

Packet == [seq : 0..MaxPackets, kind : PacketKind, session : 0..MaxSessions]
Blank == [seq |-> 0, kind |-> "short", session |-> 0]

DriverInit ==
  /\ Init
  /\ init_flag = FALSE /\ start_flag = FALSE
  /\ to_exit_recv = FALSE /\ to_exit_handle = FALSE
  /\ apc = "idle" /\ session = 0
  /\ rpc = "off" /\ pool = [i \in 1..Vlen |-> NoValue] /\ k = 1 /\ got = 0 /\ ready = 0
  /\ hpc = "off" /\ next = 1
  /\ free = <<>> /\ content = [b \in Value |-> Blank]
  /\ cloud = <<>> /\ frames = <<>>
  /\ arrived = 0 /\ dropped = {} /\ decoded = <<>> /\ mark = 0 /\ overlapped = FALSE

-----------------------------------------------------------------------------
(* The application *)

\* init(): a failing input leaves the driver as it was.
InitDriver ==
  /\ apc = "idle" /\ ~init_flag
  /\ init_flag' = TRUE
  /\ UNCHANGED <<vars, start_flag, to_exit_recv, to_exit_handle, apc, session,
                 recvVars, handleVars, free, content, cloud, overlapped>>

\* start() spawns the handling thread,
StartHandle ==
  /\ apc = "idle" /\ init_flag /\ ~start_flag /\ session < MaxSessions
  /\ to_exit_handle' = FALSE
  /\ hpc' = "loop"
  /\ session' = session + 1
  /\ apc' = "starting"
  /\ UNCHANGED <<vars, init_flag, start_flag, to_exit_recv, recvVars, next, decoded,
                 mark, frames, free, content, cloud, overlapped>>

\* then the input its receiving thread.
StartInput ==
  /\ apc = "starting"
  /\ to_exit_recv' = FALSE
  /\ rpc' = "select"
  /\ start_flag' = TRUE /\ apc' = "idle"
  /\ UNCHANGED <<vars, init_flag, to_exit_handle, session, pool, k, got, ready, arrived, dropped,
                 handleVars, free, content, cloud, overlapped>>

\* stop() asks the receiving thread to exit and joins it,
StopInput ==
  /\ apc = "idle" /\ start_flag
  /\ to_exit_recv' = TRUE
  /\ apc' = "joinRecv"
  /\ UNCHANGED <<vars, init_flag, start_flag, to_exit_handle, session,
                 recvVars, handleVars, free, content, cloud, overlapped>>

\* Mutation: the handling thread is not told.
JoinRecvSilently ==
  /\ apc = "joinRecv" /\ rpc = "off"
  /\ apc' = "joinHandle"
  /\ UNCHANGED <<vars, init_flag, start_flag, to_exit_recv, to_exit_handle, session,
                 recvVars, handleVars, free, content, cloud, overlapped>>

\* then the handling thread,
JoinRecv ==
  /\ apc = "joinRecv" /\ rpc = "off"
  /\ to_exit_handle' = TRUE
  /\ apc' = "joinHandle"
  /\ UNCHANGED <<vars, init_flag, start_flag, to_exit_recv, session,
                 recvVars, handleVars, free, content, cloud, overlapped>>

\* and drops the points of the unfinished frame.
JoinHandle ==
  /\ apc = "joinHandle" /\ hpc = "off"
  /\ cloud' = <<>>
  /\ start_flag' = FALSE /\ apc' = "idle"
  /\ frames' = <<>> /\ mark' = Len(decoded)
  /\ UNCHANGED <<vars, init_flag, to_exit_recv, to_exit_handle, session,
                 recvVars, hpc, next, decoded, free, content, overlapped>>

App ==
  /\ hpc # "dead"
  /\ InitDriver \/ StartHandle \/ StartInput \/ StopInput \/ JoinRecv \/ JoinHandle

-----------------------------------------------------------------------------
(* The receiving thread *)

\* Buffers some shared_ptr still refers to; make_shared returns another one.
Referenced == Range(pool) \cup Range(buffer) \cup Range(free)
              \cup Range(result) \cup Range(out) \cup {pvalue}
NewBuffer == CHOOSE b \in Value : b \notin Referenced
MemoryLeft == Value \ Referenced # {}

recvRest == <<appVars, handleVars, cloud>>

\* The loop looks at the flag before each select, which may time out, find up to
\* three sockets readable, or fail: then the thread ends and start_flag_ stays.
RecvExit ==
  /\ rpc = "select"
  /\ rpc' = "off" /\ pool' = [i \in 1..Vlen |-> NoValue]
  /\ UNCHANGED <<vars, recvRest, k, got, ready, arrived, dropped, free, content, overlapped>>

RecvSelect ==
  /\ rpc = "select" /\ ~to_exit_recv
  /\ ready' \in 1..MaxReady
  /\ rpc' = "fill" /\ k' = 1
  /\ UNCHANGED <<vars, recvRest, pool, got, arrived, dropped, free, content, overlapped>>

\* packetGet for every empty place of the pool.
RecvFill ==
  /\ rpc = "fill" /\ k <= Vlen
  /\ IF pool[k] # NoValue
       THEN UNCHANGED <<pool, free>>
       ELSE IF free # <<>>
              THEN pool' = [pool EXCEPT ![k] = Head(free)] /\ free' = Tail(free)
              ELSE MemoryLeft /\ pool' = [pool EXCEPT ![k] = NewBuffer] /\ UNCHANGED free
  /\ k' = k + 1
  /\ UNCHANGED <<vars, recvRest, rpc, got, ready, arrived, dropped, content, overlapped>>

\* recvmmsg fills the first n buffers; n = 0 stands for an error of the call too.
RecvMmsg ==
  /\ rpc = "fill" /\ k > Vlen
  /\ \E n \in 0..Vlen : \E kind \in [1..n -> Kinds] :
       /\ arrived + n <= MaxPackets
       /\ content' = [b \in Value |->
            IF \E i \in 1..n : pool[i] = b
              THEN LET i == CHOOSE i \in 1..n : pool[i] = b
                   IN [seq |-> arrived + i, kind |-> kind[i], session |-> session]
              ELSE content[b]]
       /\ arrived' = arrived + n
       /\ got' = n
  /\ rpc' = "push" /\ k' = 1
  /\ UNCHANGED <<vars, recvRest, pool, ready, dropped, free, overlapped>>

\* A short packet keeps its buffer in the pool.
RecvShort ==
  /\ rpc = "push" /\ k <= got /\ content[pool[k]].kind = "short"
  /\ dropped' = dropped \cup {content[pool[k]].seq}
  /\ k' = k + 1
  /\ UNCHANGED <<vars, recvRest, rpc, pool, got, ready, arrived, free, content, overlapped>>

\* The others are pushed; their place is emptied when packetPut returns.
RecvPush ==
  /\ rpc = "push" /\ k <= got /\ content[pool[k]].kind # "short"
  /\ PushBegin(pool[k])
  /\ rpc' = "put"
  /\ UNCHANGED <<recvRest, pool, k, got, ready, arrived, dropped, free, content, overlapped>>

RecvWrite ==
  /\ rpc = "put"
  /\ PushWrite
  /\ UNCHANGED <<recvRest, recvVars, free, content, overlapped>>

\* Mutation: the pool keeps the buffer it has pushed.
RecvPublishKeep ==
  /\ rpc = "put"
  /\ PushPublish
  /\ k' = k + 1 /\ rpc' = "push"
  /\ UNCHANGED <<recvRest, pool, got, ready, arrived, dropped, free, content, overlapped>>

RecvPublish ==
  /\ rpc = "put"
  /\ PushPublish
  /\ pool' = [pool EXCEPT ![k] = NoValue]
  /\ k' = k + 1 /\ rpc' = "push"
  /\ UNCHANGED <<recvRest, got, ready, arrived, dropped, free, content, overlapped>>

\* packetPut on a full queue: the packet is lost and the queue cleared.
RecvRefused ==
  /\ rpc = "push" /\ k <= got /\ content[pool[k]].kind # "short"
  /\ PushFull
  /\ rpc' = "overflow"
  /\ UNCHANGED <<recvRest, pool, k, got, ready, arrived, dropped, free, content, overlapped>>

RecvClearHead ==
  /\ rpc = "overflow"
  /\ ClearHead
  /\ overlapped' = (overlapped \/ cpc # "idle")
  /\ dropped' = dropped \cup {content[pool[k]].seq}
                        \cup {content[b].seq : b \in Range(Contents) \ {NoValue}}
  /\ UNCHANGED <<recvRest, rpc, pool, k, got, ready, arrived, free, content>>

RecvClearTail ==
  /\ rpc = "overflow"
  /\ ClearTail
  /\ pool' = [pool EXCEPT ![k] = NoValue]
  /\ k' = k + 1 /\ rpc' = "push"
  /\ UNCHANGED <<recvRest, got, ready, arrived, dropped, free, content, overlapped>>

\* The next readable socket, or the next select.
RecvNext ==
  /\ rpc = "push" /\ k > got
  /\ ready' = ready - 1
  /\ rpc' = IF ready > 1 THEN "fill" ELSE "select"
  /\ k' = 1
  /\ UNCHANGED <<vars, recvRest, pool, got, arrived, dropped, free, content, overlapped>>

Recv ==
  /\ hpc # "dead"
  /\ \/ RecvExit \/ RecvSelect \/ RecvFill \/ RecvMmsg
     \/ RecvShort \/ RecvPush \/ RecvWrite \/ RecvPublish
     \/ RecvRefused \/ RecvClearHead \/ RecvClearTail \/ RecvNext

-----------------------------------------------------------------------------
(* The handling thread *)

\* What a packet adds to the cloud before it splits the frame, and after that.
Before(p) == IF p.kind \in {"points", "middle", "last"} THEN <<p.seq>> ELSE <<>>
After(p)  == IF p.kind \in {"first", "middle"} THEN <<p.seq>> ELSE <<>>
Splits(p) == p.kind \in {"first", "middle", "last"}

handleRest == <<appVars, recvVars>>

\* The loop looks at the flag between two popBatch calls only.
HandleCheck ==
  /\ hpc = "loop"
  /\ hpc' = IF to_exit_handle THEN "off" ELSE "batch"
  /\ UNCHANGED <<vars, handleRest, next, decoded, mark, frames, free, content, cloud, overlapped>>

HandleTimeout ==
  /\ hpc = "batch"
  /\ BatchTimeout
  /\ hpc' = "loop"
  /\ UNCHANGED <<handleRest, next, decoded, mark, frames, free, content, cloud, overlapped>>

HandlePoll ==
  /\ hpc = "batch"
  /\ BatchPoll
  /\ overlapped' = (overlapped \/ ppc = "clear")
  /\ UNCHANGED <<handleRest, hpc, next, decoded, mark, frames, free, content, cloud>>

HandleStep ==
  /\ hpc = "batch"
  /\ BatchLoadHead \/ BatchLoadTail \/ PopCopy
  /\ UNCHANGED <<handleRest, handleVars, free, content, cloud, overlapped>>

HandleTake ==
  /\ hpc = "batch"
  /\ PopRelease
  /\ hpc' = IF out = <<>> THEN "loop" ELSE "decode"
  /\ next' = 1
  /\ UNCHANGED <<handleRest, decoded, mark, frames, free, content, cloud, overlapped>>

\* Mutation: splitFrame hands the cloud out and goes on filling it.
FreshCloudReused(filled) == filled

\* splitFrame hands out a cloud that has points and goes on with another one.
FreshCloud(filled) == <<>>

\* An empty slot holds a null pointer: to decode it ends the process.
HandleNull ==
  /\ hpc = "decode" /\ result[next] = NoValue
  /\ hpc' = "dead"
  /\ UNCHANGED <<vars, handleRest, next, decoded, mark, frames, free, content, cloud, overlapped>>

\* A full free queue refuses the buffer, which is then freed with the batch.
GiveBack(b) == IF Len(free) < Capacity - 1 THEN Append(free, b) ELSE free

\* internalProcessPacket: decode, then give the buffer back.
HandlePacket ==
  /\ hpc = "decode" /\ result[next] # NoValue
  /\ LET b == result[next]
         p == content[b]
         filled == cloud \o Before(p)
     IN /\ IF Splits(p) /\ filled # <<>>
             THEN /\ frames' = Append(frames, filled)
                  /\ cloud' = FreshCloud(filled) \o After(p)
             ELSE /\ cloud' = filled \o After(p)
                  /\ UNCHANGED frames
        /\ decoded' = Append(decoded, p)
        /\ free' = GiveBack(b)
  /\ next' = next + 1
  /\ hpc' = IF next = Len(result) THEN "loop" ELSE "decode"
  /\ UNCHANGED <<vars, handleRest, mark, content, overlapped>>

Handle == \/ HandleCheck \/ HandleTimeout \/ HandlePoll \/ HandleStep \/ HandleTake
          \/ HandlePacket \/ HandleNull

DriverNext == App \/ Recv \/ Handle

DriverSpec == DriverInit /\ [][DriverNext]_driverVars

\* Threads that run are scheduled, and a start() or stop() under way goes on; the
\* application need not call anything.
DriverFairSpec ==
  /\ DriverSpec
  /\ WF_driverVars(Recv) /\ WF_driverVars(Handle)
  /\ WF_driverVars(App /\ apc # "idle")

-----------------------------------------------------------------------------
(* Properties *)

\* The values of the driver's own variables; those of the queue are in TypeOK.
FlagTypes ==
  /\ init_flag \in BOOLEAN /\ start_flag \in BOOLEAN /\ overlapped \in BOOLEAN
  /\ to_exit_recv \in BOOLEAN /\ to_exit_handle \in BOOLEAN

DataTypes ==
  /\ apc \in {"idle", "starting", "joinRecv", "joinHandle"}
  /\ rpc \in {"off", "select", "fill", "push", "put", "overflow"}
  /\ hpc \in {"off", "loop", "batch", "decode", "dead"}
  /\ pool \in [1..Vlen -> Value \cup {NoValue}]
  /\ k \in 1..(Vlen + 1) /\ got \in 0..Vlen /\ ready \in 0..MaxReady
  /\ next \in 1..Capacity
  /\ free \in Seq(Value) /\ Len(free) < Capacity
  /\ content \in [Value -> Packet] /\ decoded \in Seq(Packet)
  /\ session \in 0..MaxSessions /\ arrived \in 0..MaxPackets
  /\ dropped \subseteq 0..MaxPackets

DriverTypeOK == FlagTypes /\ DataTypes

Queued    == IF ppc = "clear" THEN <<>> ELSE Contents
Remaining == IF hpc = "decode" THEN SubSeq(result, next, Len(result)) ELSE <<>>
Pooled    == Range(pool) \ {NoValue}

\* No two sets of the sequence have an element in common.
Apart(sets) == \A i, j \in DOMAIN sets : i # j => sets[i] \cap sets[j] = {}

\* A buffer is in one place at a time, the pool, the packet queue, the batch or
\* the free queue: recvmmsg never writes a buffer that still waits to be decoded.
OneHolder ==
  ~overlapped =>
    /\ \A i, j \in 1..Vlen : pool[i] = pool[j] /\ pool[i] # NoValue => i = j
    /\ IsInjective(Queued) /\ IsInjective(Remaining) /\ IsInjective(free)
    /\ Apart(<<Pooled, Range(Queued), Range(Remaining), Range(free)>>)

Seqs(bs) == {content[b].seq : b \in Range(bs) \ {NoValue}}

\* What the receiving thread has received and not yet disposed of.
InHand ==
  IF rpc \in {"push", "put", "overflow"}
    THEN {content[pool[i]].seq : i \in (IF ppc = "clear" THEN k + 1 ELSE k)..got}
    ELSE {}

\* Every packet received is decoded, dropped (short, refused or cleared), or still
\* under way in exactly one place, over any number of sessions.
Accounted ==
  ~overlapped =>
    LET Places == <<dropped, {decoded[i].seq : i \in DOMAIN decoded},
                    Seqs(Queued), Seqs(Remaining), InHand>>
    IN /\ UNION Range(Places) = 1..arrived
       /\ Apart(Places)

\* Packets are decoded in the order the network delivered them, each once, and the
\* handling thread is never given a slot that nothing was written to.
DecodedInOrder ==
  ~overlapped =>
    /\ hpc # "dead"
    /\ \A i, j \in DOMAIN decoded : i < j => decoded[i].seq < decoded[j].seq

\* The clouds handed out in a session and the one being filled hold the points of
\* every packet decoded in it, once and in order.
NoPointLost ==
  FlattenSeq(frames) \o cloud =
    FlattenSeq([i \in 1..(Len(decoded) - mark) |->
                  Before(decoded[mark + i]) \o After(decoded[mark + i])])

\* A session hands out its own points: "clear all points before next session".
SessionIsolation ==
  \A i \in (mark + 1)..Len(decoded) : decoded[i].session = session

\* stop() returns: neither join waits for ever.
StopReturns == (apc = "joinRecv") ~> (apc = "idle" \/ hpc = "dead")

\* While the driver runs, a packet in the queue does not stay there.
QueueDrains ==
  \A n \in 1..MaxPackets :
    (n \in Seqs(Contents) /\ start_flag)
      ~> (n \notin Seqs(Contents) \/ ~start_flag \/ hpc = "dead")
=============================================================================

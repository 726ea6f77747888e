----------------------------- MODULE LidarSource -----------------------------
(***************************************************************************)
(* The ROS node around the driver: NodeManager and SourceDriver on the     *)
(* main thread, a receiving thread that plays a recording or waits with    *)
(* epoll (or ROS callbacks that feed packets), the handling thread that    *)
(* decodes, and the thread that publishes clouds.  The two queues of       *)
(* clouds are the bounded FIFO that SyncQueue implements, and so is        *)
(* pkt_queue_ until it is cleared while a batch is popped: from then on    *)
(* the handling thread may get whatever is in the slots.  Clouds are       *)
(* names, and what a cloud holds is its content.  One source, without IMU  *)
(* parsing, as the build has it.                                           *)
(***************************************************************************)
EXTENDS Jumbo, FiniteSets, SequencesExt

CONSTANTS
  Setups,      \* inputs and options: a set of records
  PktCap,      \* capacity of pkt_queue_
  Batch,       \* packets one popBatch takes, 50 in the code
  CloudCap,    \* capacity of the two queues of clouds
  Clouds,      \* names for the clouds
  Height,      \* rings of a point cloud
  MaxPackets,  \* bound on the packets put in the queue
  MaxStrays,   \* bound on the slots decoded once a batch was popped under a clear
  MaxDatagrams \* bound on those that reach the sockets epoll watches

NoCloud == "none"

Ports == {"msop", "difop", "imu", "other"}

\* A record of a capture, or a packet of a topic.
Record == [port : Ports, size : {"fits", "short", "long"}, kind : Ports, begins : BOOLEAN]

\* A datagram, its UDP header and at least one unit of data, and one of the
\* fragments it was sent in.
Datagram == [id : Nat, udp : BOOLEAN, port : Ports, len : Nat \ {0, 1}, kind : Ports, begins : BOOLEAN]
Fragment == [gram : Datagram, off : Nat, len : Nat \ {0}, more : BOOLEAN]
Cut(fr) == /\ fr.off + fr.len <= fr.gram.len
           /\ fr.more <=> fr.off + fr.len < fr.gram.len

\* What a node can be given: the id of a fragment, unless 0, tells its datagram.
IsSetup(s) ==
  /\ s.input \in {"pcap", "pcapJumbo", "epoll", "raw"}
  /\ s.input # "pcapJumbo" => s.records \in Seq(Record)
  /\ s.input = "pcapJumbo" =>
       /\ s.records \in Seq(Fragment)
       /\ \A i \in DOMAIN s.records : Cut(s.records[i])
       /\ \A i, j \in DOMAIN s.records :
            s.records[i].gram.id = s.records[j].gram.id /\ s.records[i].gram.id # 0 =>
              s.records[i].gram = s.records[j].gram

ASSUME SourceAssumption ==
  /\ {PktCap, Batch, CloudCap} \subseteq Nat \ {0} /\ Height \in Nat \ {0, 1}
  /\ {MaxPackets, MaxStrays, MaxDatagrams} \subseteq Nat
  /\ IsFiniteSet(Clouds) /\ Cardinality(Clouds) >= CloudCap * 2 + 3 /\ NoCloud \notin Clouds
  /\ \A s \in Setups : IsSetup(s)

VARIABLES
  setup,
  relays,       \* pkt_cb_vec_ is not empty
  mpc,          \* where the main thread is
  to_exit_recv, to_exit_handle, to_exit_process,
  pcap,         \* "open" or "null"
  pos,          \* records read from it
  jumbo,        \* the datagram being put together
  socks,        \* datagrams waiting in each socket
  events,       \* descriptors epoll_wait reported and not yet read
  rpc, pending, \* the receiving thread and the packet it puts
  pkts,         \* pkt_queue_
  overlapped,   \* a clear() of it and a popBatch() have been under way at once
  hpc, batch,   \* the handling thread
  real_count,   \* packets popBatch found
  strays,       \* slots decoded since
  point_cloud,  \* decoder_ptr_->point_cloud_
  content,      \* of each cloud
  cloud_seq,    \* point_cloud_seq_
  queue,        \* point_cloud_queue_
  free,         \* free_point_cloud_queue_
  ppc, msg,     \* the publishing thread
  published,    \* messages on the topic of clouds
  relayed,      \* messages on the topic of packets
  arrivals,     \* packets put so far
  lost          \* numbers of those that were dropped

inVars   == <<pcap, pos, jumbo, socks, events, rpc, pending, arrivals>>
pcVars   == <<hpc, batch, real_count, strays, point_cloud, cloud_seq, relayed>>
pubVars  == <<ppc, msg, published>>
exitVars == <<to_exit_recv, to_exit_handle, to_exit_process>>
vars == <<setup, relays, mpc, exitVars, inVars, pkts, overlapped, pcVars, content, queue, free, pubVars, lost>>

Empty   == [seq |-> 0, height |-> 0, width |-> 0, points |-> <<>>]

Alive == mpc \notin {"exited", "terminated", "dead"}

-----------------------------------------------------------------------------
(* Clouds *)

\* Mutation: the index runs as if rows were stored one after the other.
ToRosMsgUnturned(c, byRows) ==
  [seq |-> c.seq,
   width  |-> IF byRows THEN c.width ELSE c.height,
   height |-> IF byRows THEN c.height ELSE c.width,
   data |-> c.points]

\* toRosMsg: by rows, or as the points are stored with width and height exchanged.
ToRosMsg(c, byRows) ==
  [seq |-> c.seq,
   width  |-> IF byRows THEN c.width ELSE c.height,
   height |-> IF byRows THEN c.height ELSE c.width,
   data |-> IF byRows
              THEN [k \in 1..(c.width * c.height) |->
                      c.points[(k - 1) \div c.width + ((k - 1) % c.width) * c.height + 1]]
              ELSE c.points]

\* send_by_rows_ is ignored when points are dense.
SendByRows == setup.byRows /\ ~setup.dense

SetPointCloudHeader(c, seq) ==
  LET h == IF setup.dense THEN 1 ELSE Height
  IN [c EXCEPT !.seq = seq, !.height = h, !.width = Len(c.points) \div h]

\* A packet's points: one of every ring; a dense cloud leaves some out.
PointsOf(p) == [i \in 1..(IF setup.dense THEN Height - 1 ELSE Height) |-> <<p.n, i>>]

Referenced == {point_cloud, msg} \cup Range(queue) \cup Range(free)
GetPointCloud == IF free # <<>> THEN Head(free) ELSE CHOOSE c \in Clouds : c \notin Referenced
FreeAfterGet  == IF free # <<>> THEN Tail(free) ELSE free

\* Whose points a cloud holds.
Numbers(points) == {points[i][1] : i \in DOMAIN points}
In(c) == Numbers(content[c].points)

-----------------------------------------------------------------------------
SourceInit ==
  /\ setup \in Setups
  /\ mpc = "main" /\ relays = FALSE /\ to_exit_recv = FALSE /\ to_exit_handle = FALSE /\ to_exit_process = FALSE
  /\ pcap = "null" /\ pos = 0 /\ jumbo = NewJumbo
  /\ socks = [s \in {"msop", "difop", "imu"} |-> 0] /\ events = <<>>
  /\ rpc = "off" /\ pending = <<>> /\ pkts = <<>> /\ overlapped = FALSE
  /\ hpc = "off" /\ batch = <<>> /\ real_count = 0 /\ strays = 0 /\ point_cloud = NoCloud
  /\ content = [c \in Clouds |-> Empty] /\ cloud_seq = 0
  /\ queue = <<>> /\ free = <<>> /\ ppc = "off" /\ msg = NoCloud
  /\ published = <<>> /\ relayed = <<>> /\ arrivals = <<>> /\ lost = {}

-----------------------------------------------------------------------------
(* The main thread *)

\* main() reads the configuration, or returns at once.
LoadConfig ==
  /\ mpc = "main"
  /\ mpc' \in {"init", "exited"}
  /\ UNCHANGED <<setup, relays, exitVars, inVars, pkts, overlapped, pcVars, content, queue, free,
                 pubVars, lost>>

\* What opening the input can come to: a socket or the file may fail.
CreateSocket  == BOOLEAN
OpenEpoll     == {msop /\ difop /\ (setup.imu => imu) : msop, difop, imu \in CreateSocket}
OpenPcap      == BOOLEAN
OpenPcapJumbo == BOOLEAN

\* createInput, and the input's init(); packets fed by the application need none.
CreateInput ==
  CASE setup.input = "pcap"      -> OpenPcap
    [] setup.input = "pcapJumbo" -> OpenPcapJumbo
    [] setup.input = "epoll"     -> OpenEpoll
    [] setup.input = "raw"       -> {TRUE}

\* SourceDriver::init: the publishing thread runs before the driver is set up; a
\* driver that cannot be set up ends the process.
InitSource ==
  /\ mpc = "init"
  /\ ppc' = "loop"
  /\ \E ok \in CreateInput :
       /\ mpc' = IF ok THEN "created" ELSE "exited"
       /\ pcap' = IF ok /\ setup.input \in {"pcap", "pcapJumbo"} THEN "open" ELSE "null"
  /\ point_cloud' = CHOOSE c \in Clouds : TRUE
  /\ UNCHANGED <<setup, relays, exitVars, pos, jumbo, socks, events, rpc, pending, arrivals, pkts,
                 overlapped, hpc, batch, real_count, strays, cloud_seq, relayed, content, queue, free,
                 msg, published, lost>>

\* NodeManager::init goes on with the destinations: only now does the driver get a
\* callback for packets.
RegisterDestinations ==
  /\ mpc = "created"
  /\ mpc' = "ready" /\ relays' = setup.relay
  /\ UNCHANGED <<setup, exitVars, inVars, pkts, overlapped, pcVars, content, queue, free, pubVars, lost>>

\* NodeManager::start: the handling thread, then the input's.
StartHandle ==
  /\ mpc = "ready"
  /\ mpc' = "starting" /\ to_exit_handle' = FALSE /\ hpc' = "loop"
  /\ UNCHANGED <<setup, relays, to_exit_recv, to_exit_process, inVars, pkts, overlapped, batch,
                 real_count, strays, point_cloud, cloud_seq, relayed, content, queue, free, pubVars,
                 lost>>

StartInput ==
  /\ mpc = "starting"
  /\ mpc' = "spin" /\ to_exit_recv' = FALSE
  /\ rpc' = IF setup.input = "raw" THEN "fed" ELSE "loop"
  /\ UNCHANGED <<setup, relays, to_exit_handle, to_exit_process, pcap, pos, jumbo, socks, events,
                 pending, arrivals, pkts, overlapped, pcVars, content, queue, free, pubVars, lost>>

\* ros::spin() returns after a signal; NodeManager's destructor stops the source:
\* the input, which joins its thread,
StopInput ==
  /\ mpc = "spin"
  /\ mpc' = "joinRecv" /\ to_exit_recv' = (setup.input # "raw")
  /\ setup.input = "raw" => rpc = "fed"
  /\ UNCHANGED <<setup, relays, to_exit_handle, to_exit_process, inVars, pkts, overlapped, pcVars,
                 content, queue, free, pubVars, lost>>

JoinRecv ==
  /\ mpc = "joinRecv" /\ rpc \in {"off", "fed"}
  /\ mpc' = "joinHandle" /\ to_exit_handle' = TRUE
  /\ UNCHANGED <<setup, relays, to_exit_recv, to_exit_process, inVars, pkts, overlapped, pcVars,
                 content, queue, free, pubVars, lost>>

\* Mutation: nobody tells the publishing thread.
JoinHandleSilently ==
  /\ mpc = "joinHandle" /\ hpc = "off"
  /\ mpc' = "joinProcess"
  /\ lost' = lost \cup In(point_cloud)
  /\ content' = [content EXCEPT ![point_cloud].points = <<>>]
  /\ UNCHANGED <<setup, relays, exitVars, inVars, pkts, overlapped, pcVars, queue, free, pubVars>>

\* the handling thread, whose unfinished cloud is dropped,
JoinHandle ==
  /\ mpc = "joinHandle" /\ hpc = "off"
  /\ mpc' = "joinProcess" /\ to_exit_process' = TRUE
  /\ lost' = lost \cup In(point_cloud)
  /\ content' = [content EXCEPT ![point_cloud].points = <<>>]
  /\ UNCHANGED <<setup, relays, to_exit_recv, to_exit_handle, inVars, pkts, overlapped, pcVars, queue,
                 free, pubVars>>

\* and the publishing thread.
JoinProcess ==
  /\ mpc = "joinProcess" /\ ppc = "off"
  /\ mpc' = "stopped"
  /\ UNCHANGED <<setup, relays, exitVars, inVars, pkts, overlapped, pcVars, content, queue, free,
                 pubVars, lost>>

\* Then the sources are destroyed, and ~SourceDriver calls stop() again: the
\* driver's does nothing, and join() of a thread that was joined throws.
Destroy ==
  /\ mpc = "stopped"
  /\ mpc' = "terminated" /\ to_exit_process' = TRUE
  /\ UNCHANGED <<setup, relays, to_exit_recv, to_exit_handle, inVars, pkts, overlapped, pcVars, content,
                 queue, free, pubVars, lost>>

Main == LoadConfig \/ InitSource \/ RegisterDestinations \/ StartHandle \/ StartInput \/ StopInput \/ JoinRecv
        \/ JoinHandle \/ JoinProcess \/ Destroy

-----------------------------------------------------------------------------
(* The receiving thread *)

recvRest == <<setup, relays, exitVars, pcVars, content, queue, free, pubVars>>

\* The loop looks at the flag before it reads.
RecvExit ==
  /\ Alive /\ rpc = "loop" /\ to_exit_recv
  /\ rpc' = "off"
  /\ UNCHANGED <<recvRest, mpc, pcap, pos, jumbo, socks, events, pending, arrivals, pkts, overlapped,
                 lost>>

Reads == Alive /\ rpc = "loop" /\ ~to_exit_recv

\* The end of the file: it is opened again, which may fail, or the thread ends.
RecvEof ==
  /\ Reads /\ pcap = "open" /\ pos = Len(setup.records)
  /\ IF setup.repeat
       THEN pos' = 0 /\ pcap' \in {"open", "null"} /\ UNCHANGED rpc
       ELSE pcap' = "null" /\ rpc' = "off" /\ UNCHANGED pos
  /\ UNCHANGED <<recvRest, mpc, jumbo, socks, events, pending, arrivals, pkts, overlapped, lost>>

\* With no file open pcap_next_ex is called on a null pointer.
RecvNull ==
  /\ Reads /\ setup.input \in {"pcap", "pcapJumbo"} /\ pcap = "null"
  /\ mpc' = "dead"
  /\ UNCHANGED <<recvRest, inVars, pkts, overlapped, lost>>

\* A packet as it is put in the queue: its header says what it is.
PacketOf(gram, data) ==
  [n |-> Len(arrivals) + 1, kind |-> gram.kind, begins |-> gram.begins, data |-> data]

PutNext(p) ==
  /\ Len(arrivals) < MaxPackets
  /\ pending' = <<p>> /\ rpc' = "put" /\ arrivals' = Append(arrivals, p)

\* The filters of the three ports, each with its own test of the length; a packet
\* no filter takes, or that does not fit in a buffer, is skipped.
Filtered(r) ==
  /\ \/ r.port = "msop"
     \/ r.port = "difop" /\ setup.difop
     \/ r.port = "imu" /\ setup.imu
  /\ r.size = "fits"

RecvPcap ==
  /\ Reads /\ setup.input = "pcap" /\ pcap = "open" /\ pos < Len(setup.records)
  /\ LET r == setup.records[pos + 1]
     IN IF Filtered(r) THEN PutNext(PacketOf(r, <<>>)) ELSE UNCHANGED <<rpc, pending, arrivals>>
  /\ pos' = pos + 1
  /\ UNCHANGED <<recvRest, mpc, pcap, jumbo, socks, events, pkts, overlapped, lost>>

\* The jumbo variant takes every UDP fragment and looks at the port afterwards.
RecvPcapJumbo ==
  /\ Reads /\ setup.input = "pcapJumbo" /\ pcap = "open" /\ pos < Len(setup.records)
  /\ LET r == NewFragment(jumbo, setup.records[pos + 1])
     IN /\ jumbo' = r.jumbo
        /\ IF r.new /\ r.port \in {"msop", "difop"}
             THEN PutNext(PacketOf(r.data[1].gram, r.data))
             ELSE UNCHANGED <<rpc, pending, arrivals>>
  /\ pos' = pos + 1
  /\ UNCHANGED <<recvRest, mpc, pcap, socks, events, pkts, overlapped, lost>>

\* epoll_wait hands back what was registered with each socket: difop's descriptor
\* stands for imu's too.
RecvEpoll ==
  /\ Reads /\ setup.input = "epoll" /\ \E s \in DOMAIN socks : socks[s] > 0
  /\ \E order \in SetToSeqs({s \in DOMAIN socks : socks[s] > 0}) :
       events' = [i \in DOMAIN order |-> IF order[i] = "imu" THEN "difop" ELSE order[i]]
  /\ rpc' = "events"
  /\ UNCHANGED <<recvRest, mpc, pcap, pos, jumbo, socks, pending, arrivals, pkts, overlapped, lost>>

\* recvfrom on each of them: an empty socket is an error and ends the thread, an
\* empty datagram is skipped.
RecvFrom ==
  /\ Alive /\ rpc = "events" /\ events # <<>>
  /\ LET s == Head(events)
     IN IF socks[s] = 0
          THEN rpc' = "off" /\ UNCHANGED <<socks, events, pending, arrivals>>
          ELSE /\ socks' = [socks EXCEPT ![s] = @ - 1]
               /\ events' = Tail(events)
               /\ \/ \E begins \in BOOLEAN : PutNext(PacketOf([kind |-> s, begins |-> begins], <<>>))
                  \/ UNCHANGED <<rpc, pending, arrivals>>
  /\ UNCHANGED <<recvRest, mpc, pcap, pos, jumbo, pkts, overlapped, lost>>

RecvServed ==
  /\ Alive /\ rpc = "events" /\ events = <<>>
  /\ rpc' = "loop"
  /\ UNCHANGED <<recvRest, mpc, pcap, pos, jumbo, socks, events, pending, arrivals, pkts, overlapped,
                 lost>>

\* What the receiving thread does after a packet.
AfterPut ==
  CASE setup.input = "raw" -> "fed" [] setup.input = "epoll" -> "events" [] OTHER -> "loop"

putRest == <<recvRest, mpc, pcap, pos, jumbo, socks, events, arrivals>>

\* pushPacket: packetPut pushes the packet,
RecvPut ==
  /\ Alive /\ rpc = "put"
  /\ \/ ~overlapped /\ Len(pkts) < PktCap /\ pkts' = pkts \o pending
     \/ overlapped /\ UNCHANGED pkts
  /\ pending' = <<>> /\ rpc' = AfterPut
  /\ UNCHANGED <<putRest, overlapped, lost>>

\* and when the queue is full and refuses it, clears the queue:
RecvRefused ==
  /\ Alive /\ rpc = "put" /\ (overlapped \/ Len(pkts) = PktCap)
  /\ rpc' = "clear"
  /\ UNCHANGED <<putRest, pending, pkts, overlapped, lost>>

\* it stores the head,
RecvClearHead ==
  /\ Alive /\ rpc = "clear"
  /\ rpc' = "cleared" /\ overlapped' = (overlapped \/ hpc = "pop")
  /\ UNCHANGED <<putRest, pending, pkts, lost>>

\* then the tail.
RecvClearTail ==
  /\ Alive /\ rpc = "cleared"
  /\ pkts' = <<>> /\ lost' = lost \cup {p.n : p \in Range(pkts \o pending)}
  /\ pending' = <<>> /\ rpc' = AfterPut
  /\ UNCHANGED <<putRest, overlapped>>

Recv == RecvExit \/ RecvEof \/ RecvNull \/ RecvPcap \/ RecvPcapJumbo \/ RecvEpoll \/ RecvFrom
        \/ RecvServed \/ RecvPut \/ RecvRefused \/ RecvClearHead \/ RecvClearTail

\* Mutation: the two flags are passed in the wrong order.
ToRosPacketSwapped(p, seq) ==
  [seq |-> seq, is_difop |-> p.kind = "msop" /\ p.begins, is_frame_begin |-> p.kind = "difop", data |-> p]

\* A packet as a ROS message and back; the receiver looks at the bytes only.
ToRosPacket(p, seq) ==
  [seq |-> seq, is_difop |-> p.kind = "difop", is_frame_begin |-> p.kind = "msop" /\ p.begins, data |-> p]
ToRsMsg(m) == m.data

\* putPacket, called by spin() on the main thread with the packets of a topic, or
\* datagrams reach the sockets.
Feed ==
  /\ Alive /\ mpc = "spin" /\ rpc = "fed" /\ pos < Len(setup.records)
  /\ PutNext(ToRsMsg(ToRosPacket(PacketOf(setup.records[pos + 1], <<>>), pos)))
  /\ pos' = pos + 1
  /\ UNCHANGED <<recvRest, mpc, pcap, jumbo, socks, events, pkts, overlapped, lost>>

Arrive ==
  /\ Alive /\ setup.input = "epoll" /\ mpc \in {"ready", "starting", "spin", "joinRecv"}
  /\ \E s \in {"msop"} \cup (IF setup.difop THEN {"difop"} ELSE {}) \cup (IF setup.imu THEN {"imu"} ELSE {}) :
       /\ Len(arrivals) + socks["msop"] + socks["difop"] + socks["imu"] < MaxDatagrams
       /\ socks' = [socks EXCEPT ![s] = @ + 1]
  /\ UNCHANGED <<recvRest, mpc, pcap, pos, jumbo, events, rpc, pending, arrivals, pkts, overlapped,
                 lost>>

-----------------------------------------------------------------------------
(* The handling thread *)

handleRest == <<setup, relays, mpc, exitVars, inVars, pubVars>>

HandleCheck ==
  /\ Alive /\ hpc = "loop"
  /\ hpc' = IF to_exit_handle THEN "off" ELSE "wait"
  /\ UNCHANGED <<handleRest, pkts, overlapped, batch, real_count, strays, point_cloud, cloud_seq,
                 relayed, content, queue, free, lost>>

\* popBatch waits half a second for the first packet; a clear under way may hide it.
HandleTimeout ==
  /\ Alive /\ hpc = "wait" /\ (pkts = <<>> \/ rpc = "cleared" \/ overlapped)
  /\ hpc' = "loop"
  /\ UNCHANGED <<handleRest, pkts, overlapped, batch, real_count, strays, point_cloud, cloud_seq,
                 relayed, content, queue, free, lost>>

\* It counts what it finds between head and tail, a clear between its stores included,
HandlePoll ==
  /\ Alive /\ hpc = "wait" /\ ~overlapped /\ (pkts # <<>> \/ rpc = "cleared")
  /\ real_count' = IF Len(pkts) < Batch THEN Len(pkts) ELSE Batch
  /\ overlapped' = (rpc = "cleared")
  /\ hpc' = "pop"
  /\ UNCHANGED <<handleRest, pkts, batch, strays, point_cloud, cloud_seq, relayed, content, queue, free,
                 lost>>

\* copies as many slots and moves the head behind them.
HandleBatch ==
  /\ Alive /\ hpc = "pop" /\ ~overlapped
  /\ batch' = SubSeq(pkts, 1, real_count) /\ pkts' = SubSeq(pkts, real_count + 1, Len(pkts))
  /\ hpc' = "decode"
  /\ UNCHANGED <<handleRest, overlapped, real_count, strays, point_cloud, cloud_seq, relayed, content,
                 queue, free, lost>>

\* What the slots between a head and a tail that do not belong together hold: any
\* packet of before, whose buffer may have another one by now, or none yet.
Stray == [n : {0}, kind : Ports \cup {"null"}, begins : BOOLEAN, data : {<<>>}]

HandleStrays ==
  /\ Alive /\ hpc \in {"wait", "pop"} /\ overlapped
  /\ \E n \in 0..Batch :
       /\ strays + n <= MaxStrays /\ strays' = strays + n
       /\ batch' \in [1..n -> Stray]
  /\ hpc' = "decode"
  /\ UNCHANGED <<handleRest, pkts, overlapped, real_count, point_cloud, cloud_seq, relayed, content,
                 queue, free, lost>>

\* A slot that was never written is a null pointer: to decode it ends the process.
HandleNull ==
  /\ Alive /\ hpc = "decode" /\ batch # <<>> /\ Head(batch).kind = "null"
  /\ mpc' = "dead"
  /\ UNCHANGED <<setup, relays, exitVars, inVars, pubVars, pkts, overlapped, pcVars, content, queue,
                 free, lost>>

\* splitFrame: the cloud goes to the queue of clouds, which drops it when full,
HandleSplit ==
  /\ Alive /\ hpc = "decode" /\ batch # <<>> /\ Head(batch).kind = "msop" /\ Head(batch).begins
  /\ content[point_cloud].points # <<>>
  /\ content' = [content EXCEPT ![point_cloud] = SetPointCloudHeader(@, cloud_seq)]
  /\ cloud_seq' = cloud_seq + 1
  /\ IF Len(queue) < CloudCap
       THEN queue' = Append(queue, point_cloud) /\ UNCHANGED lost
       ELSE lost' = lost \cup In(point_cloud) /\ UNCHANGED queue
  /\ hpc' = "split"
  /\ UNCHANGED <<handleRest, pkts, overlapped, batch, real_count, strays, point_cloud, relayed, free>>

\* Mutation: the recycled cloud keeps its points.
HandleOldCloud ==
  /\ Alive /\ hpc = "split"
  /\ point_cloud' = GetPointCloud /\ free' = FreeAfterGet
  /\ hpc' = "points"
  /\ UNCHANGED <<handleRest, pkts, overlapped, batch, real_count, strays, cloud_seq, relayed, content,
                 queue, lost>>

\* and another one takes its place, emptied.
HandleNewCloud ==
  /\ Alive /\ hpc = "split"
  /\ point_cloud' = GetPointCloud /\ free' = FreeAfterGet
  /\ content' = [content EXCEPT ![GetPointCloud].points = <<>>]
  /\ hpc' = "points"
  /\ UNCHANGED <<handleRest, pkts, overlapped, batch, real_count, strays, cloud_seq, relayed, queue,
                 lost>>

\* The points are added; with a destination of packets the packet is relayed.
HandlePacket ==
  /\ Alive /\ hpc \in {"decode", "points"} /\ batch # <<>> /\ Head(batch).kind # "null"
  /\ LET p == Head(batch)
     IN /\ hpc = "decode" => ~(p.kind = "msop" /\ p.begins /\ content[point_cloud].points # <<>>)
        /\ content' = IF p.kind = "msop"
                        THEN [content EXCEPT ![point_cloud].points = @ \o PointsOf(p)] ELSE content
        /\ relayed' = IF relays /\ p.kind \in {"msop", "difop"}
                        THEN Append(relayed, ToRosPacket(p, Len(relayed))) ELSE relayed
  /\ batch' = Tail(batch) /\ hpc' = "decode"
  /\ UNCHANGED <<handleRest, pkts, overlapped, real_count, strays, point_cloud, cloud_seq, queue, free,
                 lost>>

HandleDone ==
  /\ Alive /\ hpc = "decode" /\ batch = <<>>
  /\ hpc' = "loop"
  /\ UNCHANGED <<handleRest, pkts, overlapped, batch, real_count, strays, point_cloud, cloud_seq,
                 relayed, content, queue, free, lost>>

Handle == HandleCheck \/ HandleTimeout \/ HandlePoll \/ HandleBatch \/ HandleStrays \/ HandleNull
          \/ HandleSplit \/ HandleNewCloud \/ HandlePacket \/ HandleDone

-----------------------------------------------------------------------------
(* The publishing thread, processPointCloud *)

pubRest == <<setup, relays, mpc, exitVars, inVars, pkts, overlapped, pcVars, content, lost>>

PublishCheck ==
  /\ Alive /\ ppc = "loop"
  /\ ppc' = IF to_exit_process THEN "off" ELSE "wait"
  /\ UNCHANGED <<pubRest, queue, free, msg, published>>

\* Mutation: the thread ends when nothing came for a second.
PublishTimeoutEnds ==
  /\ Alive /\ ppc = "wait" /\ queue = <<>>
  /\ ppc' = "off"
  /\ UNCHANGED <<pubRest, queue, free, msg, published>>

\* popWait gives up after a second.
PublishTimeout ==
  /\ Alive /\ ppc = "wait" /\ queue = <<>>
  /\ ppc' = "loop"
  /\ UNCHANGED <<pubRest, queue, free, msg, published>>

PublishTake ==
  /\ Alive /\ ppc = "wait" /\ queue # <<>>
  /\ msg' = Head(queue) /\ queue' = Tail(queue)
  /\ ppc' = "send"
  /\ UNCHANGED <<pubRest, free, published>>

PublishSend ==
  /\ Alive /\ ppc = "send"
  /\ published' = Append(published, ToRosMsg(content[msg], SendByRows))
  /\ ppc' = "recycle"
  /\ UNCHANGED <<pubRest, queue, free, msg>>

\* A cloud that finds no room in the free queue is deleted.
PublishRecycle ==
  /\ Alive /\ ppc = "recycle"
  /\ free' = IF Len(free) < CloudCap THEN Append(free, msg) ELSE free
  /\ msg' = NoCloud /\ ppc' = "loop"
  /\ UNCHANGED <<pubRest, queue, published>>

Publish == PublishCheck \/ PublishTimeout \/ PublishTake \/ PublishSend \/ PublishRecycle

Stopped == mpc \in {"exited", "terminated", "dead"} /\ UNCHANGED vars

SourceNext == Main \/ Recv \/ Feed \/ Arrive \/ Handle \/ Publish \/ Stopped

\* The threads are scheduled and shutdown, once begun, goes on; a signal may never
\* come, and neither may packets.
SourceSpec ==
  /\ SourceInit /\ [][SourceNext]_vars
  /\ WF_vars(StartHandle \/ StartInput \/ JoinRecv \/ JoinHandle \/ JoinProcess)
  /\ WF_vars(Recv) /\ WF_vars(Handle) /\ WF_vars(Publish)

-----------------------------------------------------------------------------
(* Properties *)

\* The queues stay within their capacities and every cloud is in one place: being
\* filled, queued, sent or free.
SourceTypeOK ==
  /\ Len(pkts) <= PktCap /\ Len(queue) <= CloudCap /\ Len(free) <= CloudCap
  /\ Len(batch) <= Batch /\ pos <= Len(setup.records)
  /\ LET held == queue \o free \o (IF msg = NoCloud THEN <<>> ELSE <<msg>>)
                 \o (IF hpc = "split" \/ point_cloud = NoCloud THEN <<>> ELSE <<point_cloud>>)
     IN IsInjective(held) /\ Range(held) \subseteq Clouds

Rings == 1..(IF setup.dense THEN Height - 1 ELSE Height)

\* A message has its points in every ring, each once and in the order they were
\* fired, and those of a row are all of one ring when it is sent by rows.
InOrder(m) ==
  /\ m.data # <<>> /\ m.width * m.height = Len(m.data)
  /\ \A i \in DOMAIN m.data, r \in Rings : \E j \in DOMAIN m.data : m.data[j] = <<m.data[i][1], r>>
  /\ \A i, j \in DOMAIN m.data : i < j /\ m.data[i][2] = m.data[j][2] => m.data[i][1] < m.data[j][1]
  /\ SendByRows => \A i \in DOMAIN m.data : m.data[i][2] = (i - 1) \div m.width + 1

Below(S, T) == \A x \in S, y \in T : x < y

\* The messages on the topic of clouds are in order, and so are the points in each:
\* later messages have later packets and higher numbers. Overflows may empty the queue
\* of packets, as long as no batch is popped meanwhile.
PublishedInOrder ==
  ~overlapped =>
    /\ \A k \in DOMAIN published : InOrder(published[k])
    /\ \A k \in 2..Len(published) :
         /\ published[k - 1].seq < published[k].seq
         /\ Below(Numbers(published[k - 1].data), Numbers(published[k].data))

\* Packets whose points are somewhere, or were dropped: by a full queue or by stop().
MsopIn(ps) == {p.n : p \in {x \in Range(ps) : x.kind = "msop"}}
Places ==
  <<MsopIn(pending), MsopIn(pkts), MsopIn(batch), lost,
    UNION {In(queue[i]) : i \in DOMAIN queue},
    IF ppc = "send" THEN In(msg) ELSE {},
    IF hpc = "split" \/ point_cloud = NoCloud THEN {} ELSE In(point_cloud),
    UNION {Numbers(published[k].data) : k \in DOMAIN published}>>

\* The points of a packet are in one place, from the queue of packets to the topic:
\* only a full queue and stop() drop any, unless a batch is popped while the queue is
\* cleared.
PointsInOnePlace ==
  ~overlapped =>
    /\ \A i, j \in DOMAIN Places : i # j => Places[i] \cap Places[j] = {}
    /\ MsopIn(arrivals) \subseteq UNION Range(Places)

\* Of the messages M, j comes next after i, and i is where a cloud begins: it begins a
\* frame, as those in B do, or is the first of all.
Follows(M, i, j)   == i < j /\ \A k \in M : ~(i < k /\ k < j)
BeginsCloud(M, B, i) == i \in B \/ \A j \in M : i <= j

\* A decoder that is given M makes one cloud of S: those between two of S are in S, a message
\* of S begins it just if the one before is not in S, and the one after a message of S begins
\* the next just if not in S.
MakesCloud(M, B, S) ==
  /\ \A i, j \in S, k \in M : i < k /\ k < j => k \in S
  /\ \A i \in S : BeginsCloud(M, B, i) <=> \A j \in S : ~Follows(M, j, i)
  /\ \A i \in S, j \in M : Follows(M, i, j) => (BeginsCloud(M, B, j) <=> j \notin S)

\* Relayed MSOP packets, those that begin a frame, and those with numbers in S.
RelayedMsop  == {i \in DOMAIN relayed : ~relayed[i].is_difop}
RelayedBegin == {i \in RelayedMsop : relayed[i].is_frame_begin}
RelayedOf(S) == {i \in RelayedMsop : relayed[i].data.n \in S}

\* The packets that are relayed make the same clouds when they are replayed: none of a
\* cloud's packets is missing, and the decoder begins and ends the cloud where it did. A
\* packet that comes back from a slot is relayed again, so such runs are left out.
ReplayGivesSameClouds ==
  relays /\ ~overlapped => \A k \in DOMAIN published :
    LET own == RelayedOf(Numbers(published[k].data))
    IN /\ Cardinality(own) = Cardinality(Numbers(published[k].data))
       /\ MakesCloud(RelayedMsop, RelayedBegin, own)

\* A datagram that comes out of the fragments of a recording is a datagram the lidar
\* sent, whatever fragments are missing, early or of another sender; the id 0, which
\* also stands for none, is left out.
WholeDatagrams ==
  \A p \in Range(pending) :
    p.data # <<>> /\ (\A i \in DOMAIN p.data : p.data[i].gram.id # 0) =>
      /\ \A i \in DOMAIN p.data : p.data[i] = [gram |-> p.data[1].gram, at |-> i]
      /\ Len(p.data) = p.data[1].gram.len - 1

\* A node that is told to stop gets its threads joined.
SourceStops == (mpc = "joinRecv") ~> (mpc \in {"stopped", "terminated", "dead"})

\* A queued cloud is published while the node runs.
CloudsArePublished ==
  \A c \in Clouds : (c \in Range(queue)) ~> (c \notin Range(queue) \/ mpc # "spin")

\* main() returns 0 after it was told to stop.
ReturnsFromMain == mpc # "terminated"
=============================================================================
